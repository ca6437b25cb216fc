---------------------------- MODULE UplinkProofs ----------------------------
(***************************************************************************)
(* The offline queue, and the uplink that uses it.                         *)
(*                                                                         *)
(* The queue.  For every number of connectors, every pair of limits, every *)
(* set of messages and every clock: the entry counters never say less than *)
(* the files hold, no file outgrows its limit, no message is in the files  *)
(* twice, none overtakes another, and only the oldest is evicted.          *)
(* Neither of the first two is inductive alone. The limit is enforced on   *)
(* the counter, so WithinLimit needs CountersCover; and the 8-bit          *)
(* counters only mean what they say while every count they receive is      *)
(* below 256, which needs WithinLimit. The induction is on their           *)
(* conjunction, QueueInv. The other three follow the lines: a message      *)
(* that is saved is new to all files, and whatever else an operation does  *)
(* to a file is to take lines out of it.                                   *)
(*                                                                         *)
(* The uplink.  For every number of connectors, messages and restarts: no  *)
(* session and no fault is sent in a boot before the server accepted the   *)
(* configuration message of that boot, and faults are looked for only when *)
(* their files have names.                                                 *)
(* The uplink is opened by one answer only, that to bootUuid, so the       *)
(* argument follows bootUuid: it is set once in a boot, with the message   *)
(* that is created then and together with the names, and forgotten in a    *)
(* restart.  And a message that is read before is the head of the request  *)
(* file, in which there are no faults, whatever is evicted or rewritten.   *)
(*                                                                         *)
(* The rest is the composition: the invariants of the queue hold with the  *)
(* tasks that call it, every step of the uplink is a step of Delivery or a *)
(* stutter of it, and a message that is given up was sent often enough.    *)
(***************************************************************************)
EXTENDS Uplink, TLAPS, SequenceTheorems, WellFoundedInduction

-----------------------------------------------------------------------------
(* The queue *)

QueueInv == TypeOK /\ CountersCover /\ WithinLimit

-----------------------------------------------------------------------------
(* Numbers *)

LEMMA NatLess == IsWellFoundedOn({ss \in Nat \X Nat : ss[1] < ss[2]}, Nat)
BY NatLessThanWellFounded DEF OpToRel

LEMMA LeastElement ==
  ASSUME NEW T, T \subseteq Nat, T # {}
  PROVE  \E x \in T : \A y \in T : x <= y
<1> DEFINE R == {ss \in Nat \X Nat : ss[1] < ss[2]}
<1>1. IsWellFoundedOn(R, Nat)
  BY NatLess
<1>2. PICK x \in T : \A y \in T : ~(<<y, x>> \in R)
  <2> HIDE DEF R
  <2> QED BY <1>1, WFMin
<1>3. \A y \in T : x <= y
  <2>1. SUFFICES ASSUME NEW y \in T, ~(x <= y)
                 PROVE  FALSE
    OBVIOUS
  <2>2. x \in Nat /\ y \in Nat /\ y < x
    BY <2>1
  <2>3. <<y, x>> \in Nat \X Nat
    BY <2>2
  <2>4. <<y, x>>[1] < <<y, x>>[2]
    BY <2>2
  <2>5. <<y, x>> \in R
    BY <2>3, <2>4
  <2> QED BY <1>2, <2>5
<1> QED BY <1>3

\* A count below 256 is stored as it is, and a byte always holds a byte.
LEMMA ByteIdentity ==
  ASSUME NEW n \in 0 .. 255
  PROVE  Byte(n) = n
BY DEF Byte

LEMMA ByteRange ==
  ASSUME NEW n \in Nat
  PROVE  Byte(n) \in 0 .. 255
BY DEF Byte

LEMMA LimitRange ==
  ASSUME NEW f \in FileId
  PROVE  Limit(f) \in 1 .. 255
BY QueueAssumption DEF Limit

\* Arithmetic the prover is given without the expressions it is about.
LEMMA InByte ==
  ASSUME NEW n \in Nat, NEW m \in Nat, NEW l \in 1 .. 255, n <= m, m <= l
  PROVE  n \in 0 .. m /\ n \in 0 .. l /\ n \in 0 .. 255
OBVIOUS

LEMMA BelowLimit ==
  ASSUME NEW n, n = 0, NEW l \in 1 .. 255
  PROVE  n \in Nat /\ n + 1 <= l
OBVIOUS

LEMMA OneFewer ==
  ASSUME NEW l \in 1 .. 255, NEW m \in 0 .. l, m # 0, NEW n, n = m - 1
  PROVE  n \in Nat /\ n + 1 <= l
OBVIOUS

LEMMA OneMore ==
  ASSUME NEW l \in 1 .. 255, NEW e \in 0 .. 255, ~(e >= l)
  PROVE  e \in Nat /\ e + 1 <= l
OBVIOUS

LEMMA SavedArith ==
  ASSUME NEW c \in Nat, NEW r \in Nat, NEW l \in 1 .. 255, r <= c, c + 1 <= l
  PROVE  /\ Byte(c) = c /\ Byte(c) \in 0 .. 255
         /\ Byte(c + 1) = c + 1 /\ Byte(c + 1) \in 0 .. 255
         /\ r + 1 <= c + 1 /\ r + 1 <= l /\ r <= l
BY DEF Byte

LEMMA Shorter ==
  ASSUME NEW n \in Nat, NEW m \in Nat, NEW l \in 1 .. 255, n <= m, m <= l
  PROVE  n <= l /\ n \in 0 .. 255
OBVIOUS

LEMMA ZeroBelow ==
  ASSUME NEW l \in 1 .. 255
  PROVE  0 <= l
OBVIOUS

LEMMA Chain ==
  ASSUME NEW n \in Nat, NEW m \in Nat, NEW e \in 0 .. 255, n <= m, m <= e
  PROVE  n <= e
OBVIOUS

LEMMA SumInByte ==
  ASSUME NEW a \in 0 .. MaxQueueSize,
         NEW b \in 0 .. MaxQueueSizeFault, NEW c \in 0 .. MaxQueueSizeFault
  PROVE  /\ a \in 0 .. 255 /\ a + b \in 0 .. 255 /\ a + b + c \in 0 .. 255
         /\ b <= a + b /\ c <= a + b + c
BY QueueAssumption

-----------------------------------------------------------------------------
(* Rewriting a file *)

LEMMA CutType ==
  ASSUME NEW S, NEW s \in Seq(S), NEW i \in 1 .. Len(s)
  PROVE  /\ Cut(s, i) \in Seq(S)
         /\ Len(Cut(s, i)) = Len(s) - 1
<1>1. Len(s) \in Nat /\ Len(s) - 1 \in Nat
  BY LenProperties
<1>2. \A j \in 1 .. (Len(s) - 1) : (IF j < i THEN s[j] ELSE s[j + 1]) \in S
  BY <1>1, ElementOfSeq
<1>3. Cut(s, i) \in [1 .. (Len(s) - 1) -> S]
  BY <1>2 DEF Cut
<1> QED BY <1>1, <1>3, IsASeq, LenProperties

LEMMA WithoutType ==
  ASSUME NEW s \in Seq(Entry), NEW u
  PROVE  /\ Without(s, u) \in Seq(Entry)
         /\ Len(Without(s, u)) <= Len(s)
         /\ Len(Without(s, u)) \in Nat
<1>0. Len(s) \in Nat
  BY LenProperties
<1>1. CASE Holds(s, u)
  <2> DEFINE i == CHOOSE i \in 1 .. Len(s) : s[i].uuid = u
  <2>1. i \in 1 .. Len(s)
    BY <1>1 DEF Holds
  <2>2. Without(s, u) = Cut(s, i)
    BY <1>1 DEF Without
  <2> HIDE DEF i
  <2> QED BY <1>0, <2>1, <2>2, CutType, LenProperties
<1>2. CASE ~Holds(s, u)
  BY <1>0, <1>2 DEF Without
<1> QED BY <1>1, <1>2

\* A file that holds something has an oldest line: remove_oldest_message finds
\* one, and it removes exactly one.
LEMMA OldestExists ==
  ASSUME NEW s \in Seq(Entry), s # <<>>
  PROVE  \E i \in 1 .. Len(s) : IsOldest(s, i)
<1> DEFINE I == 1 .. Len(s)
           T == {s[j].time : j \in I}
<1>0. Len(s) \in Nat /\ Len(s) # 0
  BY EmptySeq, LenProperties
<1>1. \A j \in I : s[j].time \in Nat
  <2> TAKE j \in I
  <2>1. s[j] \in Entry
    BY <1>0, ElementOfSeq
  <2>2. s[j].time \in Stamp
    BY <2>1 DEF Entry
  <2> QED BY <2>2, QueueAssumption
<1>2. PICK t \in T : \A y \in T : t <= y
  <2>1. T \subseteq Nat /\ T # {}
    BY <1>0, <1>1
  <2> HIDE DEF T
  <2> QED BY <2>1, LeastElement
<1> DEFINE J == {j \in I : s[j].time = t}
<1>3. PICK i \in J : \A j \in J : i <= j
  <2>1. J \subseteq Nat /\ J # {}
    BY <1>0, <1>2
  <2> HIDE DEF J
  <2> QED BY <2>1, LeastElement
<1>4. i \in I /\ s[i].time = t
  BY <1>3
<1>5. \A j \in I : s[i].time <= s[j].time
  BY <1>2, <1>4
<1>6. \A j \in 1 .. (i - 1) : s[i].time < s[j].time
  <2> TAKE j \in 1 .. (i - 1)
  <2>1. j \in I /\ ~(i <= j)
    BY <1>0, <1>4
  <2>2. j \notin J
    BY <1>3, <2>1
  <2>3. s[j].time # s[i].time
    BY <1>4, <2>1, <2>2
  <2> QED BY <1>1, <1>4, <1>5, <2>1, <2>3
<1> QED BY <1>4, <1>5, <1>6 DEF IsOldest

LEMMA RemoveOldestType ==
  ASSUME NEW s \in Seq(Entry)
  PROVE  /\ RemoveOldest(s) \in Seq(Entry)
         /\ Len(RemoveOldest(s)) = IF s = <<>> THEN 0 ELSE Len(s) - 1
         /\ Len(RemoveOldest(s)) \in Nat
<1>1. CASE s = <<>>
  BY <1>1, EmptySeq, LenProperties DEF RemoveOldest
<1>2. CASE s # <<>>
  <2> DEFINE i == CHOOSE i \in 1 .. Len(s) : IsOldest(s, i)
  <2>1. i \in 1 .. Len(s)
    BY <1>2, OldestExists
  <2>2. RemoveOldest(s) = Cut(s, i)
    BY <1>2 DEF RemoveOldest
  <2> HIDE DEF i
  <2> QED BY <1>2, <2>1, <2>2, CutType, LenProperties
<1> QED BY <1>1, <1>2

-----------------------------------------------------------------------------
(* The induction *)

\* What the invariant says of one file, in the form each action needs it.
LEMMA FileFacts ==
  ASSUME QueueInv, NEW f \in FileId
  PROVE  /\ file[f] \in Seq(Entry)
         /\ Len(file[f]) \in 0 .. Limit(f)
         /\ Len(file[f]) \in 0 .. 255
         /\ entries[f] \in 0 .. 255
         /\ Counted(f) => Len(file[f]) <= entries[f]
<1>1. file[f] \in Seq(Entry) /\ entries[f] \in 0 .. 255
  BY DEF QueueInv, TypeOK
<1>2. Len(file[f]) \in Nat
  BY <1>1, LenProperties
<1>3. Len(file[f]) <= Limit(f) /\ Limit(f) \in 1 .. 255
  BY LimitRange DEF QueueInv, WithinLimit
<1>4. Counted(f) => Len(file[f]) <= entries[f]
  BY DEF QueueInv, CountersCover
<1>5. Len(file[f]) \in 0 .. Limit(f) /\ Len(file[f]) \in 0 .. 255
  <2>1. Len(file[f]) <= Len(file[f])
    BY <1>2
  <2> QED BY <1>2, <1>3, <2>1, InByte
<1> QED BY <1>1, <1>4, <1>5

\* The lines left in a file, and in the static files together, fit in a byte.
LEMMA LeftFacts ==
  ASSUME QueueInv, NEW u
  PROVE  /\ \A f \in FileId : /\ Without(file[f], u) \in Seq(Entry)
                             /\ Left(f, u) \in 0 .. Len(file[f])
                             /\ Left(f, u) \in 0 .. 255
         /\ \A f \in FileId \ Connector :
                /\ TotalRemaining(f, u) \in 0 .. 255
                /\ Left(f, u) <= TotalRemaining(f, u)
<1>1. ASSUME NEW f \in FileId
      PROVE  /\ Without(file[f], u) \in Seq(Entry)
             /\ Left(f, u) \in 0 .. Len(file[f])
             /\ Left(f, u) \in 0 .. Limit(f)
             /\ Left(f, u) \in 0 .. 255
  <2>1. file[f] \in Seq(Entry) /\ Len(file[f]) \in Nat
    BY FileFacts, LenProperties
  <2>2. Len(file[f]) <= Limit(f) /\ Limit(f) \in 1 .. 255
    BY LimitRange DEF QueueInv, WithinLimit
  <2>3. /\ Without(file[f], u) \in Seq(Entry)
        /\ Left(f, u) <= Len(file[f])
        /\ Left(f, u) \in Nat
    BY <2>1, WithoutType DEF Left
  <2> QED BY <2>1, <2>2, <2>3, InByte
<1>2. 0 \in FileId /\ 1 \in FileId /\ 2 \in FileId
  BY QueueAssumption DEF FileId
<1>3. /\ Left(0, u) \in 0 .. MaxQueueSize
      /\ Left(1, u) \in 0 .. MaxQueueSizeFault
      /\ Left(2, u) \in 0 .. MaxQueueSizeFault
  <2>1. /\ Limit(0) = MaxQueueSize
        /\ Limit(1) = MaxQueueSizeFault
        /\ Limit(2) = MaxQueueSizeFault
    BY DEF Limit, Request
  <2>2. Left(0, u) \in 0 .. Limit(0)
    BY <1>1, <1>2
  <2>3. Left(1, u) \in 0 .. Limit(1)
    BY <1>1, <1>2
  <2>4. Left(2, u) \in 0 .. Limit(2)
    BY <1>1, <1>2
  <2> QED BY <2>1, <2>2, <2>3, <2>4
<1>4. ASSUME NEW f \in FileId \ Connector
      PROVE  /\ TotalRemaining(f, u) \in 0 .. 255
             /\ Left(f, u) <= TotalRemaining(f, u)
  <2>0. f = 0 \/ f = 1 \/ f = 2
    BY QueueAssumption DEF FileId, Connector
  <2>1. CASE f = 0
    <3>1. TotalRemaining(0, u) = Left(0, u)
      BY DEF TotalRemaining, Request, OnlineCharger, OfflineCharger
    <3> QED BY <1>3, <2>1, <3>1, SumInByte
  <2>2. CASE f = 1
    <3>1. TotalRemaining(1, u) = Left(0, u) + Left(1, u)
      BY DEF TotalRemaining, Request, OnlineCharger, OfflineCharger
    <3> QED BY <1>3, <2>2, <3>1, SumInByte
  <2>3. CASE f = 2
    <3>1. TotalRemaining(2, u) = Left(0, u) + Left(1, u) + Left(2, u)
      BY DEF TotalRemaining, Request, OnlineCharger, OfflineCharger
    <3>2. /\ Left(0, u) + Left(1, u) + Left(2, u) \in 0 .. 255
          /\ Left(2, u) <= Left(0, u) + Left(1, u) + Left(2, u)
      <4> HIDE DEF Left
      <4> QED BY <1>3, SumInByte
    <3> QED BY <2>3, <3>1, <3>2
  <2> QED BY <2>0, <2>1, <2>2, <2>3
<1> QED BY <1>1, <1>4

\* After the boot count every static counter is its file's length.
LEMMA BootCountFacts ==
  ASSUME NEW fl \in [FileId -> Seq(Entry)],
         \A f \in FileId : Len(fl[f]) \in 0 .. 255
  PROVE  /\ BootCount(fl) \in [FileId -> 0 .. 255]
         /\ \A f \in FileId \ Connector : BootCount(fl)[f] = Len(fl[f])
<1>1. \A f \in FileId : /\ Byte(Len(fl[f])) = Len(fl[f])
                        /\ Byte(Len(fl[f])) \in 0 .. 255
  BY ByteIdentity, Zenon
<1>2. \A f \in FileId : BootCount(fl)[f] =
                            IF f \in Connector THEN 0 ELSE Len(fl[f])
  BY <1>1 DEF BootCount
<1>3. BootCount(fl) \in [FileId -> 0 .. 255]
  <2>1. \A f \in FileId :
            (IF f \in Connector THEN 0 ELSE Byte(Len(fl[f]))) \in 0 .. 255
    <3>1. 0 \in 0 .. 255
      OBVIOUS
    <3> QED BY <1>1, <3>1, Zenon
  <2> QED BY <2>1, Zenon DEF BootCount
<1> QED BY <1>2, <1>3

LEMMA InitQueueInv == Init => QueueInv
<1> SUFFICES ASSUME Init PROVE QueueInv
  OBVIOUS
<1>1. ASSUME NEW f \in FileId
      PROVE  file[f] = <<>> /\ entries[f] = 0 /\ Len(file[f]) = 0
  BY EmptySeq DEF Init
<1>2. TypeOK
  <2>1. <<>> \in Seq(Entry) /\ 0 \in 0 .. 255
    BY EmptySeq
  <2> QED BY <2>1, Zenon DEF Init, TypeOK
<1>3. CountersCover
  BY <1>1 DEF CountersCover
<1>4. ASSUME NEW f \in FileId
      PROVE  Len(file[f]) <= Limit(f)
  <2> DEFINE l == Limit(f)
  <2>1. l \in 1 .. 255
    BY LimitRange
  <2> HIDE DEF l
  <2>2. 0 <= l
    BY <2>1
  <2> QED BY <1>1, <2>2, Zenon DEF l
<1> QED BY <1>2, <1>3, <1>4 DEF QueueInv, WithinLimit

\* What a save leaves of the file it writes to, before the new line.
LEMMA RoomFacts ==
  ASSUME QueueInv, NEW f \in FileId, Usable(f)
  PROVE  /\ Room(f) \in Seq(Entry)
         /\ Len(Room(f)) \in Nat
         /\ Count(f) \in Nat
         /\ Len(Room(f)) <= Count(f)
         /\ Count(f) + 1 <= Limit(f)
<1>1. /\ file[f] \in Seq(Entry)
      /\ Len(file[f]) \in 0 .. Limit(f)
      /\ entries[f] \in 0 .. 255
      /\ Len(file[f]) <= entries[f]
  BY FileFacts DEF Usable, Counted
<1>2. Limit(f) \in 1 .. 255
  BY LimitRange
<1>3. CASE Full(f)
  <2>1. Room(f) = RemoveOldest(file[f]) /\ Count(f) = Len(Room(f))
    BY <1>3, Zenon DEF Room, Count
  <2>2. /\ Room(f) \in Seq(Entry)
        /\ Len(Room(f)) = IF file[f] = <<>> THEN 0 ELSE Len(file[f]) - 1
    BY <1>1, <2>1, RemoveOldestType
  <2>3. Len(Room(f)) \in Nat /\ Len(Room(f)) + 1 <= Limit(f)
    <3>1. CASE file[f] = <<>>
      <4>1. Len(Room(f)) = 0
        BY <2>2, <3>1
      <4> QED BY <1>2, <4>1, BelowLimit
    <3>2. CASE file[f] # <<>>
      <4>1. Len(Room(f)) = Len(file[f]) - 1
        BY <2>2, <3>2
      <4>2. Len(file[f]) # 0
        BY <1>1, <3>2, EmptySeq
      <4> QED BY <1>1, <1>2, <4>1, <4>2, OneFewer
    <3> QED BY <3>1, <3>2
  <2>4. Len(Room(f)) <= Len(Room(f))
    BY <2>3
  <2> QED BY <2>1, <2>2, <2>3, <2>4, Zenon
<1>4. CASE ~Full(f)
  <2>1. Room(f) = file[f] /\ Count(f) = entries[f]
    BY <1>4, Zenon DEF Room, Count
  <2>2. entries[f] + 1 <= Limit(f) /\ entries[f] \in Nat
    <3>1. ~(entries[f] >= Limit(f))
      BY <1>4, Zenon DEF Full
    <3> QED BY <1>1, <1>2, <3>1, OneMore, Zenon
  <2>3. Len(file[f]) \in Nat
    BY <1>1, LenProperties
  <2> QED BY <1>1, <2>1, <2>2, <2>3, Zenon
<1> QED BY <1>3, <1>4, Zenon

\* The invariant, one file at a time.
FileOK(f) ==
    /\ file[f] \in Seq(Entry)
    /\ entries[f] \in 0 .. 255
    /\ Len(file[f]) <= Limit(f)
    /\ Counted(f) => Len(file[f]) <= entries[f]

LEMMA FileByFile ==
  ASSUME QueueInv
  PROVE  \A f \in FileId : FileOK(f)
BY Zenon DEF QueueInv, TypeOK, CountersCover, WithinLimit, FileOK

LEMMA AllFiles ==
  ASSUME file' = [f \in FileId |-> file'[f]],
         entries' = [f \in FileId |-> entries'[f]],
         named' \in BOOLEAN,
         \A f \in FileId : FileOK(f)'
  PROVE  QueueInv'
<1>1. file' \in [FileId -> Seq(Entry)]
  BY Zenon DEF FileOK
<1>2. entries' \in [FileId -> 0 .. 255]
  BY Zenon DEF FileOK
<1> QED BY <1>1, <1>2, Zenon
        DEF QueueInv, TypeOK, CountersCover, WithinLimit, FileOK

LEMMA SaveKeeps ==
  ASSUME QueueInv, NEW f \in FileId, NEW e \in Entry, Save(f, e)
  PROVE  QueueInv'
<1>1. /\ file' = [file EXCEPT ![f] = Append(Room(f), e)]
      /\ entries' = [entries EXCEPT ![f] = Byte(Count(f) + 1)]
      /\ named' = named /\ Usable(f)
  BY Zenon DEF Save, Saved, SavedEntries
<1>2. /\ file \in [FileId -> Seq(Entry)]
      /\ entries \in [FileId -> 0 .. 255]
      /\ named \in BOOLEAN
  BY Zenon DEF QueueInv, TypeOK
<1>3. /\ Room(f) \in Seq(Entry)
      /\ Len(Room(f)) \in Nat
      /\ Count(f) \in Nat
      /\ Len(Room(f)) <= Count(f)
      /\ Count(f) + 1 <= Limit(f)
      /\ Limit(f) \in 1 .. 255
  BY <1>1, RoomFacts, LimitRange, Zenon
<1>4. /\ Append(Room(f), e) \in Seq(Entry)
      /\ Len(Append(Room(f), e)) = Len(Room(f)) + 1
  BY <1>3, AppendProperties, Zenon
<1>5. /\ Byte(Count(f) + 1) = Count(f) + 1
      /\ Byte(Count(f) + 1) \in 0 .. 255
      /\ Len(Room(f)) + 1 <= Count(f) + 1
      /\ Len(Room(f)) + 1 <= Limit(f)
  BY <1>3, SavedArith, Zenon
<1>6. FileOK(f)'
  <2>1. file'[f] = Append(Room(f), e) /\ entries'[f] = Byte(Count(f) + 1)
    BY <1>1, <1>2, Zenon
  <2> QED BY <1>4, <1>5, <2>1, Zenon DEF FileOK
<1>7. ASSUME NEW g \in FileId, g # f
      PROVE  FileOK(g)'
  <2>1. file'[g] = file[g] /\ entries'[g] = entries[g]
    BY <1>1, <1>2, <1>7, Zenon
  <2> QED BY <1>1, <2>1, FileByFile, Zenon DEF FileOK, Counted
<1>8. \A g \in FileId : FileOK(g)'
  BY <1>6, <1>7, Zenon
<1>9. /\ file' = [g \in FileId |-> file'[g]]
      /\ entries' = [g \in FileId |-> entries'[g]]
  BY <1>1, <1>2
<1> QED BY <1>1, <1>2, <1>8, <1>9, AllFiles, Zenon

LEMMA SaveEvictsOnlyKeeps ==
  ASSUME QueueInv, NEW f \in FileId, SaveEvictsOnly(f)
  PROVE  QueueInv'
<1>1. /\ file' = [file EXCEPT ![f] = Room(f)]
      /\ entries' = [entries EXCEPT ![f] = Byte(Count(f))]
      /\ named' = named /\ Usable(f)
  BY Zenon DEF SaveEvictsOnly
<1>2. /\ file \in [FileId -> Seq(Entry)]
      /\ entries \in [FileId -> 0 .. 255]
      /\ named \in BOOLEAN
  BY Zenon DEF QueueInv, TypeOK
<1>3. /\ Room(f) \in Seq(Entry)
      /\ Len(Room(f)) <= Count(f)
      /\ Byte(Count(f)) = Count(f)
      /\ Byte(Count(f)) \in 0 .. 255
      /\ Len(Room(f)) <= Limit(f)
  BY <1>1, RoomFacts, LimitRange, SavedArith, Zenon
<1>4. FileOK(f)'
  <2>1. file'[f] = Room(f) /\ entries'[f] = Byte(Count(f))
    BY <1>1, <1>2, Zenon
  <2> QED BY <1>3, <2>1, Zenon DEF FileOK
<1>5. ASSUME NEW g \in FileId, g # f
      PROVE  FileOK(g)'
  <2>1. file'[g] = file[g] /\ entries'[g] = entries[g]
    BY <1>1, <1>2, <1>5, Zenon
  <2> QED BY <1>1, <2>1, FileByFile, Zenon DEF FileOK, Counted
<1>6. \A g \in FileId : FileOK(g)'
  BY <1>4, <1>5, Zenon
<1>7. /\ file' = [g \in FileId |-> file'[g]]
      /\ entries' = [g \in FileId |-> entries'[g]]
  BY <1>1, <1>2
<1> QED BY <1>1, <1>2, <1>6, <1>7, AllFiles, Zenon

\* A file rewritten without a message keeps its limit, and its length is what
\* the code stores in its counter.
LEMMA RewriteOK ==
  ASSUME QueueInv, NEW u, NEW f \in FileId
  PROVE  /\ Without(file[f], u) \in Seq(Entry)
         /\ Len(Without(file[f], u)) <= Limit(f)
         /\ Len(Without(file[f], u)) <= Len(file[f])
         /\ Len(Without(file[f], u)) \in 0 .. 255
         /\ Byte(Left(f, u)) = Len(Without(file[f], u))
<1>1. /\ file[f] \in Seq(Entry)
      /\ Len(file[f]) \in Nat
      /\ Len(file[f]) <= Limit(f)
      /\ Limit(f) \in 1 .. 255
  BY FileByFile, LimitRange, LenProperties, Zenon DEF FileOK
<1>2. /\ Without(file[f], u) \in Seq(Entry)
      /\ Len(Without(file[f], u)) <= Len(file[f])
      /\ Len(Without(file[f], u)) \in Nat
  BY <1>1, WithoutType, Zenon
<1>3. /\ Len(Without(file[f], u)) <= Limit(f)
      /\ Len(Without(file[f], u)) \in 0 .. 255
  BY <1>1, <1>2, Shorter, Zenon
<1>4. Byte(Left(f, u)) = Len(Without(file[f], u))
  BY <1>3, ByteIdentity, Zenon DEF Left
<1> QED BY <1>2, <1>3, <1>4, Zenon

LEMMA HandleResponseKeeps ==
  ASSUME QueueInv, NEW u, HandleResponse(u)
  PROVE  QueueInv'
<1>0. Request \in FileId
  BY QueueAssumption DEF Request, FileId
<1>1. /\ file' = [file EXCEPT ![Request] = Without(file[Request], u)]
      /\ entries' = [entries EXCEPT ![Request] = Byte(Left(Request, u))]
      /\ named' = named
  BY Zenon DEF HandleResponse
<1>2. /\ file \in [FileId -> Seq(Entry)]
      /\ entries \in [FileId -> 0 .. 255]
      /\ named \in BOOLEAN
  BY Zenon DEF QueueInv, TypeOK
<1>3. FileOK(Request)'
  <2>1. /\ file'[Request] = Without(file[Request], u)
        /\ entries'[Request] = Byte(Left(Request, u))
    BY <1>0, <1>1, <1>2, Zenon
  <2>2. Len(file'[Request]) <= entries'[Request]
    BY <1>0, <2>1, RewriteOK
  <2> QED BY <1>0, <2>1, <2>2, RewriteOK, Zenon DEF FileOK
<1>4. ASSUME NEW g \in FileId, g # Request
      PROVE  FileOK(g)'
  <2>1. file'[g] = file[g] /\ entries'[g] = entries[g]
    BY <1>1, <1>2, <1>4, Zenon
  <2> QED BY <1>1, <2>1, FileByFile, Zenon DEF FileOK, Counted
<1>5. \A g \in FileId : FileOK(g)'
  BY <1>3, <1>4, Zenon
<1>6. /\ file' = [g \in FileId |-> file'[g]]
      /\ entries' = [g \in FileId |-> entries'[g]]
  BY <1>1, <1>2
<1> QED BY <1>1, <1>2, <1>5, <1>6, AllFiles, Zenon

LEMMA HandleFaultResponseKeeps ==
  ASSUME QueueInv, NEW u, HandleFaultResponse(u)
  PROVE  QueueInv'
<1>1. /\ file' = [f \in FileId |->
                    IF Visited(f, u) THEN Without(file[f], u) ELSE file[f]]
      /\ entries' = [f \in FileId |->
                    IF Visited(f, u) THEN Byte(Left(f, u)) ELSE entries[f]]
      /\ named' = named
  BY Zenon DEF HandleFaultResponse, WithoutFault
<1>2. named' \in BOOLEAN
  BY <1>1, Zenon DEF QueueInv, TypeOK
<1>3. ASSUME NEW f \in FileId
      PROVE  FileOK(f)'
  <2>1. CASE Visited(f, u)
    <3>1. file'[f] = Without(file[f], u) /\ entries'[f] = Byte(Left(f, u))
      BY <1>1, <2>1, Zenon
    <3>2. Len(file'[f]) <= entries'[f]
      BY <3>1, RewriteOK
    <3> QED BY <3>1, <3>2, RewriteOK, Zenon DEF FileOK
  <2>2. CASE ~Visited(f, u)
    <3>1. file'[f] = file[f] /\ entries'[f] = entries[f]
      BY <1>1, <2>2, Zenon
    <3> QED BY <1>1, <3>1, FileByFile, Zenon DEF FileOK, Counted
  <2> QED BY <2>1, <2>2, Zenon
<1>4. /\ file' = [g \in FileId |-> file'[g]]
      /\ entries' = [g \in FileId |-> entries'[g]]
  BY <1>1
<1> QED BY <1>2, <1>3, <1>4, AllFiles, Zenon

\* A restart counts whatever files it finds.
LEMMA RecountKeeps ==
  ASSUME file' \in [FileId -> Seq(Entry)],
         \A f \in FileId : Len(file'[f]) <= Limit(f),
         entries' = BootCount(file'),
         named' = FALSE
  PROVE  QueueInv'
<1>1. ASSUME NEW f \in FileId
      PROVE  Len(file'[f]) \in 0 .. 255 /\ Len(file'[f]) <= Len(file'[f])
  <2>1. Len(file'[f]) \in Nat
    BY LenProperties
  <2>2. Len(file'[f]) <= Len(file'[f])
    BY <2>1
  <2> QED BY <2>1, <2>2, LimitRange, Shorter, Zenon
<1>2. /\ entries' \in [FileId -> 0 .. 255]
      /\ \A f \in FileId \ Connector : entries'[f] = Len(file'[f])
  BY <1>1, BootCountFacts, Zenon
<1>3. ASSUME NEW f \in FileId
      PROVE  FileOK(f)'
  <2>1. CASE f \in Connector
    BY <1>2, <2>1, Zenon DEF FileOK, Counted
  <2>2. CASE f \notin Connector
    <3>1. entries'[f] = Len(file'[f])
      BY <1>2, <2>2, Zenon
    <3> QED BY <1>1, <1>2, <3>1, Zenon DEF FileOK
  <2> QED BY <2>1, <2>2, Zenon
<1>4. /\ file' = [g \in FileId |-> file'[g]]
      /\ entries' = [g \in FileId |-> entries'[g]]
  BY <1>2
<1>5. named' \in BOOLEAN
  OBVIOUS
<1> QED BY <1>3, <1>4, <1>5, AllFiles, Zenon

LEMMA FaultResponseRestartsKeeps ==
  ASSUME QueueInv, NEW u, FaultResponseRestarts(u)
  PROVE  QueueInv'
<1>1. /\ file' = [f \in FileId |->
                    IF Visited(f, u) THEN Without(file[f], u) ELSE file[f]]
      /\ entries' = BootCount(file')
      /\ named' = FALSE
  BY DEF FaultResponseRestarts, WithoutFault, QueueInv, TypeOK
<1>2. ASSUME NEW f \in FileId
      PROVE  file'[f] \in Seq(Entry) /\ Len(file'[f]) <= Limit(f)
  <2>1. CASE Visited(f, u)
    <3>1. file'[f] = Without(file[f], u)
      BY <1>1, <2>1, Zenon
    <3> QED BY <3>1, RewriteOK, Zenon
  <2>2. CASE ~Visited(f, u)
    <3>1. file'[f] = file[f]
      BY <1>1, <2>2, Zenon
    <3> QED BY <3>1, FileByFile, Zenon DEF FileOK
  <2> QED BY <2>1, <2>2, Zenon
<1>3. file' \in [FileId -> Seq(Entry)]
  <2>1. file' = [g \in FileId |-> file'[g]]
    BY <1>1
  <2> QED BY <1>2, <2>1, Zenon
<1> QED BY <1>1, <1>2, <1>3, RecountKeeps, Zenon

LEMMA RebootKeeps ==
  ASSUME QueueInv, Reboot
  PROVE  QueueInv'
<1>1. file' = file /\ entries' = BootCount(file') /\ named' = FALSE
  BY DEF Reboot
<1>2. /\ file' \in [FileId -> Seq(Entry)]
      /\ \A f \in FileId : Len(file'[f]) <= Limit(f)
  BY <1>1, Zenon DEF QueueInv, TypeOK, WithinLimit
<1> QED BY <1>1, <1>2, RecountKeeps, Zenon

LEMMA RebootInRewriteKeeps ==
  ASSUME QueueInv, NEW f \in FileId, RebootInRewrite(f)
  PROVE  QueueInv'
<1>1. /\ file' = [file EXCEPT ![f] = <<>>]
      /\ entries' = BootCount(file') /\ named' = FALSE
  BY DEF RebootInRewrite
<1>2. file \in [FileId -> Seq(Entry)]
  BY Zenon DEF QueueInv, TypeOK
<1>3. <<>> \in Seq(Entry) /\ Len(<<>>) = 0
  BY EmptySeq
<1>4. file' \in [FileId -> Seq(Entry)]
  BY <1>1, <1>2, <1>3, Zenon
<1>5. ASSUME NEW g \in FileId
      PROVE  Len(file'[g]) <= Limit(g)
  <2>1. CASE g = f
    <3>1. file'[g] = <<>>
      BY <1>1, <1>2, <2>1, Zenon
    <3>2. 0 <= Limit(g)
      BY LimitRange, ZeroBelow, Zenon
    <3> QED BY <1>3, <3>1, <3>2, Zenon
  <2>2. CASE g # f
    <3>1. file'[g] = file[g]
      BY <1>1, <1>2, <2>2, Zenon
    <3> QED BY <3>1, Zenon DEF QueueInv, WithinLimit
  <2> QED BY <2>1, <2>2, Zenon
<1> QED BY <1>1, <1>4, <1>5, RecountKeeps, Zenon

\* The running totals stored by search_and_delete are never below the shares
\* of the files, which is all that CountersCover asks of them.
LEMMA SearchAndDeleteKeeps ==
  ASSUME QueueInv, NEW u, SearchAndDelete(u)
  PROVE  QueueInv'
<1>1. /\ file' = [f \in FileId |-> Without(file[f], u)]
      /\ entries' = [f \in FileId |->
                    IF f \in Connector \/ file[f] = <<>> THEN entries[f]
                    ELSE Byte(TotalRemaining(f, u))]
      /\ named' = named
  BY Zenon DEF SearchAndDelete
<1>2. named' \in BOOLEAN
  BY <1>1, Zenon DEF QueueInv, TypeOK
<1>3. ASSUME NEW f \in FileId
      PROVE  FileOK(f)'
  <2>1. file'[f] = Without(file[f], u)
    BY <1>1, Zenon
  <2>2. CASE f \in Connector \/ file[f] = <<>>
    <3>1. entries'[f] = entries[f]
      BY <1>1, <2>2, Zenon
    <3>2. /\ file[f] \in Seq(Entry) /\ Len(file[f]) \in Nat
          /\ entries[f] \in 0 .. 255
          /\ Counted(f) => Len(file[f]) <= entries[f]
      BY FileByFile, LenProperties DEF FileOK
    <3>3. Counted(f)' => Counted(f)
      BY <1>1, Zenon DEF Counted
    <3>4. Counted(f) => Len(Without(file[f], u)) <= entries[f]
      BY <3>2, WithoutType, Chain, Zenon
    <3> QED BY <2>1, <3>1, <3>2, <3>3, <3>4, RewriteOK, Zenon DEF FileOK
  <2>3. CASE ~(f \in Connector \/ file[f] = <<>>)
    <3>1. entries'[f] = Byte(TotalRemaining(f, u))
      BY <1>1, <2>3, Zenon
    <3>2. f \in FileId \ Connector
      BY <2>3, Zenon
    <3>3. /\ TotalRemaining(f, u) \in 0 .. 255
          /\ Left(f, u) <= TotalRemaining(f, u)
      BY <3>2, LeftFacts, Zenon
    <3>4. entries'[f] = TotalRemaining(f, u)
      BY <3>1, <3>3, ByteIdentity, Zenon
    <3> QED BY <2>1, <3>3, <3>4, RewriteOK, Zenon DEF FileOK, Left
  <2> QED BY <2>2, <2>3, Zenon
<1>4. /\ file' = [g \in FileId |-> file'[g]]
      /\ entries' = [g \in FileId |-> entries'[g]]
  BY <1>1
<1> QED BY <1>2, <1>3, <1>4, AllFiles, Zenon

LEMMA InitializeFileNamesKeeps ==
  ASSUME QueueInv, InitializeFileNames
  PROVE  QueueInv'
<1>1. /\ file' = file /\ named' = TRUE
      /\ entries' = [f \in FileId |-> IF f \in Connector
                                     THEN Byte(Len(file[f])) ELSE entries[f]]
  BY Zenon DEF InitializeFileNames, CountConnectors
<1>2. ASSUME NEW f \in FileId
      PROVE  FileOK(f)'
  <2>1. /\ file[f] \in Seq(Entry) /\ Len(file[f]) \in Nat
        /\ Len(file[f]) <= Limit(f)
        /\ Len(file[f]) <= Len(file[f])
    BY FileByFile, LenProperties DEF FileOK
  <2>2. CASE f \in Connector
    <3>1. entries'[f] = Byte(Len(file[f]))
      BY <1>1, <2>2, Zenon
    <3>2. Len(file[f]) \in 0 .. 255
      BY <2>1, LimitRange, Shorter, Zenon
    <3>3. entries'[f] = Len(file[f])
      BY <3>1, <3>2, ByteIdentity, Zenon
    <3> QED BY <1>1, <2>1, <3>2, <3>3, Zenon DEF FileOK
  <2>3. CASE f \notin Connector
    <3>1. entries'[f] = entries[f] /\ file'[f] = file[f]
      BY <1>1, <2>3, Zenon
    <3>2. Counted(f)
      BY <2>3, Zenon DEF Counted
    <3> QED BY <3>1, <3>2, FileByFile, Zenon DEF FileOK
  <2> QED BY <2>2, <2>3, Zenon
<1>3. /\ file' = [g \in FileId |-> file'[g]]
      /\ entries' = [g \in FileId |-> entries'[g]]
  <2>1. file = [g \in FileId |-> file[g]]
    BY DEF QueueInv, TypeOK
  <2> QED BY <1>1, <2>1
<1>4. named' \in BOOLEAN
  BY <1>1
<1> QED BY <1>2, <1>3, <1>4, AllFiles, Zenon

LEMMA NextKeeps == QueueInv /\ [Next]_queueVars => QueueInv'
<1> SUFFICES ASSUME QueueInv, [Next]_queueVars PROVE QueueInv'
  OBVIOUS
<1>1. ASSUME NEW f \in FileId, NEW e \in Entry, Save(f, e)
      PROVE  QueueInv'
  BY <1>1, SaveKeeps
<1>2. ASSUME NEW f \in FileId, SaveEvictsOnly(f)
      PROVE  QueueInv'
  BY <1>2, SaveEvictsOnlyKeeps
<1>3. ASSUME NEW u \in Uuid, HandleResponse(u)
      PROVE  QueueInv'
  BY <1>3, HandleResponseKeeps
<1>4. ASSUME NEW u \in Uuid, HandleFaultResponse(u)
      PROVE  QueueInv'
  BY <1>4, HandleFaultResponseKeeps
<1>5. ASSUME NEW u \in Uuid, FaultResponseRestarts(u)
      PROVE  QueueInv'
  BY <1>5, FaultResponseRestartsKeeps
<1>6. ASSUME NEW u \in Uuid, SearchAndDelete(u)
      PROVE  QueueInv'
  BY <1>6, SearchAndDeleteKeeps
<1>7. CASE InitializeFileNames
  BY <1>7, InitializeFileNamesKeeps
<1>8. CASE Reboot
  BY <1>8, RebootKeeps
<1>9. ASSUME NEW f \in FileId, RebootInRewrite(f)
      PROVE  QueueInv'
  BY <1>9, RebootInRewriteKeeps
<1>10. CASE UNCHANGED queueVars
  BY <1>10 DEF queueVars, QueueInv, TypeOK, CountersCover, WithinLimit, Counted
<1> QED BY <1>1, <1>2, <1>3, <1>4, <1>5, <1>6, <1>7, <1>8, <1>9, <1>10
        DEF Next

-----------------------------------------------------------------------------
(* The theorems *)

\* QueueInv holds in every reachable state: the inductive invariant.
THEOREM QueueInvariant == Spec => []QueueInv
<1>1. Init => QueueInv
  BY InitQueueInv
<1>2. QueueInv /\ [Next]_queueVars => QueueInv'
  BY NextKeeps
<1> QED BY <1>1, <1>2, PTL DEF Spec

\* The files always hold well-formed entries and the counters always fit in
\* the uint8_t fields of fileStruct_t and connectorFileName_t.
THEOREM TypeCorrect == Spec => []TypeOK
<1>1. QueueInv => TypeOK
  BY DEF QueueInv
<1> QED BY <1>1, QueueInvariant, PTL

\* A counter never says less than its file holds, so no queued entry is hidden
\* from get_action_from_uuid and handle_fault_response_message, which skip the
\* files whose counter is zero.
THEOREM CountersCoverFiles == Spec => []CountersCover
<1>1. QueueInv => CountersCover
  BY DEF QueueInv
<1> QED BY <1>1, QueueInvariant, PTL

\* No file ever outgrows MAX_QUEUE_SIZE or MAX_QUEUE_SIZE_Fault lines, although
\* save_payload_to_spiffs only ever looks at the counter.
THEOREM FilesWithinLimit == Spec => []WithinLimit
<1>1. QueueInv => WithinLimit
  BY DEF QueueInv
<1> QED BY <1>1, QueueInvariant, PTL

-----------------------------------------------------------------------------
(* Lines are not duplicated *)

Once(s) == \A i, j \in 1 .. Len(s) : s[i].uuid = s[j].uuid => i = j
OneFile == \A f, g \in FileId, u \in Uuid :
               Holds(file[f], u) /\ Holds(file[g], u) => f = g
SingleInv == OneFile /\ \A f \in FileId : Once(file[f])

\* t has no message that is not in s, and none twice that is once in s.
Thinner(t, s) == /\ Once(s) => Once(t)
                 /\ \A u : Holds(t, u) => Holds(s, u)

\* Cutting a line takes out its message, and that one only.
LEMMA CutTakesOut ==
  ASSUME NEW S, NEW s \in Seq(S), NEW i \in 1 .. Len(s)
  PROVE  /\ Thinner(Cut(s, i), s)
         /\ \A u : Holds(s, u) => Holds(Cut(s, i), u) \/ u = s[i].uuid
         /\ Once(s) => ~Holds(Cut(s, i), s[i].uuid)
<1> DEFINE t == Cut(s, i)
           at(k) == IF k < i THEN k ELSE k + 1
<1>1. Len(s) \in Nat /\ Len(t) = Len(s) - 1
  BY CutType, LenProperties
<1>2. \A k \in 1 .. Len(t) : t[k] = s[at(k)]
  BY <1>1 DEF Cut
<1>3. \A k \in 1 .. Len(t) : at(k) \in 1 .. Len(s) /\ at(k) # i
  BY <1>1
<1>4. \A k, l \in 1 .. Len(t) : at(k) = at(l) => k = l
  BY <1>1
<1>5. ASSUME NEW j \in 1 .. Len(s), j # i
      PROVE  \E k \in 1 .. Len(t) : at(k) = j
  <2>1. CASE j < i
    BY <1>1, <2>1
  <2>2. CASE ~(j < i)
    <3>1. j - 1 \in 1 .. Len(t) /\ ~(j - 1 < i) /\ (j - 1) + 1 = j
      BY <1>1, <1>5, <2>2
    <3> QED BY <3>1
  <2> QED BY <2>1, <2>2
<1> HIDE DEF t, at
<1>6. Thinner(t, s)
  BY <1>2, <1>3, <1>4 DEF Thinner, Once, Holds
<1>7. \A u : Holds(s, u) => Holds(t, u) \/ u = s[i].uuid
  BY <1>2, <1>5 DEF Holds
<1>8. Once(s) => ~Holds(t, s[i].uuid)
  BY <1>2, <1>3 DEF Once, Holds
<1> QED BY <1>6, <1>7, <1>8 DEF t

LEMMA WithoutTakesOut ==
  ASSUME NEW S, NEW s \in Seq(S), NEW u
  PROVE  /\ Thinner(Without(s, u), s)
         /\ \A v : Holds(s, v) => Holds(Without(s, u), v) \/ v = u
         /\ Once(s) => ~Holds(Without(s, u), u)
<1>1. CASE Holds(s, u)
  <2> DEFINE i == CHOOSE i \in 1 .. Len(s) : s[i].uuid = u
  <2>1. i \in 1 .. Len(s) /\ s[i].uuid = u
    BY <1>1, Zenon DEF Holds
  <2>2. Without(s, u) = Cut(s, i)
    BY <1>1, Zenon DEF Without
  <2> HIDE DEF i
  <2> QED BY <2>1, <2>2, CutTakesOut
<1>2. CASE ~Holds(s, u)
  BY <1>2, Zenon DEF Without, Thinner
<1> QED BY <1>1, <1>2

\* Making room takes out one message at most.
LEMMA RoomTakesOut ==
  ASSUME NEW f \in FileId, file[f] \in Seq(Entry)
  PROVE  /\ Thinner(Room(f), file[f])
         /\ \E old :
                \A v : Holds(file[f], v) => Holds(Room(f), v) \/ v = old
<1> DEFINE s == file[f]
<1>1. CASE Full(f) /\ s # <<>>
  <2> DEFINE i == CHOOSE i \in 1 .. Len(s) : IsOldest(s, i)
  <2>1. i \in 1 .. Len(s)
    BY <1>1, OldestExists, Zenon
  <2>2. Room(f) = Cut(s, i)
    BY <1>1, Zenon DEF Room, RemoveOldest
  <2> HIDE DEF i
  <2>3. /\ Thinner(Cut(s, i), s)
        /\ \A v : Holds(s, v) => Holds(Cut(s, i), v) \/ v = s[i].uuid
    BY <2>1, CutTakesOut, Zenon
  <2> QED BY <2>2, <2>3, Zenon
<1>2. CASE ~(Full(f) /\ s # <<>>)
  <2>1. Room(f) = file[f]
    BY <1>2, Zenon DEF Room, RemoveOldest
  <2> QED BY <2>1, Zenon DEF Thinner
<1> QED BY <1>1, <1>2

LEMMA ThinnerKeepsSingle ==
  ASSUME SingleInv, \A f \in FileId : Thinner(file'[f], file[f])
  PROVE  SingleInv'
<1>1. OneFile'
  BY Zenon DEF SingleInv, OneFile, Thinner
<1>2. \A f \in FileId : Once(file'[f])
  BY Zenon DEF SingleInv, Thinner
<1> QED BY <1>1, <1>2, Zenon DEF SingleInv

LEMMA AppendHolds ==
  ASSUME NEW S, NEW s \in Seq(S), NEW e \in S
  PROVE  /\ \A v : Holds(Append(s, e), v) <=> Holds(s, v) \/ v = e.uuid
         /\ Once(s) /\ ~Holds(s, e.uuid) => Once(Append(s, e))
<1>1. /\ Len(s) \in Nat /\ Len(Append(s, e)) = Len(s) + 1
      /\ Append(s, e)[Len(s) + 1] = e
      /\ \A k \in 1 .. Len(s) : Append(s, e)[k] = s[k]
  OBVIOUS
<1>2. \A k : k \in 1 .. (Len(s) + 1) <=> k \in 1 .. Len(s) \/ k = Len(s) + 1
  BY <1>1
<1>3. \A v : Holds(Append(s, e), v) <=> Holds(s, v) \/ v = e.uuid
  BY <1>1, <1>2, Zenon DEF Holds
<1>4. Once(s) /\ ~Holds(s, e.uuid) => Once(Append(s, e))
  BY <1>1, <1>2, Zenon DEF Holds, Once
<1> QED BY <1>3, <1>4

LEMMA SavedKeepsSingle ==
  ASSUME TypeOK, SingleInv, NEW f \in FileId, NEW e \in Entry, ~Queued(e.uuid),
         file' = Saved(f, e)
  PROVE  SingleInv'
<1>1. file \in [FileId -> Seq(Entry)] /\ file[f] \in Seq(Entry)
  BY DEF TypeOK
<1>2. Thinner(Room(f), file[f])
  BY <1>1, RoomTakesOut
<1>3. Room(f) \in Seq(Entry)
  BY <1>1, RemoveOldestType, Zenon DEF Room
<1>4. /\ file'[f] = Append(Room(f), e)
      /\ \A g \in FileId : g # f => file'[g] = file[g]
  BY <1>1 DEF Saved
<1>5. \A g \in FileId : ~Holds(file[g], e.uuid)
  BY DEF Queued
<1>6. ~Holds(Room(f), e.uuid) /\ Once(Room(f))
  BY <1>2, <1>5, Zenon DEF Thinner, SingleInv
<1>7. /\ Once(file'[f])
      /\ \A v : Holds(file'[f], v) => Holds(file[f], v) \/ v = e.uuid
  <2>1. /\ \A v : Holds(Append(Room(f), e), v) <=> Holds(Room(f), v) \/ v = e.uuid
        /\ Once(Append(Room(f), e))
    BY <1>3, <1>6, AppendHolds
  <2> QED BY <1>2, <1>4, <2>1, Zenon DEF Thinner
<1>8. OneFile'
  <2> SUFFICES ASSUME NEW g \in FileId, NEW h \in FileId, NEW u \in Uuid,
                      Holds(file'[g], u), Holds(file'[h], u)
               PROVE  g = h
    BY Zenon DEF OneFile
  <2>1. /\ Holds(file[g], u) \/ (g = f /\ u = e.uuid)
        /\ Holds(file[h], u) \/ (h = f /\ u = e.uuid)
    BY <1>4, <1>7, Zenon
  <2> QED BY <1>5, <2>1, Zenon DEF SingleInv, OneFile
<1>9. \A g \in FileId : Once(file'[g])
  BY <1>4, <1>7, Zenon DEF SingleInv
<1> QED BY <1>8, <1>9, Zenon DEF SingleInv

LEMMA NextKeepsSingle ==
  QueueInv /\ SingleInv /\ [Next]_queueVars => SingleInv'
<1> SUFFICES ASSUME QueueInv, SingleInv, [Next]_queueVars PROVE SingleInv'
  OBVIOUS
<1>0. TypeOK /\ \A f \in FileId : file[f] \in Seq(Entry)
  BY DEF QueueInv, TypeOK
<1>1. ASSUME NEW f \in FileId, NEW e \in Entry, ~Queued(e.uuid), Save(f, e)
      PROVE  SingleInv'
  BY <1>0, <1>1, SavedKeepsSingle DEF Save
<1>2. ASSUME NEW f \in FileId, SaveEvictsOnly(f)
      PROVE  SingleInv'
  <2>1. file' = [file EXCEPT ![f] = Room(f)]
    BY <1>2 DEF SaveEvictsOnly
  <2>2. Thinner(Room(f), file[f])
    BY <1>0, RoomTakesOut
  <2>3. \A g \in FileId : file'[g] = IF g = f THEN Room(f) ELSE file[g]
    BY <1>0, <2>1 DEF TypeOK
  <2>4. \A g \in FileId : Thinner(file'[g], file[g])
    BY <2>2, <2>3, Zenon DEF Thinner
  <2> QED BY <2>4, ThinnerKeepsSingle
<1>3. ASSUME NEW u, \A f \in FileId : file'[f] \in {file[f], Without(file[f], u), <<>>}
      PROVE  SingleInv'
  <2>1. \A f \in FileId : Thinner(Without(file[f], u), file[f])
    BY <1>0, WithoutTakesOut
  <2>2. \A s : Thinner(s, s)
    BY Zenon DEF Thinner
  <2>3. \A s : Thinner(<<>>, s)
    BY EmptySeq DEF Thinner, Once, Holds
  <2> QED BY <1>3, <2>1, <2>2, <2>3, ThinnerKeepsSingle
<1>4. ASSUME NEW u \in Uuid, HandleResponse(u) \/ HandleFaultResponse(u)
                             \/ FaultResponseRestarts(u) \/ SearchAndDelete(u)
      PROVE  SingleInv'
  <2>1. \A f \in FileId : file'[f] \in {file[f], Without(file[f], u), <<>>}
    BY <1>0, <1>4 DEF HandleResponse, HandleFaultResponse, WithoutFault,
                      FaultResponseRestarts, SearchAndDelete, TypeOK
  <2> QED BY <1>3, <2>1
<1>5. CASE InitializeFileNames \/ Reboot \/ UNCHANGED queueVars
  BY <1>5 DEF InitializeFileNames, Reboot, queueVars, SingleInv, OneFile
<1>6. ASSUME NEW f \in FileId, RebootInRewrite(f)
      PROVE  SingleInv'
  <2>1. \A g \in FileId : file'[g] \in {file[g], Without(file[g], f), <<>>}
    BY <1>0, <1>6 DEF RebootInRewrite, TypeOK
  <2> QED BY <1>3, <2>1
<1> QED BY <1>1, <1>2, <1>4, <1>5, <1>6 DEF Next

LEMMA SingleIsNoDuplicate == TypeOK /\ SingleInv => NoDuplicate
<1> SUFFICES ASSUME TypeOK, SingleInv, NEW f \in FileId, NEW g \in FileId,
                    NEW i \in 1 .. Len(file[f]), NEW j \in 1 .. Len(file[g]),
                    file[f][i].uuid = file[g][j].uuid
             PROVE  SameLine(f, i, g, j)
  BY DEF NoDuplicate
<1>1. file[f][i].uuid \in Uuid
  <2>1. file[f] \in Seq(Entry)
    BY DEF TypeOK
  <2>2. file[f][i] \in Entry
    BY <2>1, ElementOfSeq, Zenon
  <2> QED BY <2>2 DEF Entry
<1>2. f = g
  BY <1>1, Zenon DEF SingleInv, OneFile, Holds
<1>3. i = j
  BY <1>2, Zenon DEF SingleInv, Once
<1> QED BY <1>2, <1>3 DEF SameLine

\* No operation and no restart ever duplicates a message, within a file or
\* between two.
THEOREM MessagesAreSingle == Spec => []NoDuplicate
<1>1. Init => QueueInv /\ SingleInv
  <2>1. Init => SingleInv
    BY EmptySeq DEF Init, SingleInv, OneFile, Once, Holds
  <2> QED BY <2>1, InitQueueInv
<1>2. QueueInv /\ SingleInv => NoDuplicate
  BY SingleIsNoDuplicate DEF QueueInv
<1> QED BY <1>1, <1>2, NextKeeps, NextKeepsSingle, PTL DEF Spec

-----------------------------------------------------------------------------
(* Lines stay in order *)

KeepsOrder(t, s) ==
    \A u, v \in Uuid : Before(s, u, v) /\ Holds(t, u) /\ Holds(t, v)
                          => Before(t, u, v)

LEMMA PositionIsUnique ==
  ASSUME NEW s, Once(s), NEW i \in 1 .. Len(s)
  PROVE  Position(s, s[i].uuid) = i
BY Zenon DEF Position, Once

LEMMA PositionHolds ==
  ASSUME NEW s, NEW u, Holds(s, u)
  PROVE  Position(s, u) \in 1 .. Len(s) /\ s[Position(s, u)].uuid = u
BY Zenon DEF Position, Holds

\* A sequence whose lines are lines of s, in increasing places, keeps its order.
LEMMA PlacesKeepOrder ==
  ASSUME NEW s, NEW t, Once(s), Once(t), NEW at,
         \A k \in 1 .. Len(t) : at[k] \in 1 .. Len(s) /\ t[k] = s[at[k]],
         \A k, l \in 1 .. Len(t) : at[k] < at[l] => k < l
  PROVE  KeepsOrder(t, s)
<1> SUFFICES ASSUME NEW u \in Uuid, NEW v \in Uuid, Before(s, u, v),
                    Holds(t, u), Holds(t, v)
             PROVE  Before(t, u, v)
  BY DEF KeepsOrder
<1>1. PICK k \in 1 .. Len(t) : t[k].uuid = u
  BY DEF Holds
<1>2. PICK l \in 1 .. Len(t) : t[l].uuid = v
  BY DEF Holds
<1>3. Position(s, u) = at[k] /\ Position(t, u) = k
  BY <1>1, PositionIsUnique
<1>4. Position(s, v) = at[l] /\ Position(t, v) = l
  BY <1>2, PositionIsUnique
<1> QED BY <1>3, <1>4 DEF Before

LEMMA CutKeepsOrder ==
  ASSUME NEW S, NEW s \in Seq(S), Once(s), NEW i \in 1 .. Len(s)
  PROVE  KeepsOrder(Cut(s, i), s)
<1> DEFINE t == Cut(s, i)
           at == [k \in 1 .. Len(t) |-> IF k < i THEN k ELSE k + 1]
<1>1. Len(s) \in Nat /\ Len(t) = Len(s) - 1
  BY CutType, LenProperties
<1>2. \A k \in 1 .. Len(t) : at[k] \in 1 .. Len(s) /\ t[k] = s[at[k]]
  BY <1>1 DEF Cut
<1>3. \A k, l \in 1 .. Len(t) : at[k] < at[l] => k < l
  BY <1>1
<1>4. Once(t)
  BY CutTakesOut DEF Thinner
<1> HIDE DEF t, at
<1>5. KeepsOrder(t, s)
  BY <1>2, <1>3, <1>4, PlacesKeepOrder
<1> QED BY <1>5 DEF t

LEMMA WithoutKeepsOrder ==
  ASSUME NEW S, NEW s \in Seq(S), Once(s), NEW u
  PROVE  KeepsOrder(Without(s, u), s)
<1>1. CASE Holds(s, u)
  <2> DEFINE i == CHOOSE i \in 1 .. Len(s) : s[i].uuid = u
  <2>1. i \in 1 .. Len(s)
    BY <1>1, Zenon DEF Holds
  <2>2. Without(s, u) = Cut(s, i)
    BY <1>1, Zenon DEF Without
  <2> HIDE DEF i
  <2> QED BY <2>1, <2>2, CutKeepsOrder
<1>2. CASE ~Holds(s, u)
  BY <1>2, Zenon DEF Without, KeepsOrder
<1> QED BY <1>1, <1>2

LEMMA RoomKeepsOrder ==
  ASSUME NEW f \in FileId, file[f] \in Seq(Entry), Once(file[f])
  PROVE  KeepsOrder(Room(f), file[f])
<1> DEFINE s == file[f]
<1>1. CASE Full(f) /\ s # <<>>
  <2> DEFINE i == CHOOSE i \in 1 .. Len(s) : IsOldest(s, i)
  <2>1. i \in 1 .. Len(s)
    BY <1>1, OldestExists, Zenon
  <2>2. Room(f) = Cut(s, i)
    BY <1>1, Zenon DEF Room, RemoveOldest
  <2> HIDE DEF i
  <2> QED BY <2>1, <2>2, CutKeepsOrder
<1>2. CASE ~(Full(f) /\ s # <<>>)
  <2>1. Room(f) = file[f]
    BY <1>2, Zenon DEF Room, RemoveOldest
  <2> QED BY <2>1, Zenon DEF KeepsOrder
<1> QED BY <1>1, <1>2

\* Appending a message that was not there leaves the others in their order.
LEMMA SavedKeepsOrder ==
  ASSUME NEW s \in Seq(Entry), NEW r \in Seq(Entry), NEW e \in Entry, Once(r),
         KeepsOrder(r, s), ~Holds(s, e.uuid), ~Holds(r, e.uuid)
  PROVE  KeepsOrder(Append(r, e), s)
<1> DEFINE t == Append(r, e)
<1> SUFFICES ASSUME NEW u \in Uuid, NEW v \in Uuid, Before(s, u, v),
                    Holds(t, u), Holds(t, v)
             PROVE  Before(t, u, v)
  BY DEF KeepsOrder
<1>1. u # e.uuid /\ v # e.uuid
  BY DEF Before
<1>2. /\ \A w : Holds(t, w) <=> Holds(r, w) \/ w = e.uuid
      /\ Once(t)
  BY AppendHolds
<1>3. Holds(r, u) /\ Holds(r, v)
  BY <1>1, <1>2
<1>4. Before(r, u, v)
  BY <1>3 DEF KeepsOrder
<1>5. /\ Len(r) \in Nat /\ Len(t) = Len(r) + 1
      /\ \A k \in 1 .. Len(r) : t[k] = r[k] /\ k \in 1 .. Len(t)
  OBVIOUS
<1> HIDE DEF t
<1>6. ASSUME NEW w, Holds(r, w) PROVE Position(t, w) = Position(r, w)
  <2>1. Position(r, w) \in 1 .. Len(r) /\ r[Position(r, w)].uuid = w
    BY <1>6, PositionHolds
  <2>2. Position(r, w) \in 1 .. Len(t) /\ t[Position(r, w)].uuid = w
    BY <1>5, <2>1
  <2> QED BY <1>2, <2>2, PositionIsUnique
<1> QED BY <1>3, <1>4, <1>6 DEF Before

LEMMA NextKeepsOrder ==
  QueueInv /\ SingleInv /\ [Next]_queueVars =>
      \A f \in FileId : KeepsOrder(file'[f], file[f])
<1> SUFFICES ASSUME QueueInv, SingleInv, [Next]_queueVars, NEW f \in FileId
             PROVE  KeepsOrder(file'[f], file[f])
  OBVIOUS
<1>0. /\ file \in [FileId -> Seq(Entry)]
      /\ file[f] \in Seq(Entry)
      /\ Once(file[f])
  BY DEF QueueInv, TypeOK, SingleInv
<1>1. \A s : KeepsOrder(s, s) /\ KeepsOrder(<<>>, s)
  <2>1. \A u : ~Holds(<<>>, u)
    BY EmptySeq DEF Holds
  <2> QED BY <2>1, Zenon DEF KeepsOrder
<1>2. ASSUME NEW g \in FileId, NEW e \in Entry, ~Queued(e.uuid), Save(g, e)
      PROVE  KeepsOrder(file'[f], file[f])
  <2>1. file' = [file EXCEPT ![g] = Append(Room(g), e)]
    BY <1>2 DEF Save, Saved
  <2>2. CASE f = g
    <3>1. Room(f) \in Seq(Entry)
      BY <1>0, RemoveOldestType, Zenon DEF Room
    <3>2. ~Holds(file[f], e.uuid)
      BY <1>2 DEF Queued
    <3>3. ~Holds(Room(f), e.uuid) /\ Once(Room(f))
      BY <1>0, <3>2, RoomTakesOut, Zenon DEF Thinner
    <3>4. file'[f] = Append(Room(f), e)
      BY <1>0, <2>1, <2>2
    <3> QED BY <1>0, <3>1, <3>2, <3>3, <3>4, RoomKeepsOrder, SavedKeepsOrder
  <2>3. CASE f # g
    BY <1>0, <1>1, <2>1, <2>3
  <2> QED BY <2>2, <2>3
<1>3. ASSUME NEW g \in FileId, SaveEvictsOnly(g)
      PROVE  KeepsOrder(file'[f], file[f])
  <2>1. file'[f] = IF f = g THEN Room(f) ELSE file[f]
    BY <1>0, <1>3 DEF SaveEvictsOnly
  <2> QED BY <1>0, <1>1, <2>1, RoomKeepsOrder
<1>4. ASSUME NEW u, file'[f] \in {file[f], Without(file[f], u), <<>>}
      PROVE  KeepsOrder(file'[f], file[f])
  BY <1>0, <1>1, <1>4, WithoutKeepsOrder
<1>5. ASSUME NEW u \in Uuid, HandleResponse(u) \/ HandleFaultResponse(u)
                             \/ FaultResponseRestarts(u) \/ SearchAndDelete(u)
      PROVE  KeepsOrder(file'[f], file[f])
  <2>1. file'[f] \in {file[f], Without(file[f], u), <<>>}
    BY <1>0, <1>5 DEF HandleResponse, HandleFaultResponse, WithoutFault,
                      FaultResponseRestarts, SearchAndDelete
  <2> QED BY <1>4, <2>1
<1>6. CASE InitializeFileNames \/ Reboot \/ UNCHANGED queueVars
  BY <1>1, <1>6 DEF InitializeFileNames, Reboot, queueVars
<1>7. ASSUME NEW g \in FileId, RebootInRewrite(g)
      PROVE  KeepsOrder(file'[f], file[f])
  <2>1. file'[f] \in {file[f], Without(file[f], g), <<>>}
    BY <1>0, <1>7 DEF RebootInRewrite
  <2> QED BY <1>4, <2>1
<1> QED BY <1>2, <1>3, <1>5, <1>6, <1>7 DEF Next

\* Whatever is removed, written or lost, two messages that both stay in a file
\* stay in their order.
THEOREM MessagesKeepOrder == Spec => OrderKept
<1>1. Init => QueueInv /\ SingleInv
  <2>1. Init => SingleInv
    BY EmptySeq DEF Init, SingleInv, OneFile, Once, Holds
  <2> QED BY <2>1, InitQueueInv
<1>2. QueueInv /\ SingleInv /\ [Next]_queueVars =>
         [\A f \in FileId, u, v \in Uuid :
             Before(file[f], u, v) /\ Holds(file'[f], u) /\ Holds(file'[f], v)
                 => Before(file'[f], u, v)]_queueVars
  BY NextKeepsOrder, Zenon DEF KeepsOrder
<1> QED BY <1>1, <1>2, NextKeeps, NextKeepsSingle, PTL DEF Spec, OrderKept

-----------------------------------------------------------------------------
(* Evictions *)

\* What a save pushes out of a file is one of its oldest lines.
LEMMA RoomEvictsOldest ==
  ASSUME NEW f \in FileId, file[f] \in Seq(Entry)
  PROVE  \/ Room(f) = file[f]
         \/ \E i \in 1 .. Len(file[f]) :
                /\ IsOldest(file[f], i)
                /\ \A j \in 1 .. Len(file[f]) :
                       j # i => Holds(Room(f), file[f][j].uuid)
<1> DEFINE s == file[f]
<1>1. CASE Full(f) /\ s # <<>>
  <2> DEFINE i == CHOOSE i \in 1 .. Len(s) : IsOldest(s, i)
  <2>1. i \in 1 .. Len(s) /\ IsOldest(s, i)
    BY <1>1, OldestExists, Zenon
  <2>2. Room(f) = Cut(s, i)
    BY <1>1, Zenon DEF Room, RemoveOldest
  <2> HIDE DEF i
  <2>3. ASSUME NEW j \in 1 .. Len(s), j # i PROVE Holds(Cut(s, i), s[j].uuid)
    <3>1. Len(s) \in Nat /\ Len(Cut(s, i)) = Len(s) - 1
      BY <2>1, CutType, LenProperties
    <3>2. CASE j < i
      <4>1. j \in 1 .. Len(Cut(s, i)) /\ Cut(s, i)[j] = s[j]
        BY <2>1, <3>1, <3>2 DEF Cut
      <4> QED BY <4>1 DEF Holds
    <3>3. CASE ~(j < i)
      <4>1. /\ j - 1 \in 1 .. Len(Cut(s, i))
            /\ Cut(s, i)[j - 1] = s[j]
        BY <2>1, <2>3, <3>1, <3>3 DEF Cut
      <4> QED BY <4>1 DEF Holds
    <3> QED BY <3>2, <3>3
  <2> QED BY <2>1, <2>2, <2>3, Zenon
<1>2. CASE ~(Full(f) /\ s # <<>>)
  BY <1>2, Zenon DEF Room, RemoveOldest
<1> QED BY <1>1, <1>2

\* Only a save brings a message into a file.
LEMMA OnlySavesAppend ==
  ASSUME QueueInv, [Next]_queueVars, NEW f \in FileId, Appends(f)
  PROVE  \E e \in Entry : file'[f] = Append(Room(f), e)
<1>0. /\ file \in [FileId -> Seq(Entry)]
      /\ \A g \in FileId : file[g] \in Seq(Entry)
  BY DEF QueueInv, TypeOK
<1>1. QueueInv' /\ file'[f] \in Seq(Entry)
  <2>1. QueueInv'
    BY NextKeeps
  <2> QED BY <2>1 DEF QueueInv, TypeOK
<1>2. ~Thinner(file'[f], file[f])
  <2>1. file'[f] # <<>> /\ ~Holds(file[f], file'[f][Len(file'[f])].uuid)
    BY DEF Appends
  <2>2. Len(file'[f]) \in 1 .. Len(file'[f])
    BY <1>1, <2>1
  <2>3. Holds(file'[f], file'[f][Len(file'[f])].uuid)
    BY <2>2, Zenon DEF Holds
  <2> QED BY <2>1, <2>3, Zenon DEF Thinner
<1>3. \A s : Thinner(s, s) /\ Thinner(<<>>, s)
  BY EmptySeq DEF Thinner, Once, Holds
<1>4. file'[f] # file[f]
  BY <1>2, <1>3
<1>5. ASSUME NEW g \in FileId, NEW e \in Entry, Save(g, e)
      PROVE  \E x \in Entry : file'[f] = Append(Room(f), x)
  <2>1. file' = [file EXCEPT ![g] = Append(Room(g), e)]
    BY <1>5 DEF Save, Saved
  <2>2. f = g
    BY <1>0, <1>4, <2>1
  <2> QED BY <1>0, <2>1, <2>2
<1>6. ASSUME NEW g \in FileId, SaveEvictsOnly(g) PROVE FALSE
  <2>1. file'[f] \in {file[f], Room(f)}
    BY <1>0, <1>6 DEF SaveEvictsOnly
  <2> QED BY <1>0, <1>2, <1>3, <2>1, RoomTakesOut
<1>7. ASSUME NEW u, file'[f] \in {file[f], Without(file[f], u), <<>>} PROVE FALSE
  BY <1>0, <1>2, <1>3, <1>7, WithoutTakesOut
<1>8. ASSUME NEW u \in Uuid, HandleResponse(u) \/ HandleFaultResponse(u)
                             \/ FaultResponseRestarts(u) \/ SearchAndDelete(u)
      PROVE  FALSE
  <2>1. file'[f] \in {file[f], Without(file[f], u), <<>>}
    BY <1>0, <1>8 DEF HandleResponse, HandleFaultResponse, WithoutFault,
                      FaultResponseRestarts, SearchAndDelete
  <2> QED BY <1>7, <2>1
<1>9. CASE InitializeFileNames \/ Reboot \/ UNCHANGED queueVars
  BY <1>4, <1>9 DEF InitializeFileNames, Reboot, queueVars
<1>10. ASSUME NEW g \in FileId, RebootInRewrite(g) PROVE FALSE
  <2>1. file'[f] \in {file[f], Without(file[f], g), <<>>}
    BY <1>0, <1>10 DEF RebootInRewrite
  <2> QED BY <1>7, <2>1
<1> QED BY <1>5, <1>6, <1>8, <1>9, <1>10 DEF Next

\* When a write pushes a message out, it is one with the oldest timestamp of its
\* file, and the only one, for every limit and every order of timestamps.
THEOREM OldestGoesFirst == Spec => EvictsOldestOnly
<1>1. QueueInv /\ [Next]_queueVars =>
         [\A f \in FileId : Appends(f) =>
             \A i \in Dropped(f) :
                 /\ \A j \in 1 .. Len(file[f]) :
                        file[f][i].time <= file[f][j].time
                 /\ Dropped(f) = {i}]_queueVars
  <2> SUFFICES ASSUME QueueInv, [Next]_queueVars, NEW f \in FileId, Appends(f),
                      NEW i \in Dropped(f)
               PROVE  /\ \A j \in 1 .. Len(file[f]) :
                             file[f][i].time <= file[f][j].time
                      /\ Dropped(f) = {i}
    OBVIOUS
  <2>1. file[f] \in Seq(Entry)
    BY DEF QueueInv, TypeOK
  <2>2. PICK e \in Entry : file'[f] = Append(Room(f), e)
    BY OnlySavesAppend
  <2>3. Room(f) \in Seq(Entry)
    BY <2>1, RemoveOldestType, Zenon DEF Room
  <2>4. \A u : Holds(Room(f), u) => Holds(file'[f], u)
    BY <2>2, <2>3, AppendHolds
  <2>5. i \in 1 .. Len(file[f]) /\ ~Holds(Room(f), file[f][i].uuid)
    BY <2>4 DEF Dropped
  <2>6. Room(f) # file[f]
    BY <2>5, Zenon DEF Holds
  <2>7. PICK k \in 1 .. Len(file[f]) :
            /\ IsOldest(file[f], k)
            /\ \A j \in 1 .. Len(file[f]) :
                   j # k => Holds(Room(f), file[f][j].uuid)
    BY <2>1, <2>6, RoomEvictsOldest, Zenon
  <2>8. \A j \in Dropped(f) : j = k
    BY <2>4, <2>7 DEF Dropped
  <2>9. i = k /\ Dropped(f) = {i}
    BY <2>8
  <2> QED BY <2>7, <2>9 DEF IsOldest
<1> QED BY <1>1, QueueInvariant, NextKeeps, InitQueueInv, PTL DEF Spec, EvictsOldestOnly

-----------------------------------------------------------------------------
(* The uplink *)

\* Lines the request file may have.
RequestEntry == {e \in Entry : ~Fault(e.uuid)}

FilesInv == /\ file \in [FileId -> Seq(Entry)]
            /\ file[Request] \in Seq(RequestEntry)

\* bootUuid is the first configuration message of this boot.
BootInv ==
    /\ boots \in Nat \ {0}
    /\ born \in [Uuid -> Nat]
    /\ bootUuid \in Uuid \cup {None}
    /\ bootFlag # 0 => bootUuid = None
    /\ bootUuid # None => named /\ born[bootUuid] = boots

\* What needs the exchange has happened after it.
Guarded(m) == m # None /\ Action[m] \in {ChargingSession, FaultInformation}
ExchangeInv ==
    /\ exchanged \in BOOLEAN
    /\ exchanged => bootUuid # None /\ bootUuid \in accepted
    /\ Guarded(msg) => exchanged
    /\ Guarded(lastSent) => exchanged

UplinkInv == FilesInv /\ BootInv /\ ExchangeInv

-----------------------------------------------------------------------------
(* The files *)

LEMMA ThreeIsNotZero == 3 # 0
OBVIOUS

LEMMA RequestIsFile == Request \in FileId
BY QueueAssumption DEF Request, FileId

\* Rewrites and evictions leave lines that were there.
LEMMA WithoutKeeps ==
  ASSUME NEW S, NEW s \in Seq(S), NEW u
  PROVE  Without(s, u) \in Seq(S)
<1>1. CASE Holds(s, u)
  <2> DEFINE i == CHOOSE i \in 1 .. Len(s) : s[i].uuid = u
  <2>1. i \in 1 .. Len(s)
    BY <1>1, Zenon DEF Holds
  <2>2. Without(s, u) = Cut(s, i)
    BY <1>1, Zenon DEF Without
  <2> QED BY <2>1, <2>2, CutType
<1>2. CASE ~Holds(s, u)
  BY <1>2 DEF Without
<1> QED BY <1>1, <1>2

LEMMA RemoveOldestKeeps ==
  ASSUME NEW S, S \subseteq Entry, NEW s \in Seq(S)
  PROVE  RemoveOldest(s) \in Seq(S)
<1>1. CASE s = <<>>
  BY <1>1 DEF RemoveOldest
<1>2. CASE s # <<>>
  <2> DEFINE i == CHOOSE i \in 1 .. Len(s) : IsOldest(s, i)
  <2>1. s \in Seq(Entry)
    BY SMT
  <2>2. i \in 1 .. Len(s)
    BY <1>2, <2>1, OldestExists, Zenon
  <2>3. RemoveOldest(s) = Cut(s, i)
    BY <1>2, Zenon DEF RemoveOldest
  <2> QED BY <2>2, <2>3, CutType
<1> QED BY <1>1, <1>2

LEMMA RoomKeeps ==
  ASSUME FilesInv, NEW f \in FileId
  PROVE  /\ Room(f) \in Seq(Entry)
         /\ Room(Request) \in Seq(RequestEntry)
<1>1. RequestEntry \subseteq Entry
  BY DEF RequestEntry
<1>2. file[f] \in Seq(Entry) /\ file[Request] \in Seq(RequestEntry)
  BY DEF FilesInv
<1>3. /\ RemoveOldest(file[f]) \in Seq(Entry)
      /\ RemoveOldest(file[Request]) \in Seq(RequestEntry)
  BY <1>1, <1>2, RemoveOldestKeeps
<1> QED BY <1>2, <1>3, Zenon DEF Room

\* A new line of the request file is not a fault.
LEMMA SavedKeeps ==
  ASSUME FilesInv, NEW f \in FileId, NEW u \in Uuid, NEW t \in Stamp,
         f = Request => ~Fault(u)
  PROVE  LET fl == Saved(f, [uuid |-> u, time |-> t])
         IN  /\ fl \in [FileId -> Seq(Entry)]
             /\ fl[Request] \in Seq(RequestEntry)
<1> DEFINE e == [uuid |-> u, time |-> t]
<1>1. e \in Entry /\ e.uuid = u
  BY DEF Entry
<1>2. Room(f) \in Seq(Entry) /\ Room(Request) \in Seq(RequestEntry)
  BY RoomKeeps
<1>3. Append(Room(f), e) \in Seq(Entry)
  BY <1>1, <1>2
<1>4. CASE f = Request
  <2>1. e \in RequestEntry
    BY <1>1, <1>4 DEF RequestEntry
  <2>2. Append(Room(f), e) \in Seq(RequestEntry)
    BY <1>2, <1>4, <2>1
  <2> QED BY <1>3, <2>2, <1>4, RequestIsFile DEF FilesInv, Saved
<1>5. CASE f # Request
  BY <1>3, <1>5, RequestIsFile DEF FilesInv, Saved
<1> QED BY <1>4, <1>5

LEMMA RoomOnlyKeeps ==
  ASSUME FilesInv, NEW f \in FileId
  PROVE  LET fl == [file EXCEPT ![f] = Room(f)]
         IN  /\ fl \in [FileId -> Seq(Entry)]
             /\ fl[Request] \in Seq(RequestEntry)
<1>1. Room(f) \in Seq(Entry) /\ Room(Request) \in Seq(RequestEntry)
  BY RoomKeeps
<1>2. CASE f = Request
  BY <1>1, <1>2, RequestIsFile DEF FilesInv
<1>3. CASE f # Request
  BY <1>1, <1>3, RequestIsFile DEF FilesInv
<1> QED BY <1>2, <1>3

LEMMA TrySaveKeeps ==
  ASSUME FilesInv, NEW f \in FileId, NEW u \in Uuid, f = Request => ~Fault(u),
         TrySave(f, u)
  PROVE  FilesInv' /\ named' = named
<1>1. ASSUME NEW t \in Stamp, Save(f, [uuid |-> u, time |-> t])
      PROVE  FilesInv' /\ named' = named
  <2>1. file' = Saved(f, [uuid |-> u, time |-> t]) /\ named' = named
    BY <1>1, Zenon DEF Save
  <2> QED BY <2>1, SavedKeeps, Zenon DEF FilesInv
<1>2. CASE SaveEvictsOnly(f)
  <2>1. file' = [file EXCEPT ![f] = Room(f)] /\ named' = named
    BY <1>2, Zenon DEF SaveEvictsOnly
  <2> QED BY <2>1, RoomOnlyKeeps, Zenon DEF FilesInv
<1>3. CASE UNCHANGED queueVars
  BY <1>3 DEF queueVars, FilesInv
<1> QED BY <1>1, <1>2, <1>3, Zenon DEF TrySave

\* The ways an answer, a give-up or a restart changes the files.
LEMMA RewritesKeep ==
  ASSUME FilesInv, NEW u,
         file' = [f \in FileId |-> file'[f]],
         \A f \in FileId : file'[f] \in {file[f], Without(file[f], u), <<>>}
  PROVE  FilesInv'
<1>1. ASSUME NEW f \in FileId PROVE file'[f] \in Seq(Entry)
  <2>1. file[f] \in Seq(Entry)
    BY DEF FilesInv
  <2>2. Without(file[f], u) \in Seq(Entry)
    BY <2>1, WithoutKeeps
  <2>3. <<>> \in Seq(Entry)
    BY EmptySeq
  <2> QED BY <2>1, <2>2, <2>3
<1>2. file'[Request] \in Seq(RequestEntry)
  <2>1. file[Request] \in Seq(RequestEntry)
    BY DEF FilesInv
  <2>2. Without(file[Request], u) \in Seq(RequestEntry)
    BY <2>1, WithoutKeeps
  <2>3. <<>> \in Seq(RequestEntry)
    BY EmptySeq
  <2> QED BY <2>1, <2>2, <2>3, RequestIsFile
<1> QED BY <1>1, <1>2, Zenon DEF FilesInv

LEMMA HandleResponseFiles ==
  ASSUME FilesInv, NEW u, HandleResponse(u)
  PROVE  FilesInv' /\ named' = named
<1>1. file' = [file EXCEPT ![Request] = Without(@, u)] /\ named' = named
  BY DEF HandleResponse
<1>2. FilesInv'
  BY <1>1, RewritesKeep, RequestIsFile DEF FilesInv
<1> QED BY <1>1, <1>2

LEMMA FaultRewriteFiles ==
  ASSUME FilesInv, NEW u, file' = WithoutFault(u)
  PROVE  FilesInv'
<1>1. file' = [f \in FileId |-> IF Visited(f, u) THEN Without(file[f], u)
                                ELSE file[f]]
  BY Zenon DEF WithoutFault
<1>2. file' = [f \in FileId |-> file'[f]]
  BY <1>1
<1>3. \A f \in FileId : file'[f] \in {file[f], Without(file[f], u), <<>>}
  BY <1>1
<1> QED BY <1>2, <1>3, RewritesKeep

LEMMA SearchAndDeleteFiles ==
  ASSUME FilesInv, NEW u, SearchAndDelete(u)
  PROVE  FilesInv' /\ named' = named
<1>1. file' = [f \in FileId |-> Without(file[f], u)] /\ named' = named
  BY DEF SearchAndDelete
<1>2. FilesInv'
  BY <1>1, RewritesKeep
<1> QED BY <1>1, <1>2

LEMMA RestartFiles ==
  ASSUME FilesInv, Reboot \/ \E f \in FileId : RebootInRewrite(f)
  PROVE  FilesInv'
<1>1. CASE Reboot
  BY <1>1 DEF Reboot, FilesInv
<1>2. ASSUME NEW f \in FileId, RebootInRewrite(f)
      PROVE  FilesInv'
  <2>1. file' = [file EXCEPT ![f] = <<>>]
    BY <1>2 DEF RebootInRewrite
  <2> QED BY <2>1, RewritesKeep DEF FilesInv
<1> QED BY <1>1, <1>2

-----------------------------------------------------------------------------
(* The steps *)

LEMMA UplinkInitInv == UplinkInit => UplinkInv
<1> SUFFICES ASSUME UplinkInit PROVE UplinkInv
  OBVIOUS
<1>1. FilesInv
  <2>1. <<>> \in Seq(Entry) /\ <<>> \in Seq(RequestEntry)
    BY EmptySeq
  <2>2. file = [f \in FileId |-> <<>>]
    BY DEF UplinkInit, Init
  <2> QED BY <2>1, <2>2, RequestIsFile DEF FilesInv
<1>2. BootInv
  BY DEF UplinkInit, BootInv
<1>3. ExchangeInv
  BY DEF UplinkInit, ExchangeInv, Guarded
<1> QED BY <1>1, <1>2, <1>3 DEF UplinkInv

LEMMA RestartInv ==
  ASSUME BootInv, RestartRam, born' = born
  PROVE  BootInv' /\ ExchangeInv'
<1>1. BootInv'
  <2>1. /\ boots' = boots + 1 /\ bootFlag' = 1 /\ bootUuid' = None
    BY DEF RestartRam
  <2> QED BY <2>1 DEF BootInv
<1>2. exchanged' = FALSE /\ msg' = None /\ lastSent' = None
  BY DEF RestartRam
<1>3. ExchangeInv'
  BY <1>2, Zenon DEF ExchangeInv, Guarded
<1> QED BY <1>1, <1>3

LEMMA UplinkNextInv == UplinkInv /\ [UplinkNext]_vars => UplinkInv'
<1> SUFFICES ASSUME UplinkInv, [UplinkNext]_vars PROVE UplinkInv'
  OBVIOUS
<1> USE DEF UplinkInv
<1>1. CASE PowerLoss
  <2>1. FilesInv'
    BY <1>1, RestartFiles DEF PowerLoss
  <2> QED BY <1>1, <2>1, RestartInv DEF PowerLoss
<1>2. CASE StartMqttTask \/ SetRtc
  BY <1>2 DEF StartMqttTask, SetRtc, queueVars, senderVars, historyVars,
              FilesInv, BootInv, ExchangeInv
<1>3. CASE GoOnline \/ GoOffline
  BY <1>3 DEF GoOnline, GoOffline, queueVars, bootVars, senderVars,
              historyVars, FilesInv, BootInv, ExchangeInv
<1>4. ASSUME NEW u \in Uuid, CreateConfigurationData(u)
      PROVE  UplinkInv'
  <2>1. Request \in FileId /\ ~Fault(u)
    BY <1>4, RequestIsFile
       DEF CreateConfigurationData, Fault, ConfigurationData, FaultInformation
  <2>2. PICK t \in Stamp, how \in {"saved", "evicted only", "lost"} :
           file' = CASE how = "saved" ->
                           Saved(Request, [uuid |-> u, time |-> t])
                     [] how = "evicted only" ->
                           [file EXCEPT ![Request] = Room(Request)]
                     [] how = "lost" -> file
    BY <1>4 DEF CreateConfigurationData
  <2>3. \/ file' = Saved(Request, [uuid |-> u, time |-> t])
        \/ file' = [file EXCEPT ![Request] = Room(Request)]
        \/ file' = file
    BY <2>2
  <2>4. FilesInv'
    <3>1. CASE file' = Saved(Request, [uuid |-> u, time |-> t])
      BY <2>1, <3>1, SavedKeeps, Zenon DEF FilesInv
    <3>2. CASE file' = [file EXCEPT ![Request] = Room(Request)]
      BY <2>1, <3>2, RoomOnlyKeeps, Zenon DEF FilesInv
    <3>3. CASE file' = file
      BY <3>3 DEF FilesInv
    <3> QED BY <2>3, <3>1, <3>2, <3>3
  <2>5. /\ named' = TRUE
        /\ bootUuid' = IF bootFlag = 3 THEN u ELSE bootUuid
        /\ bootFlag' = 0
        /\ born' = [born EXCEPT ![u] = boots]
        /\ born[u] = 0
        /\ UNCHANGED <<exchanged, msg, lastSent, accepted, boots>>
    BY <1>4 DEF CreateConfigurationData, Born, Fresh, senderVars
  <2>6. BootInv'
    BY <2>5 DEF BootInv
  <2>7. ExchangeInv'
    <3>1. /\ exchanged' = exchanged /\ msg' = msg
          /\ lastSent' = lastSent /\ accepted' = accepted
      BY <2>5
    <3>2. CASE bootFlag = 3
      <4>1. bootFlag # 0
        BY <3>2, ThreeIsNotZero, Zenon
      <4>3. bootUuid = None
        BY <4>1, Zenon DEF BootInv
      <4>2. ~exchanged
        BY <4>3, Zenon DEF ExchangeInv
      <4> QED BY <3>1, <4>2, Zenon DEF ExchangeInv, Guarded
    <3>3. CASE bootFlag # 3
      <4>1. bootUuid' = bootUuid
        BY <2>5, <3>3
      <4> QED BY <3>1, <4>1, Zenon DEF ExchangeInv, Guarded
    <3> QED BY <3>2, <3>3
  <2> QED BY <2>4, <2>6, <2>7
<1>5. ASSUME NEW u \in Uuid, NEW f \in FileId, f = Request => ~Fault(u),
             Born(u), TrySave(f, u), UNCHANGED <<ramVars, sends, accepted, boots>>
      PROVE  UplinkInv'
  <2>1. FilesInv' /\ named' = named
    BY <1>5, TrySaveKeeps
  <2>2. /\ born' = [born EXCEPT ![u] = boots]
        /\ born[u] = 0
        /\ UNCHANGED <<exchanged, msg, lastSent, accepted, boots, bootUuid,
                       bootFlag>>
    BY <1>5 DEF Born, Fresh, ramVars, bootVars, senderVars
  <2>3. BootInv'
    BY <2>1, <2>2 DEF BootInv
  <2>4. ExchangeInv'
    BY <2>2 DEF ExchangeInv, Guarded
  <2> QED BY <2>1, <2>3, <2>4
<1>6. ASSUME NEW u \in Uuid, CreateChargingSession(u) \/ CreatePeriodicData(u)
      PROVE  UplinkInv'
  <2>1. ~Fault(u)
    BY <1>6 DEF CreateChargingSession, CreatePeriodicData, Fault,
                ChargingSession, PeriodicData, FaultInformation
  <2>2. Born(u) /\ TrySave(Request, u) /\ UNCHANGED <<ramVars, sends, accepted, boots>>
    BY <1>6, Zenon DEF CreateChargingSession, CreatePeriodicData
  <2> QED BY <1>5, <2>1, <2>2, RequestIsFile
<1>7. ASSUME NEW u \in Uuid, NEW f \in FaultFiles, CreateFaultLog(u, f)
      PROVE  UplinkInv'
  <2>1. f \in FileId /\ f # Request
    BY DEF FaultFiles
  <2>2. Born(u) /\ TrySave(f, u) /\ UNCHANGED <<ramVars, sends, accepted, boots>>
    BY <1>7, Zenon DEF CreateFaultLog
  <2> QED BY <1>5, <2>1, <2>2
<1>8. CASE ConfigurationChanges \/ SkipMessage \/ PublishFails
           \/ RetryIntervalElapses
  BY <1>8 DEF ConfigurationChanges, SkipMessage, PublishFails,
              RetryIntervalElapses, queueVars, bootVars, senderVars,
              historyVars, FilesInv, BootInv, ExchangeInv, Guarded
<1>9. CASE ReadQueuedMessage
  <2>1. FilesInv' /\ BootInv'
    BY <1>9 DEF ReadQueuedMessage, queueVars, bootVars, historyVars, FilesInv,
                BootInv
  <2>2. CASE exchanged
    <3>1. UNCHANGED <<exchanged, bootUuid, accepted, lastSent>>
      BY <1>9 DEF ReadQueuedMessage, historyVars, bootVars
    <3> QED BY <2>1, <2>2, <3>1, Zenon DEF ExchangeInv, Guarded
  <2>3. CASE ~exchanged
    <3>1. /\ HasRequest
          /\ msg' = file[Request][1].uuid
          /\ UNCHANGED <<exchanged, bootUuid, accepted, lastSent>>
      BY <1>9, <2>3, Zenon DEF ReadQueuedMessage, historyVars, bootVars
    <3>2. file[Request] # <<>> /\ Action[msg'] # ChargingSession
      BY <2>3, <3>1 DEF HasRequest
    <3>3. file[Request][1] \in RequestEntry
      BY <3>2 DEF FilesInv
    <3>4. Action[msg'] # FaultInformation
      BY <3>1, <3>3 DEF RequestEntry, Fault
    <3> QED BY <2>1, <2>3, <3>1, <3>2, <3>4 DEF ExchangeInv, Guarded
  <2> QED BY <2>1, <2>2, <2>3
<1>10. CASE Publish
  <2>1. FilesInv' /\ named' = named
    <3>1. SearchAndDelete(msg) \/ UNCHANGED queueVars
      BY <1>10, Zenon DEF Publish, CountRetry
    <3> QED BY <3>1, SearchAndDeleteFiles DEF queueVars, FilesInv
  <2>2. /\ UNCHANGED <<exchanged, bootUuid, bootFlag, accepted, boots, born>>
        /\ lastSent' = msg /\ msg' = None
    BY <1>10 DEF Publish, bootVars
  <2> QED BY <2>1, <2>2 DEF BootInv, ExchangeInv, Guarded
<1>11. ASSUME NEW u \in Uuid, AcceptConfigurationData(u)
       PROVE  UplinkInv'
  <2>1. FilesInv' /\ named' = named
    BY <1>11, HandleResponseFiles DEF AcceptConfigurationData
  <2>2. /\ exchanged' = (exchanged \/ bootUuid = u)
        /\ accepted' = accepted \cup {u}
        /\ UNCHANGED <<bootUuid, bootFlag, boots, born, msg, lastSent>>
    BY <1>11 DEF AcceptConfigurationData, bootVars, senderVars
  <2>3. u # None
    BY UplinkAssumption
  <2>4. BootInv'
    BY <2>1, <2>2 DEF BootInv
  <2>5. ExchangeInv'
    BY <2>2, <2>3 DEF ExchangeInv, Guarded
  <2> QED BY <2>1, <2>4, <2>5
<1>12. ASSUME FilesInv', named' = named, accepted \subseteq accepted',
              UNCHANGED <<ramVars, born, boots>>
       PROVE  UplinkInv'
  <2>1. UNCHANGED <<exchanged, bootUuid, bootFlag, boots, born, msg, lastSent>>
    BY <1>12 DEF ramVars, bootVars, senderVars
  <2> QED BY <1>12, <2>1 DEF BootInv, ExchangeInv, Guarded
<1>13. ASSUME NEW u \in Uuid,
              AcceptChargingSession(u) \/ \E v \in BOOLEAN : AnswerPeriodicData(u, v)
       PROVE  UplinkInv'
  <2>1. FilesInv' /\ named' = named
    BY <1>13, HandleResponseFiles
       DEF AcceptChargingSession, AnswerPeriodicData
  <2>2. accepted \subseteq accepted' /\ UNCHANGED <<ramVars, born, boots>>
    BY <1>13 DEF AcceptChargingSession, AnswerPeriodicData
  <2> QED BY <1>12, <2>1, <2>2
<1>14. ASSUME NEW u \in Uuid, AcceptFaultInformation(u)
       PROVE  UplinkInv'
  <2>1. file' = WithoutFault(u) /\ named' = named
    BY <1>14 DEF AcceptFaultInformation, HandleFaultResponse
  <2>2. accepted \subseteq accepted' /\ UNCHANGED <<ramVars, born, boots>>
    BY <1>14 DEF AcceptFaultInformation
  <2> QED BY <1>12, <2>1, <2>2, FaultRewriteFiles
<1>15. ASSUME NEW u \in Uuid, AcceptFaultRestarts(u)
       PROVE  UplinkInv'
  <2>1. FilesInv'
    BY <1>15, FaultRewriteFiles DEF AcceptFaultRestarts, FaultResponseRestarts
  <2> QED BY <1>15, <2>1, RestartInv DEF AcceptFaultRestarts
<1>16. CASE UNCHANGED vars
  BY <1>16 DEF vars, queueVars, ramVars, bootVars, senderVars, historyVars,
               FilesInv, BootInv, ExchangeInv, Guarded
<1> QED
  BY <1>1, <1>2, <1>3, <1>4, <1>6, <1>7, <1>8, <1>9, <1>10, <1>11, <1>13,
     <1>14, <1>15, <1>16, Zenon DEF UplinkNext

\* What the two theorems below rest on: files, boot and exchange stay in step
\* through every step of the three tasks, every answer and every restart.
THEOREM UplinkInvariant == UplinkSpec => []UplinkInv
BY UplinkInitInv, UplinkNextInv, PTL DEF UplinkSpec

\* No session and no fault is published in a boot before the server accepted
\* the configuration message created in that boot
\* (process_configurationData_payload and the guards of the main loop).
THEOREM ExchangeComesFirst == UplinkSpec => []ConfigurationFirst
<1>1. UplinkInv => ConfigurationFirst
  BY DEF UplinkInv, BootInv, ExchangeInv, Guarded, ConfigurationFirst
<1> QED BY <1>1, UplinkInvariant, PTL

\* get_queued_fault_messages never reads names that are not there.
THEOREM NamesAreThere == UplinkSpec => []NamedWhenExchanged
<1>1. UplinkInv => NamedWhenExchanged
  BY DEF UplinkInv, BootInv, ExchangeInv, NamedWhenExchanged
<1> QED BY <1>1, UplinkInvariant, PTL

-----------------------------------------------------------------------------
(* The queue within the uplink *)

\* Faults are in the fault logs, everything else in the request file.
PlacedInv == \A f \in FileId, u \in Uuid :
                 Holds(file[f], u) => (Fault(u) <=> f # Request)

\* What waits was created.
KnownInv == \A u \in Uuid : Queued(u) => ~Fresh(u)

LEMMA AddingKeeps ==
  ASSUME PlacedInv, KnownInv, NEW f \in FileId, NEW u \in Uuid,
         Fault(u) <=> f # Request,
         born'[u] # 0, \A v \in Uuid : v # u => born'[v] = born[v],
         \A g \in FileId, v \in Uuid :
             Holds(file'[g], v) => Holds(file[g], v) \/ (g = f /\ v = u)
  PROVE  PlacedInv' /\ KnownInv'
<1>1. PlacedInv'
  BY DEF PlacedInv, Fault
<1>2. KnownInv'
  BY DEF KnownInv, Queued, Fresh
<1> QED BY <1>1, <1>2

LEMMA ThinningKeeps ==
  ASSUME PlacedInv, KnownInv, born' = born,
         \A f \in FileId : Thinner(file'[f], file[f])
  PROVE  PlacedInv' /\ KnownInv'
<1>1. \A f \in FileId : \A v : Holds(file'[f], v) => Holds(file[f], v)
  BY Zenon DEF Thinner
<1>2. PlacedInv'
  BY <1>1, Zenon DEF PlacedInv, Fault
<1>3. KnownInv'
  BY <1>1, Zenon DEF KnownInv, Queued, Fresh
<1> QED BY <1>2, <1>3

\* What a step that stores a message does to those that wait: the message may
\* be among them, and at most one is not any more.
Stores(f, u) ==
    /\ \A g \in FileId, v \in Uuid :
           Holds(file'[g], v) => Holds(file[g], v) \/ (g = f /\ v = u)
    /\ \E old : \A v \in Uuid : Queued(v) => Queued(v)' \/ v = old

LEMMA SavedStores ==
  ASSUME TypeOK, NEW f \in FileId, NEW e \in Entry, file' = Saved(f, e)
  PROVE  Stores(f, e.uuid)
<1>1. file \in [FileId -> Seq(Entry)] /\ file[f] \in Seq(Entry)
  BY DEF TypeOK
<1>2. Room(f) \in Seq(Entry)
  BY <1>1, RemoveOldestType, Zenon DEF Room
<1>3. /\ file'[f] = Append(Room(f), e)
      /\ \A g \in FileId : g # f => file'[g] = file[g]
  BY <1>1 DEF Saved
<1>4. \A v : Holds(file'[f], v) <=> Holds(Room(f), v) \/ v = e.uuid
  BY <1>2, <1>3, AppendHolds
<1>5. PICK old : \A v : Holds(file[f], v) => Holds(Room(f), v) \/ v = old
  BY <1>1, RoomTakesOut
<1>6. \A v : Holds(Room(f), v) => Holds(file[f], v)
  BY <1>1, RoomTakesOut, Zenon DEF Thinner
<1>7. \A v \in Uuid : Queued(v) => Queued(v)' \/ v = old
  BY <1>3, <1>4, <1>5, Zenon DEF Queued
<1> QED BY <1>3, <1>4, <1>6, <1>7, Zenon DEF Stores

LEMMA RoomStores ==
  ASSUME TypeOK, NEW f \in FileId, NEW u, file' = [file EXCEPT ![f] = Room(f)]
  PROVE  Stores(f, u)
<1>1. file \in [FileId -> Seq(Entry)] /\ file[f] \in Seq(Entry)
  BY DEF TypeOK
<1>3. /\ file'[f] = Room(f)
      /\ \A g \in FileId : g # f => file'[g] = file[g]
  BY <1>1
<1>5. PICK old : \A v : Holds(file[f], v) => Holds(Room(f), v) \/ v = old
  BY <1>1, RoomTakesOut
<1>6. \A v : Holds(Room(f), v) => Holds(file[f], v)
  BY <1>1, RoomTakesOut, Zenon DEF Thinner
<1>7. \A v \in Uuid : Queued(v) => Queued(v)' \/ v = old
  BY <1>3, <1>5, Zenon DEF Queued
<1> QED BY <1>3, <1>6, <1>7, Zenon DEF Stores

LEMMA SameStores ==
  ASSUME NEW f, NEW u, file' = file
  PROVE  Stores(f, u)
BY Zenon DEF Stores, Queued

LEMMA TrySaveStores ==
  ASSUME TypeOK, NEW f \in FileId, NEW u \in Uuid, TrySave(f, u)
  PROVE  Stores(f, u)
<1>1. ASSUME NEW t \in Stamp, Save(f, [uuid |-> u, time |-> t])
      PROVE  Stores(f, u)
  <2> DEFINE e == [uuid |-> u, time |-> t]
  <2>1. e \in Entry /\ e.uuid = u
    BY DEF Entry
  <2>2. file' = Saved(f, e)
    BY <1>1 DEF Save
  <2> HIDE DEF e
  <2> QED BY <2>1, <2>2, SavedStores
<1>2. CASE SaveEvictsOnly(f)
  BY <1>2, RoomStores DEF SaveEvictsOnly
<1>3. CASE UNCHANGED queueVars
  BY <1>3, SameStores DEF queueVars
<1> QED BY <1>1, <1>2, <1>3, Zenon DEF TrySave

LEMMA TrySaveIsQueueStep ==
  ASSUME NEW f \in FileId, NEW u \in Uuid, ~Queued(u), TrySave(f, u)
  PROVE  [Next]_queueVars
<1>1. ASSUME NEW t \in Stamp, Save(f, [uuid |-> u, time |-> t])
      PROVE  Next
  <2> DEFINE e == [uuid |-> u, time |-> t]
  <2>1. e \in Entry /\ e.uuid = u
    BY DEF Entry
  <2> HIDE DEF e
  <2>2. ~Queued(e.uuid)
    BY <2>1
  <2>3. Save(f, e)
    BY <1>1 DEF e
  <2> QED BY <2>1, <2>2, <2>3, Zenon DEF Next
<1>2. SaveEvictsOnly(f) => Next
  BY Zenon DEF Next
<1> QED BY <1>1, <1>2, Zenon DEF TrySave

-----------------------------------------------------------------------------
(* The configuration message is stored and the files are counted in one step *)

LEMMA ConfigurationSaves ==
  ASSUME NEW u \in Uuid, CreateConfigurationData(u)
  PROVE  \E e \in Entry, en \in {SavedEntries(Request), entries,
                               [entries EXCEPT ![Request] = Byte(Count(Request))]} :
            /\ e.uuid = u
            /\ \/ file' = Saved(Request, e) /\ en = SavedEntries(Request)
               \/ /\ file' = [file EXCEPT ![Request] = Room(Request)]
                  /\ en = [entries EXCEPT ![Request] = Byte(Count(Request))]
               \/ file' = file /\ en = entries
            /\ entries' = CountConnectors(file', en)
            /\ named' = TRUE
<1>1. PICK t \in Stamp, how \in {"saved", "evicted only", "lost"} :
         /\ file' = CASE how = "saved" ->
                           Saved(Request, [uuid |-> u, time |-> t])
                     [] how = "evicted only" ->
                           [file EXCEPT ![Request] = Room(Request)]
                     [] how = "lost" -> file
         /\ entries' = CountConnectors(file',
                           CASE how = "saved" -> SavedEntries(Request)
                             [] how = "evicted only" ->
                                  [entries EXCEPT
                                       ![Request] = Byte(Count(Request))]
                             [] how = "lost" -> entries)
  BY Zenon DEF CreateConfigurationData
<1> DEFINE e == [uuid |-> u, time |-> t]
<1>2. e \in Entry /\ e.uuid = u
  BY DEF Entry
<1> HIDE DEF e
<1>3. named' = TRUE
  BY DEF CreateConfigurationData
<1>4. CASE how = "saved"
  <2>1. file' = Saved(Request, e) /\ entries' = CountConnectors(file', SavedEntries(Request))
    BY <1>1, <1>4 DEF e
  <2> QED BY <1>2, <1>3, <2>1
<1>5. CASE how = "evicted only"
  <2>1. /\ file' = [file EXCEPT ![Request] = Room(Request)]
        /\ entries' = CountConnectors(file',
                          [entries EXCEPT ![Request] = Byte(Count(Request))])
    BY <1>1, <1>5
  <2> QED BY <1>2, <1>3, <2>1
<1>6. CASE how = "lost"
  <2>1. file' = file /\ entries' = CountConnectors(file', entries)
    BY <1>1, <1>6
  <2> QED BY <1>2, <1>3, <2>1
<1> QED BY <1>1, <1>4, <1>5, <1>6

LEMMA ConfigurationKeepsQueue ==
  ASSUME QueueInv, NEW u \in Uuid, CreateConfigurationData(u)
  PROVE  QueueInv'
<1>1. PICK e \in Entry, en \in {SavedEntries(Request), entries,
                               [entries EXCEPT ![Request] = Byte(Count(Request))]} :
            /\ e.uuid = u
            /\ \/ file' = Saved(Request, e) /\ en = SavedEntries(Request)
               \/ /\ file' = [file EXCEPT ![Request] = Room(Request)]
                  /\ en = [entries EXCEPT ![Request] = Byte(Count(Request))]
               \/ file' = file /\ en = entries
            /\ entries' = CountConnectors(file', en)
            /\ named' = TRUE
  BY ConfigurationSaves
<1>2. /\ file \in [FileId -> Seq(Entry)]
      /\ entries \in [FileId -> 0 .. 255]
  BY DEF QueueInv, TypeOK
<1>3. Request \in FileId /\ Request \notin Connector /\ Usable(Request)
  BY RequestIsFile DEF Request, Connector, Usable
<1>4. /\ Room(Request) \in Seq(Entry)
      /\ Len(Room(Request)) \in Nat
      /\ Count(Request) \in Nat
      /\ Len(Room(Request)) <= Count(Request)
      /\ Count(Request) + 1 <= Limit(Request)
      /\ Limit(Request) \in 1 .. 255
  BY <1>3, RoomFacts, LimitRange, Zenon
<1>5. /\ Append(Room(Request), e) \in Seq(Entry)
      /\ Len(Append(Room(Request), e)) = Len(Room(Request)) + 1
  BY <1>4, AppendProperties, Zenon
<1>6. /\ Byte(Count(Request) + 1) = Count(Request) + 1
      /\ Byte(Count(Request) + 1) \in 0 .. 255
      /\ Byte(Count(Request)) = Count(Request)
      /\ Byte(Count(Request)) \in 0 .. 255
      /\ Len(Room(Request)) + 1 <= Count(Request) + 1
      /\ Len(Room(Request)) + 1 <= Limit(Request)
      /\ Len(Room(Request)) <= Limit(Request)
  BY <1>4, SavedArith, Zenon
<1>7. /\ entries' = [f \in FileId |-> entries'[f]]
      /\ file' = [f \in FileId |-> file'[f]]
  BY <1>1, <1>2 DEF CountConnectors, Saved
<1>8. entries'[Request] = en[Request]
  BY <1>1, <1>3 DEF CountConnectors
<1>9. FileOK(Request)'
  <2>1. CASE file' = Saved(Request, e) /\ en = SavedEntries(Request)
    <3>1. /\ file'[Request] = Append(Room(Request), e)
          /\ entries'[Request] = Byte(Count(Request) + 1)
      BY <1>2, <1>3, <1>8, <2>1 DEF Saved, SavedEntries
    <3> QED BY <1>5, <1>6, <3>1, Zenon DEF FileOK
  <2>2. CASE /\ file' = [file EXCEPT ![Request] = Room(Request)]
             /\ en = [entries EXCEPT ![Request] = Byte(Count(Request))]
    <3>1. /\ file'[Request] = Room(Request)
          /\ entries'[Request] = Byte(Count(Request))
      BY <1>2, <1>3, <1>8, <2>2
    <3> QED BY <1>4, <1>6, <3>1, Zenon DEF FileOK
  <2>3. CASE file' = file /\ en = entries
    <3>1. file'[Request] = file[Request] /\ entries'[Request] = entries[Request]
      BY <1>8, <2>3
    <3>2. Counted(Request)
      BY <1>3 DEF Counted
    <3> QED BY <1>3, <3>1, <3>2, FileByFile, Zenon DEF FileOK
  <2> QED BY <1>1, <2>1, <2>2, <2>3
<1>10. ASSUME NEW f \in FileId, f # Request PROVE FileOK(f)'
  <2>1. file'[f] = file[f]
    BY <1>1, <1>2, <1>10 DEF Saved
  <2>2. en[f] = entries[f]
    BY <1>1, <1>2, <1>10 DEF SavedEntries
  <2>3. CASE f \in Connector
    <3>1. entries'[f] = Byte(Len(file[f]))
      BY <1>1, <2>1, <2>3 DEF CountConnectors
    <3>2. /\ file[f] \in Seq(Entry) /\ Len(file[f]) \in 0 .. 255
          /\ Len(file[f]) <= Limit(f)
      BY FileFacts, FileByFile DEF FileOK
    <3>3. entries'[f] = Len(file[f])
      BY <3>1, <3>2, ByteIdentity, Zenon
    <3>4. Len(file[f]) <= Len(file[f])
      BY <3>2
    <3> QED BY <2>1, <3>2, <3>3, <3>4, Zenon DEF FileOK
  <2>4. CASE f \notin Connector
    <3>1. entries'[f] = entries[f]
      BY <1>1, <2>2, <2>4 DEF CountConnectors
    <3>2. Counted(f)
      BY <2>4, Zenon DEF Counted
    <3> QED BY <2>1, <3>1, <3>2, FileByFile, Zenon DEF FileOK
  <2> QED BY <2>3, <2>4
<1>11. \A f \in FileId : FileOK(f)'
  BY <1>9, <1>10
<1>12. named' \in BOOLEAN
  BY <1>1
<1> QED BY <1>7, <1>11, <1>12, AllFiles, Zenon

LEMMA ConfigurationKeepsSingle ==
  ASSUME TypeOK, SingleInv, NEW u \in Uuid, ~Queued(u), CreateConfigurationData(u)
  PROVE  SingleInv' /\ Stores(Request, u)
<1>1. PICK e \in Entry : /\ e.uuid = u
                         /\ \/ file' = Saved(Request, e)
                            \/ file' = [file EXCEPT ![Request] = Room(Request)]
                            \/ file' = file
  BY ConfigurationSaves
<1>2. Request \in FileId /\ file \in [FileId -> Seq(Entry)]
  BY RequestIsFile DEF TypeOK
<1>3. CASE file' = Saved(Request, e)
  BY <1>1, <1>2, <1>3, SavedKeepsSingle, SavedStores
<1>4. CASE file' = [file EXCEPT ![Request] = Room(Request)]
  <2>1. Thinner(Room(Request), file[Request])
    BY <1>2, RoomTakesOut
  <2>2. \A f \in FileId : file'[f] = IF f = Request THEN Room(f) ELSE file[f]
    BY <1>2, <1>4
  <2>3. \A f \in FileId : Thinner(file'[f], file[f])
    BY <2>1, <2>2, Zenon DEF Thinner
  <2> QED BY <1>2, <1>4, <2>3, ThinnerKeepsSingle, RoomStores
<1>5. CASE file' = file
  BY <1>5, SameStores DEF SingleInv, OneFile
<1> QED BY <1>1, <1>3, <1>4, <1>5

-----------------------------------------------------------------------------
(* What is taken out *)

\* u waits no longer, all others as before.
TakesOut(u) == \A v \in Uuid : Queued(v)' <=> Queued(v) /\ v # u

LEMMA WithoutFacts ==
  ASSUME TypeOK, SingleInv, NEW f \in FileId, NEW u \in Uuid
  PROVE  /\ Thinner(Without(file[f], u), file[f])
         /\ \A v \in Uuid : Holds(Without(file[f], u), v)
                              <=> Holds(file[f], v) /\ v # u
<1>1. file[f] \in Seq(Entry) /\ Once(file[f])
  BY DEF TypeOK, SingleInv
<1> QED BY <1>1, WithoutTakesOut, Zenon DEF Thinner

\* If the files in F are rewritten without u and u is in no other file, u is
\* taken out.
LEMMA RewriteTakesOut ==
  ASSUME TypeOK, SingleInv, NEW u \in Uuid, NEW F,
         \A f \in FileId : file'[f] = IF f \in F THEN Without(file[f], u)
                                                 ELSE file[f],
         \A f \in FileId \ F : ~Holds(file[f], u)
  PROVE  /\ \A f \in FileId : Thinner(file'[f], file[f])
         /\ TakesOut(u)
<1>1. ASSUME NEW f \in FileId
      PROVE  /\ Thinner(file'[f], file[f])
             /\ \A v \in Uuid : Holds(file'[f], v) <=> Holds(file[f], v) /\ v # u
  <2>1. CASE f \in F
    BY <2>1, WithoutFacts
  <2>2. CASE f \notin F
    BY <2>2 DEF Thinner
  <2> QED BY <2>1, <2>2
<1>2. TakesOut(u)
  BY <1>1, Zenon DEF TakesOut, Queued
<1> QED BY <1>1, <1>2

LEMMA HandleResponseTakesOut ==
  ASSUME TypeOK, SingleInv, PlacedInv, NEW u \in Uuid, ~Fault(u), HandleResponse(u)
  PROVE  /\ \A f \in FileId : Thinner(file'[f], file[f])
         /\ TakesOut(u)
<1>1. \A f \in FileId : file'[f] = IF f \in {Request} THEN Without(file[f], u)
                                                   ELSE file[f]
  BY DEF HandleResponse, TypeOK
<1>2. \A f \in FileId \ {Request} : ~Holds(file[f], u)
  BY DEF PlacedInv
<1> QED BY <1>1, <1>2, RewriteTakesOut

LEMMA SearchAndDeleteTakesOut ==
  ASSUME TypeOK, SingleInv, NEW u \in Uuid, SearchAndDelete(u)
  PROVE  /\ \A f \in FileId : Thinner(file'[f], file[f])
         /\ TakesOut(u)
<1>1. \A f \in FileId : file'[f] = IF f \in FileId THEN Without(file[f], u)
                                                 ELSE file[f]
  BY DEF SearchAndDelete
<1> QED BY <1>1, RewriteTakesOut

\* The loop over the fault logs comes to the one that holds u: its counter is
\* not zero if it covers the file, and u is in no file before.
LEMMA FaultResponseTakesOut ==
  ASSUME QueueInv, SingleInv, PlacedInv, NEW u \in Uuid, Fault(u), Found(u),
         file' = WithoutFault(u)
  PROVE  /\ \A f \in FileId : Thinner(file'[f], file[f])
         /\ TakesOut(u)
<1> DEFINE F == {f \in FileId : Visited(f, u)}
<1>0. TypeOK
  BY DEF QueueInv
<1>1. \A f \in FileId : file'[f] = IF f \in F THEN Without(file[f], u) ELSE file[f]
  BY DEF WithoutFault
<1>2. PICK f \in FileId : entries[f] > 0 /\ Holds(file[f], u)
  BY DEF Found
<1>3. \A g \in FileId : Holds(file[g], u) => g = f
  BY <1>2, Zenon DEF SingleInv, OneFile
<1>4. f # Request
  BY <1>2 DEF PlacedInv
<1>5. \A g \in 1 .. (f - 1) : g \in FileId /\ g # f
  BY QueueAssumption DEF FileId
<1>6. entries[f] # 0
  BY <1>2
<1>7. Visited(f, u)
  BY <1>3, <1>4, <1>5, <1>6 DEF Visited
<1>8. \A g \in FileId \ F : ~Holds(file[g], u)
  BY <1>3, <1>7
<1> HIDE DEF F
<1> QED BY <1>0, <1>1, <1>8, RewriteTakesOut

-----------------------------------------------------------------------------
(* The types *)

FlagTypes ==
    /\ configData \in BOOLEAN /\ exchanged \in BOOLEAN
    /\ changed \in BOOLEAN /\ online \in BOOLEAN /\ due \in BOOLEAN
    /\ bootUuid \in Uuid \cup {None}
    /\ msg \in Uuid \cup {None}
    /\ lastSent \in Uuid \cup {None}
    /\ accepted \in SUBSET Uuid

NumberTypes ==
    /\ bootFlag \in 0 .. 3
    /\ retry \in 0 .. (RetryLimit - 1)
    /\ critical \in 0 .. (RetryLimit - 1)
    /\ born \in [Uuid -> 0 .. MaxBoots]
    /\ sends \in [Uuid -> 0 .. (RetryLimit + 1)]
    /\ boots \in 1 .. MaxBoots

TypeRest == FlagTypes /\ NumberTypes

LEMMA HeadIsMessage ==
  ASSUME TypeOK, NEW f \in FileId, file[f] # <<>>
  PROVE  file[f][1].uuid \in Uuid
<1>1. file[f] \in Seq(Entry)
  BY DEF TypeOK
<1>2. file[f][1] \in Entry
  BY <1>1
<1> QED BY <1>2 DEF Entry

LEMMA FirstFaultIsMessage ==
  ASSUME TypeOK, HasFault
  PROVE  FirstFault \in Uuid
<1> DEFINE first(f) == /\ file[f] # <<>>
                       /\ \A g \in FaultFiles : g < f => file[g] = <<>>
           T == {f \in FaultFiles : file[f] # <<>>}
<1>1. T \subseteq Nat /\ T # {}
  BY QueueAssumption DEF HasFault, FaultFiles, FileId
<1>2. PICK f \in T : \A g \in T : f <= g
  <2> HIDE DEF T
  <2> QED BY <1>1, LeastElement
<1>3. f \in FaultFiles /\ first(f)
  BY <1>1, <1>2 DEF FaultFiles
<1> DEFINE c == CHOOSE h \in FaultFiles : first(h)
<1>4. c \in FaultFiles /\ first(c)
  BY <1>3, Zenon
<1>5. FirstFault = file[c][1].uuid
  BY Zenon DEF FirstFault
<1>6. c \in FileId /\ file[c] # <<>>
  BY <1>4 DEF FaultFiles
<1> HIDE DEF c
<1> QED BY <1>5, <1>6, HeadIsMessage

LEMMA RestartTypes ==
  ASSUME TypeRest, RestartRam, UNCHANGED <<born, sends>>,
         accepted' \in SUBSET Uuid
  PROVE  TypeRest'
<1>1. boots' \in 1 .. MaxBoots
  BY UplinkAssumption DEF RestartRam, TypeRest, NumberTypes
<1>2. NumberTypes'
  BY <1>1 DEF RestartRam, TypeRest, NumberTypes, RetryLimit
<1>3. FlagTypes'
  BY Zenon DEF RestartRam, FlagTypes
<1> QED BY <1>2, <1>3 DEF TypeRest

LEMMA NextTypes ==
  ASSUME TypeOK, TypeRest, [UplinkNext]_vars
  PROVE  TypeRest'
<1>0. RetryLimit = 3 /\ MaxBoots \in Nat \ {0}
  BY UplinkAssumption DEF RetryLimit
<1>1. CASE PowerLoss
  BY <1>1, RestartTypes DEF PowerLoss, TypeRest, FlagTypes
<1>2. CASE StartMqttTask \/ SetRtc \/ GoOnline \/ GoOffline \/ ConfigurationChanges
           \/ SkipMessage \/ PublishFails \/ RetryIntervalElapses
  <2>1. NumberTypes'
    BY <1>2 DEF StartMqttTask, SetRtc, GoOnline, GoOffline, ConfigurationChanges,
                SkipMessage, PublishFails, RetryIntervalElapses, TypeRest,
                NumberTypes, bootVars, senderVars, historyVars
  <2>2. FlagTypes'
    <3>1. CASE StartMqttTask \/ SetRtc
      BY <3>1, Zenon DEF StartMqttTask, SetRtc, TypeRest, FlagTypes, senderVars,
                         historyVars
    <3>2. CASE GoOnline \/ GoOffline
      BY <3>2, Zenon DEF GoOnline, GoOffline, TypeRest, FlagTypes, bootVars,
                         senderVars, historyVars
    <3>3. CASE ConfigurationChanges
      BY <3>3, Zenon DEF ConfigurationChanges, TypeRest, FlagTypes, bootVars,
                         senderVars, historyVars
    <3>4. CASE SkipMessage \/ PublishFails \/ RetryIntervalElapses
      BY <3>4, Zenon DEF SkipMessage, PublishFails, RetryIntervalElapses, TypeRest,
                         FlagTypes, bootVars, historyVars
    <3> QED BY <1>2, <3>1, <3>2, <3>3, <3>4
  <2> QED BY <2>1, <2>2 DEF TypeRest
<1>3. ASSUME NEW u \in Uuid, Born(u) PROVE born' \in [Uuid -> 0 .. MaxBoots]
  <2>1. boots \in 0 .. MaxBoots
    BY <1>0 DEF TypeRest, NumberTypes
  <2> QED BY <1>3, <2>1 DEF Born, TypeRest, NumberTypes
<1>4. ASSUME NEW u \in Uuid, CreateConfigurationData(u) PROVE TypeRest'
  <2>1. born' \in [Uuid -> 0 .. MaxBoots]
    BY <1>3, <1>4 DEF CreateConfigurationData
  <2>2. /\ bootUuid' \in {u, bootUuid} /\ bootFlag' = 0 /\ configData' = FALSE
        /\ UNCHANGED <<exchanged, changed, online, senderVars, sends, accepted,
                       boots>>
    BY <1>4, Zenon DEF CreateConfigurationData
  <2>3. NumberTypes'
    BY <2>1, <2>2 DEF TypeRest, NumberTypes, senderVars
  <2>4. FlagTypes'
    BY <2>2, Zenon DEF TypeRest, FlagTypes, senderVars
  <2> QED BY <2>3, <2>4 DEF TypeRest
<1>5. ASSUME NEW u \in Uuid, Born(u), UNCHANGED <<ramVars, sends, accepted, boots>>
      PROVE  TypeRest'
  <2>1. born' \in [Uuid -> 0 .. MaxBoots]
    BY <1>3, <1>5
  <2> QED BY <1>5, <2>1 DEF TypeRest, FlagTypes, NumberTypes, ramVars, bootVars,
                            senderVars
<1>6. ASSUME NEW u \in Uuid, CreateChargingSession(u) \/ CreatePeriodicData(u)
      PROVE  TypeRest'
  BY <1>5, <1>6, Zenon DEF CreateChargingSession, CreatePeriodicData
<1>7. ASSUME NEW u \in Uuid, NEW f \in FaultFiles, CreateFaultLog(u, f)
      PROVE  TypeRest'
  BY <1>5, <1>7, Zenon DEF CreateFaultLog
<1>8. CASE ReadQueuedMessage
  <2>1. msg' \in Uuid
    BY <1>8, FirstFaultIsMessage, HeadIsMessage, RequestIsFile
       DEF ReadQueuedMessage, HasRequest
  <2> QED BY <1>8, <2>1 DEF ReadQueuedMessage, TypeRest, FlagTypes, NumberTypes,
                            bootVars, historyVars
<1>9. CASE Publish
  <2>1. msg \in Uuid
    BY <1>9 DEF Publish, TypeRest, FlagTypes
  <2>2. SendCap(msg) \in 0 .. (RetryLimit + 1)
    BY <1>0 DEF SendCap
  <2>3. sends' \in [Uuid -> 0 .. (RetryLimit + 1)]
    <3>1. sends[msg] \in 0 .. (RetryLimit + 1)
      BY <2>1 DEF TypeRest, NumberTypes
    <3>2. (IF sends[msg] < SendCap(msg) THEN sends[msg] + 1 ELSE sends[msg])
              \in 0 .. (RetryLimit + 1)
      BY <1>0, <2>2, <3>1
    <3> QED BY <1>9, <3>2 DEF Publish, TypeRest, NumberTypes
  <2>4. retry' \in 0 .. (RetryLimit - 1) /\ critical' \in 0 .. (RetryLimit - 1)
    <3>1. CountRetry
      BY <1>9 DEF Publish
    <3>2. /\ retry' \in {(retry + 1) % RetryLimit, retry, 0}
          /\ critical' \in {(critical + 1) % RetryLimit, critical}
      BY <3>1, Zenon DEF CountRetry
    <3>3. \A n \in 0 .. (RetryLimit - 1) : (n + 1) % RetryLimit \in 0 .. (RetryLimit - 1)
      BY <1>0
    <3> QED BY <1>0, <3>2, <3>3 DEF TypeRest, NumberTypes
  <2>5. NumberTypes'
    BY <1>9, <2>3, <2>4 DEF Publish, TypeRest, NumberTypes, bootVars
  <2>6. FlagTypes'
    BY <1>9, <2>1, Zenon DEF Publish, TypeRest, FlagTypes, bootVars
  <2> QED BY <2>5, <2>6 DEF TypeRest
<1>10. ASSUME NEW u \in Uuid, AcceptConfigurationData(u) PROVE TypeRest'
  <2>1. exchanged' \in BOOLEAN
    BY <1>10, Zenon DEF AcceptConfigurationData
  <2>2. NumberTypes'
    BY <1>10 DEF AcceptConfigurationData, TypeRest, NumberTypes, bootVars,
                 senderVars
  <2>3. FlagTypes'
    BY <1>10, <2>1 DEF AcceptConfigurationData, TypeRest, FlagTypes, bootVars,
                       senderVars
  <2> QED BY <2>2, <2>3 DEF TypeRest
<1>11. ASSUME NEW u \in Uuid, accepted' \in {accepted, accepted \cup {u}},
              UNCHANGED <<ramVars, born, sends, boots>>
       PROVE  TypeRest'
  BY <1>11 DEF TypeRest, FlagTypes, NumberTypes, ramVars, bootVars, senderVars
<1>12. ASSUME NEW u \in Uuid, AcceptChargingSession(u) \/ AcceptFaultInformation(u)
                              \/ \E v \in BOOLEAN : AnswerPeriodicData(u, v)
       PROVE  TypeRest'
  <2>1. accepted' \in {accepted, accepted \cup {u}}
        /\ UNCHANGED <<ramVars, born, sends, boots>>
    BY <1>12, Zenon DEF AcceptChargingSession, AcceptFaultInformation,
                        AnswerPeriodicData
  <2> QED BY <1>11, <2>1
<1>13. ASSUME NEW u \in Uuid, AcceptFaultRestarts(u) PROVE TypeRest'
  BY <1>13, RestartTypes DEF AcceptFaultRestarts, TypeRest, FlagTypes
<1>14. CASE UNCHANGED vars
  BY <1>14 DEF vars, ramVars, bootVars, senderVars, historyVars, TypeRest,
               FlagTypes, NumberTypes
<1> QED
  BY <1>1, <1>2, <1>4, <1>6, <1>7, <1>8, <1>9, <1>10, <1>12, <1>13, <1>14, Zenon
     DEF UplinkNext

LEMMA InitTypes == UplinkInit => TypeRest
<1>1. UplinkInit => born = [u \in Uuid |-> 0] /\ sends = [u \in Uuid |-> 0]
  BY DEF UplinkInit
<1>2. UplinkInit => NumberTypes
  BY <1>1, UplinkAssumption DEF UplinkInit, NumberTypes, RetryLimit
<1>3. UplinkInit => FlagTypes
  BY Zenon DEF UplinkInit, FlagTypes
<1> QED BY <1>2, <1>3 DEF TypeRest

-----------------------------------------------------------------------------
(* The steps of Delivery *)

CreateAs(u) == \E f \in FileId : /\ Fresh(u)
                                 /\ born' = [born EXCEPT ![u] = boots]
                                 /\ Stores(f, u)
                                 /\ UNCHANGED <<accepted, boots>>

LEMMA CreateMaps ==
  ASSUME TypeRest, NEW u \in Uuid, CreateAs(u)
  PROVE  D!Create(u)
<1>1. born \in [Uuid -> Nat] /\ boots # 0
  BY DEF TypeRest, NumberTypes
<1>2. {v \in Uuid : ~Fresh(v)}' = {v \in Uuid : ~Fresh(v)} \cup {u}
  BY <1>1 DEF CreateAs, Fresh
<1>3. PICK f \in FileId : Stores(f, u)
  BY DEF CreateAs
<1> DEFINE old == {v \in Uuid : Queued(v) /\ ~Queued(v)'}
<1>4. \A a, b \in old : a = b
  BY <1>3, Zenon DEF Stores
<1>5. \A v \in Uuid : Queued(v)' => Queued(v) \/ v = u
  BY <1>3, Zenon DEF Stores, Queued
<1>6. {v \in Uuid : Queued(v)}' \in {({v \in Uuid : Queued(v)} \ old) \cup {u},
                                    {v \in Uuid : Queued(v)} \ old}
  <2>1. CASE Queued(u)'
    BY <1>5, <2>1
  <2>2. CASE ~Queued(u)'
    BY <1>5, <2>2
  <2> QED BY <2>1, <2>2
<1>7. old \in SUBSET {v \in Uuid : Queued(v)}
  OBVIOUS
<1>8. u \notin {v \in Uuid : ~Fresh(v)} /\ UNCHANGED <<accepted, boots>>
  BY DEF CreateAs
<1> HIDE DEF old
<1> QED BY <1>2, <1>4, <1>6, <1>7, <1>8 DEF D!Create

LEMMA RestartMaps ==
  ASSUME born' = born, accepted' = accepted, boots' = boots + 1,
         \A f \in FileId : Thinner(file'[f], file[f])
  PROVE  D!Restart
<1>1. \A v \in Uuid : Queued(v)' => Queued(v)
  BY Zenon DEF Queued, Thinner
<1>2. {v \in Uuid : Queued(v)}' \in SUBSET {v \in Uuid : Queued(v)}
  BY <1>1
<1>3. {v \in Uuid : ~Fresh(v)}' = {v \in Uuid : ~Fresh(v)}
  BY DEF Fresh
<1> QED BY <1>2, <1>3 DEF D!Restart

LEMMA AcceptMaps ==
  ASSUME NEW u \in Uuid, ~Fresh(u), TakesOut(u), born' = born,
         accepted' = accepted \cup {u}, boots' \in {boots, boots + 1}
  PROVE  D!Accept(u)
<1>1. {v \in Uuid : Queued(v)}' = {v \in Uuid : Queued(v)} \ {u}
  BY DEF TakesOut
<1>2. {v \in Uuid : ~Fresh(v)}' = {v \in Uuid : ~Fresh(v)}
  BY DEF Fresh
<1> QED BY <1>1, <1>2 DEF D!Accept

LEMMA GiveUpMaps ==
  ASSUME NEW u \in Uuid, u \notin Critical, TakesOut(u),
         UNCHANGED <<born, accepted, boots>>
  PROVE  D!GiveUp(u)
<1>1. {v \in Uuid : Queued(v)}' = {v \in Uuid : Queued(v)} \ {u}
  BY DEF TakesOut
<1>2. {v \in Uuid : ~Fresh(v)}' = {v \in Uuid : ~Fresh(v)}
  BY DEF Fresh
<1> QED BY <1>1, <1>2 DEF D!GiveUp

LEMMA StutterMaps ==
  ASSUME UNCHANGED <<file, born, accepted, boots>>
  PROVE  UNCHANGED D!deliveryVars
BY DEF D!deliveryVars, Queued, Fresh

-----------------------------------------------------------------------------
(* Every step of the uplink *)

ComposedInv == QueueInv /\ SingleInv /\ PlacedInv /\ KnownInv /\ TypeRest
StepGoal == /\ QueueInv' /\ SingleInv' /\ PlacedInv' /\ KnownInv'
            /\ [D!Next]_(D!deliveryVars)

LEMMA SilentStep ==
  ASSUME ComposedInv, UNCHANGED <<queueVars, born, accepted, boots>>
  PROVE  StepGoal
<1>1. QueueInv'
  BY NextKeeps DEF ComposedInv
<1>2. SingleInv'
  BY NextKeepsSingle DEF ComposedInv
<1>3. PlacedInv' /\ KnownInv'
  BY DEF ComposedInv, PlacedInv, KnownInv, queueVars, Fault, Queued, Fresh
<1>4. UNCHANGED D!deliveryVars
  BY StutterMaps DEF queueVars
<1> QED BY <1>1, <1>2, <1>3, <1>4 DEF StepGoal

LEMMA CreateStep ==
  ASSUME ComposedInv, NEW u \in Uuid, NEW f \in FileId, Fault(u) <=> f # Request,
         Born(u), Stores(f, u), UNCHANGED <<accepted, boots>>,
         QueueInv', SingleInv'
  PROVE  StepGoal
<1>1. /\ Fresh(u) /\ born' = [born EXCEPT ![u] = boots]
      /\ born \in [Uuid -> Nat] /\ boots # 0
  BY DEF Born, ComposedInv, TypeRest, NumberTypes
<1>2. born'[u] # 0 /\ \A v \in Uuid : v # u => born'[v] = born[v]
  BY <1>1
<1>3. \A g \in FileId, v \in Uuid :
          Holds(file'[g], v) => Holds(file[g], v) \/ (g = f /\ v = u)
  BY DEF Stores
<1>4. PlacedInv' /\ KnownInv'
  BY <1>2, <1>3, AddingKeeps DEF ComposedInv
<1>5. D!Create(u)
  BY <1>1, CreateMaps DEF CreateAs, ComposedInv
<1> QED BY <1>4, <1>5 DEF StepGoal, D!Next

LEMMA SaveStep ==
  ASSUME ComposedInv, NEW u \in Uuid, NEW f \in FileId, Fault(u) <=> f # Request,
         Born(u), TrySave(f, u), UNCHANGED <<accepted, boots>>
  PROVE  StepGoal
<1>1. Fresh(u) /\ ~Queued(u)
  BY DEF Born, ComposedInv, KnownInv
<1>2. [Next]_queueVars
  BY <1>1, TrySaveIsQueueStep
<1>3. QueueInv' /\ SingleInv'
  BY <1>2, NextKeeps, NextKeepsSingle DEF ComposedInv
<1>4. Stores(f, u)
  BY TrySaveStores DEF ComposedInv, QueueInv
<1> QED BY <1>3, <1>4, CreateStep

LEMMA ConfigurationStep ==
  ASSUME ComposedInv, NEW u \in Uuid, CreateConfigurationData(u)
  PROVE  StepGoal
<1>1. Born(u) /\ UNCHANGED <<accepted, boots>>
  BY DEF CreateConfigurationData
<1>2. ~Fault(u)
  BY DEF CreateConfigurationData, Fault, ConfigurationData, FaultInformation
<1>3. ~Queued(u)
  BY <1>1 DEF Born, ComposedInv, KnownInv
<1>4. QueueInv' /\ SingleInv' /\ Stores(Request, u)
  BY <1>3, ConfigurationKeepsQueue, ConfigurationKeepsSingle
     DEF ComposedInv, QueueInv
<1> QED BY <1>1, <1>2, <1>4, CreateStep, RequestIsFile

\* A step that only takes out.
LEMMA ThinStep ==
  ASSUME ComposedInv, Next, \A f \in FileId : Thinner(file'[f], file[f]),
         born' = born
  PROVE  QueueInv' /\ SingleInv' /\ PlacedInv' /\ KnownInv'
BY NextKeeps, NextKeepsSingle, ThinningKeeps DEF ComposedInv

LEMMA PowerLossStep ==
  ASSUME ComposedInv, PowerLoss
  PROVE  StepGoal
<1>1. Next
  BY DEF PowerLoss, Next
<1>2. UNCHANGED <<born, accepted>> /\ boots' = boots + 1
  BY DEF PowerLoss, RestartRam
<1>3. \A f \in FileId : file'[f] \in {file[f], <<>>}
  BY DEF PowerLoss, Reboot, RebootInRewrite, ComposedInv, QueueInv, TypeOK
<1>4. \A s : Thinner(s, s) /\ Thinner(<<>>, s)
  BY EmptySeq DEF Thinner, Once, Holds
<1>5. \A f \in FileId : Thinner(file'[f], file[f])
  BY <1>3, <1>4
<1>6. D!Restart
  BY <1>2, <1>5, RestartMaps
<1> QED BY <1>1, <1>2, <1>5, <1>6, ThinStep DEF StepGoal, D!Next

LEMMA PublishStep ==
  ASSUME ComposedInv, Publish
  PROVE  StepGoal
<1>1. UNCHANGED <<born, accepted, boots>> /\ msg # None /\ CountRetry
  BY DEF Publish
<1>2. msg \in Uuid
  BY <1>1 DEF ComposedInv, TypeRest, FlagTypes
<1>3. UNCHANGED queueVars \/ (msg \notin Critical /\ SearchAndDelete(msg))
  BY <1>1, Zenon DEF CountRetry
<1>4. CASE UNCHANGED queueVars
  BY <1>1, <1>4, SilentStep
<1>5. CASE msg \notin Critical /\ SearchAndDelete(msg)
  <2>1. Next
    BY <1>2, <1>5, Zenon DEF Next
  <2>2. /\ \A f \in FileId : Thinner(file'[f], file[f])
        /\ TakesOut(msg)
    BY <1>2, <1>5, SearchAndDeleteTakesOut DEF ComposedInv, QueueInv
  <2>3. D!GiveUp(msg)
    BY <1>1, <1>2, <1>5, <2>2, GiveUpMaps
  <2> QED BY <1>1, <1>2, <2>1, <2>2, <2>3, ThinStep DEF StepGoal, D!Next
<1> QED BY <1>3, <1>4, <1>5

\* What can be answered was created.
LEMMA AnswerableIsKnown ==
  ASSUME ComposedInv, NEW u \in Uuid, Answerable(u)
  PROVE  ~Fresh(u) /\ Found(u)
BY DEF ComposedInv, KnownInv, Answerable, Found, Queued

LEMMA ResponseStep ==
  ASSUME ComposedInv, NEW u \in Uuid, ~Fault(u), Answerable(u), HandleResponse(u),
         UNCHANGED <<born, boots>>, accepted' = accepted \cup {u}
  PROVE  StepGoal
<1>1. Next
  BY DEF Next
<1>2. /\ \A f \in FileId : Thinner(file'[f], file[f])
      /\ TakesOut(u)
  BY HandleResponseTakesOut DEF ComposedInv, QueueInv
<1>3. D!Accept(u)
  BY <1>2, AcceptMaps, AnswerableIsKnown
<1> QED BY <1>1, <1>2, <1>3, ThinStep DEF StepGoal, D!Next

LEMMA PeriodicStep ==
  ASSUME ComposedInv, NEW u \in Uuid, NEW valid \in BOOLEAN,
         AnswerPeriodicData(u, valid)
  PROVE  StepGoal
<1>1. /\ ~Fault(u) /\ u \notin Critical
      /\ Answerable(u) /\ HandleResponse(u) /\ UNCHANGED <<born, boots>>
      /\ accepted' = IF valid THEN accepted \cup {u} ELSE accepted
  BY DEF AnswerPeriodicData, Fault, Critical, PeriodicData, FaultInformation
<1>2. CASE valid
  BY <1>1, <1>2, ResponseStep
<1>3. CASE ~valid
  <2>1. Next
    BY <1>1 DEF Next
  <2>2. /\ \A f \in FileId : Thinner(file'[f], file[f])
        /\ TakesOut(u)
    BY <1>1, HandleResponseTakesOut DEF ComposedInv, QueueInv
  <2>3. D!GiveUp(u)
    BY <1>1, <1>3, <2>2, GiveUpMaps
  <2> QED BY <1>1, <2>1, <2>2, <2>3, ThinStep DEF StepGoal, D!Next
<1> QED BY <1>2, <1>3

LEMMA FaultResponseStep ==
  ASSUME ComposedInv, NEW u \in Uuid,
         AcceptFaultInformation(u) \/ AcceptFaultRestarts(u)
  PROVE  StepGoal
<1>1. /\ Fault(u) /\ Answerable(u) /\ file' = WithoutFault(u)
      /\ born' = born /\ accepted' = accepted \cup {u}
      /\ boots' \in {boots, boots + 1}
  BY DEF AcceptFaultInformation, AcceptFaultRestarts, HandleFaultResponse,
         FaultResponseRestarts, RestartRam
<1>2. Next
  BY DEF AcceptFaultInformation, AcceptFaultRestarts, Next
<1>3. /\ \A f \in FileId : Thinner(file'[f], file[f])
      /\ TakesOut(u)
  BY <1>1, FaultResponseTakesOut, AnswerableIsKnown DEF ComposedInv
<1>4. D!Accept(u)
  BY <1>1, <1>3, AcceptMaps, AnswerableIsKnown
<1> QED BY <1>1, <1>2, <1>3, <1>4, ThinStep DEF StepGoal, D!Next

LEMMA UplinkStep == ComposedInv /\ [UplinkNext]_vars => StepGoal
<1> SUFFICES ASSUME ComposedInv, [UplinkNext]_vars PROVE StepGoal
  OBVIOUS
<1>1. CASE PowerLoss
  BY <1>1, PowerLossStep
<1>2. CASE StartMqttTask \/ SetRtc \/ GoOnline \/ GoOffline \/ ConfigurationChanges
           \/ ReadQueuedMessage \/ SkipMessage \/ PublishFails
           \/ RetryIntervalElapses \/ UNCHANGED vars
  <2>1. UNCHANGED <<queueVars, born, accepted, boots>>
    BY <1>2, Zenon DEF StartMqttTask, SetRtc, GoOnline, GoOffline,
           ConfigurationChanges, ReadQueuedMessage, SkipMessage, PublishFails,
           RetryIntervalElapses, vars, historyVars
  <2> QED BY <2>1, SilentStep
<1>3. ASSUME NEW u \in Uuid, CreateConfigurationData(u) PROVE StepGoal
  BY <1>3, ConfigurationStep
<1>4. ASSUME NEW u \in Uuid, CreateChargingSession(u) \/ CreatePeriodicData(u)
      PROVE  StepGoal
  <2>1. ~Fault(u)
    BY <1>4 DEF CreateChargingSession, CreatePeriodicData, Fault,
                ChargingSession, PeriodicData, FaultInformation
  <2>2. Born(u) /\ TrySave(Request, u) /\ UNCHANGED <<accepted, boots>>
    BY <1>4, Zenon DEF CreateChargingSession, CreatePeriodicData
  <2> QED BY <2>1, <2>2, SaveStep, RequestIsFile
<1>5. ASSUME NEW u \in Uuid, NEW f \in FaultFiles, CreateFaultLog(u, f)
      PROVE  StepGoal
  <2>1. f \in FileId /\ f # Request
    BY DEF FaultFiles
  <2>2. Fault(u) /\ Born(u) /\ TrySave(f, u) /\ UNCHANGED <<accepted, boots>>
    BY <1>5, Zenon DEF CreateFaultLog
  <2> QED BY <2>1, <2>2, SaveStep
<1>6. CASE Publish
  BY <1>6, PublishStep
<1>7. ASSUME NEW u \in Uuid, AcceptConfigurationData(u) \/ AcceptChargingSession(u)
      PROVE  StepGoal
  <2>1. ~Fault(u)
    BY <1>7 DEF AcceptConfigurationData, AcceptChargingSession, Fault,
                ChargingSession, ConfigurationData, FaultInformation
  <2>2. /\ Answerable(u) /\ HandleResponse(u) /\ UNCHANGED <<born, boots>>
        /\ accepted' = accepted \cup {u}
    BY <1>7, Zenon DEF AcceptConfigurationData, AcceptChargingSession
  <2> QED BY <2>1, <2>2, ResponseStep
<1>8. ASSUME NEW u \in Uuid, AcceptFaultInformation(u) \/ AcceptFaultRestarts(u)
      PROVE  StepGoal
  BY <1>8, FaultResponseStep
<1>9. ASSUME NEW u \in Uuid, NEW valid \in BOOLEAN, AnswerPeriodicData(u, valid)
      PROVE  StepGoal
  BY <1>9, PeriodicStep
<1> QED
  BY <1>1, <1>2, <1>3, <1>4, <1>5, <1>6, <1>7, <1>8, <1>9, Zenon DEF UplinkNext

LEMMA ComposedNext == ComposedInv /\ [UplinkNext]_vars => ComposedInv'
<1> SUFFICES ASSUME ComposedInv, [UplinkNext]_vars PROVE ComposedInv'
  OBVIOUS
<1>1. TypeRest'
  BY NextTypes DEF ComposedInv, QueueInv
<1> QED BY <1>1, UplinkStep DEF StepGoal, ComposedInv

LEMMA ComposedInit == UplinkInit => ComposedInv /\ D!Init
<1> SUFFICES ASSUME UplinkInit PROVE ComposedInv /\ D!Init
  OBVIOUS
<1>1. QueueInv /\ TypeRest
  BY InitQueueInv, InitTypes DEF UplinkInit
<1>2. \A u : ~Queued(u)
  BY EmptySeq DEF UplinkInit, Init, Queued, Holds
<1>3. PlacedInv /\ KnownInv /\ SingleInv
  <2>1. \A f \in FileId : \A u : ~Holds(file[f], u)
    BY <1>2 DEF Queued
  <2>2. \A f \in FileId : Once(file[f])
    BY EmptySeq DEF UplinkInit, Init, Once
  <2> QED BY <1>2, <2>1, <2>2 DEF PlacedInv, KnownInv, SingleInv, OneFile
<1>4. \A u \in Uuid : Fresh(u)
  BY DEF UplinkInit, Fresh
<1>5. D!Init
  BY <1>2, <1>4 DEF UplinkInit, D!Init
<1> QED BY <1>1, <1>3, <1>5 DEF ComposedInv

\* Flags and counters keep to their ranges, and the queue under its three callers
\* keeps its types.
THEOREM UplinkTypeSafe == UplinkSpec => []UplinkTypeOK
<1>1. ComposedInv => UplinkTypeOK
  BY DEF ComposedInv, QueueInv, TypeRest, FlagTypes, NumberTypes, UplinkTypeOK
<1> QED BY <1>1, ComposedInit, ComposedNext, PTL DEF UplinkSpec

\* In the composition the counters cover their files, the files keep their
\* limits and no message is there twice.
THEOREM QueueInComposition ==
    UplinkSpec => [](CountersCover /\ WithinLimit /\ NoDuplicate)
<1>1. ComposedInv => CountersCover /\ WithinLimit /\ NoDuplicate
  BY SingleIsNoDuplicate DEF ComposedInv, QueueInv
<1> QED BY <1>1, ComposedInit, ComposedNext, PTL DEF UplinkSpec

\* The uplink implements Delivery: the first state of the one maps to a first
\* state of the other, and every step to a step or a stutter.
THEOREM UplinkDelivers == UplinkSpec => Delivers
<1>1. UplinkInit => D!Init
  BY ComposedInit
<1>2. ComposedInv /\ [UplinkNext]_vars => [D!Next]_(D!deliveryVars)
  BY UplinkStep DEF StepGoal
<1> QED BY <1>1, <1>2, ComposedInit, ComposedNext, PTL
        DEF UplinkSpec, Delivers, D!Spec

-----------------------------------------------------------------------------
(* Giving up *)

\* A message that may be given up was published once more than it was retried.
RetriedInv ==
    lastSent # None /\ lastSent \notin Critical => retry + 1 <= sends[lastSent]

\* What a publication does to the counters, as numbers.
LEMMA PublishCounts ==
  ASSUME TypeRest, RetriedInv, Publish
  PROVE  /\ msg \in Uuid /\ lastSent' = msg
         /\ msg \notin Critical => retry' + 1 <= sends'[msg]
         /\ ~UNCHANGED queueVars => msg \notin Critical /\ RetryLimit < sends'[msg]
<1>1. /\ msg \in Uuid /\ lastSent' = msg /\ RetryLimit = 3
      /\ retry \in 0 .. 2 /\ sends \in [Uuid -> 0 .. 4]
      /\ sends' = [sends EXCEPT ![msg] = IF @ < SendCap(msg) THEN @ + 1 ELSE @]
  BY DEF Publish, TypeRest, FlagTypes, NumberTypes, RetryLimit
<1>2. msg \notin Critical =>
          sends'[msg] = IF sends[msg] < 4 THEN sends[msg] + 1 ELSE sends[msg]
  BY <1>1 DEF SendCap
<1>3. CASE msg = lastSent /\ msg \notin Critical
  <2>1. /\ retry' = (retry + 1) % 3
        /\ retry + 1 < 3 => UNCHANGED queueVars
    <3>1. /\ retry' = (retry + 1) % RetryLimit
          /\ retry + 1 >= RetryLimit \/ UNCHANGED queueVars
      BY <1>3, Zenon DEF Publish, CountRetry
    <3> QED BY <1>1, <3>1
  <2>2. retry + 1 <= sends[msg] /\ sends[msg] \in 0 .. 4
    BY <1>1, <1>3, UplinkAssumption DEF RetriedInv
  <2>3. retry' + 1 <= sends'[msg]
    BY <1>1, <1>2, <1>3, <2>1, <2>2
  <2>4. ~UNCHANGED queueVars => 3 < sends'[msg]
    BY <1>1, <1>2, <1>3, <2>1, <2>2
  <2> QED BY <1>1, <1>3, <2>3, <2>4
<1>4. CASE msg = lastSent /\ msg \in Critical
  BY <1>1, <1>4, Zenon DEF Publish, CountRetry
<1>5. CASE msg # lastSent
  <2>1. retry' = 0 /\ UNCHANGED queueVars
    BY <1>5, Zenon DEF Publish, CountRetry
  <2>2. msg \notin Critical => 1 <= sends'[msg]
    BY <1>1, <1>2
  <2> QED BY <1>1, <2>1, <2>2
<1> QED BY <1>3, <1>4, <1>5

\* Only a publication and a restart touch the counters.
LEMMA RetriedStep ==
  ASSUME TypeRest, RetriedInv, [UplinkNext]_vars
  PROVE  RetriedInv'
<1>1. CASE Publish
  BY <1>1, PublishCounts DEF RetriedInv, Critical
<1>2. ASSUME RestartRam PROVE RetriedInv'
  BY <1>2 DEF RestartRam, RetriedInv
<1>3. CASE PowerLoss \/ \E u \in Uuid : AcceptFaultRestarts(u)
  BY <1>2, <1>3 DEF PowerLoss, AcceptFaultRestarts
<1>4. ASSUME UNCHANGED <<lastSent, retry, sends>> PROVE RetriedInv'
  BY <1>4 DEF RetriedInv, Critical
<1>5. CASE StartMqttTask \/ SetRtc \/ GoOnline \/ GoOffline \/ ConfigurationChanges
           \/ ReadQueuedMessage \/ SkipMessage \/ PublishFails \/ RetryIntervalElapses
  BY <1>4, <1>5, Zenon
     DEF StartMqttTask, SetRtc, GoOnline, GoOffline, ConfigurationChanges,
         ReadQueuedMessage, SkipMessage, PublishFails, RetryIntervalElapses,
         senderVars, historyVars
<1>6. ASSUME NEW u \in Uuid,
             \/ CreateConfigurationData(u) \/ CreateChargingSession(u)
             \/ \E f \in FaultFiles : CreateFaultLog(u, f)
             \/ CreatePeriodicData(u)
      PROVE  RetriedInv'
  BY <1>4, <1>6, Zenon
     DEF CreateConfigurationData, CreateChargingSession, CreateFaultLog,
         CreatePeriodicData, ramVars, senderVars
<1>7. ASSUME NEW u \in Uuid,
             \/ AcceptConfigurationData(u) \/ AcceptChargingSession(u)
             \/ AcceptFaultInformation(u)
             \/ \E valid \in BOOLEAN : AnswerPeriodicData(u, valid)
      PROVE  RetriedInv'
  BY <1>4, <1>7, Zenon
     DEF AcceptConfigurationData, AcceptChargingSession, AcceptFaultInformation,
         AnswerPeriodicData, ramVars, senderVars
<1>8. CASE UNCHANGED vars
  BY <1>4, <1>8, Zenon DEF vars, ramVars, senderVars, historyVars
<1> QED BY <1>1, <1>3, <1>5, <1>6, <1>7, <1>8, Zenon DEF UplinkNext

\* What makes the main loop put a message away: it was skipped, or published
\* well or badly, unless the PMU restarted.
LEMMA PutAway ==
  ASSUME TypeRest, [UplinkNext]_vars, msg # None, msg' = None, boots' = boots
  PROVE  Publish \/ UNCHANGED queueVars
<1>1. ASSUME RestartRam PROVE FALSE
  BY <1>1 DEF RestartRam, TypeRest, NumberTypes
<1>2. CASE PowerLoss \/ \E u \in Uuid : AcceptFaultRestarts(u)
  BY <1>1, <1>2 DEF PowerLoss, AcceptFaultRestarts
<1>3. CASE Publish
  BY <1>3
<1>4. CASE StartMqttTask \/ SetRtc \/ GoOnline \/ GoOffline \/ ConfigurationChanges
           \/ ReadQueuedMessage \/ SkipMessage \/ PublishFails \/ RetryIntervalElapses
  BY <1>4, Zenon
     DEF StartMqttTask, SetRtc, GoOnline, GoOffline, ConfigurationChanges,
         ReadQueuedMessage, SkipMessage, PublishFails, RetryIntervalElapses
<1>5. ASSUME msg' = msg PROVE FALSE
  BY <1>5
<1>6. ASSUME NEW u \in Uuid,
             \/ CreateConfigurationData(u) \/ CreateChargingSession(u)
             \/ \E f \in FaultFiles : CreateFaultLog(u, f)
             \/ CreatePeriodicData(u)
      PROVE  FALSE
  BY <1>5, <1>6, Zenon
     DEF CreateConfigurationData, CreateChargingSession, CreateFaultLog,
         CreatePeriodicData, ramVars, senderVars
<1>7. ASSUME NEW u \in Uuid,
             \/ AcceptConfigurationData(u) \/ AcceptChargingSession(u)
             \/ AcceptFaultInformation(u)
             \/ \E valid \in BOOLEAN : AnswerPeriodicData(u, valid)
      PROVE  FALSE
  BY <1>5, <1>7, Zenon
     DEF AcceptConfigurationData, AcceptChargingSession, AcceptFaultInformation,
         AnswerPeriodicData, ramVars, senderVars
<1>8. CASE UNCHANGED vars
  BY <1>8, Zenon DEF vars
<1> QED BY <1>2, <1>3, <1>4, <1>6, <1>7, <1>8, Zenon DEF UplinkNext

\* The retry limit gives up only what is not critical, and only after it was
\* published once and RetryLimit times again, however the message was read, in
\* whatever order messages are sent in between (GivesUpLate).
THEOREM GivenUpLate == UplinkSpec => GivesUpLate
<1> DEFINE Late == \A u \in Uuid : GaveUp(u) => sends'[u] > RetryLimit
<1>1. UplinkInit => RetriedInv
  BY DEF UplinkInit, RetriedInv
<1>2. ComposedInv /\ RetriedInv /\ [UplinkNext]_vars => RetriedInv'
  BY RetriedStep DEF ComposedInv
<1>3. ComposedInv /\ RetriedInv /\ [UplinkNext]_vars => [Late]_vars
  <2> SUFFICES ASSUME ComposedInv, RetriedInv, [UplinkNext]_vars,
                      NEW u \in Uuid, GaveUp(u)
               PROVE  sends'[u] > RetryLimit
    OBVIOUS
  <2>1. msg = u /\ u # None /\ msg' = None /\ boots' = boots
        /\ Queued(u) /\ ~Queued(u)'
    BY UplinkAssumption DEF GaveUp
  <2>2. ~UNCHANGED queueVars
    BY <2>1 DEF queueVars, Queued
  <2>3. Publish
    BY <2>1, <2>2, PutAway DEF ComposedInv
  <2>4. msg \in Uuid /\ RetryLimit < sends'[msg]
    BY <2>2, <2>3, PublishCounts DEF ComposedInv
  <2>5. sends'[u] \in Nat
    <3>1. TypeRest'
      BY NextTypes DEF ComposedInv, QueueInv
    <3> QED BY <3>1 DEF TypeRest, NumberTypes, RetryLimit
  <2> QED BY <2>1, <2>4, <2>5 DEF RetryLimit
<1> QED BY <1>1, <1>2, <1>3, ComposedInit, ComposedNext, PTL
        DEF UplinkSpec, GivesUpLate

=============================================================================
