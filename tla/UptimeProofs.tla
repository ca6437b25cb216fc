---------------------------- MODULE UptimeProofs ----------------------------
(***************************************************************************)
(* Proofs about Uptime for all lengths of a period, numbers of seconds and *)
(* numbers of restarts.                                                    *)
(*                                                                         *)
(* The argument follows the seconds of one key: those in the total and     *)
(* those that are still to be added to it (Pending) are the seconds ever   *)
(* counted but for what restarts lost.  During a flush a total that has    *)
(* been written equals the one in NVS, and one that has not is ahead of it *)
(* by the counter.  Of three keys together: every second of the websocket  *)
(* is one of the internet, so their difference moves only when a restart   *)
(* cuts a flush in two.  And of an answer under way: what it has read and  *)
(* the counter now are behind by what restarts lost, and by a period more  *)
(* once a flush has passed.                                                *)
(***************************************************************************)
EXTENDS Uptime, TLAPS

Flushing == task \in Key \union {"reset"}

\* Seconds of a key that are not in its total yet
Pending(k) == IF Flushing THEN 0 ELSE counter[k]

\* A counter never has more than the seconds of its period, and none when they
\* have been flushed.
CounterInv ==
    /\ \A k \in Key : counter[k] <= counted
    /\ task = "report" => \A k \in Key : counter[k] = 0

LEMMA UptimeInit == Init => TypeOK /\ CounterInv
<1> SUFFICES ASSUME Init PROVE TypeOK /\ CounterInv
    OBVIOUS
<1>1. /\ counter \in [Key -> 0 .. PerPeriod] /\ counted \in 0 .. PerPeriod
      /\ total \in [Key -> Nat] /\ nvs \in [Key -> Nat] /\ ever \in [Key -> Nat]
    BY UptimeAssumption DEF Init, Zero
<1>2. /\ task \in {"count", "reset", "report"} \union Key
      /\ asked \in [key : Key \union {NoKey}, read : Nat] /\ late \in BOOLEAN
      /\ restarts \in Nat /\ failures \in Nat
    BY DEF Init
<1>3. CounterInv
    BY DEF Init, CounterInv, Zero
<1> QED
    BY <1>1, <1>2, <1>3 DEF TypeOK

\* What each action does to the counters and the period.
LEMMA TickTypes ==
    ASSUME TypeOK, CounterInv, NEW keys \in SUBSET Key, Tick(keys)
    PROVE  TypeOK' /\ CounterInv'
<1>1. counter' \in [Key -> 0 .. PerPeriod] /\ \A k \in Key : counter'[k] <= counted'
    <2>1. counter' \in [Key -> Nat]
        BY DEF Tick, TypeOK
    <2>2. ASSUME NEW k \in Key PROVE counter'[k] <= counted' /\ counter'[k] \in 0 .. PerPeriod
        BY <2>1, UptimeAssumption DEF Tick, TypeOK, CounterInv
    <2> QED
        BY <2>1, <2>2
<1>2. ever' \in [Key -> Nat]
    BY DEF Tick, TypeOK
<1>3. counted' \in 0 .. PerPeriod
    BY UptimeAssumption DEF Tick, TypeOK
<1> QED
    BY <1>1, <1>2, <1>3 DEF Tick, TypeOK, CounterInv

LEMMA UptimeTypes ==
    ASSUME TypeOK, CounterInv, [Next]_vars PROVE TypeOK' /\ CounterInv'
<1>1. ASSUME InternetDown \/ WebsocketUp \/ WebsocketDown
      PROVE  TypeOK' /\ CounterInv'
    BY <1>1, TickTypes DEF InternetDown, WebsocketUp, WebsocketDown, Key
<1>2. ASSUME AddUp PROVE TypeOK' /\ CounterInv'
    <2>1. \A k \in Key : total[k] + counter[k] \in Nat
        BY UptimeAssumption DEF TypeOK
    <2>2. total' \in [Key -> Nat]
        BY <1>2, <2>1 DEF AddUp
    <2> QED
        BY <1>2, <2>2 DEF AddUp, TypeOK, CounterInv, Key
<1>3. ASSUME NEW failed \in BOOLEAN, Write(failed) PROVE TypeOK' /\ CounterInv'
    <2>1. NextKey[task] \in Key \union {"reset"}
        BY <1>3 DEF Write, NextKey, Key
    <2>2. nvs' \in [Key -> Nat]
        BY <1>3 DEF Write, TypeOK
    <2>3. failures' \in Nat
        BY <1>3 DEF Write, CountFailure, TypeOK
    <2> QED
        BY <1>3, <2>1, <2>2, <2>3 DEF Write, TypeOK, CounterInv, Key
<1>4. ASSUME Reset PROVE TypeOK' /\ CounterInv'
    BY <1>4, UptimeAssumption DEF Reset, TypeOK, CounterInv, Zero
<1>5. ASSUME NEW failed \in SUBSET Key, ReadBack(failed) PROVE TypeOK' /\ CounterInv'
    BY <1>5 DEF ReadBack, CountFailure, TypeOK, CounterInv
<1>6. ASSUME NoReport PROVE TypeOK' /\ CounterInv'
    BY <1>6 DEF NoReport, TypeOK, CounterInv
<1>7. ASSUME NEW k \in Key, Ask(k) PROVE TypeOK' /\ CounterInv'
    BY <1>7 DEF Ask, TypeOK, CounterInv
<1>8. ASSUME Answer PROVE TypeOK' /\ CounterInv'
    BY <1>8 DEF Answer, TypeOK, CounterInv
<1>9. ASSUME Restart PROVE TypeOK' /\ CounterInv'
    <2>1. /\ counter' \in [Key -> 0 .. PerPeriod] /\ counted' \in 0 .. PerPeriod
          /\ \A k \in Key : counter'[k] <= counted'
        BY <1>9, UptimeAssumption DEF Restart, Zero
    <2>2. asked' \in [key : Key \union {NoKey}, read : Nat]
        BY <1>9 DEF Restart
    <2>3. restarts' \in Nat
        BY <1>9 DEF Restart, TypeOK
    <2> QED
        BY <1>9, <2>1, <2>2, <2>3 DEF Restart, TypeOK, CounterInv
<1>10. ASSUME UNCHANGED vars PROVE TypeOK' /\ CounterInv'
    BY <1>10 DEF vars, TypeOK, CounterInv
<1> QED
    BY <1>1, <1>2, <1>3, <1>4, <1>5, <1>6, <1>7, <1>8, <1>9, <1>10 DEF Next

\* All variables keep their types; no counter outgrows its period, so none of
\* the bytes they are kept in wraps.
THEOREM UptimeTypeSafe == Spec => [](TypeOK /\ CounterInv)
<1>1. TypeOK /\ CounterInv /\ [Next]_vars => (TypeOK /\ CounterInv)'
    BY UptimeTypes
<1> QED
    BY <1>1, UptimeInit, PTL DEF Spec

-----------------------------------------------------------------------------

\* Neither NVS nor the total with what is still to be added to it is ahead of
\* the seconds counted.
CountInv == \A k \in Key : nvs[k] <= ever[k] /\ total[k] + Pending(k) <= ever[k]

\* Every step keeps the counts.
LEMMA CountStep ==
    ASSUME TypeOK, CounterInv, CountInv, [Next]_vars PROVE CountInv'
<1> SUFFICES ASSUME NEW k \in Key
             PROVE  nvs'[k] <= ever'[k] /\ total'[k] + Pending(k)' <= ever'[k]
    BY DEF CountInv, Flushing, Key
<1>0. /\ counter[k] \in Nat /\ total[k] \in Nat /\ nvs[k] \in Nat /\ ever[k] \in Nat
      /\ nvs[k] <= ever[k] /\ total[k] + Pending(k) <= ever[k]
    BY UptimeAssumption DEF TypeOK, CountInv
<1>1. ASSUME NEW keys \in SUBSET Key, Tick(keys)
      PROVE  nvs'[k] <= ever'[k] /\ total'[k] + Pending(k)' <= ever'[k]
    <2>1. /\ task = "count" /\ task' = "count" /\ UNCHANGED <<nvs, total>>
          /\ \/ counter'[k] = counter[k] + 1 /\ ever'[k] = ever[k] + 1
             \/ counter'[k] = counter[k] /\ ever'[k] = ever[k]
        BY <1>1 DEF Tick, TypeOK
    <2> QED
        BY <1>0, <2>1 DEF Pending, Flushing, Key
<1>2. ASSUME InternetDown \/ WebsocketUp \/ WebsocketDown
      PROVE  nvs'[k] <= ever'[k] /\ total'[k] + Pending(k)' <= ever'[k]
    BY <1>1, <1>2 DEF InternetDown, WebsocketUp, WebsocketDown, Key
<1>3. ASSUME AddUp PROVE nvs'[k] <= ever'[k] /\ total'[k] + Pending(k)' <= ever'[k]
    BY <1>0, <1>3 DEF AddUp, Pending, Flushing, Key
<1>4. ASSUME NEW failed \in BOOLEAN, Write(failed)
      PROVE  nvs'[k] <= ever'[k] /\ total'[k] + Pending(k)' <= ever'[k]
    <2>1. Flushing /\ Flushing' /\ UNCHANGED <<total, ever>>
        BY <1>4 DEF Write, Flushing, NextKey, Key
    <2>2. nvs'[k] = nvs[k] \/ nvs'[k] = total[k]
        BY <1>4 DEF Write, TypeOK
    <2> QED
        BY <1>0, <2>1, <2>2 DEF Pending
<1>5. ASSUME Reset PROVE nvs'[k] <= ever'[k] /\ total'[k] + Pending(k)' <= ever'[k]
    BY <1>0, <1>5 DEF Reset, Pending, Flushing, Zero, Key
<1>6. ASSUME NEW failed \in SUBSET Key, ReadBack(failed)
      PROVE  nvs'[k] <= ever'[k] /\ total'[k] + Pending(k)' <= ever'[k]
    <2>1. counter[k] = 0
        BY <1>6 DEF ReadBack, CounterInv
    <2> QED
        BY <1>0, <1>6, <2>1 DEF ReadBack, Pending, Flushing, Key
<1>7. ASSUME NoReport PROVE nvs'[k] <= ever'[k] /\ total'[k] + Pending(k)' <= ever'[k]
    BY <1>0, <1>7 DEF NoReport, Pending, Flushing, Key
<1>8. ASSUME NEW j \in Key, Ask(j)
      PROVE  nvs'[k] <= ever'[k] /\ total'[k] + Pending(k)' <= ever'[k]
    BY <1>0, <1>8 DEF Ask, Pending, Flushing
<1>9. ASSUME Answer PROVE nvs'[k] <= ever'[k] /\ total'[k] + Pending(k)' <= ever'[k]
    BY <1>0, <1>9 DEF Answer, Pending, Flushing
<1>10. ASSUME Restart PROVE nvs'[k] <= ever'[k] /\ total'[k] + Pending(k)' <= ever'[k]
    BY <1>0, <1>10 DEF Restart, Pending, Flushing, Zero, Key
<1>11. ASSUME UNCHANGED vars PROVE nvs'[k] <= ever'[k] /\ total'[k] + Pending(k)' <= ever'[k]
    BY <1>0, <1>11 DEF vars, Pending, Flushing
<1> QED
    BY <1>2, <1>3, <1>4, <1>5, <1>6, <1>7, <1>8, <1>9, <1>10, <1>11 DEF Next

LEMMA CountInvariant == Spec => []CountInv
<1>1. Init => CountInv
    BY DEF Init, CountInv, Pending, Flushing, Zero, Key
<1>2. TypeOK /\ CounterInv /\ CountInv /\ [Next]_vars => CountInv'
    BY CountStep
<1> QED
    BY <1>1, <1>2, UptimeTypeSafe, PTL DEF Spec

\* No second is counted twice in NVS, also when writes and reads fail.
THEOREM NoSecondTwice == Spec => []NeverOvercounts
<1>1. CountInv => NeverOvercounts
    BY DEF CountInv, NeverOvercounts
<1> QED
    BY <1>1, CountInvariant, PTL
-----------------------------------------------------------------------------

\* The keys that the flush has written
Written == CASE task = "iUT"   -> {"iDT"}
             [] task = "wUT"   -> {"iDT", "iUT"}
             [] task = "wDT"   -> {"iDT", "iUT", "wUT"}
             [] task = "reset" -> Key
             [] OTHER          -> {}

\* Where NVS stands to the totals: equal, but for the keys that a flush has
\* still to write.
NvsInv ==
    \A k \in Key : total[k] = IF Flushing /\ k \notin Written
                              THEN nvs[k] + counter[k] ELSE nvs[k]

\* What the restarts have lost
LostInv ==
    \A k \in Key : ever[k] - total[k] - Pending(k) <= restarts * PerPeriod

LEMMA NvsStep ==
    ASSUME failures' = 0, TypeOK, CounterInv, NvsInv, [Next]_vars PROVE NvsInv'
<1> SUFFICES ASSUME NEW k \in Key
             PROVE  total'[k] = IF Flushing' /\ k \notin Written'
                                THEN nvs'[k] + counter'[k] ELSE nvs'[k]
    BY DEF NvsInv, Key
<1> DEFINE Goal == total'[k] = IF Flushing' /\ k \notin Written'
                               THEN nvs'[k] + counter'[k] ELSE nvs'[k]
<1>0. /\ counter[k] \in Nat /\ total[k] \in Nat /\ nvs[k] \in Nat
      /\ total[k] = IF Flushing /\ k \notin Written THEN nvs[k] + counter[k] ELSE nvs[k]
    BY UptimeAssumption DEF TypeOK, NvsInv
<1>1. ASSUME NEW keys \in SUBSET Key, Tick(keys) PROVE Goal
    BY <1>0, <1>1 DEF Tick, Flushing, Key
<1>2. ASSUME InternetDown \/ WebsocketUp \/ WebsocketDown PROVE Goal
    BY <1>1, <1>2 DEF InternetDown, WebsocketUp, WebsocketDown, Key
<1>3. ASSUME AddUp PROVE Goal
    BY <1>0, <1>3 DEF AddUp, Flushing, Written, Key
<1>4. ASSUME NEW failed \in BOOLEAN, Write(failed) PROVE Goal
    <2>1. /\ nvs' = [nvs EXCEPT ![task] = total[task]]
          /\ task \in Key /\ task' = NextKey[task] /\ UNCHANGED <<counter, total>>
        BY <1>4 DEF Write, CountFailure, TypeOK
    <2>2. Flushing /\ Flushing'
        BY <2>1 DEF Flushing, NextKey, Key
    <2>3. Written' = Written \union {task}
        BY <2>1 DEF Written, NextKey, Key
    <2>4. nvs'[k] = IF k = task THEN total[k] ELSE nvs[k]
        BY <2>1 DEF TypeOK
    <2> QED
        BY <1>0, <2>1, <2>2, <2>3, <2>4
<1>5. ASSUME Reset PROVE Goal
    BY <1>0, <1>5 DEF Reset, Flushing, Written, Key
<1>6. ASSUME NEW failed \in SUBSET Key, ReadBack(failed) PROVE Goal
    <2>1. failed = {}
        BY <1>6 DEF ReadBack, CountFailure, TypeOK
    <2> QED
        BY <1>6, <2>1 DEF ReadBack, Flushing, Key
<1>7. ASSUME NoReport PROVE Goal
    BY <1>0, <1>7 DEF NoReport, Flushing, Key
<1>8. ASSUME NEW j \in Key, Ask(j) PROVE Goal
    BY <1>0, <1>8 DEF Ask, Flushing, Written
<1>9. ASSUME Answer PROVE Goal
    BY <1>0, <1>9 DEF Answer, Flushing, Written
<1>10. ASSUME Restart PROVE Goal
    BY <1>10 DEF Restart, Flushing, Key
<1>11. ASSUME UNCHANGED vars PROVE Goal
    BY <1>0, <1>11 DEF vars, Flushing, Written
<1> QED
    BY <1>2, <1>3, <1>4, <1>5, <1>6, <1>7, <1>8, <1>9, <1>10, <1>11 DEF Next

LEMMA LostStep ==
    ASSUME failures' = 0, TypeOK, CounterInv, NvsInv, LostInv, [Next]_vars
    PROVE  LostInv'
<1> SUFFICES ASSUME NEW k \in Key
             PROVE  ever'[k] - total'[k] - Pending(k)' <= restarts' * PerPeriod
    BY DEF LostInv, Key
<1> DEFINE Goal == ever'[k] - total'[k] - Pending(k)' <= restarts' * PerPeriod
<1>0. /\ counter[k] \in 0 .. PerPeriod /\ total[k] \in Nat /\ nvs[k] \in Nat
      /\ ever[k] \in Nat /\ restarts \in Nat /\ PerPeriod \in Nat
      /\ ever[k] - total[k] - Pending(k) <= restarts * PerPeriod
      /\ total[k] = IF Flushing /\ k \notin Written THEN nvs[k] + counter[k] ELSE nvs[k]
    BY UptimeAssumption DEF TypeOK, LostInv, NvsInv
<1>1. ASSUME NEW keys \in SUBSET Key, Tick(keys) PROVE Goal
    <2>1. /\ task = "count" /\ task' = "count" /\ UNCHANGED <<total, restarts>>
          /\ \/ counter'[k] = counter[k] + 1 /\ ever'[k] = ever[k] + 1
             \/ counter'[k] = counter[k] /\ ever'[k] = ever[k]
        BY <1>1 DEF Tick, TypeOK
    <2> QED
        BY <1>0, <2>1 DEF Pending, Flushing, Key
<1>2. ASSUME InternetDown \/ WebsocketUp \/ WebsocketDown PROVE Goal
    BY <1>1, <1>2 DEF InternetDown, WebsocketUp, WebsocketDown, Key
<1>3. ASSUME AddUp PROVE Goal
    BY <1>0, <1>3 DEF AddUp, Pending, Flushing, Key
<1>4. ASSUME NEW failed \in BOOLEAN, Write(failed) PROVE Goal
    <2>1. Flushing /\ Flushing' /\ UNCHANGED <<total, ever, restarts>>
        BY <1>4 DEF Write, Flushing, NextKey, Key
    <2> QED
        BY <1>0, <2>1 DEF Pending
<1>5. ASSUME Reset PROVE Goal
    <2>1. counter'[k] = 0 /\ Flushing /\ ~Flushing' /\ UNCHANGED <<total, ever, restarts>>
        BY <1>5 DEF Reset, Flushing, Zero, Key
    <2> QED
        BY <1>0, <2>1 DEF Pending
<1>6. ASSUME NEW failed \in SUBSET Key, ReadBack(failed) PROVE Goal
    <2>1. failed = {}
        BY <1>6 DEF ReadBack, CountFailure, TypeOK
    <2>2. total'[k] = nvs[k] /\ ~Flushing /\ ~Flushing' /\ UNCHANGED <<counter, ever, restarts>>
        BY <1>6, <2>1 DEF ReadBack, Flushing, Key
    <2> QED
        BY <1>0, <2>2 DEF Pending
<1>7. ASSUME NoReport PROVE Goal
    BY <1>0, <1>7 DEF NoReport, Pending, Flushing, Key
<1>8. ASSUME NEW j \in Key, Ask(j) PROVE Goal
    BY <1>0, <1>8 DEF Ask, Pending, Flushing
<1>9. ASSUME Answer PROVE Goal
    BY <1>0, <1>9 DEF Answer, Pending, Flushing
<1>10. ASSUME Restart PROVE Goal
    <2>1. /\ total'[k] = nvs[k] /\ counter'[k] = 0 /\ ever'[k] = ever[k]
          /\ restarts' = restarts + 1 /\ ~Flushing'
        BY <1>10 DEF Restart, Flushing, Zero, Key
    <2>2. ever[k] - nvs[k] <= restarts * PerPeriod + PerPeriod
        BY <1>0 DEF Pending
    <2>3. (restarts + 1) * PerPeriod = restarts * PerPeriod + PerPeriod
        BY <1>0
    <2> QED
        BY <1>0, <2>1, <2>2, <2>3 DEF Pending
<1>11. ASSUME UNCHANGED vars PROVE Goal
    BY <1>0, <1>11 DEF vars, Pending, Flushing
<1> QED
    BY <1>2, <1>3, <1>4, <1>5, <1>6, <1>7, <1>8, <1>9, <1>10, <1>11 DEF Next

\* Failures are never forgotten.
LEMMA FailuresStay ==
    ASSUME TypeOK, [Next]_vars, failures' = 0 PROVE failures = 0
BY DEF Next, vars, TypeOK, InternetDown, WebsocketUp, WebsocketDown, Tick,
       AddUp, Write, Reset, ReadBack, NoReport, Ask, Answer, Restart,
       CountFailure

\* Both as long as nothing has failed.
FlushInv == failures = 0 => NvsInv /\ LostInv

LEMMA FlushStep ==
    ASSUME TypeOK, CounterInv, FlushInv, [Next]_vars PROVE FlushInv'
<1>1. failures' = 0 => failures = 0
    BY FailuresStay
<1> QED
    BY <1>1, NvsStep, LostStep DEF FlushInv

LEMMA FlushInvariant == Spec => []FlushInv
<1>1. Init => FlushInv
    BY UptimeAssumption
       DEF Init, FlushInv, NvsInv, LostInv, Pending, Flushing, Zero, Key
<1>2. TypeOK /\ CounterInv /\ FlushInv /\ [Next]_vars => FlushInv'
    BY FlushStep
<1> QED
    BY <1>1, <1>2, UptimeTypeSafe, PTL DEF Spec

\* A restart loses no more than a period: unless a write or a read has failed,
\* NVS is behind by that for every restart and for the period that runs.
THEOREM OnePeriodLost == Spec => []LosesOnePeriod
<1>1. TypeOK /\ FlushInv => LosesOnePeriod
    <2> SUFFICES ASSUME TypeOK, NvsInv, LostInv, NEW k \in Key
                 PROVE  ever[k] - nvs[k] <= (restarts + 1) * PerPeriod
        BY DEF LosesOnePeriod, FlushInv
    <2>1. /\ counter[k] \in 0 .. PerPeriod /\ total[k] \in Nat /\ nvs[k] \in Nat
          /\ ever[k] \in Nat /\ restarts \in Nat /\ PerPeriod \in Nat
          /\ ever[k] - total[k] - Pending(k) <= restarts * PerPeriod
          /\ total[k] = IF Flushing /\ k \notin Written
                        THEN nvs[k] + counter[k] ELSE nvs[k]
        BY UptimeAssumption DEF TypeOK, LostInv, NvsInv
    <2>2. (restarts + 1) * PerPeriod = restarts * PerPeriod + PerPeriod
        BY <2>1
    <2> QED
        BY <2>1, <2>2 DEF Pending
<1> QED
    BY <1>1, UptimeTypeSafe, FlushInvariant, PTL
-----------------------------------------------------------------------------

\* How far the internet's seconds are ahead of the websocket's
Ahead(x) == x["iUT"] - x["wUT"] - x["wDT"]

\* The counters agree, and the totals but for the flushes that restarts have
\* cut in two.
AgreeInv ==
    /\ Ahead(counter) = 0
    /\ failures = 0 => Ahead(total) \in 0 .. restarts * PerPeriod

\* What NvsInv says of the three keys, in numbers.
LEMMA NvsAhead ==
    ASSUME TypeOK, NvsInv, AgreeInv, failures = 0
    PROVE  /\ Ahead(nvs) \in 0 .. restarts * PerPeriod + PerPeriod
           /\ ~Flushing => Ahead(nvs) = Ahead(total)
<1>1. /\ counter["iUT"] \in 0 .. PerPeriod /\ counter["wUT"] \in Nat /\ counter["wDT"] \in Nat
      /\ \A k \in {"iUT", "wUT", "wDT"} : total[k] \in Nat /\ nvs[k] \in Nat
      /\ restarts \in Nat /\ PerPeriod \in Nat /\ restarts * PerPeriod \in Nat
    BY UptimeAssumption DEF TypeOK, Key
<1>2. \A k \in {"iUT", "wUT", "wDT"} :
          total[k] = IF Flushing /\ k \notin Written
                     THEN nvs[k] + counter[k] ELSE nvs[k]
    BY DEF NvsInv, Key
<1>3. Ahead(counter) = 0 /\ Ahead(total) \in 0 .. restarts * PerPeriod
    BY DEF AgreeInv
<1>4. CASE ~Flushing
    BY <1>1, <1>2, <1>3, <1>4 DEF Ahead
<1>5. CASE Flushing
    <2>1. \/ Written \intersect {"iUT", "wUT", "wDT"} = {}
          \/ Written = {"iDT", "iUT"}
          \/ Written = {"iDT", "iUT", "wUT"}
          \/ Written = Key
        BY <1>5 DEF Flushing, Written, Key
    <2>2. CASE Written \intersect {"iUT", "wUT", "wDT"} = {}
        BY <1>1, <1>2, <1>3, <1>5, <2>2 DEF Ahead
    <2>3. CASE Written = {"iDT", "iUT"}
        BY <1>1, <1>2, <1>3, <1>5, <2>3 DEF Ahead
    <2>4. CASE Written = {"iDT", "iUT", "wUT"}
        BY <1>1, <1>2, <1>3, <1>5, <2>4 DEF Ahead
    <2>5. CASE Written = Key
        BY <1>1, <1>2, <1>3, <1>5, <2>5 DEF Ahead, Key
    <2> QED
        BY <1>5, <2>1, <2>2, <2>3, <2>4, <2>5
<1> QED
    BY <1>4, <1>5

\* Every step keeps the agreement.
LEMMA AgreeStep ==
    ASSUME TypeOK, CounterInv, FlushInv, AgreeInv, [Next]_vars PROVE AgreeInv'
<1>0. /\ \A k \in Key : counter[k] \in Nat /\ total[k] \in Nat
      /\ restarts \in Nat /\ PerPeriod \in Nat /\ Ahead(counter) = 0
      /\ {"iUT", "wUT", "wDT"} \subseteq Key
    BY UptimeAssumption DEF TypeOK, AgreeInv, Key
<1>1. ASSUME UNCHANGED <<counter, total, restarts>> PROVE AgreeInv'
    BY <1>1, FailuresStay DEF AgreeInv, Ahead
<1>2. ASSUME NEW keys \in {{"iDT"}, {"iUT", "wUT"}, {"iUT", "wDT"}}, Tick(keys)
      PROVE  AgreeInv'
    <2>1. /\ UNCHANGED <<total, restarts, failures>>
          /\ counter' = [k \in Key |->
                            IF k \in keys THEN counter[k] + 1 ELSE counter[k]]
        BY <1>2 DEF Tick
    <2>2. Ahead(counter') = 0
        BY <1>0, <2>1 DEF Ahead, Key
    <2> QED
        BY <2>1, <2>2 DEF AgreeInv, Ahead
<1>3. ASSUME InternetDown \/ WebsocketUp \/ WebsocketDown PROVE AgreeInv'
    BY <1>2, <1>3 DEF InternetDown, WebsocketUp, WebsocketDown
<1>4. ASSUME AddUp PROVE AgreeInv'
    <2>1. /\ UNCHANGED <<counter, restarts, failures>>
          /\ \A k \in Key : total'[k] = total[k] + counter[k]
        BY <1>4 DEF AddUp
    <2>2. Ahead(total') = Ahead(total)
        BY <1>0, <2>1 DEF Ahead
    <2> QED
        BY <2>1, <2>2 DEF AgreeInv, Ahead
<1>5. ASSUME NEW failed \in BOOLEAN, Write(failed) PROVE AgreeInv'
    BY <1>1, <1>5 DEF Write
<1>6. ASSUME Reset PROVE AgreeInv'
    <2>1. Ahead(counter') = 0 /\ UNCHANGED <<total, restarts, failures>>
        BY <1>6 DEF Reset, Zero, Ahead, Key
    <2> QED
        BY <2>1 DEF AgreeInv, Ahead
<1>7. ASSUME NEW failed \in SUBSET Key, ReadBack(failed) PROVE AgreeInv'
    <2>1. UNCHANGED <<counter, restarts>> /\ task = "report"
        BY <1>7 DEF ReadBack
    <2>2. ASSUME failures' = 0
          PROVE  Ahead(total') \in 0 .. restarts * PerPeriod
        <3>1. failures = 0 /\ failed = {}
            BY <1>7, <2>2, FailuresStay DEF ReadBack, CountFailure, TypeOK
        <3>2. \A k \in Key : total'[k] = nvs[k]
            BY <1>7, <3>1 DEF ReadBack
        <3>3. Ahead(total') = Ahead(nvs)
            BY <1>0, <3>2 DEF Ahead
        <3> QED
            BY <2>1, <3>1, <3>3, NvsAhead DEF AgreeInv, FlushInv, Flushing, Key
    <2> QED
        BY <1>0, <2>1, <2>2 DEF AgreeInv, Ahead
<1>8. ASSUME NoReport \/ Answer \/ \E k \in Key : Ask(k) PROVE AgreeInv'
    BY <1>1, <1>8 DEF NoReport, Answer, Ask
<1>9. ASSUME Restart PROVE AgreeInv'
    <2>1. /\ total' = nvs /\ Ahead(counter') = 0
          /\ restarts' = restarts + 1 /\ UNCHANGED failures
        BY <1>9 DEF Restart, Zero, Ahead, Key
    <2>2. (restarts + 1) * PerPeriod = restarts * PerPeriod + PerPeriod
        BY <1>0
    <2>3. failures = 0 => Ahead(nvs) \in 0 .. restarts' * PerPeriod
        BY <2>1, <2>2, NvsAhead DEF FlushInv
    <2> QED
        BY <2>1, <2>3 DEF AgreeInv, Ahead
<1>10. ASSUME UNCHANGED vars PROVE AgreeInv'
    BY <1>1, <1>10 DEF vars
<1> QED
    BY <1>3, <1>4, <1>5, <1>6, <1>7, <1>8, <1>9, <1>10 DEF Next

\* As long as nothing has failed, NVS never says that the websocket was up or
\* down for longer than the internet was up, and is at most a period behind for
\* each restart and the flush under way (TotalsAgree).
THEOREM UptimesAgree == Spec => []TotalsAgree
<1>1. Init => AgreeInv
    BY UptimeAssumption DEF Init, AgreeInv, Ahead, Zero, Key
<1>2. TypeOK /\ CounterInv /\ FlushInv /\ AgreeInv /\ [Next]_vars => AgreeInv'
    BY AgreeStep
<1>3. TypeOK /\ FlushInv /\ AgreeInv => TotalsAgree
    <2> SUFFICES ASSUME TypeOK, FlushInv, AgreeInv, failures = 0
                 PROVE  Ahead(nvs) \in 0 .. (restarts + 1) * PerPeriod
        BY DEF TotalsAgree, Ahead
    <2>1. (restarts + 1) * PerPeriod = restarts * PerPeriod + PerPeriod
        BY UptimeAssumption DEF TypeOK
    <2> QED
        BY <2>1, NvsAhead DEF FlushInv
<1> QED
    BY <1>1, <1>2, <1>3, UptimeTypeSafe, FlushInvariant, PTL DEF Spec

-----------------------------------------------------------------------------
(* Arithmetic of the conversions.  The provers know the remainder as what  *)
(* the division leaves, and little of products of two unknowns: each law   *)
(* is a lemma of its own.                                                  *)

\* Sums and products of natural numbers
LEMMA Algebra ==
    ASSUME NEW x \in Nat, NEW y \in Nat, NEW b \in Nat
    PROVE  /\ x + y \in Nat /\ x * b \in Nat
           /\ (x + y) * b = x * b + y * b
OBVIOUS

\* Products can be regrouped.
LEMMA Regroup ==
    ASSUME NEW x \in Nat, NEW y \in Nat, NEW b \in Nat
    PROVE  (x * y) * b = x * (y * b)
OBVIOUS

\* A quotient of a natural number is not negative.
LEMMA QuotientNat ==
    ASSUME NEW q \in Int, NEW r \in Int, NEW b \in Nat, NEW x \in Nat,
           r < b, r = x - q * b
    PROVE  q >= 0
<1> SUFFICES ASSUME q <= -1 PROVE FALSE
    OBVIOUS
<1>1. (q + 1) * b <= 0
    OBVIOUS
<1>2. (q + 1) * b = q * b + b
    OBVIOUS
<1> QED
    BY <1>1, <1>2

\* Division with remainder
LEMMA DivMod ==
    ASSUME NEW x \in Nat, NEW b \in Nat \ {0}
    PROVE  /\ x \div b \in Nat /\ x % b \in Nat
           /\ x % b < b /\ x = (x \div b) * b + (x % b)
<1>1. x \div b \in Int /\ x % b \in 0 .. b - 1
    OBVIOUS
<1>2. x % b = x - (x \div b) * b
    OBVIOUS
<1> DEFINE q == x \div b
           r == x % b
<1>3. q \in Int /\ r \in 0 .. b - 1 /\ r = x - q * b
    BY <1>1, <1>2
<1> HIDE DEF q, r
<1>4. q >= 0 /\ x = q * b + r /\ r \in Nat /\ r < b
    BY <1>3, QuotientNat
<1> QED
    BY <1>3, <1>4 DEF q, r

\* ... has one result.
LEMMA ModUnique ==
    ASSUME NEW b \in Nat, NEW q \in Nat, NEW r \in Nat, r < b,
           NEW p \in Nat, NEW s \in Nat, s < b, q * b + r = p * b + s
    PROVE  r = s
<1>1. ASSUME NEW u \in Nat, NEW v \in Nat, NEW i \in Nat, NEW j \in Nat,
             i < b, j < b, u * b + i = v * b + j
      PROVE  u <= v
    <2> SUFFICES ASSUME v + 1 <= u PROVE FALSE
        OBVIOUS
    <2>1. PICK d \in Nat : u = v + 1 + d
        BY u - v - 1 \in Nat
    <2>2. u * b = v * b + b + d * b /\ d * b \in Nat /\ v * b \in Nat
        BY <2>1
    <2> QED
        BY <1>1, <2>2
<1>2. q = p
    BY <1>1
<1> QED
    BY <1>2

\* The remainder by a factor of the divisor can be taken afterwards.
LEMMA ModMod ==
    ASSUME NEW x \in Nat, NEW b \in Nat \ {0}, NEW k \in Nat \ {0}
    PROVE  (x % (k * b)) % b = x % b
<1> DEFINE c == k * b
           r == x % c
           q == x \div c
           r1 == r % b
           q1 == r \div b
           r2 == x % b
           q2 == x \div b
<1>1. c \in Nat \ {0}
    OBVIOUS
<1> HIDE DEF c
<1>2. r \in Nat /\ q \in Nat /\ x = q * c + r
    BY <1>1, DivMod
<1> HIDE DEF r, q
<1>3. r1 \in Nat /\ q1 \in Nat /\ r1 < b /\ r = q1 * b + r1
    BY <1>2, DivMod
<1>4. r2 \in Nat /\ q2 \in Nat /\ r2 < b /\ x = q2 * b + r2
    BY DivMod
<1> HIDE DEF r1, q1, r2, q2
<1>5. q * c = (q * k) * b /\ q * k \in Nat
    BY <1>2, Regroup, Algebra DEF c
<1>6. (q * k + q1) * b + r1 = q2 * b + r2 /\ q * k + q1 \in Nat
    <2>1. (q * k + q1) * b = (q * k) * b + q1 * b /\ q * k + q1 \in Nat
        BY <1>3, <1>5, Algebra
    <2>2. (q * k) * b \in Nat /\ q1 * b \in Nat /\ q2 * b \in Nat
        BY <1>3, <1>4, <1>5, Algebra
    <2> QED
        BY <1>2, <1>3, <1>4, <1>5, <2>1, <2>2
<1>7. r1 = r2
    BY <1>3, <1>4, <1>6, ModUnique
<1> QED
    BY <1>7 DEF c, r, r1, r2

\* Seconds as a sum
LEMMA SecondsSum ==
    ASSUME NEW d \in Nat, NEW h \in Nat, NEW m \in Nat, NEW s \in Nat,
           NEW D \in Nat, NEW H \in Nat, NEW M \in Nat
    PROVE  ((d * D + h) * H + m) * M + s
               = d * (D * (H * M)) + (h * (H * M) + (m * M + s))
<1>1. (d * D + h) * H = (d * D) * H + h * H
    BY Algebra
<1>2. ((d * D + h) * H + m) * M = ((d * D) * H) * M + (h * H) * M + m * M
    BY <1>1, Algebra
<1>3. ((d * D) * H) * M = (d * D) * (H * M) /\ (d * D) * (H * M) = d * (D * (H * M))
      /\ (h * H) * M = h * (H * M)
    BY Algebra, Regroup
<1>4. /\ d * (D * (H * M)) \in Nat /\ h * (H * M) \in Nat /\ m * M \in Nat
    BY Algebra
<1> QED
    BY <1>2, <1>3, <1>4

\* A total in days, hours, minutes and seconds is the same number of seconds.
LEMMA SecondsOfDuration ==
    ASSUME NEW n \in Nat
    PROVE  /\ Seconds(Duration(n)) = n
           /\ Duration(n) \in [days : Nat, hours : Nat, minutes : Nat, seconds : Nat]
<1> DEFINE HM == Hour * Minute
           DHM == Day * HM
<1>1. HM \in Nat \ {0} /\ DHM \in Nat \ {0} /\ Minute \in Nat \ {0}
      /\ Hour \in Nat \ {0} /\ Day \in Nat \ {0}
    BY UptimeAssumption
<1>2. Day * Hour * Minute = DHM
    BY UptimeAssumption, Regroup
<1> HIDE DEF HM, DHM
<1> DEFINE d == n \div DHM
           r == n % DHM
           h == r \div HM
           t == n % HM
           m == t \div Minute
           s == n % Minute
<1>3. d \in Nat /\ r \in Nat /\ n = d * DHM + r
    BY <1>1, DivMod
<1>4. r % HM = t /\ t % Minute = s
    BY <1>1, ModMod DEF DHM, HM
<1>5. t \in Nat
    BY <1>1, DivMod
<1> HIDE DEF d, r
<1>6. h \in Nat /\ r = h * HM + t
    BY <1>1, <1>3, <1>4, DivMod
<1> HIDE DEF h, t
<1>7. m \in Nat /\ t = m * Minute + s /\ s \in Nat
    BY <1>1, <1>4, <1>5, DivMod
<1>8. Duration(n) = [days |-> d, hours |-> h, minutes |-> m, seconds |-> s]
    BY <1>2 DEF Duration, HM, d, h, r, t
<1> HIDE DEF m, s
<1>9. Seconds(Duration(n)) = ((d * Day + h) * Hour + m) * Minute + s
    BY <1>8 DEF Seconds
<1>10. Seconds(Duration(n)) = d * DHM + (h * HM + (m * Minute + s))
    BY <1>1, <1>3, <1>6, <1>7, <1>9, SecondsSum DEF HM, DHM
<1> QED
    BY <1>3, <1>6, <1>7, <1>8, <1>10

\* One digit carries into the next.
LEMMA Carry ==
    ASSUME NEW hi \in Nat, NEW lo \in Nat, NEW b \in Nat \ {0}
    PROVE  /\ lo \div b \in Nat /\ lo % b \in Nat
           /\ (hi + lo \div b) * b + (lo % b) = hi * b + lo
<1> DEFINE q == lo \div b
           r == lo % b
<1>1. q \in Nat /\ r \in Nat /\ lo = q * b + r
    BY DivMod
<1> HIDE DEF q, r
<1>2. (hi + q) * b + r = hi * b + lo
    BY <1>1, Algebra
<1> QED
    BY <1>1, <1>2 DEF q, r

\* Adding seconds to a duration carries every minute, hour and day.
LEMMA SecondsOfIncremented ==
    ASSUME NEW x \in Nat, NEW n \in Nat
    PROVE  Seconds(Incremented(Duration(x), n)) = x + n
<1> DEFINE d == Duration(x)
           s == d.seconds + n
           s1 == s \div Minute
           s2 == s % Minute
           m == d.minutes + s1
           m1 == m \div Hour
           m2 == m % Hour
           h == d.hours + m1
           h1 == h \div Day
           h2 == h % Day
<1>1. Minute \in Nat \ {0} /\ Hour \in Nat \ {0} /\ Day \in Nat \ {0}
    BY UptimeAssumption
<1>2. /\ d.days \in Nat /\ d.hours \in Nat /\ d.minutes \in Nat /\ d.seconds \in Nat
      /\ Seconds(d) = x
    BY SecondsOfDuration
<1>3. Incremented(d, n) = [days |-> d.days + h1, hours |-> h2,
                           minutes |-> m2, seconds |-> s2]
    BY DEF Incremented
<1> HIDE DEF d
<1> DEFINE dd == d.days
           dh == d.hours
           dm == d.minutes
<1>4. s \in Nat
    BY <1>2
<1>5. s1 \in Nat /\ s2 \in Nat
    BY <1>1, <1>4, DivMod
<1>6. m \in Nat
    BY <1>2, <1>5
<1>7. m1 \in Nat /\ m2 \in Nat
    BY <1>1, <1>6, DivMod
<1>8. h \in Nat
    BY <1>2, <1>7
<1>9. h1 \in Nat /\ h2 \in Nat /\ (dd + h1) * Day + h2 = dd * Day + h
    <2>1. dd \in Nat /\ h \in Nat /\ Day \in Nat \ {0}
        BY <1>1, <1>2, <1>8
    <2> HIDE DEF dd, h
    <2> QED
        BY <2>1, Carry
<1>10. dd * Day + dh \in Nat
    BY <1>1, <1>2, Algebra
<1>11. (dd * Day + dh + m1) * Hour + m2 = (dd * Day + dh) * Hour + m
    BY <1>1, <1>6, <1>10, Carry
<1>12. (dd * Day + dh) * Hour + dm \in Nat
    BY <1>1, <1>2, <1>10, Algebra
<1>13. ((dd * Day + dh) * Hour + dm + s1) * Minute + s2
           = ((dd * Day + dh) * Hour + dm) * Minute + s
    BY <1>1, <1>4, <1>12, Carry
<1>14. Seconds(Incremented(d, n)) = (((dd + h1) * Day + h2) * Hour + m2) * Minute + s2
    BY <1>3 DEF Seconds
<1>15. Seconds(d) = ((dd * Day + dh) * Hour + dm) * Minute + d.seconds
    BY DEF Seconds
<1> HIDE DEF s1, s2, m1, m2, h1, h2, dd, dh, dm
<1>16. (dd + h1) * Day + h2 = dd * Day + dh + m1
    <2>1. dd * Day \in Nat /\ dh \in Nat /\ m1 \in Nat
        BY <1>1, <1>2, <1>7, Algebra DEF dd, dh
    <2> QED
        BY <1>9, <2>1 DEF dh
<1>17. (dd * Day + dh + m1) * Hour + m2 = (dd * Day + dh) * Hour + dm + s1
    <2>1. (dd * Day + dh) * Hour \in Nat /\ dm \in Nat /\ s1 \in Nat
        BY <1>1, <1>2, <1>5, <1>10, Algebra DEF dm
    <2> QED
        BY <1>11, <2>1 DEF dm
<1>18. Seconds(Incremented(d, n)) = ((dd * Day + dh) * Hour + dm) * Minute + s
    BY <1>13, <1>14, <1>16, <1>17
<1>19. ((dd * Day + dh) * Hour + dm) * Minute \in Nat
    BY <1>1, <1>12, Algebra
<1>20. Seconds(Incremented(d, n)) = Seconds(d) + n
    <2> DEFINE a == ((dd * Day + dh) * Hour + dm) * Minute
    <2>1. a \in Nat /\ Seconds(d) = a + d.seconds /\ Seconds(Incremented(d, n)) = a + s
        BY <1>15, <1>18, <1>19
    <2> HIDE DEF a
    <2> QED
        BY <1>2, <2>1
<1> QED
    BY <1>2, <1>20 DEF d

-----------------------------------------------------------------------------

\* While process_MQTT_msg has read a total and not answered yet: the total is
\* not ahead of the seconds, and with the counter as it is now it is behind by
\* what restarts have lost, and by one more period when a flush has passed.
\* A second flush does not begin before the answer.
AskedInv ==
    asked.key # NoKey =>
        /\ late => task \in {"report", "count"}
        /\ asked.read <= ever[asked.key]
        /\ failures = 0 =>
               ever[asked.key] - asked.read - counter[asked.key]
                   <= restarts * PerPeriod + (IF late THEN PerPeriod ELSE 0)

\* What NVS has of a key, with its counter, is as good as its total.
LEMMA NvsAndCounter ==
    ASSUME TypeOK, NvsInv, LostInv, NEW k \in Key
    PROVE  ever[k] - nvs[k] - counter[k] <= restarts * PerPeriod
<1>1. /\ counter[k] \in Nat /\ total[k] \in Nat /\ nvs[k] \in Nat
      /\ ever[k] \in Nat /\ restarts * PerPeriod \in Nat
      /\ ever[k] - total[k] - Pending(k) <= restarts * PerPeriod
      /\ total[k] = IF Flushing /\ k \notin Written
                    THEN nvs[k] + counter[k] ELSE nvs[k]
    BY UptimeAssumption DEF TypeOK, LostInv, NvsInv
<1> QED
    BY <1>1 DEF Pending

\* Every step keeps that.
LEMMA AskedStep ==
    ASSUME TypeOK, CounterInv, CountInv, FlushInv, AskedInv, [Next]_vars
    PROVE  AskedInv'
<1> SUFFICES ASSUME asked'.key # NoKey PROVE AskedInv'
    BY DEF AskedInv
<1>0. failures' = 0 => failures = 0
    BY FailuresStay
<1>1. /\ \A k \in Key : counter[k] \in 0 .. PerPeriod /\ ever[k] \in Nat
      /\ asked.key \in Key \union {NoKey} /\ asked.read \in Nat /\ late \in BOOLEAN
      /\ restarts * PerPeriod \in Nat /\ PerPeriod \in Nat
    BY UptimeAssumption DEF TypeOK
\* Steps that leave the counters, and those of the request, alone
<1>2. ASSUME UNCHANGED <<counter, asked, late, ever, restarts>>,
             late => task' \in {"report", "count"}
      PROVE  AskedInv'
    BY <1>0, <1>2 DEF AskedInv
<1>3. ASSUME NEW keys \in SUBSET Key, Tick(keys) PROVE AskedInv'
    <2>1. /\ UNCHANGED <<task, asked, late, restarts, failures>> /\ asked.key \in Key
          /\ \/ counter'[asked.key] = counter[asked.key] + 1
                /\ ever'[asked.key] = ever[asked.key] + 1
             \/ counter'[asked.key] = counter[asked.key]
                /\ ever'[asked.key] = ever[asked.key]
        BY <1>1, <1>3 DEF Tick, TypeOK
    <2>2. asked.read <= ever'[asked.key]
        BY <1>1, <2>1 DEF AskedInv
    <2>3. failures' = 0 =>
              ever'[asked.key] - asked.read - counter'[asked.key]
                  <= restarts * PerPeriod + (IF late THEN PerPeriod ELSE 0)
        <3>1. ever'[asked.key] - asked.read - counter'[asked.key]
                  = ever[asked.key] - asked.read - counter[asked.key]
            BY <1>1, <2>1
        <3> QED
            BY <2>1, <3>1 DEF AskedInv
    <2> QED
        BY <2>1, <2>2, <2>3 DEF AskedInv
<1>4. ASSUME InternetDown \/ WebsocketUp \/ WebsocketDown PROVE AskedInv'
    BY <1>3, <1>4 DEF InternetDown, WebsocketUp, WebsocketDown, Key
<1>5. ASSUME AddUp PROVE AskedInv'
    BY <1>2, <1>5 DEF AddUp
<1>6. ASSUME NEW failed \in BOOLEAN, Write(failed) PROVE AskedInv'
    <2>1. task \in Key /\ UNCHANGED <<counter, asked, late, ever, restarts>>
        BY <1>6 DEF Write
    <2>2. ~late
        BY <2>1 DEF AskedInv, Key
    <2> QED
        BY <1>2, <2>1, <2>2
<1>7. ASSUME Reset PROVE AskedInv'
    <2>1. /\ task = "reset" /\ task' = "report" /\ late' = TRUE
          /\ UNCHANGED <<asked, ever, restarts, failures>>
          /\ asked.key \in Key /\ counter'[asked.key] = 0
        BY <1>1, <1>7 DEF Reset, Zero
    <2>2. ~late
        BY <2>1 DEF AskedInv
    <2>3. failures = 0 => ever[asked.key] - asked.read - counter[asked.key]
                              <= restarts * PerPeriod
        BY <1>1, <2>1, <2>2 DEF AskedInv
    <2>4. failures' = 0 => ever'[asked.key] - asked.read - counter'[asked.key]
                               <= restarts * PerPeriod + PerPeriod
        BY <1>1, <2>1, <2>3
    <2> QED
        BY <2>1, <2>4 DEF AskedInv
<1>8. ASSUME (\E failed \in SUBSET Key : ReadBack(failed)) \/ NoReport PROVE AskedInv'
    BY <1>2, <1>8 DEF ReadBack, NoReport
<1>9. ASSUME NEW k \in Key, Ask(k) PROVE AskedInv'
    <2>1. /\ asked'.key = k /\ asked'.read = nvs[k] /\ late' = FALSE
          /\ UNCHANGED <<counter, ever, restarts, failures>>
        BY <1>9 DEF Ask
    <2>2. nvs[k] <= ever[k]
        BY DEF CountInv
    <2>3. failures' = 0 => ever[k] - nvs[k] - counter[k] <= restarts * PerPeriod + 0
        BY <1>1, <2>1, NvsAndCounter DEF FlushInv
    <2> QED
        BY <2>1, <2>2, <2>3 DEF AskedInv
<1>10. ASSUME Answer \/ Restart PROVE AskedInv'
    BY <1>10 DEF Answer, Restart
<1>11. ASSUME UNCHANGED vars PROVE AskedInv'
    BY <1>2, <1>11 DEF vars, AskedInv
<1> QED
    BY <1>4, <1>5, <1>6, <1>7, <1>8, <1>9, <1>10, <1>11 DEF Next

\* An answer is the total that was read and the counter, carried over days,
\* hours and minutes: it is ahead of the seconds counted by no more than a
\* period and, as long as nothing has failed, behind by no more than a period
\* and what restarts have lost (AnswersAreClose).
THEOREM AnswersStayClose == Spec => []AnswersAreClose
<1>1. Init => AskedInv
    BY DEF Init, AskedInv
<1>2. TypeOK /\ CounterInv /\ CountInv /\ FlushInv /\ AskedInv /\ [Next]_vars => AskedInv'
    BY AskedStep
<1>3. TypeOK /\ AskedInv => AnswersAreClose
    <2> SUFFICES ASSUME TypeOK, AskedInv, asked.key # NoKey
                 PROVE  /\ Told <= ever[asked.key] + PerPeriod
                        /\ failures = 0 =>
                               Told >= ever[asked.key] - (restarts + 1) * PerPeriod
        BY DEF AnswersAreClose
    <2>1. /\ asked.key \in Key /\ asked.read \in Nat /\ PerPeriod \in Nat
          /\ counter[asked.key] \in 0 .. PerPeriod /\ ever[asked.key] \in Nat
          /\ restarts \in Nat
        BY UptimeAssumption DEF TypeOK
    <2>2. Told = asked.read + counter[asked.key]
        BY <2>1, SecondsOfIncremented DEF Told
    <2>3. (restarts + 1) * PerPeriod = restarts * PerPeriod + PerPeriod
          /\ restarts * PerPeriod \in Nat
        BY <2>1
    <2>4. asked.read <= ever[asked.key]
        BY DEF AskedInv
    <2>5. failures = 0 => ever[asked.key] - asked.read - counter[asked.key]
                              <= restarts * PerPeriod + PerPeriod
        BY <2>1, <2>3 DEF AskedInv
    <2> QED
        BY <2>1, <2>2, <2>3, <2>4, <2>5
<1> QED
    BY <1>1, <1>2, <1>3, UptimeTypeSafe, CountInvariant, FlushInvariant, PTL DEF Spec
=============================================================================
