------------------------------- MODULE Uptime -------------------------------
(***************************************************************************)
(* The uptimes of the charger's internet connection and websocket.         *)
(* mqtt_task counts seconds in four counters; every 30 s it adds them to   *)
(* the totals in RAM, writes the totals to NVS one after the other and     *)
(* sets the counters back.  The periodic message then reads the totals     *)
(* back from NVS into RAM.  process_MQTT_msg answers a request for an      *)
(* uptime with what NVS has and the counter, read one after the other on   *)
(* another core.  At boot the totals come from NVS.                        *)
(*                                                                         *)
(* Opening the namespace can fail: a write then writes nothing and a read  *)
(* returns 0.  NVS itself writes a value whole or not at all.              *)
(***************************************************************************)
EXTENDS Integers

CONSTANTS PerPeriod,    \* seconds counted in a period, one in 20 rounds: 31
          Minute, Hour, Day,  \* seconds, minutes and hours: 60, 60 and 24
          MaxSeconds,   \* bound: seconds counted in all
          MaxRestarts,  \* bound: restarts
          MaxFailures   \* bound: writes and reads that fail

ASSUME UptimeAssumption ==
    /\ PerPeriod \in Nat \ {0}
    /\ Minute \in Nat \ {0} /\ Hour \in Nat \ {0} /\ Day \in Nat \ {0}
    /\ {MaxSeconds, MaxRestarts, MaxFailures} \subseteq Nat

Key  == {"iDT", "iUT", "wUT", "wDT"}
NoKey == "none"

VARIABLES
    counter,   \* LCUInternetDown, LCUInternetUp, LCUWebsocketUp and
               \* LCUWebsocketDown
    total,     \* the totals in RAM
    nvs,       \* the totals in NVS
    task,      \* mqtt_task: "count", "reset", "report" or the key to write
    counted,   \* seconds counted in this period
    asked,     \* process_MQTT_msg: the key it answers for, the total it read
    late,      \* a flush has passed since it read
    ever,      \* seconds ever counted, by key
    restarts,  \* restarts of the PMU
    failures   \* writes and reads that failed

vars == <<counter, total, nvs, task, counted, asked, late, ever, restarts,
          failures>>

-----------------------------------------------------------------------------

Zero == [k \in Key |-> 0]

\* Mutant: the websocket is written before the internet
NextKeySwapped ==
    [iDT |-> "wUT", wUT |-> "wDT", wDT |-> "iUT", iUT |-> "reset"]

\* The order of the four writes
NextKey == [iDT |-> "iUT", iUT |-> "wUT", wUT |-> "wDT", wDT |-> "reset"]

\* Days, hours, minutes and seconds of a total
Duration(n) == [days    |-> n \div (Day * Hour * Minute),
                hours   |-> (n % (Day * Hour * Minute)) \div (Hour * Minute),
                minutes |-> (n % (Hour * Minute)) \div Minute,
                seconds |-> n % Minute]

\* Mutant: minutes that are full are not carried on
IncrementedUncarried(d, n) ==
    LET s == d.seconds + n IN
    [d EXCEPT !.seconds = s % Minute, !.minutes = (@ + s \div Minute) % Hour]

\* increment_time
Incremented(d, n) ==
    LET s == d.seconds + n
        m == d.minutes + s \div Minute
        h == d.hours + m \div Hour
    IN  [days    |-> d.days + h \div Day,
         hours   |-> h % Day,
         minutes |-> m % Hour,
         seconds |-> s % Minute]

Seconds(d) ==
    ((d.days * Day + d.hours) * Hour + d.minutes) * Minute + d.seconds

\* A second of a charger that is heard and online: its internet is down, or it
\* is up and the websocket is up or down
Tick(keys) ==
    /\ task = "count"
    /\ counted < PerPeriod
    /\ \A k \in Key : ever[k] < MaxSeconds
    /\ counted' = counted + 1
    /\ counter' = [k \in Key |->
                      IF k \in keys THEN counter[k] + 1 ELSE counter[k]]
    /\ ever' = [k \in Key |-> IF k \in keys THEN ever[k] + 1 ELSE ever[k]]
    /\ UNCHANGED <<total, nvs, task, asked, late, restarts, failures>>

InternetDown  == Tick({"iDT"})
WebsocketUp   == Tick({"iUT", "wUT"})
WebsocketDown == Tick({"iUT", "wDT"})

\* counterPeriodic has reached 600.  An answer takes no longer than a period
AddUp ==
    /\ task = "count"
    /\ asked.key # NoKey => ~late
    /\ task' = "iDT"
    /\ total' = [k \in Key |-> total[k] + counter[k]]
    /\ UNCHANGED <<counter, nvs, counted, asked, late,
                   ever, restarts, failures>>

\* Opening the namespace failed or not
CountFailure(failed) ==
    /\ failed => failures < MaxFailures
    /\ failures' = IF failed THEN failures + 1 ELSE failures

\* write_nvs_value, or nothing when the namespace cannot be opened
Write(failed) ==
    /\ task \in Key
    /\ CountFailure(failed)
    /\ nvs' = IF failed THEN nvs ELSE [nvs EXCEPT ![task] = total[task]]
    /\ task' = NextKey[task]
    /\ UNCHANGED <<counter, total, counted, asked, late, ever, restarts>>

\* Mutant: the counters keep their seconds
ResetNothing ==
    /\ task = "reset"
    /\ task' = "report"
    /\ counted' = 0
    /\ late' = (asked.key # NoKey)
    /\ UNCHANGED <<counter, total, nvs, asked, ever, restarts, failures>>

\* The counters after the four writes
Reset ==
    /\ task = "reset"
    /\ task' = "report"
    /\ counted' = 0
    /\ counter' = Zero
    /\ late' = (asked.key # NoKey)
    /\ UNCHANGED <<total, nvs, asked, ever, restarts, failures>>

\* create_chargerPeriodicData_message reads all four totals, and those it
\* cannot read are 0
ReadBack(failed) ==
    /\ task = "report"
    /\ CountFailure(failed # {})
    /\ task' = "count"
    /\ total' = [k \in Key |-> IF k \in failed THEN 0 ELSE nvs[k]]
    /\ UNCHANGED <<counter, nvs, counted, asked, late, ever, restarts>>

\* ... or there is no such message, or it has no uptimes
NoReport ==
    /\ task = "report"
    /\ task' = "count"
    /\ UNCHANGED <<counter, total, nvs, counted, asked, late,
                   ever, restarts, failures>>

\* create_componentStatus_response, on the other core, reads a total
Ask(k) ==
    /\ asked.key = NoKey
    /\ asked' = [key |-> k, read |-> nvs[k]]
    /\ late' = FALSE
    /\ UNCHANGED <<counter, total, nvs, task, counted,
                   ever, restarts, failures>>

\* What it would answer now: the total it read and the counter as it is
Told == Seconds(Incremented(Duration(asked.read), counter[asked.key]))

Answer ==
    /\ asked.key # NoKey
    /\ asked' = [key |-> NoKey, read |-> 0]
    /\ UNCHANGED <<counter, total, nvs, task, counted, late,
                   ever, restarts, failures>>

\* Mutant: the totals are not fetched
RestartForgets ==
    /\ restarts < MaxRestarts
    /\ restarts' = restarts + 1
    /\ total' = Zero
    /\ counter' = Zero
    /\ counted' = 0
    /\ task' = "count"
    /\ asked' = [key |-> NoKey, read |-> 0]
    /\ late' = FALSE
    /\ UNCHANGED <<nvs, ever, failures>>

\* A restart between any two steps: fetch_uptime_keys
Restart ==
    /\ restarts < MaxRestarts
    /\ restarts' = restarts + 1
    /\ total' = nvs
    /\ counter' = Zero
    /\ counted' = 0
    /\ task' = "count"
    /\ asked' = [key |-> NoKey, read |-> 0]
    /\ late' = FALSE
    /\ UNCHANGED <<nvs, ever, failures>>

Init ==
    /\ counter = Zero /\ total = Zero /\ nvs = Zero /\ ever = Zero
    /\ task = "count" /\ counted = 0
    /\ asked = [key |-> NoKey, read |-> 0] /\ late = FALSE
    /\ restarts = 0 /\ failures = 0

Next ==
    \/ InternetDown \/ WebsocketUp \/ WebsocketDown
    \/ AddUp
    \/ \E failed \in BOOLEAN : Write(failed)
    \/ Reset
    \/ \E failed \in SUBSET Key : ReadBack(failed)
    \/ NoReport
    \/ \E k \in Key : Ask(k)
    \/ Answer
    \/ Restart

Spec == Init /\ [][Next]_vars

-----------------------------------------------------------------------------
(* Properties *)

\* The variables have their types, and no counter outgrows its period.
TypeOK ==
    /\ counter \in [Key -> 0 .. PerPeriod]
    /\ total \in [Key -> Nat] /\ nvs \in [Key -> Nat] /\ ever \in [Key -> Nat]
    /\ task \in {"count", "reset", "report"} \union Key
    /\ counted \in 0 .. PerPeriod
    /\ asked \in [key : Key \union {NoKey}, read : Nat] /\ late \in BOOLEAN
    /\ restarts \in Nat /\ failures \in Nat

\* No second is counted twice in NVS, whatever restarts, failed writes and
\* failed reads there were.
NeverOvercounts == \A k \in Key : nvs[k] <= ever[k]

\* Unless a write or a read failed, every restart loses at most the seconds of
\* one period; the rest is in NVS, or will be with the next flush.
LosesOnePeriod ==
    failures = 0 =>
        \A k \in Key : ever[k] - nvs[k] <= (restarts + 1) * PerPeriod

\* The internet was up whenever the websocket was counted: at every moment,
\* also in the middle of a flush and after a restart there, NVS says so, and
\* differs by no more than a period for each restart.
TotalsAgree ==
    failures = 0 =>
        nvs["iUT"] - nvs["wUT"] - nvs["wDT"]
            \in 0 .. (restarts + 1) * PerPeriod

\* An answer differs from the seconds counted by less than a period, apart from
\* what restarts have lost, although its total and its counter may be from
\* different sides of a flush.
AnswersAreClose ==
    asked.key # NoKey =>
        /\ Told <= ever[asked.key] + PerPeriod
        /\ failures = 0 =>
               Told >= ever[asked.key] - (restarts + 1) * PerPeriod

=============================================================================
