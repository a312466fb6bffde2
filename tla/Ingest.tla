------------------------------- MODULE Ingest -------------------------------
(***************************************************************************)
(* The batch branch's ingest: a daily DAG run fetches one symbol on one    *)
(* date per task, page by page over a retrying HTTP client, and puts each  *)
(* as one object; a gate measures the day; a script does the same by hand; *)
(* the warehouse loads every date that has an object of every symbol.      *)
(*                                                                         *)
(* A candle is its open time and an object is the set of its candles.      *)
(* Milliseconds are units of which MinuteMs make a minute.  What Binance   *)
(* answers, the object store and Airflow's retries are external.  The      *)
(* bounds are MaxNow and MaxIncidents.                                     *)
(***************************************************************************)
EXTENDS Integers, FiniteSets, FiniteSetsExt

CONSTANTS
    Symbols,        \* SYMBOLS, the configured universe
    Days,           \* dates are 1..Days
    DayLen,         \* MINUTES_PER_DAY (1 440)
    MinuteMs,       \* milliseconds in a minute (60 000)
    Limit,          \* KLINES_MAX_LIMIT (1 000)
    Attempts,       \* MAX_RETRIES of the HTTP client (4)
    Retries,        \* retries of an Airflow task (3)
    ActiveRuns,     \* max_active_runs of the DAG (3)
    Workers,        \* task slots of the Airflow deployment
    PerCent,        \* MIN_COMPLETENESS (99)
    Start,          \* minutes that have passed initially
    MaxNow,         \* bound: minutes that pass
    MaxIncidents    \* bound: gaps, repairs, delistings, faults, clears and scripts

ASSUME SizeAssumption ==
    {Days, DayLen, MinuteMs, Limit, Attempts, ActiveRuns, Workers} \subseteq Nat \ {0}
ASSUME BoundsAssumption ==
    {Retries, PerCent, Start, MaxNow, MaxIncidents} \subseteq Nat
ASSUME UniverseAssumption == IsFiniteSet(Symbols)

Dates == 1..Days
Cells == Dates \X Symbols
NoObject == {-1}

\* A fetch of a cell, by the cell's DAG task or by the script.
Jobs == {"dag", "script"} \X Dates \X Symbols
DateOnly(j) == <<j[2], CHOOSE s \in Symbols : TRUE>>           \* mutant
Cell(j) == <<j[2], j[3]>>

VARIABLES
    \* Binance.
    now,            \* minutes that have passed
    offered,        \* per symbol, the open times of its candles
    listed,         \* symbols open for spot trading
    \* The object store, and the dates in the warehouse.
    objects,        \* per cell, its candles (NoObject: no object)
    loaded,
    \* The DAG, its tasks, and the script.
    stage,          \* per date, how far its run has come
    universe,       \* per date, the symbols check_api returned
    job,            \* per job, the state of its fetch
    script,         \* the script's arguments, progress and exit status
    \* History.
    asked,          \* per cell, what Binance had when its object's fetch began
    contested,      \* cells that the DAG and the script fetched at once
    incidents       \* bound

exchange == <<now, offered, listed>>
store == <<objects, asked>>
dag == <<stage, universe>>
vars == <<exchange, store, loaded, dag, job, script, contested, incidents>>

-----------------------------------------------------------------------------
(* klines.py: the bounds of a day, and one page of it.                     *)

DayBefore(d) == (d - 2) * DayLen * MinuteMs                     \* mutant
DayStart(d) == (d - 1) * DayLen * MinuteMs
NextMidnight(d) == d * DayLen * MinuteMs                        \* mutant
DayEnd(d) == d * DayLen * MinuteMs - 1
Over(d) == d * DayLen <= now

\* The candles that open on date d.
OfDay(d, candles) == {t \in candles : DayStart(d) <= t /\ t < DayStart(d + 1)}

\* Binance answers for a symbol it no longer lists with no candles.
Serves(s) == IF s \in listed THEN offered[s] ELSE {}

\* GET /klines: the oldest Limit candles that open in from..to.
klines(s, from, to) ==
    LET inRange == {t \in Serves(s) : from <= t /\ t <= to}
    IN {t \in inRange : Cardinality({u \in inRange : u < t}) < Limit}

SameCursor(cursor, batch) == cursor                             \* mutant
NextCursor(cursor, batch) == Max(batch) + 1

\* The page is the day's last: nothing on it, room on it, or the day's end.
IsLast(j, batch) ==
    \/ Cardinality(batch) < Limit
    \/ NextCursor(job[j].cursor, batch) > DayEnd(j[2])

\* r["rows"] / r["expected"] < MIN_COMPLETENESS, of a date that is over.
DamagedIfEmpty(rows) == rows = {}                               \* mutant
Damaged(rows) == Cardinality(rows) * 100 < DayLen * PerCent

Idle == [pc |-> "idle", cursor |-> 0, rows |-> {}, attempt |-> 0, tries |-> 0, asked |-> {}]
InFlight(j) == job[j].pc \in {"page", "put"}
NotRunning == [on |-> FALSE, force |-> FALSE, range |-> {}, todo |-> {}, failed |-> 0,
               exit |-> "none"]

Init ==
    /\ now = Start
    /\ \E missing \in SUBSET (Symbols \X (0..(Start - 1))) :
          /\ Cardinality(missing) <= MaxIncidents
          /\ incidents = Cardinality(missing)
          /\ offered = [s \in Symbols |->
                {m * MinuteMs : m \in {n \in 0..(Start - 1) : <<s, n>> \notin missing}}]
    /\ listed = Symbols
    /\ objects = [c \in Cells |-> NoObject]
    /\ asked = [c \in Cells |-> {}]
    /\ loaded = {}
    /\ stage = [d \in Dates |-> "none"]
    /\ universe = [d \in Dates |-> {}]
    /\ job = [j \in Jobs |-> Idle]
    /\ script = NotRunning
    /\ contested = {}

-----------------------------------------------------------------------------
(* Binance: minutes pass, a candle may be missing and appear later, and a  *)
(* symbol may be delisted.                                                 *)

Elsewhere == UNCHANGED <<store, loaded, dag, job, script, contested>>
Incident == incidents < MaxIncidents /\ incidents' = incidents + 1

Tick ==
    /\ now < MaxNow
    /\ now' = now + 1
    /\ \E missing \in SUBSET Symbols :
          /\ incidents' = incidents + Cardinality(missing)
          /\ incidents' <= MaxIncidents
          /\ offered' = [s \in Symbols |->
                IF s \in missing THEN offered[s] ELSE offered[s] \cup {now * MinuteMs}]
    /\ UNCHANGED listed /\ Elsewhere

Repair(s, m) ==
    /\ Incident
    /\ m * MinuteMs \notin offered[s]
    /\ offered' = [offered EXCEPT ![s] = @ \cup {m * MinuteMs}]
    /\ UNCHANGED <<now, listed>> /\ Elsewhere

Delist(s) ==
    /\ Incident
    /\ listed' = listed \ {s}
    /\ s \in listed
    /\ UNCHANGED <<now, offered>> /\ Elsewhere

-----------------------------------------------------------------------------
(* One fetch.                                                              *)

\* fetch_day(symbol, run_date) begins.
Begin(j) ==
    /\ job' = [job EXCEPT ![j] =
          [@ EXCEPT !.pc = "page", !.cursor = DayStart(j[2]), !.rows = {}, !.attempt = 1,
                    !.asked = OfDay(j[2], Serves(j[3]))]]
    /\ contested' = IF \E k \in Jobs \ {j} : Cell(k) = Cell(j) /\ InFlight(k)
                      THEN contested \cup {Cell(j)} ELSE contested

\* The exception ends a fetch: Airflow queues the task again while it has
\* retries left, the script counts it and goes on.
NotCounted(j) == script                                         \* mutant
Counted(j) == [script EXCEPT !.failed = @ + 1]

Ends(j, pc, tries) ==
    /\ job' = [job EXCEPT ![j] = [Idle EXCEPT !.pc = pc, !.tries = tries]]
    /\ script' = IF j[1] = "script" THEN Counted(j) ELSE script

Raises(j) ==
    IF j[1] = "script" THEN Ends(j, "idle", 0)
    ELSE IF job[j].tries < Retries THEN Ends(j, "ready", job[j].tries + 1)
    ELSE Ends(j, "failed", 0)

\* An AirflowFailException is not retried.
Fails(j) == Ends(j, IF j[1] = "script" THEN "idle" ELSE "failed", 0)

FetchOnly == UNCHANGED <<exchange, loaded, dag, contested>>

\* get() returns a page of the day.
Page(j) ==
    /\ job[j].pc = "page"
    /\ LET batch == klines(j[3], job[j].cursor, DayEnd(j[2])) IN
          IF IsLast(j, batch)
            THEN job' = [job EXCEPT ![j].pc = "put", ![j].rows = @ \cup batch]
            ELSE job' = [job EXCEPT ![j].cursor = NextCursor(@, batch),
                                    ![j].rows = @ \cup batch, ![j].attempt = 1]
    /\ UNCHANGED <<store, script, incidents>> /\ FetchOnly

\* Mutant: an exhausted quota looks like an empty page.
EmptyWhenExhausted(j) ==
    IF job[j].attempt < Attempts
      THEN job' = [job EXCEPT ![j].attempt = @ + 1] /\ UNCHANGED script
      ELSE job' = [job EXCEPT ![j].pc = "put"] /\ UNCHANGED script

\* A connection error, 429, 418 or 5xx, retried up to Attempts times.
RetryOrRaise(j) ==
    IF job[j].attempt < Attempts
      THEN job' = [job EXCEPT ![j].attempt = @ + 1] /\ UNCHANGED script
      ELSE Raises(j)

Unanswered(j) ==
    /\ Incident
    /\ job[j].pc = "page"
    /\ RetryOrRaise(j)
    /\ UNCHANGED store /\ FetchOnly

\* write_partition: one object, replaced whole.
Stores(j) ==
    /\ job[j].pc = "put"
    /\ job[j].rows # {}
    /\ objects' = [objects EXCEPT ![Cell(j)] = job[j].rows]
    /\ asked' = [asked EXCEPT ![Cell(j)] = job[j].asked]

\* Any other status, a put that raises, stored or not, or the worker's death.
Breaks(j) ==
    /\ Incident
    /\ InFlight(j)
    /\ Raises(j)
    /\ Stores(j) \/ UNCHANGED store
    /\ FetchOnly

NoCandles(j) ==
    /\ job[j].pc = "put"
    /\ job[j].rows = {}
    /\ Fails(j)
    /\ UNCHANGED <<store, incidents>> /\ FetchOnly

Put(j) ==
    /\ Stores(j)
    /\ job' = [job EXCEPT ![j] =
          IF j[1] = "script" THEN Idle ELSE [Idle EXCEPT !.pc = "done", !.rows = job[j].rows]]
    /\ UNCHANGED <<script, incidents>> /\ FetchOnly

-----------------------------------------------------------------------------
(* binance_klines_ingest: one run per date, one task per symbol.           *)

TasksOf(d) == {<<"dag", d, s>> : s \in universe[d]}
Ended(d) == \A j \in TasksOf(d) : job[j].pc \in {"done", "failed"}
AllSuccess(d) == \A j \in TasksOf(d) : job[j].pc = "done"
DagOnly == UNCHANGED <<exchange, store, loaded, script>>

\* A run starts once its date is over.  check_api leaves out what is not listed.
CheckApi(d) ==
    /\ stage[d] = "none"
    /\ Over(d)
    /\ Cardinality({e \in Dates : stage[e] = "fetch"}) < ActiveRuns
    /\ universe' = [universe EXCEPT ![d] = listed]
    /\ stage' = [stage EXCEPT ![d] = IF listed = {} THEN "failed" ELSE "fetch"]
    /\ job' = [j \in Jobs |-> IF j[1] = "dag" /\ j[2] = d /\ j[3] \in listed
                                THEN [Idle EXCEPT !.pc = "ready"] ELSE job[j]]
    /\ UNCHANGED <<contested, incidents>> /\ DagOnly

\* The ping goes unanswered, or the symbol list does on every retry.
ApiDown(d) ==
    /\ Incident
    /\ stage[d] = "none"
    /\ Over(d)
    /\ stage' = [stage EXCEPT ![d] = "failed"]
    /\ UNCHANGED <<universe, job, contested>> /\ DagOnly

StartTask(j) ==
    /\ j[1] = "dag"
    /\ job[j].pc = "ready"
    /\ Cardinality({k \in Jobs : k[1] = "dag" /\ InFlight(k)}) < Workers
    /\ Begin(j)
    /\ UNCHANGED <<dag, incidents>> /\ DagOnly

\* validate_day and register.
ValidateDay(d) ==
    /\ stage[d] = "fetch"
    /\ AllSuccess(d)
    /\ stage' = [stage EXCEPT ![d] =
          IF \E j \in TasksOf(d) : Damaged(job[j].rows) THEN "refused" ELSE "registered"]
    /\ UNCHANGED <<universe, job, contested, incidents>> /\ DagOnly

UpstreamFailed(d) ==
    /\ stage[d] = "fetch"
    /\ Ended(d) /\ ~AllSuccess(d)
    /\ stage' = [stage EXCEPT ![d] = "failed"]
    /\ UNCHANGED <<universe, job, contested, incidents>> /\ DagOnly

\* A cell that has ended is cleared by hand, and what follows it with it.
Clear(j) ==
    /\ Incident
    /\ j[1] = "dag"
    /\ job[j].pc \in {"done", "failed"}
    /\ job' = [job EXCEPT ![j] = [Idle EXCEPT !.pc = "ready"]]
    /\ stage' = [stage EXCEPT ![j[2]] = "fetch"]
    /\ UNCHANGED <<universe, contested>> /\ DagOnly

-----------------------------------------------------------------------------
(* scripts/backfill.py: the cells of a range of dates, one after another.  *)

ScriptBusy == \E c \in Dates \X Symbols : InFlight(<<"script", c[1], c[2]>>)
ScriptOnly == UNCHANGED <<exchange, store, loaded, dag>>

StartScript(first, last, force) ==
    /\ ~script.on
    /\ Incident
    /\ LET range == (first..last) \X Symbols IN
          script' = [NotRunning EXCEPT !.on = TRUE, !.force = force, !.range = range,
                                       !.todo = range]
    /\ UNCHANGED <<job, contested>> /\ ScriptOnly

Skips(c) == ~script.force /\ objects[c] # NoObject

NextCell(c) ==
    /\ ~ScriptBusy
    /\ c \in script.todo
    /\ \A e \in script.todo : c[1] <= e[1]
    /\ script' = [script EXCEPT !.todo = @ \ {c}]
    /\ IF Skips(c) THEN UNCHANGED <<job, contested>> ELSE Begin(<<"script", c[1], c[2]>>)
    /\ UNCHANGED incidents /\ ScriptOnly

\* exists() raises outside the loop's try, the ping fails, or the script is killed.
ScriptDies ==
    /\ Incident
    /\ script.on
    /\ script' = [script EXCEPT !.on = FALSE, !.todo = {}, !.exit = "died"]
    /\ job' = [j \in Jobs |-> IF j[1] = "script" THEN Idle ELSE job[j]]
    /\ UNCHANGED contested /\ ScriptOnly

ScriptEnds ==
    /\ script.on
    /\ script.todo = {} /\ ~ScriptBusy
    /\ script' = [script EXCEPT !.on = FALSE, !.exit = IF script.failed = 0 THEN "0" ELSE "1"]
    /\ UNCHANGED <<job, contested, incidents>> /\ ScriptOnly

-----------------------------------------------------------------------------
(* load_pending of binance_warehouse: every date with an object per symbol *)
(* that is not in the warehouse yet.                                       *)

KeysOf(d) == {s \in Symbols : objects[<<d, s>>] # NoObject}
Pending == {d \in Dates : Cardinality(KeysOf(d)) = Cardinality(Symbols)} \ loaded

LoadDay(d) ==
    /\ d \in Pending
    /\ loaded' = loaded \cup {d}
    /\ UNCHANGED <<exchange, store, dag, job, script, contested, incidents>>

-----------------------------------------------------------------------------
FetchStep(j) == Page(j) \/ NoCandles(j) \/ Put(j)
RunStep(d) == CheckApi(d) \/ ValidateDay(d) \/ UpstreamFailed(d)

Next ==
    \/ Tick
    \/ \E s \in Symbols : Delist(s) \/ \E m \in 0..(now - 1) : Repair(s, m)
    \/ \E j \in Jobs : FetchStep(j) \/ Unanswered(j) \/ Breaks(j) \/ StartTask(j) \/ Clear(j)
    \/ \E d \in Dates : RunStep(d) \/ ApiDown(d) \/ LoadDay(d)
    \/ \E first, last \in Dates, force \in BOOLEAN : StartScript(first, last, force)
    \/ \E c \in Cells : NextCell(c)
    \/ ScriptDies \/ ScriptEnds

Spec == Init /\ [][Next]_vars

\* Airflow runs what is queued, a request or an upload returns or raises, and
\* the warehouse's DAG comes around every day.
FairSpec ==
    /\ Spec
    /\ \A j \in Jobs : WF_vars(FetchStep(j)) /\ WF_vars(StartTask(j))
    /\ \A d \in Dates : WF_vars(RunStep(d)) /\ WF_vars(LoadDay(d))

-----------------------------------------------------------------------------
(* Properties.                                                             *)

\* Type invariant: every variable holds what the code stores in it.
TypeOK ==
    /\ now \in Nat
    /\ offered \in [Symbols -> SUBSET Nat]
    /\ listed \subseteq Symbols
    /\ objects \in [Cells -> SUBSET Int]
    /\ asked \in [Cells -> SUBSET Nat]
    /\ loaded \subseteq Dates
    /\ stage \in [Dates -> {"none", "fetch", "registered", "refused", "failed"}]
    /\ universe \in [Dates -> SUBSET Symbols]
    /\ job \in [Jobs -> [pc : {"idle", "ready", "page", "put", "done", "failed"},
                         cursor : Nat, rows : SUBSET Nat, attempt : Nat, tries : Nat,
                         asked : SUBSET Nat]]
    /\ script \in [on : BOOLEAN, force : BOOLEAN, range : SUBSET Cells,
                   todo : SUBSET Cells, failed : Nat, exit : {"none", "0", "1", "died"}]
    /\ contested \subseteq Cells
    /\ incidents \in Nat

\* "An exhausted quota must never look like an empty result", and a gap must
\* not shift a page: a stored object has every candle its date had at Binance
\* when its fetch began, whatever was throttled, retried or interrupted since (a
\* symbol delisted between two pages is the exception: its next page is empty).
ObjectsWhole ==
    \A c \in Cells :
        objects[c] # NoObject /\ c[2] \in listed => asked[c] \subseteq objects[c]

\* No minute lands in two partitions: an object holds candles that Binance has
\* of its own date.
ObjectsOfTheirDate ==
    \A c \in Cells : objects[c] # NoObject =>
        objects[c] # {} /\ objects[c] \subseteq OfDay(c[1], offered[c[2]])

\* The DAG and the script, retried, cleared, killed and at one cell together, fill
\* Bronze: each object is put whole, of its date, of minutes begun, and never removed.
Objects == INSTANCE Bronze WITH
    clock <- now * MinuteMs,
    bronze <- [c \in Cells |-> objects[c] \ NoObject]
FillsBronze == Objects!Spec

\* A green date stays whole: while its run stands registered, the object of
\* every symbol of its universe passes the gate, re-fetched or not, unless the
\* script and the DAG were fetching that cell at once or it was delisted.
GreenStaysComplete ==
    \A d \in Dates : stage[d] = "registered" =>
        \A s \in universe[d] \cap listed :
            <<d, s>> \in contested
            \/ /\ objects[<<d, s>>] # NoObject
               /\ Cardinality(objects[<<d, s>>]) * 100 >= DayLen * PerCent

\* A green date that cannot be loaded is missing only symbols that Binance no
\* longer listed when its run began, whatever was retried or cleared.
MissingMeansDelisted ==
    \A d \in Dates :
        stage[d] = "registered" => Symbols \ KeysOf(d) \subseteq Symbols \ universe[d]

\* Exit status 0 of the script means that every cell of its range is stored.
ExitZeroMeansStored ==
    script.exit = "0" => \A c \in script.range : objects[c] # NoObject

\* Every date that is over reaches the warehouse, unless its run failed or was
\* started with a symbol of the universe delisted.
DatesReachWarehouse ==
    \A d \in Dates :
        Over(d) ~>
            \/ d \in loaded
            \/ stage[d] = "failed"
            \/ stage[d] \in {"registered", "refused"} /\ universe[d] # Symbols
=============================================================================
