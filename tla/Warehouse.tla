----------------------------- MODULE Warehouse ------------------------------
(***************************************************************************)
(* The batch layer from Bronze to the star schema: objects of candles per   *)
(* date and symbol, two programs that load whole dates into raw.klines_1m   *)
(* (the warehouse DAG and the load script), the daily metadata of the       *)
(* symbols, the snapshot that versions it, dim_symbol, and the fact table,  *)
(* extended at each build by the rows loaded since the last.                *)
(*                                                                         *)
(* A candle is its symbol and its minute; its values are left out.  Minutes *)
(* are numbered from the first date on, DayLen of them to a date.  `now` is *)
(* the first minute that has not begun; it also dates the versions of a    *)
(* symbol.  Load times are only ever compared with each other and are the   *)
(* order in which transactions began.                                      *)
(*                                                                         *)
(* The bounds are Days, MaxNow, MaxRefetches, MaxChanges, MaxScripts and    *)
(* MaxFaults.                                                              *)
(***************************************************************************)
EXTENDS Integers, FiniteSets, FiniteSetsExt

CONSTANTS
    Symbols,        \* SYMBOLS
    Attrs,          \* values the checked columns of a symbol may take
    Days,           \* bound: dates
    DayLen,         \* minutes in a date (1440)
    Shapes,         \* the minutes of a date that a fetch may come back with
    ScriptFlags,    \* the flags the load script is run with
    Overlap,        \* whether dbt may build while the load script is loading
    Start,          \* when the pipeline is switched on; the dates before are history
    MaxNow,         \* bound: the clock, but for the snapshots
    MaxRefetches,   \* bound: objects fetched again
    MaxChanges,     \* bound: changes of a symbol's metadata
    MaxScripts,     \* bound: runs of the load script
    MaxFaults       \* bound: tasks that fail

ASSUME DaysAssumption == Days \in Nat /\ DayLen \in Nat \ {0}
ASSUME ShapesAssumption == /\ Shapes \subseteq SUBSET (0..(DayLen - 1))
                           /\ \A a, b \in Shapes : a \cap b # {}
ASSUME FlagsAssumption == /\ ScriptFlags \subseteq [force : BOOLEAN, allow_partial : BOOLEAN]
                          /\ Overlap \in BOOLEAN
ASSUME BudgetAssumption ==
    {Start, MaxNow, MaxRefetches, MaxChanges, MaxScripts, MaxFaults} \subseteq Nat

Dates == 0..(Days - 1)
Minutes == 0..(Days * DayLen - 1)
DayOf(mi) == mi \div DayLen
Rows == Symbols \X Minutes
Loaders == {"dag", "script"}

NotLoaded == 0
Open == -1        \* the valid_to of a current version
NoAttrs == "none"
NoTxn == [day |-> -1, stamp |-> NotLoaded, df |-> {}, hit |-> {}]

Version == [symbol : Symbols, attrs : Attrs, valid_from : Nat, valid_to : Nat \cup {Open}]
FactRow == [row : Rows, version : Nat, loaded_at : Nat \ {NotLoaded}]
Txn == [day : Dates, stamp : Nat, df : SUBSET Rows, hit : SUBSET Nat]

VARIABLES
    now,         \* the first minute that has not begun
    meta,        \* the exchange's metadata of each symbol
    bronze,      \* the minutes in the object of each date and symbol ({}: no object)
    observed,    \* the newest row of raw.exchange_info of each symbol
    raw,         \* raw.klines_1m: the loaded_at of each row (NotLoaded: no row)
    stamps,      \* transactions begun so far
    snap,        \* snap_symbol
    dim,         \* dim_symbol as last built
    fact,        \* fact_ohlcv_1m
    dag,         \* where the run of the warehouse DAG is
    done,        \* its root tasks that have ended, and how
    todo,        \* per loader, the dates it has still to load
    txn,         \* per loader, the date it has read and its open transaction
    refetches, changes, scripts, faults    \* bounds

tables == <<observed, raw, stamps, snap, dim, fact>>
loading == <<todo, txn>>
budget == <<refetches, changes, scripts, faults>>
vars == <<now, meta, bronze, tables, dag, done, loading, budget>>

-----------------------------------------------------------------------------
RowsOf(d) == {r \in Rows : DayOf(r[2]) = d}
\* What read_parquet returns of a date: the rows of all its objects.
BronzeOf(d) == {r \in RowsOf(d) : r[2] \in bronze[d][r[1]]}
list_keys(d) == {s \in Symbols : bronze[d][s] # {}}
loaded_dates == {d \in Dates : \E r \in RowsOf(d) : raw[r] # NotLoaded}

Pending(d) == list_keys(d) = Symbols /\ d \notin loaded_dates

\* The loads whose rows a DELETE of the date hits: those committed when it begins.
Visible(d) == {raw[r] : r \in RowsOf(d)} \ {NotLoaded}

\* The table as others see it while transaction t has deleted and not yet committed.
Autocommitted(t) == [r \in Rows |-> IF DayOf(r[2]) = t.day THEN NotLoaded ELSE raw[r]]    \* mutant
SeenWhileOpen(t) == raw

\* The rows of the table once t has committed: what its DELETE hit is gone, what was
\* read is there.
Replaced(t) ==
    [r \in Rows |-> IF r \in t.df THEN t.stamp
                    ELSE IF DayOf(r[2]) = t.day /\ raw[r] \in t.hit THEN NotLoaded ELSE raw[r]]

CoversClosed(v, mi) ==                                              \* mutant
    v.valid_from <= mi /\ (v.valid_to = Open \/ mi <= v.valid_to)
CoversCurrent(v, mi) == v.valid_to = Open                           \* mutant
Covers(v, mi) == v.valid_from <= mi /\ (v.valid_to = Open \/ mi < v.valid_to)

\* Rows newer than anything in the fact table.
NewestDate(r) ==                                                    \* mutant
    raw[r] # NotLoaded /\ DayOf(r[2]) >= Max({0} \cup {DayOf(f.row[2]) : f \in fact})
NoOlder(r) == raw[r] >= Max({NotLoaded} \cup {f.loaded_at : f \in fact})    \* mutant
Newer(r) == raw[r] > Max({NotLoaded} \cup {f.loaded_at : f \in fact})

\* dim_symbol: the versions, the first of each symbol backdated to the epoch.
AsStamped(versions) == versions                                     \* mutant
Backdated(versions) ==
    {[v EXCEPT !.valid_from =
        IF \A u \in versions : u.symbol = v.symbol => v.valid_from <= u.valid_from
          THEN 0 ELSE @] : v \in versions}

\* snap_symbol: the symbols whose current version, if they have one, differs from
\* what was observed, and what the snapshot does to it.
Noted == {s \in Symbols : observed[s] # NoAttrs}                    \* mutant
Changed == {s \in Symbols : \A v \in snap : v.symbol = s /\ v.valid_to = Open =>
                                               v.attrs # observed[s]}
LeftOpen(v) == v                                                    \* mutant
Closed(v) == IF v.valid_to = Open /\ v.symbol \in Changed THEN [v EXCEPT !.valid_to = now] ELSE v
Opened(s) == [symbol |-> s, attrs |-> observed[s], valid_from |-> now, valid_to |-> Open]

AllSuccess == {"loaded", "observed"} \subseteq done                  \* mutant
NoneFailed == "observed" \in done /\ done \cap {"loaded", "skipped"} # {}

Init ==
    /\ now = Start
    /\ meta \in [Symbols -> Attrs]
    /\ bronze = [d \in Dates |-> [s \in Symbols |-> {}]]
    /\ observed = [s \in Symbols |-> NoAttrs]
    /\ raw = [r \in Rows |-> NotLoaded]
    /\ stamps = 0
    /\ snap = {}
    /\ dim = {}
    /\ fact = {}
    /\ dag = "idle"
    /\ done = {}
    /\ todo = [l \in Loaders |-> {}]
    /\ txn = [l \in Loaders |-> NoTxn]
    /\ refetches = 0 /\ changes = 0 /\ scripts = 0 /\ faults = 0

-----------------------------------------------------------------------------
(* The world: time, the exchange, and Bronze.                              *)

Tick ==
    /\ now < MaxNow
    /\ now' = now + 1
    /\ UNCHANGED <<meta, bronze, tables, dag, done, loading, budget>>

ChangeMeta(s, a) ==
    /\ changes < MaxChanges /\ a # meta[s]
    /\ changes' = changes + 1
    /\ meta' = [meta EXCEPT ![s] = a]
    /\ UNCHANGED <<now, bronze, tables, dag, done, loading, refetches, scripts, faults>>

\* The ingest DAG puts the object of a date that is over, the backfill also that of the
\* date in progress: the minutes it got have begun.  A run again of either, or a
\* correction, replaces it.
PutObject(d, s, shape) ==
    /\ \A i \in shape : d * DayLen + i < now
    /\ bronze' = [bronze EXCEPT ![d][s] = {d * DayLen + i : i \in shape}]
    /\ \/ bronze[d][s] = {} /\ UNCHANGED refetches
       \/ /\ bronze[d][s] # {} /\ refetches < MaxRefetches
          /\ refetches' = refetches + 1
    /\ UNCHANGED <<now, meta, tables, dag, done, loading, changes, scripts, faults>>

-----------------------------------------------------------------------------
(* Loading: what both loaders do with the dates they have listed.          *)

Idle(l) == todo[l] = {} /\ txn[l] = NoTxn

\* load_day: read_day(), outside the transaction.
ReadDay(l) ==
    /\ todo[l] # {} /\ txn[l] = NoTxn
    /\ LET d == Min(todo[l])
       IN txn' = [txn EXCEPT ![l] = [day |-> d, stamp |-> NotLoaded, df |-> BronzeOf(d),
                                         hit |-> {}]]
    /\ UNCHANGED <<now, meta, bronze, tables, dag, done, todo, budget>>

\* The DELETE opens the transaction, whose start is the loaded_at of its rows.
BeginLoad(l) ==
    /\ txn[l] # NoTxn /\ txn[l].stamp = NotLoaded
    /\ stamps' = stamps + 1
    /\ txn' = [txn EXCEPT ![l].stamp = stamps', ![l].hit = Visible(txn[l].day)]
    /\ raw' = SeenWhileOpen(txn[l])
    /\ UNCHANGED <<now, meta, bronze, observed, snap, dim, fact, dag, done, todo, budget>>

\* Of two open transactions on one date the second to commit hits the primary
\* key on the rows of the first, which its DELETE did not hit, and its program fails.
NoneLoses(m, l) == FALSE                                            \* mutant
Loses(m, l) == m # l /\ txn[m].stamp # NotLoaded /\ txn[m].day = txn[l].day

CommitLoad(l) ==
    /\ txn[l].stamp # NotLoaded
    /\ raw' = Replaced(txn[l])
    /\ todo' = [m \in Loaders |-> IF m = l THEN todo[l] \ {txn[l].day}
                                  ELSE IF Loses(m, l) THEN {} ELSE todo[m]]
    /\ txn' = [m \in Loaders |-> IF m = l \/ Loses(m, l) THEN NoTxn ELSE txn[m]]
    /\ done' = IF l = "dag" /\ todo'["dag"] = {} THEN done \cup {"loaded"} ELSE done
    /\ UNCHANGED <<now, meta, bronze, observed, stamps, snap, dim, fact, dag, budget>>

LoadFails(l) ==
    /\ faults < MaxFaults
    /\ ~Idle(l)
    /\ faults' = faults + 1
    /\ todo' = [todo EXCEPT ![l] = {}]
    /\ txn' = [txn EXCEPT ![l] = NoTxn]
    /\ UNCHANGED <<now, meta, bronze, tables, dag, done, refetches, changes, scripts>>

-----------------------------------------------------------------------------
(* The load script, run by hand.                                           *)

ListTodo(flags) ==
    /\ scripts < MaxScripts
    /\ Idle("script")
    /\ scripts' = scripts + 1
    /\ todo' = [todo EXCEPT !["script"] =
                    {d \in Dates : /\ list_keys(d) # {}
                                   /\ flags.force \/ d \notin loaded_dates
                                   /\ flags.allow_partial \/ list_keys(d) = Symbols}]
    /\ UNCHANGED <<now, meta, bronze, tables, dag, done, txn, refetches, changes, faults>>

-----------------------------------------------------------------------------
(* The warehouse DAG, one run at a time.  Its two roots run side by side.  *)

StartRun ==
    /\ dag = "idle"
    /\ dag' = "roots"
    /\ UNCHANGED <<now, meta, bronze, tables, done, loading, budget>>

\* load_pending lists Bronze and the table; with nothing to do it skips.
ListPending ==
    /\ dag = "roots" /\ done \cap {"loaded", "skipped"} = {} /\ Idle("dag")
    /\ LET pending == {d \in Dates : Pending(d)}
       IN /\ todo' = [todo EXCEPT !["dag"] = pending]
          /\ done' = IF pending = {} THEN done \cup {"skipped"} ELSE done
    /\ UNCHANGED <<now, meta, bronze, tables, dag, txn, budget>>

SnapshotSymbols ==
    /\ dag = "roots" /\ "observed" \notin done
    /\ observed' = meta
    /\ done' = done \cup {"observed"}
    /\ UNCHANGED <<now, meta, bronze, raw, stamps, snap, dim, fact, dag, loading, budget>>

\* Both roots have ended, and none of them failed.
JoinRoots ==
    /\ dag = "roots"
    /\ "observed" \in done /\ done \cap {"loaded", "skipped"} # {}
    /\ dag' = IF NoneFailed THEN "snapshot" ELSE "idle"
    /\ done' = {}
    /\ UNCHANGED <<now, meta, bronze, tables, loading, budget>>

\* dbt snapshot, on its own and then again as the first node of dbt build.
TakeSnapshot ==
    /\ dag \in {"snapshot", "build"}
    /\ dag' = IF dag = "snapshot" THEN "build" ELSE "dim"
    /\ snap' = {Closed(v) : v \in snap} \cup {Opened(s) : s \in Changed}
    /\ now' = IF Changed = {} THEN now ELSE now + 1
    /\ UNCHANGED <<meta, bronze, observed, raw, stamps, dim, fact, done, loading, budget>>

BuildDim ==
    /\ dag = "dim"
    /\ dag' = "fact"
    /\ dim' = Backdated(snap)
    /\ UNCHANGED <<now, meta, bronze, observed, raw, stamps, snap, fact, done, loading, budget>>

\* Incremental, delete+insert on the row key; dbt's tests only read.
BuildFact ==
    /\ dag = "fact"
    /\ Overlap \/ txn["script"].stamp = NotLoaded
    /\ LET pairs == {j \in Rows \X dim : /\ Newer(j[1])
                                       /\ j[2].symbol = j[1][1]
                                       /\ Covers(j[2], j[1][2])}
           joined == {[row |-> j[1], version |-> j[2].valid_from, loaded_at |-> raw[j[1]]] :
                        j \in pairs}
       IN fact' = {f \in fact : \A j \in joined : j.row # f.row} \cup joined
    /\ dag' = "idle"
    /\ UNCHANGED <<now, meta, bronze, observed, raw, stamps, snap, dim, done, loading, budget>>

\* A node of dbt build fails and the task is retried: the build begins again.
BuildRetried ==
    /\ faults < MaxFaults
    /\ dag \in {"dim", "fact"}
    /\ faults' = faults + 1
    /\ dag' = "build"
    /\ UNCHANGED <<now, meta, bronze, tables, done, loading, refetches, changes, scripts>>

\* A task fails for the last time, or the worker dies: the run is over.
RunFails ==
    /\ faults < MaxFaults
    /\ dag # "idle"
    /\ faults' = faults + 1
    /\ dag' = "idle"
    /\ done' = {}
    /\ todo' = [todo EXCEPT !["dag"] = {}]
    /\ txn' = [txn EXCEPT !["dag"] = NoTxn]
    /\ UNCHANGED <<now, meta, bronze, tables, refetches, changes, scripts>>

-----------------------------------------------------------------------------
LoadStep(l) == ReadDay(l) \/ BeginLoad(l) \/ CommitLoad(l)
RunStep ==
    \/ LoadStep("dag") \/ ListPending \/ SnapshotSymbols \/ JoinRoots
    \/ TakeSnapshot \/ BuildDim \/ BuildFact

Next ==
    \/ Tick
    \/ \E s \in Symbols, a \in Attrs : ChangeMeta(s, a)
    \/ \E d \in Dates, s \in Symbols, shape \in Shapes : PutObject(d, s, shape)
    \/ \E flags \in ScriptFlags : ListTodo(flags)
    \/ LoadStep("script")
    \/ StartRun \/ RunStep
    \/ \E l \in Loaders : LoadFails(l)
    \/ BuildRetried \/ RunFails

Spec == Init /\ [][Next]_vars

\* The scheduler starts a run when the last has ended, and a program that runs
\* gets on; failures are as many as the budget allows.
FairSpec == Spec /\ WF_vars(StartRun) /\ WF_vars(RunStep) /\ WF_vars(LoadStep("script"))

-----------------------------------------------------------------------------
(* Properties.                                                             *)

\* Type invariant: every variable holds what the tables and the programs store.
TypeOK ==
    /\ now \in Nat
    /\ meta \in [Symbols -> Attrs]
    /\ bronze \in [Dates -> [Symbols -> SUBSET Minutes]]
    /\ observed \in [Symbols -> Attrs \cup {NoAttrs}]
    /\ raw \in [Rows -> Nat]
    /\ stamps \in Nat
    /\ snap \subseteq Version
    /\ dim \subseteq Version
    /\ fact \subseteq FactRow
    /\ dag \in {"idle", "roots", "snapshot", "build", "dim", "fact"}
    /\ done \subseteq {"loaded", "skipped", "observed"}
    /\ todo \in [Loaders -> SUBSET Dates]
    /\ txn \in [Loaders -> Txn \cup {NoTxn}]
    /\ {refetches, changes, scripts, faults} \subseteq Nat

\* Reloading a date replaces it: all its rows come from one load.
DayIsOneLoad ==
    \A d \in Dates : \A r, q \in RowsOf(d) :
        raw[r] # NotLoaded /\ raw[q] # NotLoaded => raw[r] = raw[q]

\* The inductive invariant of loading: an object holds minutes of its own date, a
\* loader has listed complete dates only, what it has read is rows of one date with
\* each symbol among them, and its DELETE hit all that is still loaded of the date.
LoadInv ==
    /\ \A d \in Dates, s \in Symbols : \A mi \in bronze[d][s] : DayOf(mi) = d
    /\ \A l \in Loaders : \A d \in todo[l] : list_keys(d) = Symbols
    /\ \A l \in Loaders : txn[l] # NoTxn =>
          /\ txn[l].df \subseteq RowsOf(txn[l].day)
          /\ \A s \in Symbols : \E r \in txn[l].df : r[1] = s
    /\ \A l \in Loaders : txn[l].stamp # NotLoaded =>
          \A r \in RowsOf(txn[l].day) : raw[r] # NotLoaded => raw[r] \in txn[l].hit
    /\ DayIsOneLoad

\* raw.klines_1m is a table whose dates are replaced whole, each in one step.
Table == INSTANCE DayTable WITH
    rows <- [d \in Dates |-> {r \in RowsOf(d) : raw[r] # NotLoaded}]
ReplacesWholeDays == Table!Spec

\* The grain of the fact table: one row per symbol and minute.
FactGrain == \A f, g \in fact : f.row = g.row => f = g

\* A fact points at the version of its symbol that was valid at its minute, and
\* goes on doing so when the symbol changes later.
FactAtItsVersion ==
    \A f \in fact : \E v \in Backdated(snap) :
        /\ v.symbol = f.row[1] /\ v.valid_from = f.version
        /\ v.valid_from <= f.row[2]
        /\ v.valid_to # Open => f.row[2] < v.valid_to

\* The versions of a symbol follow each other without gap or overlap, and the last
\* of them is current.
Before(u, v) == u.valid_to # Open /\ u.valid_to <= v.valid_from
Apart(versions) == \A u, v \in versions : u.symbol = v.symbol /\ u # v => Before(u, v) \/ Before(v, u)
VersionsTile ==
    /\ Apart(snap)
    /\ \A v \in snap : \E u \in snap : u.symbol = v.symbol /\ u.valid_to = Open
    /\ \A v \in snap : v.valid_to # Open =>
          \E u \in snap : u.symbol = v.symbol /\ u.valid_from = v.valid_to

\* A version is written only when an attribute differs: of two versions that follow
\* each other the second is not the first again, however often the snapshot runs.
VersionsDiffer ==
    \A u, v \in snap : u.symbol = v.symbol /\ u.valid_to = v.valid_from => u.attrs # v.attrs

\* Nothing is dated in the future: neither versions nor the minutes of candles.
VersionsArePast ==
    \A v \in snap : /\ v.valid_from < now
                    /\ v.valid_to # Open => v.valid_from < v.valid_to /\ v.valid_to < now
MinutesArePast ==
    /\ \A d \in Dates, s \in Symbols : \A mi \in bronze[d][s] : mi < now
    /\ \A l \in Loaders : \A r \in txn[l].df : r[2] < now
    /\ \A r \in Rows : raw[r] # NotLoaded => r[2] < now
    /\ \A f \in fact : f.row[2] < now

\* The inductive invariant of the star schema: versions tile and lie in the past,
\* as do the minutes of all candles, and the build uses the newest versions.
StarInv ==
    /\ VersionsTile /\ VersionsArePast /\ MinutesArePast
    /\ Apart(dim)
    /\ dag = "fact" => dim = Backdated(snap)
    /\ FactGrain /\ FactAtItsVersion

\* History is not rewritten: a fact that is loaded again after its symbol has changed
\* joins the version it joined before.
FactKeepsItsVersion ==
    [][\A f \in fact, g \in fact' : f.row = g.row => f.version = g.version]_vars

\* Every raw row is in the fact table after a build, as it was last loaded.
FactCoversRaw ==
    [][BuildFact => \A r \in Rows : raw[r] # NotLoaded =>
            \E f \in fact' : f.row = r /\ f.loaded_at = raw[r]]_vars

\* A minute that a correction removed from raw is gone from the fact table too:
\* a build leaves no row behind that no longer exists.
FactHoldsOnlyRaw == [][BuildFact => \A f \in fact' : raw[f.row] # NotLoaded]_vars

\* A date whose objects are all in Bronze reaches the fact table.
CompleteDatesReachFact ==
    \A d \in Dates :
        list_keys(d) = Symbols ~> \A s \in Symbols : \E f \in fact :
                                      f.row[1] = s /\ DayOf(f.row[2]) = d

\* The dimension comes to show the metadata the exchange ended up with, and goes on
\* showing it.
MetadataReachesDim ==
    \A s \in Symbols, a \in Attrs :
        <>[](meta[s] = a) => <>[](\E v \in dim : v.symbol = s /\ v.attrs = a /\ v.valid_to = Open)
=============================================================================
