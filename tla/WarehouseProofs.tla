-------------------------- MODULE WarehouseProofs ---------------------------
(***************************************************************************)
(* Proofs about Warehouse, for every set of symbols, every length and      *)
(* number of dates, every shape of a fetch and all bounds.                 *)
(***************************************************************************)
EXTENDS Warehouse, NatSets, TLAPS

-----------------------------------------------------------------------------
(* Lemmas about the operators of the model.                                *)

LEMMA DatesNat == Dates \subseteq Nat
BY DaysAssumption DEF Dates

LEMMA NoTxnIsNone == NoTxn \notin Txn
BY DaysAssumption DEF NoTxn, Txn, Dates

\* The minute an object numbers i is a minute of the object's date.
LEMMA MinuteOfDay ==
    ASSUME NEW d \in Dates, NEW i \in 0..(DayLen - 1)
    PROVE  d * DayLen + i \in Minutes /\ DayOf(d * DayLen + i) = d
<1>1. /\ Days \in Nat /\ DayLen \in Nat /\ DayLen >= 1
      /\ d \in Nat /\ d <= Days - 1 /\ i \in Nat /\ i <= DayLen - 1
  BY DaysAssumption DEF Dates
<1>2. (Days - 1 - d) * DayLen >= 0
  BY <1>1, SMT
<1>3. d * DayLen + i <= Days * DayLen - 1
  BY <1>1, <1>2, SMT
<1>4. d * DayLen + i \in Nat
  BY <1>1, SMT
<1>5. (d * DayLen + i) \div DayLen = d
  BY <1>1, SMT
<1>6. QED
  BY <1>1, <1>3, <1>4, <1>5, SMT DEF Minutes, DayOf

\* What an object holds after it was put.
LEMMA ShapeMinutes ==
    ASSUME NEW d \in Dates, NEW shape \in Shapes
    PROVE  /\ {d * DayLen + i : i \in shape} \subseteq Minutes
           /\ \A mi \in {d * DayLen + i : i \in shape} : DayOf(mi) = d
           /\ {d * DayLen + i : i \in shape} # {}
<1>1. shape \subseteq 0..(DayLen - 1) /\ shape # {}
  BY ShapesAssumption, Zenon
<1>2. \A i \in shape : d * DayLen + i \in Minutes /\ DayOf(d * DayLen + i) = d
  BY <1>1, MinuteOfDay, Zenon
<1>3. QED
  BY <1>1, <1>2, Zenon

\* The first of the dates a loader has still to load is one of them.
LEMMA NextDate ==
    ASSUME TypeOK, NEW l \in Loaders, todo[l] # {}
    PROVE  Min(todo[l]) \in Dates /\ Min(todo[l]) \in todo[l]
<1>1. todo[l] \subseteq Dates
  BY DEF TypeOK
<1>2. Min(todo[l]) \in todo[l]
  BY <1>1, DatesNat, MinOfNats, Zenon
<1>3. QED
  BY <1>1, <1>2, Zenon

\* A row newer than the fact table is in raw.
LEMMA NewerIsLoaded ==
    ASSUME TypeOK, \A f \in fact : f.loaded_at <= stamps, NEW r \in Rows, Newer(r)
    PROVE  raw[r] \in Nat /\ raw[r] # NotLoaded
<1> DEFINE L == {NotLoaded} \cup {f.loaded_at : f \in fact}
<1>1. L \subseteq 0..stamps
  <2>1. stamps \in Nat /\ \A f \in fact : f.loaded_at \in Nat
    BY Zenon DEF TypeOK, FactRow
  <2>2. \A f \in fact : f.loaded_at \in 0..stamps
    BY <2>1, SMT
  <2>3. NotLoaded \in 0..stamps
    BY <2>1, SMT DEF NotLoaded
  <2>4. QED
    BY <2>2, <2>3, Zenon
<1>2. Max(L) \in L /\ NotLoaded <= Max(L)
  <2>1. NotLoaded \in L /\ L # {} /\ stamps \in Nat
    BY Zenon DEF TypeOK
  <2> HIDE DEF L
  <2> QED
    BY <1>1, <2>1, MaxOfBounded, Zenon
<1>3. raw[r] > Max(L)
  BY Zenon DEF Newer
<1>4. raw[r] \in Nat /\ stamps \in Nat
  BY Zenon DEF TypeOK
<1> HIDE DEF L
<1>5. Max(L) \in 0..stamps
  BY <1>1, <1>2, Zenon
<1>6. QED
  BY <1>2, <1>3, <1>4, <1>5, SMT DEF NotLoaded

\* Backdating changes the start of a version only, to the epoch or not at all.
LEMMA BackdatedFields ==
    ASSUME NEW versions, versions \subseteq Version, NEW w \in Backdated(versions)
    PROVE  \E v \in versions :
               /\ w.symbol = v.symbol /\ w.attrs = v.attrs /\ w.valid_to = v.valid_to
               /\ w \in Version
               /\ w.valid_from = IF \A u \in versions : u.symbol = v.symbol =>
                                                         v.valid_from <= u.valid_from
                                  THEN 0 ELSE v.valid_from
<1> DEFINE start(v) == IF \A u \in versions : u.symbol = v.symbol =>
                                                  v.valid_from <= u.valid_from
                         THEN 0 ELSE v.valid_from
<1>1. PICK v \in versions : w = [v EXCEPT !.valid_from = start(v)]
  BY Zenon DEF Backdated
<1>2. v \in Version /\ start(v) \in Nat
  BY DEF Version
<1> HIDE DEF start
<1>3. /\ w.symbol = v.symbol /\ w.attrs = v.attrs /\ w.valid_to = v.valid_to
      /\ w \in Version /\ w.valid_from = start(v)
  BY <1>1, <1>2 DEF Version
<1>4. QED
  BY <1>3, Zenon DEF start

LEMMA BackdatedIsVersion ==
    ASSUME NEW versions, versions \subseteq Version
    PROVE  Backdated(versions) \subseteq Version
BY BackdatedFields, Zenon

\* What is read of a date is rows of the date.
LEMMA BronzeIsRows ==
    ASSUME NEW d
    PROVE  BronzeOf(d) \subseteq RowsOf(d) /\ RowsOf(d) \subseteq Rows
BY Zenon DEF BronzeOf, RowsOf

-----------------------------------------------------------------------------
(* Types.                                                                  *)

LEMMA TypeInit == Init => TypeOK
<1> SUFFICES ASSUME Init PROVE TypeOK
  OBVIOUS
<1>1. now \in Nat /\ stamps \in Nat /\ {refetches, changes, scripts, faults} \subseteq Nat
  BY BudgetAssumption DEF Init
<1>2. /\ meta \in [Symbols -> Attrs]
      /\ bronze \in [Dates -> [Symbols -> SUBSET Minutes]]
      /\ observed \in [Symbols -> Attrs \cup {NoAttrs}]
  BY DEF Init
<1>3. raw \in [Rows -> Nat] /\ snap \subseteq Version /\ dim \subseteq Version /\ fact \subseteq FactRow
  BY DEF Init, NotLoaded
<1>4. dag = "idle" /\ done = {}
  BY DEF Init
<1>5. todo \in [Loaders -> SUBSET Dates] /\ txn \in [Loaders -> Txn \cup {NoTxn}]
  BY DEF Init
<1>6. QED
  BY <1>1, <1>2, <1>3, <1>4, <1>5, Zenon DEF TypeOK

\* What else typing rests on: a row of the fact table was loaded, and the symbols
\* have been observed once a run is past its roots.
TypeInv ==
    /\ TypeOK
    /\ \A r \in Rows : raw[r] <= stamps
    /\ \A l \in Loaders : txn[l].stamp <= stamps
    /\ \A f \in fact : f.loaded_at <= stamps
    /\ "observed" \in done \/ dag \in {"snapshot", "build", "dim", "fact"} =>
          observed \in [Symbols -> Attrs]

LEMMA TypeInvInit == Init => TypeInv
<1> SUFFICES ASSUME Init PROVE TypeInv
  OBVIOUS
<1>1. TypeOK
  BY TypeInit
<1>2. \A r \in Rows : raw[r] <= stamps
  BY DEF Init, NotLoaded
<1>3. \A l \in Loaders : txn[l].stamp <= stamps
  BY DEF Init, NoTxn, NotLoaded
<1>4. QED
  BY <1>1, <1>2, <1>3, Zenon DEF TypeInv, Init

\* The steps that leave the tables and the run alone.
LEMMA WorldTypes ==
    ASSUME TypeInv,
           \/ Tick
           \/ \E s \in Symbols, a \in Attrs : ChangeMeta(s, a)
           \/ \E d \in Dates, s \in Symbols, shape \in Shapes : PutObject(d, s, shape)
           \/ \E flags \in ScriptFlags : ListTodo(flags)
    PROVE  TypeInv'
<1> USE DEF TypeInv
<1>1. CASE Tick
  BY <1>1 DEF Tick, TypeOK, tables, loading, budget
<1>2. ASSUME NEW s \in Symbols, NEW a \in Attrs, ChangeMeta(s, a) PROVE TypeInv'
  BY <1>2 DEF ChangeMeta, TypeOK, tables, loading
<1>3. ASSUME NEW d \in Dates, NEW s \in Symbols, NEW shape \in Shapes, PutObject(d, s, shape)
      PROVE  TypeInv'
  <2>1. {d * DayLen + i : i \in shape} \subseteq Minutes
    BY ShapeMinutes, Zenon
  <2>2. bronze' \in [Dates -> [Symbols -> SUBSET Minutes]]
    BY <1>3, <2>1, Zenon DEF PutObject, TypeOK
  <2>3. refetches' \in Nat
    BY <1>3 DEF PutObject, TypeOK
  <2>4. QED
    BY <1>3, <2>2, <2>3 DEF PutObject, TypeOK, tables, loading
<1>4. ASSUME NEW flags \in ScriptFlags, ListTodo(flags) PROVE TypeInv'
  <2>1. todo' \in [Loaders -> SUBSET Dates]
    BY <1>4, Zenon DEF ListTodo, TypeOK
  <2>2. QED
    BY <1>4, <2>1 DEF ListTodo, TypeOK, tables
<1>5. QED
  BY <1>1, <1>2, <1>3, <1>4, Zenon

LEMMA NoTxnStamp == NoTxn.stamp = NotLoaded
BY DEF NoTxn

\* The DELETE is in the open transaction only: nobody sees it in the table.
LEMMA BeginIs ==
    ASSUME TypeOK, NEW l \in Loaders, BeginLoad(l)
    PROVE  /\ raw' = raw /\ stamps \in Nat /\ stamps' = stamps + 1
           /\ txn[l] # NoTxn /\ txn[l] \in Txn /\ txn'[l] \in Txn
           /\ txn' \in [Loaders -> Txn \cup {NoTxn}]
           /\ txn'[l].stamp = stamps + 1 /\ txn'[l].hit = Visible(txn[l].day)
           /\ txn'[l].df = txn[l].df /\ txn'[l].day = txn[l].day
           /\ \A m \in Loaders : m # l => txn'[m] = txn[m]
<1> DEFINE t == [txn[l] EXCEPT !.stamp = stamps', !.hit = Visible(txn[l].day)]
<1>1. raw' = raw /\ stamps \in Nat /\ stamps' = stamps + 1
  BY DEF BeginLoad, SeenWhileOpen, TypeOK
<1>2. txn[l] # NoTxn /\ txn[l] \in Txn /\ txn \in [Loaders -> Txn \cup {NoTxn}]
  BY Zenon DEF BeginLoad, TypeOK
<1>3. txn' = [txn EXCEPT ![l] = t]
  <2>1. txn' = [txn EXCEPT ![l].stamp = stamps', ![l].hit = Visible(txn[l].day)]
    BY Zenon DEF BeginLoad
  <2>2. QED
    BY <1>2, <2>1 DEF Txn
<1>4. /\ t \in Txn /\ t.stamp = stamps + 1 /\ t.hit = Visible(txn[l].day)
      /\ t.df = txn[l].df /\ t.day = txn[l].day
  <2>1. Visible(txn[l].day) \in SUBSET Nat /\ stamps' \in Nat
    BY <1>1 DEF Visible, RowsOf, TypeOK
  <2>2. PICK u \in Txn, n \in Nat, h \in SUBSET Nat :
             u = txn[l] /\ n = stamps' /\ h = Visible(txn[l].day)
    BY <1>2, <2>1, Zenon
  <2>3. t = [u EXCEPT !.stamp = n, !.hit = h]
    BY <2>2, Zenon
  <2> HIDE DEF t
  <2>4. t \in Txn /\ t.stamp = n /\ t.hit = h /\ t.df = u.df /\ t.day = u.day
    BY <2>3 DEF Txn
  <2>5. QED
    BY <1>1, <2>2, <2>4, Zenon
<1> HIDE DEF t
<1>5. QED
  BY <1>1, <1>2, <1>3, <1>4, Zenon

LEMMA LoadTypes ==
    ASSUME TypeInv, NEW l \in Loaders,
           ReadDay(l) \/ BeginLoad(l) \/ CommitLoad(l) \/ LoadFails(l)
    PROVE  TypeInv'
<1> USE DEF TypeInv
<1>1. CASE ReadDay(l)
  <2> DEFINE d == Min(todo[l])
             t == [day |-> d, stamp |-> NotLoaded, df |-> BronzeOf(d), hit |-> {}]
  <2>1. d \in Dates
    BY <1>1, NextDate, Zenon DEF ReadDay
  <2>2. t \in Txn
    BY <2>1, BronzeIsRows DEF Txn, NotLoaded
  <2>3. txn' = [txn EXCEPT ![l] = t]
    BY <1>1, Zenon DEF ReadDay
  <2>4. txn' \in [Loaders -> Txn \cup {NoTxn}]
    BY <2>2, <2>3, Zenon DEF TypeOK
  <2>5. \A m \in Loaders : txn'[m].stamp <= stamps
    <3>1. t.stamp = 0 /\ stamps \in Nat
      BY Zenon DEF NotLoaded, TypeOK
    <3>2. \A m \in Loaders : txn'[m] = IF m = l THEN t ELSE txn[m]
      BY <2>3, Zenon DEF TypeOK
    <3> HIDE DEF t, d
    <3>3. QED
      BY <3>1, <3>2
  <2>6. QED
    BY <1>1, <2>4, <2>5 DEF ReadDay, TypeOK, tables, budget
<1>2. CASE BeginLoad(l)
  <2>2. raw' = raw /\ stamps \in Nat /\ stamps' = stamps + 1
    BY <1>2, BeginIs, Zenon
  <2>3. txn'[l].stamp = stamps + 1 /\ \A m \in Loaders : m # l => txn'[m] = txn[m]
    BY <1>2, BeginIs, Zenon
  <2>5. txn' \in [Loaders -> Txn \cup {NoTxn}]
    BY <1>2, BeginIs, Zenon
  <2>6. \A m \in Loaders : txn'[m].stamp <= stamps'
    <3>1. \A m \in Loaders : txn[m].stamp \in Nat
      BY DEF TypeOK, Txn, NoTxn, NotLoaded
    <3>2. ASSUME NEW m \in Loaders PROVE txn'[m].stamp <= stamps'
      <4>1. CASE m = l
        BY <2>2, <2>3, <4>1
      <4>2. CASE m # l
        BY <2>2, <2>3, <3>1, <4>2
      <4>3. QED
        BY <4>1, <4>2
    <3>3. QED
      BY <3>2
  <2>7. /\ \A r \in Rows : raw'[r] <= stamps'
        /\ \A f \in fact' : f.loaded_at <= stamps'
    BY <1>2, <2>2 DEF BeginLoad, TypeOK, FactRow
  <2>8. QED
    BY <1>2, <2>2, <2>5, <2>6, <2>7 DEF BeginLoad, TypeOK, budget
<1>3. CASE CommitLoad(l)
  <2>1. txn[l] \in Txn
    BY <1>3 DEF CommitLoad, TypeOK, NoTxn
  <2>2. raw' \in [Rows -> Nat] /\ \A r \in Rows : raw'[r] <= stamps
    BY <1>3, <2>1 DEF CommitLoad, Replaced, TypeOK, Txn, NotLoaded
  <2>3. todo' \in [Loaders -> SUBSET Dates]
    BY <1>3, Zenon DEF CommitLoad, TypeOK
  <2>4. \A m \in Loaders : txn'[m] \in {txn[m], NoTxn}
    BY <1>3, Zenon DEF CommitLoad, TypeOK
  <2>5. txn' \in [Loaders -> Txn \cup {NoTxn}]
    BY <1>3, <2>4, Zenon DEF CommitLoad, TypeOK
  <2>6. \A m \in Loaders : txn'[m].stamp <= stamps
    BY <2>4 DEF TypeOK, NoTxn, NotLoaded
  <2>7. done' \subseteq done \cup {"loaded"}
    BY <1>3, Zenon DEF CommitLoad
  <2>8. QED
    BY <1>3, <2>2, <2>3, <2>5, <2>6, <2>7 DEF CommitLoad, TypeOK, budget
<1>4. CASE LoadFails(l)
  <2>1. todo' \in [Loaders -> SUBSET Dates] /\ txn' \in [Loaders -> Txn \cup {NoTxn}]
    BY <1>4, Zenon DEF LoadFails, TypeOK
  <2>2. \A m \in Loaders : txn'[m].stamp <= stamps
    BY <1>4 DEF LoadFails, TypeOK, NoTxn, NotLoaded
  <2>3. QED
    BY <1>4, <2>1, <2>2 DEF LoadFails, TypeOK, tables
<1>5. QED
  BY <1>1, <1>2, <1>3, <1>4, Zenon

LEMMA RunTypes ==
    ASSUME TypeInv,
           \/ StartRun \/ ListPending \/ SnapshotSymbols \/ JoinRoots
           \/ BuildDim \/ BuildRetried \/ RunFails
    PROVE  TypeInv'
<1> USE DEF TypeInv
<1>1. CASE StartRun
  BY <1>1 DEF StartRun, TypeOK, tables, loading, budget
<1>2. CASE ListPending
  <2>1. todo' \in [Loaders -> SUBSET Dates]
    BY <1>2, Zenon DEF ListPending, TypeOK
  <2>2. done' \subseteq done \cup {"skipped"}
    BY <1>2, Zenon DEF ListPending
  <2>3. QED
    BY <1>2, <2>1, <2>2 DEF ListPending, TypeOK, tables, budget
<1>3. CASE SnapshotSymbols
  BY <1>3 DEF SnapshotSymbols, TypeOK, loading, budget
<1>4. CASE JoinRoots
  BY <1>4 DEF JoinRoots, TypeOK, tables, loading, budget
<1>5. CASE BuildDim
  <2>1. Backdated(snap) \subseteq Version
    BY BackdatedIsVersion DEF TypeOK
  <2>2. QED
    BY <1>5, <2>1 DEF BuildDim, TypeOK, loading, budget
<1>6. CASE BuildRetried
  BY <1>6 DEF BuildRetried, TypeOK, tables, loading
<1>7. CASE RunFails
  <2>1. todo' \in [Loaders -> SUBSET Dates] /\ txn' \in [Loaders -> Txn \cup {NoTxn}]
    BY <1>7, Zenon DEF RunFails, TypeOK
  <2>2. \A m \in Loaders : txn'[m].stamp <= stamps
    BY <1>7 DEF RunFails, TypeOK, NoTxn, NotLoaded
  <2>3. QED
    BY <1>7, <2>1, <2>2 DEF RunFails, TypeOK, tables
<1>8. QED
  BY <1>1, <1>2, <1>3, <1>4, <1>5, <1>6, <1>7, Zenon
\* A symbol that changed gets a version from now on, and its current one ends now.
LEMMA SnapshotTypes ==
    ASSUME TypeInv, TakeSnapshot
    PROVE  TypeInv'
<1> USE DEF TypeInv
<1>1. now \in Nat /\ observed \in [Symbols -> Attrs] /\ snap \subseteq Version
  BY Zenon DEF TakeSnapshot, TypeOK
<1>2. \A v \in snap : Closed(v) \in Version
  BY <1>1 DEF Closed, Version
<1>3. \A s \in Changed : Opened(s) \in Version
  BY <1>1 DEF Version, Opened, Changed
<1>4. now' \in Nat
  BY <1>1 DEF TakeSnapshot
<1>5. snap' \subseteq Version
  BY <1>2, <1>3, Zenon DEF TakeSnapshot
<1>6. dag' \in {"build", "dim"}
  BY DEF TakeSnapshot
<1>7. QED
  BY <1>1, <1>4, <1>5, <1>6 DEF TakeSnapshot, TypeOK, loading, budget

\* A build adds rows that raw holds, each with the start of a version.
LEMMA FactTypes ==
    ASSUME TypeInv, BuildFact
    PROVE  TypeInv'
<1> USE DEF TypeInv
<1> DEFINE pairs == {j \in Rows \X dim : /\ Newer(j[1])
                                         /\ j[2].symbol = j[1][1]
                                         /\ Covers(j[2], j[1][2])}
           joined == {[row |-> j[1], version |-> j[2].valid_from, loaded_at |-> raw[j[1]]] :
                        j \in pairs}
<1>1. fact' \subseteq fact \cup joined
  BY Zenon DEF BuildFact
<1>2. \A f \in joined : f \in FactRow /\ f.loaded_at <= stamps
  <2> SUFFICES ASSUME NEW f \in joined PROVE f \in FactRow /\ f.loaded_at <= stamps
    OBVIOUS
  <2> PICK j \in pairs :
        f = [row |-> j[1], version |-> j[2].valid_from, loaded_at |-> raw[j[1]]]
    <3> HIDE DEF pairs
    <3> QED
      BY Zenon
  <2>1. j[1] \in Rows /\ j[2] \in dim /\ Newer(j[1])
    BY Zenon
  <2>2. raw[j[1]] \in Nat \ {NotLoaded} /\ raw[j[1]] <= stamps
    BY <2>1, NewerIsLoaded, Zenon
  <2>3. j[2].valid_from \in Nat
    BY <2>1 DEF TypeOK, Version
  <2>4. QED
    BY <2>1, <2>2, <2>3 DEF FactRow
<1> HIDE DEF joined
<1>3. fact' \subseteq FactRow /\ \A f \in fact' : f.loaded_at <= stamps
  BY <1>1, <1>2, Zenon DEF TypeOK
<1>4. QED
  BY <1>3 DEF BuildFact, TypeOK, loading, budget

\* Every step is an action of the world, of a loader or of the run.
LEMMA StepCases ==
    ASSUME Next
    PROVE  \/ Tick
           \/ \E s \in Symbols, a \in Attrs : ChangeMeta(s, a)
           \/ \E d \in Dates, s \in Symbols, shape \in Shapes : PutObject(d, s, shape)
           \/ \E flags \in ScriptFlags : ListTodo(flags)
           \/ \E l \in Loaders : ReadDay(l) \/ BeginLoad(l) \/ CommitLoad(l) \/ LoadFails(l)
           \/ StartRun \/ ListPending \/ SnapshotSymbols \/ JoinRoots
           \/ BuildDim \/ BuildRetried \/ RunFails
           \/ TakeSnapshot \/ BuildFact
<1>1. "dag" \in Loaders /\ "script" \in Loaders
  BY Zenon DEF Loaders
<1>2. QED
  BY <1>1, Zenon DEF Next, RunStep, LoadStep

LEMMA TypeInvStep == TypeInv /\ [Next]_vars => TypeInv'
<1> SUFFICES ASSUME TypeInv, [Next]_vars PROVE TypeInv'
  OBVIOUS
<1>1. CASE UNCHANGED vars
  BY <1>1 DEF TypeInv, TypeOK, vars, tables, loading, budget
<1>2. CASE Next
  BY <1>2, StepCases, WorldTypes, LoadTypes, RunTypes, SnapshotTypes, FactTypes, Zenon
<1>3. QED
  BY <1>1, <1>2, Zenon

\* Types are preserved, and what they rest on.
LEMMA TypeInvHolds == Spec => []TypeInv
<1>1. QED
  BY TypeInvInit, TypeInvStep, PTL DEF Spec

\* The type invariant of the warehouse holds in every state, whatever the bounds.
THEOREM TypeCorrect == Spec => []TypeOK
<1>1. TypeInv => TypeOK
  BY Zenon DEF TypeInv
<1>2. QED
  BY <1>1, TypeInvHolds, PTL
-----------------------------------------------------------------------------
(* Loading: a date is replaced whole.                                      *)

\* The script is never told to load incomplete dates.
CompleteScripts == \A flags \in ScriptFlags : ~flags.allow_partial

\* The part of LoadInv about the DELETE of an open transaction.
HitsAll ==
    \A l \in Loaders : txn[l].stamp # NotLoaded =>
        \A r \in RowsOf(txn[l].day) : raw[r] # NotLoaded => raw[r] \in txn[l].hit

LEMMA LoadInvInit == Init => LoadInv
BY DEF Init, LoadInv, NoTxn, DayIsOneLoad, RowsOf, NotLoaded

\* An object stays where it is.
LEMMA CompleteStays ==
    ASSUME TypeOK, NEW d \in Dates, NEW s \in Symbols, NEW shape \in Shapes, PutObject(d, s, shape),
           NEW e \in Dates, list_keys(e) = Symbols
    PROVE  list_keys(e)' = Symbols
<1>1. {d * DayLen + i : i \in shape} # {}
  BY ShapeMinutes, Zenon
<1>2. \A u \in Symbols : bronze[e][u] # {}
  BY Zenon DEF list_keys
<1>3. \A u \in Symbols : bronze'[e][u] # {}
  BY <1>1, <1>2, Zenon DEF PutObject, TypeOK
<1>4. QED
  BY <1>3, Zenon DEF list_keys

LEMMA WorldLoads ==
    ASSUME TypeOK, LoadInv, CompleteScripts,
           \/ Tick
           \/ \E s \in Symbols, a \in Attrs : ChangeMeta(s, a)
           \/ \E d \in Dates, s \in Symbols, shape \in Shapes : PutObject(d, s, shape)
           \/ \E flags \in ScriptFlags : ListTodo(flags)
    PROVE  LoadInv'
<1> USE DEF LoadInv
<1>1. CASE Tick
  BY <1>1 DEF Tick, tables, loading, list_keys, DayIsOneLoad
<1>2. ASSUME NEW s \in Symbols, NEW a \in Attrs, ChangeMeta(s, a) PROVE LoadInv'
  BY <1>2 DEF ChangeMeta, tables, loading, list_keys, DayIsOneLoad
<1>3. ASSUME NEW d \in Dates, NEW s \in Symbols, NEW shape \in Shapes, PutObject(d, s, shape)
      PROVE  LoadInv'
  <2>1. \A e \in Dates, u \in Symbols : \A mi \in bronze'[e][u] : DayOf(mi) = e
    <3>1. \A mi \in {d * DayLen + i : i \in shape} : DayOf(mi) = d
      BY ShapeMinutes, Zenon
    <3>2. QED
      BY <1>3, <3>1, Zenon DEF PutObject, TypeOK
  <2>2. \A l \in Loaders : \A e \in todo'[l] : list_keys(e)' = Symbols
    <3>1. todo' = todo /\ \A l \in Loaders : todo[l] \subseteq Dates
      BY <1>3, Zenon DEF PutObject, TypeOK, loading
    <3>2. QED
      BY <1>3, <3>1, CompleteStays, Zenon
  <2>3. UNCHANGED <<txn, raw>>
    BY <1>3, Zenon DEF PutObject, loading, tables
  <2>4. QED
    BY <2>1, <2>2, <2>3 DEF DayIsOneLoad
<1>4. ASSUME NEW flags \in ScriptFlags, ListTodo(flags) PROVE LoadInv'
  <2>1. \A l \in Loaders : \A d \in todo'[l] : d \in todo[l] \/ list_keys(d) = Symbols
    BY <1>4, Zenon DEF ListTodo, TypeOK, CompleteScripts
  <2>2. UNCHANGED <<bronze, txn, raw>>
    BY <1>4, Zenon DEF ListTodo, tables
  <2>3. QED
    BY <2>1, <2>2 DEF list_keys, DayIsOneLoad
<1>5. QED
  BY <1>1, <1>2, <1>3, <1>4, Zenon

\* What a loader reads of a complete date has a row of each symbol.
LEMMA ReadingIsWhole ==
    ASSUME TypeOK, LoadInv, NEW d \in Dates, list_keys(d) = Symbols
    PROVE  \A s \in Symbols : \E r \in BronzeOf(d) : r[1] = s
<1> SUFFICES ASSUME NEW s \in Symbols PROVE \E r \in BronzeOf(d) : r[1] = s
  OBVIOUS
<1>1. PICK mi : mi \in bronze[d][s]
  BY Zenon DEF list_keys
<1>2. mi \in Minutes /\ DayOf(mi) = d
  <2>1. bronze[d][s] \subseteq Minutes
    BY DEF TypeOK
  <2>2. QED
    BY <1>1, <2>1, Zenon DEF LoadInv
<1>3. <<s, mi>> \in BronzeOf(d)
  BY <1>1, <1>2 DEF BronzeOf, RowsOf, Rows
<1>4. QED
  BY <1>3

\* Replacing a date leaves its rows those that were read, and all others as they are.
LEMMA CommitReplaces ==
    ASSUME TypeOK, LoadInv, NEW l \in Loaders, CommitLoad(l)
    PROVE  /\ txn[l] # NoTxn /\ txn[l] \in Txn
           /\ \A r \in RowsOf(txn[l].day) :
                 raw'[r] = IF r \in txn[l].df THEN txn[l].stamp ELSE NotLoaded
           /\ \A d \in Dates : d # txn[l].day => \A r \in RowsOf(d) : raw'[r] = raw[r]
<1>1. txn[l] # NoTxn /\ txn[l] \in Txn
  BY DEF CommitLoad, TypeOK, NoTxn
<1>2. txn[l].df \subseteq RowsOf(txn[l].day)
  BY <1>1, Zenon DEF LoadInv
<1>3. \A r \in Rows : raw'[r] = IF r \in txn[l].df THEN txn[l].stamp
                                ELSE IF DayOf(r[2]) = txn[l].day /\ raw[r] \in txn[l].hit
                                       THEN NotLoaded ELSE raw[r]
  BY Zenon DEF CommitLoad, Replaced
<1>4. \A r \in RowsOf(txn[l].day) : raw[r] # NotLoaded => raw[r] \in txn[l].hit
  BY Zenon DEF CommitLoad, LoadInv
<1>5. \A r \in RowsOf(txn[l].day) :
         raw'[r] = IF r \in txn[l].df THEN txn[l].stamp ELSE NotLoaded
  BY <1>3, <1>4, Zenon DEF RowsOf
<1>6. QED
  BY <1>1, <1>2, <1>3, <1>5, Zenon DEF RowsOf

LEMMA LoadLoads ==
    ASSUME TypeOK, LoadInv, NEW l \in Loaders,
           ReadDay(l) \/ BeginLoad(l) \/ CommitLoad(l) \/ LoadFails(l)
    PROVE  LoadInv'
<1> USE DEF LoadInv
<1>1. CASE ReadDay(l)
  <2> DEFINE d == Min(todo[l])
             t == [day |-> d, stamp |-> NotLoaded, df |-> BronzeOf(d), hit |-> {}]
  <2>1. d \in Dates /\ list_keys(d) = Symbols
    BY <1>1, NextDate, Zenon DEF ReadDay
  <2>2. /\ t.df \subseteq RowsOf(t.day)
        /\ \A s \in Symbols : \E r \in t.df : r[1] = s
    BY <2>1, BronzeIsRows, ReadingIsWhole
  <2>3. \A m \in Loaders : txn'[m] = IF m = l THEN t ELSE txn[m]
    BY <1>1, Zenon DEF ReadDay, TypeOK
  <2>4. \A m \in Loaders : txn'[m] # NoTxn =>
            /\ txn'[m].df \subseteq RowsOf(txn'[m].day)
            /\ \A s \in Symbols : \E r \in txn'[m].df : r[1] = s
    <3> SUFFICES ASSUME NEW m \in Loaders, txn'[m] # NoTxn
                 PROVE  /\ txn'[m].df \subseteq RowsOf(txn'[m].day)
                        /\ \A s \in Symbols : \E r \in txn'[m].df : r[1] = s
      BY Zenon
    <3> HIDE DEF t
    <3>1. CASE m = l
      <4>1. txn'[m] = t
        BY <2>3, <3>1, Zenon
      <4>2. QED
        BY <2>2, <4>1, Zenon
    <3>2. CASE m # l
      <4>1. txn'[m] = txn[m]
        BY <2>3, <3>2, Zenon
      <4>2. txn[m] # NoTxn
        BY <4>1, Zenon
      <4>3. QED
        BY <4>1, <4>2
    <3>3. QED
      BY <3>1, <3>2
  <2>5. UNCHANGED <<bronze, todo, raw>>
    BY <1>1, Zenon DEF ReadDay, tables
  <2>6. \A m \in Loaders : txn'[m].stamp # NotLoaded => txn'[m] = txn[m]
    <3>1. t.stamp = NotLoaded
      OBVIOUS
    <3> HIDE DEF t
    <3>2. QED
      BY <2>3, <3>1, Zenon
  <2>7. HitsAll'
    BY <2>5, <2>6, Zenon DEF HitsAll, RowsOf
  <2>8. QED
    BY <2>4, <2>5, <2>7 DEF list_keys, DayIsOneLoad, HitsAll, RowsOf
<1>2. CASE BeginLoad(l)
  <2>3. \A m \in Loaders : /\ txn'[m].df = txn[m].df /\ txn'[m].day = txn[m].day
                           /\ txn'[m] # NoTxn => txn[m] # NoTxn
                           /\ m # l => txn'[m] = txn[m]
                           /\ m = l => txn'[m].hit = Visible(txn[l].day)
    <3>0. \A m \in Loaders : m # l => txn'[m] = txn[m]
      BY <1>2, BeginIs, Zenon
    <3> TAKE m \in Loaders
    <3>1. CASE m = l
      BY <1>2, <3>1, BeginIs, Zenon
    <3>2. CASE m # l
      <4>1. txn'[m] = txn[m]
        BY <3>0, <3>2, Zenon
      <4>2. QED
        BY <3>2, <4>1
    <3>3. QED
      BY <3>1, <3>2
  <2>4. UNCHANGED <<bronze, todo, raw>>
    BY <1>2, BeginIs, Zenon DEF BeginLoad
  <2>5. \A r \in RowsOf(txn[l].day) : raw[r] # NotLoaded => raw[r] \in Visible(txn[l].day)
    BY DEF Visible
  <2>6. HitsAll'
    <3> SUFFICES ASSUME NEW m \in Loaders, txn'[m].stamp # NotLoaded,
                        NEW r \in RowsOf(txn[m].day), raw[r] # NotLoaded
                 PROVE  raw[r] \in txn'[m].hit
      BY <2>3, <2>4, Zenon DEF HitsAll, RowsOf
    <3>1. CASE m = l
      BY <2>3, <2>5, <3>1, Zenon
    <3>2. CASE m # l
      BY <2>3, <3>2, Zenon
    <3>3. QED
      BY <3>1, <3>2
  <2>7. QED
    BY <2>3, <2>4, <2>6 DEF list_keys, DayIsOneLoad, HitsAll, RowsOf
<1>3. CASE CommitLoad(l)
  <2>1. \A m \in Loaders : txn'[m] \in {txn[m], NoTxn} /\ todo'[m] \subseteq todo[m]
    BY <1>3, Zenon DEF CommitLoad, TypeOK
  <2>2. UNCHANGED bronze
    BY <1>3, Zenon DEF CommitLoad
  <2>3. /\ \A r \in RowsOf(txn[l].day) :
              raw'[r] = IF r \in txn[l].df THEN txn[l].stamp ELSE NotLoaded
        /\ \A d \in Dates : d # txn[l].day => \A r \in RowsOf(d) : raw'[r] = raw[r]
    BY <1>3, CommitReplaces, Zenon
  <2>4. ASSUME NEW d \in Dates, NEW r \in RowsOf(d), NEW q \in RowsOf(d),
               raw'[r] # NotLoaded, raw'[q] # NotLoaded
        PROVE  raw'[r] = raw'[q]
    <3>1. CASE d = txn[l].day
      BY <2>3, <2>4, <3>1, Zenon
    <3>2. CASE d # txn[l].day
      <4>1. raw'[r] = raw[r] /\ raw'[q] = raw[q]
        BY <2>3, <3>2, Zenon
      <4>2. raw[r] # NotLoaded /\ raw[q] # NotLoaded
        BY <2>4, <4>1
      <4>3. raw[r] = raw[q]
        <5>1. \A e \in Dates : \A a, b \in RowsOf(e) :
                  raw[a] # NotLoaded /\ raw[b] # NotLoaded => raw[a] = raw[b]
          BY DEF DayIsOneLoad
        <5> HIDE DEF LoadInv
        <5>2. QED
          BY <4>2, <5>1
      <4>4. QED
        BY <4>1, <4>3
    <3>3. QED
      BY <3>1, <3>2
  <2>5. DayIsOneLoad'
    BY <2>4 DEF DayIsOneLoad
  <2>6. \A d \in Dates : list_keys(d)' = list_keys(d)
    BY <2>2, Zenon DEF list_keys
  <2>7. \A m \in Loaders : \A d \in todo'[m] : list_keys(d)' = Symbols
    <3>1. \A m \in Loaders : todo[m] \subseteq Dates
      BY DEF TypeOK
    <3>2. ASSUME NEW m \in Loaders, NEW d \in todo'[m] PROVE list_keys(d)' = Symbols
      <4>1. d \in todo[m] /\ d \in Dates
        BY <2>1, <3>1, Zenon
      <4>2. list_keys(d) = Symbols
        BY <4>1, Zenon
      <4>3. QED
        BY <2>6, <4>1, <4>2
    <3>3. QED
      BY <3>2
  <2>8. \A m \in Loaders : txn'[m] # NoTxn => txn'[m] = txn[m]
    BY <2>1, Zenon
  <2>9. HitsAll'
    <3> SUFFICES ASSUME NEW m \in Loaders, txn'[m].stamp # NotLoaded,
                        NEW r \in RowsOf(txn[m].day), raw'[r] # NotLoaded
                 PROVE  raw'[r] \in txn[m].hit
      <4>1. \A m \in Loaders : txn'[m].stamp # NotLoaded => txn'[m] = txn[m]
        BY <2>8, NoTxnStamp, Zenon
      <4>2. QED
        BY <4>1, Zenon DEF HitsAll, RowsOf
    <3>1. txn[m].stamp # NotLoaded /\ txn[m].day # txn[l].day /\ txn[m].day \in Dates
      <4>1. txn'[m] = txn[m] /\ txn[m] # NoTxn /\ txn'[m] # NoTxn
        BY <2>8, NoTxnStamp, Zenon
      <4>2. m # l /\ ~Loses(m, l)
        BY <1>3, <4>1, Zenon DEF CommitLoad, TypeOK
      <4>3. txn[m] \in Txn
        BY <4>1, Zenon DEF TypeOK
      <4>4. QED
        BY <4>1, <4>2, <4>3 DEF Loses, Txn
    <3>2. raw'[r] = raw[r]
      BY <2>3, <3>1, Zenon
    <3>3. QED
      BY <3>1, <3>2, Zenon
  <2>10. QED
    BY <2>2, <2>5, <2>7, <2>8, <2>9 DEF HitsAll
<1>4. CASE LoadFails(l)
  <2>1. \A m \in Loaders : txn'[m] \in {txn[m], NoTxn} /\ todo'[m] \subseteq todo[m]
    BY <1>4, Zenon DEF LoadFails, TypeOK
  <2>2. UNCHANGED <<bronze, raw>>
    BY <1>4, Zenon DEF LoadFails, tables
  <2>3. \A m \in Loaders : txn'[m] # NoTxn => txn'[m] = txn[m]
    BY <2>1, Zenon
  <2>4. \A m \in Loaders : txn'[m].stamp # NotLoaded => txn'[m] = txn[m]
    BY <2>3, NoTxnStamp, Zenon
  <2>5. QED
    BY <2>1, <2>2, <2>3, <2>4 DEF list_keys, DayIsOneLoad, RowsOf
<1>5. QED
  BY <1>1, <1>2, <1>3, <1>4, Zenon

LEMMA RunLoads ==
    ASSUME TypeOK, LoadInv,
           \/ StartRun \/ ListPending \/ SnapshotSymbols \/ JoinRoots
           \/ BuildDim \/ BuildRetried \/ RunFails
           \/ TakeSnapshot \/ BuildFact
    PROVE  LoadInv'
<1>1. UNCHANGED <<bronze, raw>>
  BY Zenon DEF StartRun, ListPending, SnapshotSymbols, JoinRoots, BuildDim, BuildRetried,
               RunFails, TakeSnapshot, BuildFact, tables
<1>2. \A l \in Loaders : \A d \in todo'[l] : d \in todo[l] \/ list_keys(d) = Symbols
  BY Zenon DEF StartRun, ListPending, SnapshotSymbols, JoinRoots, BuildDim, BuildRetried,
               RunFails, TakeSnapshot, BuildFact, loading, TypeOK, Pending
<1>3. \A l \in Loaders : txn'[l] \in {txn[l], NoTxn}
  BY Zenon DEF StartRun, ListPending, SnapshotSymbols, JoinRoots, BuildDim, BuildRetried,
               RunFails, TakeSnapshot, BuildFact, loading, TypeOK
<1>4. \A l \in Loaders : txn'[l] # NoTxn => txn'[l] = txn[l]
  BY <1>3, Zenon
<1>5. \A l \in Loaders : txn'[l].stamp # NotLoaded => txn'[l] = txn[l]
  BY <1>4, NoTxnStamp, Zenon
<1>6. QED
  BY <1>1, <1>2, <1>4, <1>5 DEF LoadInv, list_keys, DayIsOneLoad, RowsOf

LEMMA LoadInvStep == CompleteScripts /\ TypeOK /\ LoadInv /\ [Next]_vars => LoadInv'
<1> SUFFICES ASSUME CompleteScripts, TypeOK, LoadInv, [Next]_vars PROVE LoadInv'
  OBVIOUS
<1>1. CASE UNCHANGED vars
  BY <1>1 DEF LoadInv, list_keys, DayIsOneLoad, vars, tables, loading
<1>2. CASE Next
  BY <1>2, StepCases, WorldLoads, LoadLoads, RunLoads, Zenon
<1>3. QED
  BY <1>1, <1>2, Zenon

\* The inductive invariant of loading holds as long as the script leaves incomplete
\* dates alone.
THEOREM LoadingInvariant ==
    ASSUME CompleteScripts
    PROVE  Spec => []LoadInv
<1>1. Init => TypeInv /\ LoadInv
  BY TypeInvInit, LoadInvInit
<1>2. TypeInv /\ LoadInv /\ [Next]_vars => (TypeInv /\ LoadInv)'
  BY CompleteScripts, TypeInvStep, LoadInvStep, Zenon DEF TypeInv
<1>3. QED
  BY <1>1, <1>2, PTL DEF Spec

\* All the rows of a date in raw.klines_1m come from one load.
THEOREM DatesComeFromOneLoad ==
    ASSUME CompleteScripts
    PROVE  Spec => []DayIsOneLoad
<1>1. LoadInv => DayIsOneLoad
  BY Zenon DEF LoadInv
<1>2. Spec => []LoadInv
  BY CompleteScripts, LoadingInvariant
<1>3. QED
  BY <1>1, <1>2, PTL

-----------------------------------------------------------------------------
(* The loaders implement DayTable.                                         *)

\* What the table holds of each date: the variable of DayTable.
rowsOf == [d \in Dates |-> {r \in RowsOf(d) : raw[r] # NotLoaded}]

LEMMA CommitRefines ==
    ASSUME TypeOK, LoadInv, NEW l \in Loaders, CommitLoad(l)
    PROVE  Table!Next
<1> DEFINE t == txn[l]
<1>1. /\ t \in Txn /\ t.stamp # NotLoaded
      /\ t.df \subseteq RowsOf(t.day)
      /\ \A s \in Symbols : \E r \in t.df : r[1] = s
  BY CommitReplaces, Zenon DEF CommitLoad, LoadInv
<1>2. t.day \in Dates
  BY <1>1 DEF Txn
<1>3. /\ \A r \in RowsOf(t.day) : raw'[r] = IF r \in t.df THEN t.stamp ELSE NotLoaded
      /\ \A d \in Dates : d # t.day => \A r \in RowsOf(d) : raw'[r] = raw[r]
  BY CommitReplaces, Zenon
<1> HIDE DEF t
<1>4. rowsOf'[t.day] = t.df
  <2>1. \A r \in RowsOf(t.day) : raw'[r] # NotLoaded <=> r \in t.df
    BY <1>1, <1>3
  <2>2. {r \in RowsOf(t.day) : raw'[r] # NotLoaded} = t.df
    BY <1>1, <2>1, Zenon
  <2>3. QED
    BY <1>2, <2>2 DEF rowsOf
<1>5. \A d \in Dates : d # t.day => rowsOf'[d] = rowsOf[d]
  <2> SUFFICES ASSUME NEW d \in Dates, d # t.day PROVE rowsOf'[d] = rowsOf[d]
    OBVIOUS
  <2>1. {r \in RowsOf(d) : raw'[r] # NotLoaded} = {r \in RowsOf(d) : raw[r] # NotLoaded}
    BY <1>3, Zenon
  <2>2. QED
    BY <2>1 DEF rowsOf
<1>6. rowsOf' = [rowsOf EXCEPT ![t.day] = rowsOf'[t.day]]
  BY <1>2, <1>5 DEF rowsOf
<1>7. Table!Whole(t.day, rowsOf'[t.day])
  BY <1>1, <1>4, Zenon DEF Table!Whole, RowsOf, Rows
<1>8. QED
  BY <1>2, <1>6, <1>7, Zenon DEF Table!Next, Table!Replace, rowsOf

\* Only a commit changes what the table holds of a date.
LEMMA OthersKeepRows ==
    ASSUME Next, ~\E l \in Loaders : CommitLoad(l)
    PROVE  UNCHANGED raw
<1>1. CASE Tick
  BY <1>1, Zenon DEF Tick, tables
<1>2. CASE \E s \in Symbols, a \in Attrs : ChangeMeta(s, a)
  BY <1>2, Zenon DEF ChangeMeta, tables
<1>3. CASE \E d \in Dates, s \in Symbols, shape \in Shapes : PutObject(d, s, shape)
  BY <1>3, Zenon DEF PutObject, tables
<1>4. CASE \E flags \in ScriptFlags : ListTodo(flags)
  BY <1>4, Zenon DEF ListTodo, tables
<1>5. CASE \E l \in Loaders : ReadDay(l) \/ BeginLoad(l) \/ LoadFails(l)
  BY <1>5, Zenon DEF ReadDay, BeginLoad, SeenWhileOpen, LoadFails, tables
<1>6. CASE \/ StartRun \/ ListPending \/ SnapshotSymbols \/ JoinRoots \/ BuildDim
           \/ BuildRetried \/ RunFails \/ TakeSnapshot \/ BuildFact
  BY <1>6, Zenon DEF StartRun, ListPending, SnapshotSymbols, JoinRoots, BuildDim, BuildRetried,
                     RunFails, TakeSnapshot, BuildFact, tables
<1>7. QED
  BY <1>1, <1>2, <1>3, <1>4, <1>5, <1>6, StepCases, Zenon

LEMMA LoadsRefine ==
    ASSUME TypeOK, LoadInv, [Next]_vars
    PROVE  [Table!Next]_rowsOf
<1>1. CASE \E l \in Loaders : CommitLoad(l)
  BY <1>1, CommitRefines
<1>2. CASE UNCHANGED raw
  BY <1>2 DEF rowsOf
<1>3. CASE UNCHANGED vars
  BY <1>2, <1>3 DEF vars, tables
<1>4. QED
  BY <1>1, <1>2, <1>3, OthersKeepRows, Zenon

\* raw.klines_1m behaves as a table whose dates are replaced whole: a reader sees a
\* date as one load left it, with a row of each symbol, or not at all.
THEOREM LoadersImplementDayTable ==
    ASSUME CompleteScripts
    PROVE  Spec => ReplacesWholeDays
<1>1. Init => Table!Init
  <2> SUFFICES ASSUME Init PROVE Table!Init
    OBVIOUS
  <2>1. \A d \in Dates : {r \in RowsOf(d) : raw[r] # NotLoaded} = {}
    BY DEF Init, RowsOf
  <2>2. QED
    BY <2>1 DEF Table!Init
<1>2. TypeOK /\ LoadInv /\ [Next]_vars => [Table!Next]_rowsOf
  BY LoadsRefine
<1>3. Spec => []TypeOK /\ []LoadInv
  BY CompleteScripts, TypeCorrect, LoadingInvariant
<1>4. QED
  BY <1>1, <1>2, <1>3, PTL DEF Spec, ReplacesWholeDays, Table!Spec, rowsOf
=============================================================================
