----------------------------- MODULE StarProofs -----------------------------
(***************************************************************************)
(* Proofs about the star schema of Warehouse: the versions of a symbol and *)
(* the fact table.                                                         *)
(***************************************************************************)
EXTENDS WarehouseProofs

-----------------------------------------------------------------------------
(* Backdating.                                                             *)

\* The start of a version in dim_symbol.
StartOf(v, versions) ==
    IF \A u \in versions : u.symbol = v.symbol => v.valid_from <= u.valid_from
      THEN 0 ELSE v.valid_from

LEMMA BackdatedIs ==
    ASSUME NEW versions
    PROVE  Backdated(versions) = {[v EXCEPT !.valid_from = StartOf(v, versions)] : v \in versions}
BY Zenon DEF Backdated, StartOf

LEMMA BackdatedOne ==
    ASSUME NEW v \in Version, NEW versions
    PROVE  LET w == [v EXCEPT !.valid_from = StartOf(v, versions)]
           IN w.symbol = v.symbol /\ w.valid_to = v.valid_to /\ w.valid_from = StartOf(v, versions)
BY DEF Version

\* Backdating the first version of each symbol keeps versions apart.
LEMMA BackdatedApart ==
    ASSUME NEW versions, versions \subseteq Version, Apart(versions),
           \A v \in versions : v.valid_to # Open => v.valid_from < v.valid_to
    PROVE  Apart(Backdated(versions))
<1> DEFINE b(v) == [v EXCEPT !.valid_from = StartOf(v, versions)]
<1>1. ASSUME NEW u \in versions, NEW v \in versions, u.symbol = v.symbol, Before(u, v)
      PROVE  Before(b(u), b(v))
  <2>1. u.valid_to # Open /\ u.valid_to <= v.valid_from /\ u.valid_from < u.valid_to
    BY <1>1, Zenon DEF Before
  <2>2. u.valid_from \in Nat /\ v.valid_from \in Nat /\ u.valid_to \in Nat
    BY <2>1 DEF Version
  <2>3. u.valid_from < v.valid_from
    BY <2>1, <2>2, SMT
  <2>4. ~(v.valid_from <= u.valid_from)
    BY <2>2, <2>3, SMT
  <2>5. StartOf(v, versions) = v.valid_from
    BY <1>1, <2>4, Zenon DEF StartOf
  <2>6. b(u).valid_to = u.valid_to /\ b(v).valid_from = v.valid_from
    BY <2>5, BackdatedOne, Zenon
  <2> HIDE DEF b
  <2>7. QED
    BY <2>1, <2>6 DEF Before
<1>2. ASSUME NEW x \in Backdated(versions), NEW y \in Backdated(versions),
             x.symbol = y.symbol, x # y
      PROVE  Before(x, y) \/ Before(y, x)
  <2>1. PICK u \in versions : x = b(u)
    BY BackdatedIs, Zenon
  <2>2. PICK v \in versions : y = b(v)
    BY BackdatedIs, Zenon
  <2>3. u.symbol = v.symbol /\ u # v
    <3>1. x.symbol = u.symbol /\ y.symbol = v.symbol
      BY <2>1, <2>2, BackdatedOne, Zenon
    <3>2. QED
      BY <1>2, <2>1, <2>2, <3>1, Zenon
  <2>4. Before(u, v) \/ Before(v, u)
    BY <2>3, Zenon DEF Apart
  <2>5. QED
    BY <1>1, <2>1, <2>2, <2>3, <2>4, Zenon
<1>3. QED
  BY <1>2, Zenon DEF Apart

-----------------------------------------------------------------------------
(* The snapshot.                                                           *)

\* What a snapshot leaves of a version.
LEMMA ClosedFields ==
    ASSUME TypeOK, NEW v \in snap
    PROVE  /\ Closed(v).symbol = v.symbol /\ Closed(v).valid_from = v.valid_from
           /\ \/ Closed(v) = v /\ (v.valid_to = Open => v.symbol \notin Changed)
              \/ /\ v.valid_to = Open /\ v.symbol \in Changed
                 /\ Closed(v).valid_to = now
BY DEF TypeOK, Version, Closed

LEMMA OpenedFields ==
    ASSUME NEW s
    PROVE  /\ Opened(s).symbol = s /\ Opened(s).valid_from = now /\ Opened(s).valid_to = Open
BY DEF Opened

\* The clock moves if a version was opened.
LEMMA SnapshotClock ==
    ASSUME TypeOK, TakeSnapshot
    PROVE  /\ now \in Nat /\ now' \in Nat /\ now <= now'
           /\ Changed # {} => now < now'
BY DEF TypeOK, TakeSnapshot

\* Where the versions after a snapshot come from.
LEMMA SnapshotSources ==
    ASSUME TakeSnapshot, NEW w \in snap'
    PROVE  (\E v \in snap : w = Closed(v)) \/ (\E s \in Changed : w = Opened(s))
BY Zenon DEF TakeSnapshot

LEMMA SnapshotApart ==
    ASSUME TypeOK, StarInv, TakeSnapshot
    PROVE  Apart(snap)'
<1> SUFFICES ASSUME NEW x \in snap', NEW y \in snap', x.symbol = y.symbol, x # y
             PROVE  Before(x, y) \/ Before(y, x)
  BY Zenon DEF Apart
<1>1. now \in Nat /\ Open \notin Nat
  BY SnapshotClock DEF Open
<1>2. ASSUME NEW u \in snap, NEW v \in snap, u.symbol = v.symbol, u # v, Before(u, v)
      PROVE  Before(Closed(u), Closed(v))
  <2>1. Closed(u) = u
    BY <1>2, ClosedFields, Zenon DEF Before
  <2>2. Closed(v).valid_from = v.valid_from
    BY ClosedFields, Zenon
  <2>3. QED
    BY <1>2, <2>1, <2>2, Zenon DEF Before
<1>3. ASSUME NEW v \in snap, NEW s \in Changed, v.symbol = s
      PROVE  Before(Closed(v), Opened(s))
  <2>1. CASE v.valid_to = Open
    <3>1. Closed(v).valid_to = now
      BY <1>3, <2>1, ClosedFields, Zenon
    <3>2. QED
      BY <1>1, <3>1, OpenedFields DEF Before
  <2>2. CASE v.valid_to # Open
    <3>1. Closed(v) = v
      BY <2>2, ClosedFields, Zenon
    <3>2. v.valid_to < now
      BY <2>2, Zenon DEF StarInv, VersionsArePast
    <3>3. v.valid_to \in Nat
      BY <2>2 DEF TypeOK, Version
    <3>4. v.valid_to <= now
      BY <1>1, <3>2, <3>3, SMT
    <3>5. QED
      BY <2>2, <3>1, <3>4, OpenedFields DEF Before
  <2>3. QED
    BY <2>1, <2>2
<1>4. CASE \E u \in snap, v \in snap : x = Closed(u) /\ y = Closed(v)
  <2>1. PICK u \in snap, v \in snap : x = Closed(u) /\ y = Closed(v)
    BY <1>4
  <2>2. u.symbol = v.symbol /\ u # v
    BY <2>1, ClosedFields, Zenon
  <2>3. Before(u, v) \/ Before(v, u)
    BY <2>2, Zenon DEF StarInv, VersionsTile, Apart
  <2>4. QED
    BY <1>2, <2>1, <2>2, <2>3, Zenon
<1>5. CASE \E u \in snap, s \in Changed : {x, y} = {Closed(u), Opened(s)}
  <2>1. PICK u \in snap, s \in Changed : {x, y} = {Closed(u), Opened(s)}
    BY <1>5
  <2>2. (x = Closed(u) /\ y = Opened(s)) \/ (y = Closed(u) /\ x = Opened(s))
    BY <2>1
  <2>3. u.symbol = s
    BY <2>2, ClosedFields, OpenedFields, Zenon
  <2>4. QED
    BY <1>3, <2>2, <2>3, Zenon
<1>6. CASE \E s, t \in Changed : x = Opened(s) /\ y = Opened(t)
  <2>1. PICK s \in Changed, t \in Changed : x = Opened(s) /\ y = Opened(t)
    BY <1>6
  <2>2. x.symbol = s /\ y.symbol = t
    BY <2>1, OpenedFields, Zenon
  <2>3. QED
    BY <2>1, <2>2, Zenon
<1>7. QED
  <2>1. \/ \E v \in snap : x = Closed(v)
        \/ \E s \in Changed : x = Opened(s)
    BY SnapshotSources, Zenon
  <2>2. \/ \E v \in snap : y = Closed(v)
        \/ \E s \in Changed : y = Opened(s)
    BY SnapshotSources, Zenon
  <2>3. QED
    BY <1>4, <1>5, <1>6, <2>1, <2>2

LEMMA SnapshotTiles ==
    ASSUME TypeOK, StarInv, TakeSnapshot
    PROVE  VersionsTile'
<1>1. \A v \in snap : Closed(v) \in snap'
  BY Zenon DEF TakeSnapshot
<1>2. \A s \in Changed : Opened(s) \in snap'
  BY Zenon DEF TakeSnapshot
<1>3. ASSUME NEW w \in snap' PROVE \E u \in snap' : u.symbol = w.symbol /\ u.valid_to = Open
  <2>1. CASE w.symbol \in Changed
    BY <1>2, <2>1, OpenedFields, Zenon
  <2>2. CASE w.symbol \notin Changed
    <3>0. \A s \in Changed : w # Opened(s)
      BY <2>2, OpenedFields, Zenon
    <3>1. PICK v \in snap : w = Closed(v)
      BY <3>0, SnapshotSources, Zenon
    <3>2. PICK u \in snap : u.symbol = v.symbol /\ u.valid_to = Open
      BY Zenon DEF StarInv, VersionsTile
    <3>3. w.symbol = v.symbol
      BY <3>1, ClosedFields, Zenon
    <3>4. Closed(u) = u
      BY <2>2, <3>2, <3>3, ClosedFields, Zenon
    <3>5. QED
      BY <1>1, <3>2, <3>3, <3>4, Zenon
  <2>3. QED
    BY <2>1, <2>2
<1>4. ASSUME NEW w \in snap', w.valid_to # Open
      PROVE  \E u \in snap' : u.symbol = w.symbol /\ u.valid_from = w.valid_to
  <2>0. \A s \in Changed : w # Opened(s)
    BY <1>4, OpenedFields
  <2>1. PICK v \in snap : w = Closed(v)
    BY <2>0, SnapshotSources, Zenon
  <2>2. CASE v.valid_to = Open
    <3>1. v.symbol \in Changed /\ w.valid_to = now /\ w.symbol = v.symbol
      BY <1>4, <2>1, <2>2, ClosedFields, Zenon
    <3>2. QED
      BY <1>2, <3>1, OpenedFields, Zenon
  <2>3. CASE v.valid_to # Open
    <3>1. w = v
      BY <2>1, <2>3, ClosedFields, Zenon
    <3>2. PICK u \in snap : u.symbol = v.symbol /\ u.valid_from = v.valid_to
      BY <2>3, Zenon DEF StarInv, VersionsTile
    <3>3. QED
      BY <1>1, <3>1, <3>2, ClosedFields, Zenon
  <2>4. QED
    BY <2>2, <2>3
<1>5. QED
  BY <1>3, <1>4, SnapshotApart, Zenon DEF VersionsTile

LEMMA SnapshotPast ==
    ASSUME TypeOK, StarInv, TakeSnapshot, NEW w \in snap'
    PROVE  /\ w.valid_from < now'
           /\ w.valid_to # Open => w.valid_from < w.valid_to /\ w.valid_to < now'
<1>1. now \in Nat /\ now' \in Nat /\ now <= now' /\ (Changed # {} => now < now')
  BY SnapshotClock, Zenon
<1>2. CASE \E s \in Changed : w = Opened(s)
  BY <1>1, <1>2, OpenedFields, Zenon
<1>3. CASE \E v \in snap : w = Closed(v)
  <2>1. PICK v \in snap : w = Closed(v)
    BY <1>3
  <2>2. /\ v.valid_from \in Nat /\ v.valid_from < now
        /\ v.valid_to # Open => /\ v.valid_to \in Nat
                                /\ v.valid_from < v.valid_to /\ v.valid_to < now
    BY DEF StarInv, VersionsArePast, TypeOK, Version
  <2>3. w.valid_from = v.valid_from
    BY <2>1, ClosedFields, Zenon
  <2>4. CASE w = v
    BY <1>1, <2>2, <2>4, SMT
  <2>5. CASE v.symbol \in Changed /\ w.valid_to = now
    <3>1. now < now'
      BY <1>1, <2>5, Zenon
    <3>2. QED
      BY <1>1, <2>2, <2>3, <2>5, <3>1, SMT
  <2>6. QED
    BY <2>1, <2>4, <2>5, ClosedFields, Zenon
<1>4. QED
  BY <1>2, <1>3, SnapshotSources, Zenon

\* A version starts as early in dim_symbol after a snapshot as before it.
LEMMA SnapshotStarts ==
    ASSUME TypeOK, StarInv, TakeSnapshot, NEW v \in snap
    PROVE  StartOf(Closed(v), snap') = StartOf(v, snap)
<1>1. Closed(v).symbol = v.symbol /\ Closed(v).valid_from = v.valid_from
  BY ClosedFields, Zenon
<1>2. now \in Nat /\ \A u \in snap : u.valid_from \in Nat /\ u.valid_from < now
  BY DEF StarInv, VersionsArePast, TypeOK, Version
<1>3. ASSUME \A u \in snap : u.symbol = v.symbol => v.valid_from <= u.valid_from,
             NEW w \in snap', w.symbol = v.symbol
      PROVE  v.valid_from <= w.valid_from
  <2>1. CASE \E u \in snap : w = Closed(u)
    BY <1>3, <2>1, ClosedFields, Zenon
  <2>2. CASE \E s \in Changed : w = Opened(s)
    <3>1. w.valid_from = now
      BY <2>2, OpenedFields, Zenon
    <3>2. QED
      BY <1>2, <3>1, SMT
  <2>3. QED
    BY <2>1, <2>2, SnapshotSources, Zenon
<1>4. ASSUME \A w \in snap' : w.symbol = v.symbol => v.valid_from <= w.valid_from,
             NEW u \in snap, u.symbol = v.symbol
      PROVE  v.valid_from <= u.valid_from
  <2>1. Closed(u) \in snap'
    BY Zenon DEF TakeSnapshot
  <2>2. QED
    BY <1>4, <2>1, ClosedFields, Zenon
<1>5. QED
  BY <1>1, <1>3, <1>4, Zenon DEF StartOf

\* A version of dim_symbol that covers a minute in the past goes on covering it.
Holds(w, f) ==
    /\ w.symbol = f.row[1] /\ w.valid_from = f.version
    /\ w.valid_from <= f.row[2]
    /\ w.valid_to # Open => f.row[2] < w.valid_to

LEMMA SnapshotFacts ==
    ASSUME TypeOK, StarInv, TakeSnapshot
    PROVE  FactAtItsVersion'
<1> SUFFICES ASSUME NEW f \in fact PROVE \E w \in Backdated(snap)' : Holds(w, f)
  <2>1. fact' = fact
    BY Zenon DEF TakeSnapshot
  <2>2. QED
    BY <2>1, Zenon DEF FactAtItsVersion, Holds
<1>1. PICK x \in Backdated(snap) : Holds(x, f)
  BY Zenon DEF StarInv, FactAtItsVersion, Holds
<1>2. PICK v \in snap : x = [v EXCEPT !.valid_from = StartOf(v, snap)]
  BY BackdatedIs, Zenon
<1> DEFINE w == [Closed(v) EXCEPT !.valid_from = StartOf(Closed(v), snap')]
<1>3. w \in Backdated(snap)'
  <2>1. Closed(v) \in snap'
    BY Zenon DEF TakeSnapshot
  <2>2. Backdated(snap)' = {[u EXCEPT !.valid_from = StartOf(u, snap')] : u \in snap'}
    BY Zenon DEF Backdated, StartOf
  <2>3. QED
    BY <2>1, <2>2, Zenon
<1>4. /\ w.symbol = x.symbol /\ w.valid_from = x.valid_from
      /\ w.valid_to = x.valid_to \/ w.valid_to = now
  <2>1. v \in Version /\ Closed(v) \in Version
    BY DEF TypeOK, Closed, Version
  <2>2. /\ w.symbol = Closed(v).symbol /\ w.valid_to = Closed(v).valid_to
        /\ w.valid_from = StartOf(Closed(v), snap')
        /\ x.symbol = v.symbol /\ x.valid_to = v.valid_to /\ x.valid_from = StartOf(v, snap)
    BY <1>2, <2>1, BackdatedOne, Zenon
  <2> HIDE DEF w
  <2>3. QED
    BY <2>2, SnapshotStarts, ClosedFields, Zenon
<1>5. f.row[2] < now
  BY Zenon DEF StarInv, MinutesArePast
<1> HIDE DEF w
<1>6. Holds(w, f)
  BY <1>1, <1>4, <1>5, Zenon DEF Holds
<1>7. QED
  BY <1>3, <1>6, Zenon
\* What is in the past stays there as the clock moves.
LEMMA MinutesStayPast ==
    ASSUME TypeOK, MinutesArePast, now' \in Nat, now <= now',
           UNCHANGED <<bronze, txn, raw, fact>>
    PROVE  MinutesArePast'
<1>1. \A mi \in Minutes : mi < now => mi < now'
  <2>1. now \in Nat /\ Minutes \subseteq Int
    BY DEF TypeOK, Minutes
  <2>2. QED
    BY <2>1, SMT
<1>2. /\ \A r \in Rows : r[2] \in Minutes
      /\ \A d \in Dates, s \in Symbols : bronze[d][s] \subseteq Minutes
      /\ \A f \in fact : f.row \in Rows
  BY DEF TypeOK, FactRow, Rows
<1>3. \A l \in Loaders : txn[l].df \subseteq Rows
  BY DEF TypeOK, Txn, NoTxn
<1>4. QED
  BY <1>1, <1>2, <1>3, Zenon DEF MinutesArePast

LEMMA SnapshotStar ==
    ASSUME TypeOK, StarInv, TakeSnapshot
    PROVE  StarInv'
<1>1. VersionsTile' /\ FactAtItsVersion'
  BY SnapshotTiles, SnapshotFacts
<1>2. VersionsArePast'
  BY SnapshotPast, Zenon DEF VersionsArePast
<1>3. MinutesArePast'
  BY SnapshotClock, MinutesStayPast, Zenon DEF TakeSnapshot, StarInv, loading
<1>4. dim' = dim /\ fact' = fact /\ dag' # "fact"
  BY DEF TakeSnapshot
<1>5. Apart(dim)' /\ FactGrain'
  BY <1>4, Zenon DEF StarInv, Apart, Before, FactGrain
<1>6. QED
  BY <1>1, <1>2, <1>3, <1>4, <1>5, Zenon DEF StarInv

-----------------------------------------------------------------------------
(* The builds.                                                             *)

LEMMA DimStar ==
    ASSUME TypeOK, StarInv, BuildDim
    PROVE  StarInv'
<1>1. dim' = Backdated(snap) /\ UNCHANGED <<now, bronze, raw, snap, fact, txn>>
  BY Zenon DEF BuildDim, loading
<1>2. Apart(Backdated(snap))
  BY BackdatedApart, Zenon DEF StarInv, VersionsTile, VersionsArePast, TypeOK
<1>3. Backdated(snap)' = Backdated(snap)
  BY <1>1, Zenon DEF Backdated
<1>4. Apart(dim)' /\ dim' = Backdated(snap)'
  BY <1>1, <1>2, <1>3, Zenon DEF Apart, Before
<1>5. VersionsTile' /\ VersionsArePast' /\ MinutesArePast' /\ FactGrain'
  BY <1>1, Zenon DEF StarInv, VersionsTile, VersionsArePast, MinutesArePast, FactGrain, Apart, Before
<1>6. FactAtItsVersion'
  BY <1>1, <1>3, Zenon DEF StarInv, FactAtItsVersion
<1>7. QED
  BY <1>4, <1>5, <1>6, Zenon DEF StarInv

\* Two versions that are apart do not cover the same minute.
LEMMA ApartCover ==
    ASSUME NEW u \in Version, NEW v \in Version, NEW mi \in Int,
           Covers(u, mi), Covers(v, mi), Before(u, v)
    PROVE  FALSE
BY DEF Covers, Before, Version, Open

LEMMA FactStar ==
    ASSUME TypeInv, StarInv, BuildFact
    PROVE  StarInv'
<1> DEFINE pairs == {j \in Rows \X dim : /\ Newer(j[1])
                                         /\ j[2].symbol = j[1][1]
                                         /\ Covers(j[2], j[1][2])}
           joined == {[row |-> j[1], version |-> j[2].valid_from, loaded_at |-> raw[j[1]]] :
                        j \in pairs}
<1>1. /\ fact' = {f \in fact : \A j \in joined : j.row # f.row} \cup joined
      /\ UNCHANGED <<now, bronze, raw, snap, dim, txn>>
      /\ dag = "fact" /\ dag' = "idle"
  BY Zenon DEF BuildFact, loading
<1>2. ASSUME NEW f \in joined
      PROVE  \E r \in Rows, v \in dim :
                /\ Newer(r) /\ v.symbol = r[1] /\ Covers(v, r[2])
                /\ f.row = r /\ f.version = v.valid_from /\ f.loaded_at = raw[r]
  <2> PICK j \in pairs :
        f = [row |-> j[1], version |-> j[2].valid_from, loaded_at |-> raw[j[1]]]
    <3> HIDE DEF pairs
    <3> QED
      BY Zenon
  <2>1. j[1] \in Rows /\ j[2] \in dim
    BY Zenon
  <2>2. f.row = j[1] /\ f.version = j[2].valid_from /\ f.loaded_at = raw[j[1]]
    OBVIOUS
  <2>3. QED
    BY <2>1, <2>2, Zenon
<1>3. dim \subseteq Version /\ dim = Backdated(snap) /\ Apart(dim)
  BY <1>1, Zenon DEF TypeInv, TypeOK, StarInv
<1> HIDE DEF joined
<1>4. ASSUME NEW f \in joined, NEW g \in joined, f.row = g.row
      PROVE  f.version = g.version /\ f.loaded_at = g.loaded_at
  <2>1. PICK r \in Rows, v \in dim :
             /\ v.symbol = r[1] /\ Covers(v, r[2])
             /\ f.row = r /\ f.version = v.valid_from /\ f.loaded_at = raw[r]
    BY <1>2, Zenon
  <2>2. PICK u \in dim :
             /\ u.symbol = r[1] /\ Covers(u, r[2])
             /\ g.row = r /\ g.version = u.valid_from /\ g.loaded_at = raw[r]
    BY <1>2, <1>4, <2>1, Zenon
  <2>3. r[2] \in Int
    BY DEF Rows, Minutes
  <2>4. u = v
    BY <1>3, <2>1, <2>2, <2>3, ApartCover, Zenon DEF Apart
  <2>5. QED
    BY <2>1, <2>2, <2>4, Zenon
<1>5. FactGrain'
  <2>1. fact' \subseteq FactRow
    BY FactTypes, Zenon DEF TypeInv, TypeOK
  <2> SUFFICES ASSUME NEW f \in fact', NEW g \in fact', f.row = g.row PROVE f = g
    BY Zenon DEF FactGrain
  <2>2. CASE f \in joined /\ g \in joined
    <3>1. f.version = g.version /\ f.loaded_at = g.loaded_at
      BY <1>4, <2>2, Zenon
    <3>2. QED
      BY <2>1, <3>1 DEF FactRow
  <2>3. CASE f \notin joined /\ g \notin joined
    BY <1>1, <2>3, Zenon DEF StarInv, FactGrain
  <2>4. f \in joined <=> g \in joined
    BY <1>1, Zenon
  <2>5. QED
    BY <2>2, <2>3, <2>4
<1>6. FactAtItsVersion'
  <2>1. Backdated(snap)' = dim
    BY <1>1, <1>3, Zenon DEF Backdated
  <2> SUFFICES ASSUME NEW f \in fact' PROVE \E v \in dim : Holds(v, f)
    BY <2>1, Zenon DEF FactAtItsVersion, Holds
  <2>2. CASE f \in joined
    BY <1>2, <2>2, Zenon DEF Covers, Holds
  <2>3. CASE f \in fact
    BY <1>3, <2>3, Zenon DEF StarInv, FactAtItsVersion, Holds
  <2>4. QED
    BY <1>1, <2>2, <2>3, Zenon
<1>7. MinutesArePast'
  <2>1. ASSUME NEW f \in fact' PROVE f.row[2] < now
    <3>1. CASE f \in joined
      <4>1. PICK r \in Rows : Newer(r) /\ f.row = r
        BY <1>2, <3>1, Zenon
      <4>2. raw[r] # NotLoaded
        BY <4>1, NewerIsLoaded, Zenon DEF TypeInv
      <4>3. QED
        BY <4>1, <4>2, Zenon DEF StarInv, MinutesArePast
    <3>2. CASE f \in fact
      BY <3>2, Zenon DEF StarInv, MinutesArePast
    <3>3. QED
      BY <1>1, <3>1, <3>2, Zenon
  <2>2. QED
    BY <1>1, <2>1, Zenon DEF StarInv, MinutesArePast
<1>8. VersionsTile' /\ VersionsArePast' /\ Apart(dim)'
  BY <1>1, Zenon DEF StarInv, VersionsTile, VersionsArePast, Apart, Before
<1>9. dag' # "fact"
  BY <1>1
<1>10. QED
  BY <1>5, <1>6, <1>7, <1>8, <1>9, Zenon DEF StarInv

-----------------------------------------------------------------------------
(* The steps that leave the star schema alone.                             *)

LEMMA StarStays ==
    ASSUME TypeOK, StarInv, UNCHANGED <<snap, dim, fact>>, now' \in Nat, now <= now',
           dag' = dag \/ dag' # "fact", MinutesArePast'
    PROVE  StarInv'
<1>1. now \in Nat /\ \A v \in snap : v.valid_from \in Nat /\ v.valid_to \in Nat \cup {Open}
  BY DEF TypeOK, Version
<1>2. ASSUME NEW v \in snap PROVE v.valid_from < now' /\ (v.valid_to # Open => v.valid_to < now')
  <2>1. v.valid_from < now /\ (v.valid_to # Open => v.valid_to < now)
    BY Zenon DEF StarInv, VersionsArePast
  <2>2. v.valid_from \in Nat /\ (v.valid_to # Open => v.valid_to \in Nat)
    BY <1>1, Zenon
  <2>3. QED
    BY <1>1, <2>1, <2>2, SMT
<1>3. VersionsArePast'
  BY <1>2, Zenon DEF StarInv, VersionsArePast
<1>4. Backdated(snap)' = Backdated(snap)
  BY Zenon DEF Backdated
<1>5. VersionsTile' /\ Apart(dim)' /\ FactGrain' /\ FactAtItsVersion'
  BY <1>4, Zenon DEF StarInv, VersionsTile, Apart, Before, FactGrain, FactAtItsVersion
<1>6. dag' = "fact" => dim' = Backdated(snap)'
  BY <1>4, Zenon DEF StarInv
<1>7. QED
  BY <1>3, <1>5, <1>6, Zenon DEF StarInv

\* The minutes of an object have begun when it is put.
LEMMA PutPast ==
    ASSUME TypeOK, MinutesArePast, NEW d \in Dates, NEW s \in Symbols, NEW shape \in Shapes,
           PutObject(d, s, shape)
    PROVE  MinutesArePast'
<1>1. \A i \in shape : d * DayLen + i < now
  BY Zenon DEF PutObject
<1>2. \A mi \in {d * DayLen + i : i \in shape} : mi < now
  BY <1>1, Zenon
<1>3. \A e \in Dates, u \in Symbols :
          bronze'[e][u] \in {bronze[e][u], {d * DayLen + i : i \in shape}}
  BY Zenon DEF PutObject, TypeOK
<1>4. UNCHANGED <<now, txn, raw, fact>>
  BY Zenon DEF PutObject, loading, tables
<1>5. QED
  BY <1>2, <1>3, <1>4, Zenon DEF MinutesArePast

LEMMA LoadPast ==
    ASSUME TypeOK, MinutesArePast, NEW l \in Loaders,
           ReadDay(l) \/ BeginLoad(l) \/ CommitLoad(l) \/ LoadFails(l)
    PROVE  MinutesArePast'
<1> USE DEF MinutesArePast
<1>0. UNCHANGED <<now, bronze, fact>>
  BY Zenon DEF ReadDay, BeginLoad, CommitLoad, LoadFails, tables
<1>1. CASE ReadDay(l)
  <2> DEFINE d == Min(todo[l])
             t == [day |-> d, stamp |-> NotLoaded, df |-> BronzeOf(d), hit |-> {}]
  <2>1. d \in Dates
    BY <1>1, NextDate, Zenon DEF ReadDay
  <2>2. \A r \in BronzeOf(d) : r \in Rows /\ r[2] \in bronze[d][r[1]]
    BY Zenon DEF BronzeOf, RowsOf
  <2>3. \A r \in t.df : r[2] < now
    <3>1. \A r \in Rows : r[1] \in Symbols
      BY DEF Rows
    <3>2. t.df = BronzeOf(d)
      OBVIOUS
    <3> HIDE DEF d, t
    <3>3. QED
      BY <2>1, <2>2, <3>1, <3>2, Zenon
  <2>4. \A m \in Loaders : txn'[m] \in {t, txn[m]}
    BY <1>1, Zenon DEF ReadDay, TypeOK
  <2>5. raw' = raw
    BY <1>1, Zenon DEF ReadDay, tables
  <2> HIDE DEF t
  <2>6. QED
    BY <1>0, <2>3, <2>4, <2>5, Zenon
<1>2. CASE BeginLoad(l)
  <2>3. \A m \in Loaders : txn'[m].df = txn[m].df
    BY <1>2, BeginIs, Zenon
  <2>4. raw' = raw
    BY <1>2, BeginIs, Zenon
  <2>5. QED
    BY <1>0, <2>3, <2>4, Zenon
<1>3. CASE CommitLoad(l)
  <2>1. \A r \in Rows : raw'[r] # NotLoaded => r \in txn[l].df \/ raw[r] # NotLoaded
    BY <1>3, Zenon DEF CommitLoad, Replaced
  <2>2. \A m \in Loaders : txn'[m] \in {txn[m], NoTxn}
    BY <1>3, Zenon DEF CommitLoad, TypeOK
  <2>3. NoTxn.df = {}
    BY DEF NoTxn
  <2>4. QED
    BY <1>0, <2>1, <2>2, <2>3, Zenon
<1>4. CASE LoadFails(l)
  <2>1. \A m \in Loaders : txn'[m] \in {txn[m], NoTxn}
    BY <1>4, Zenon DEF LoadFails, TypeOK
  <2>2. NoTxn.df = {}
    BY DEF NoTxn
  <2>3. raw' = raw
    BY <1>4, Zenon DEF LoadFails, tables
  <2>4. QED
    BY <1>0, <2>1, <2>2, <2>3, Zenon
<1>5. QED
  BY <1>1, <1>2, <1>3, <1>4, Zenon

LEMMA OtherStar ==
    ASSUME TypeOK, StarInv,
           \/ Tick
           \/ \E s \in Symbols, a \in Attrs : ChangeMeta(s, a)
           \/ \E d \in Dates, s \in Symbols, shape \in Shapes : PutObject(d, s, shape)
           \/ \E flags \in ScriptFlags : ListTodo(flags)
           \/ \E l \in Loaders : ReadDay(l) \/ BeginLoad(l) \/ CommitLoad(l) \/ LoadFails(l)
           \/ StartRun \/ ListPending \/ SnapshotSymbols \/ JoinRoots
           \/ BuildRetried \/ RunFails
    PROVE  StarInv'
<1>1. UNCHANGED <<snap, dim, fact>>
  BY Zenon DEF Tick, ChangeMeta, PutObject, ListTodo, ReadDay, BeginLoad, CommitLoad, LoadFails,
               StartRun, ListPending, SnapshotSymbols, JoinRoots, BuildRetried, RunFails, tables
<1>2. now \in Nat /\ (now' = now \/ now' = now + 1)
  BY Zenon DEF Tick, ChangeMeta, PutObject, ListTodo, ReadDay, BeginLoad, CommitLoad, LoadFails,
               StartRun, ListPending, SnapshotSymbols, JoinRoots, BuildRetried, RunFails, TypeOK
<1>3. now' \in Nat /\ now <= now'
  BY <1>2, SMT
<1>4. dag' = dag \/ dag' # "fact"
  BY DEF Tick, ChangeMeta, PutObject, ListTodo, ReadDay, BeginLoad, CommitLoad, LoadFails,
         StartRun, ListPending, SnapshotSymbols, JoinRoots, BuildRetried, RunFails
<1>5. MinutesArePast'
  <2>1. CASE \E d \in Dates, s \in Symbols, shape \in Shapes : PutObject(d, s, shape)
    BY <2>1, PutPast, Zenon DEF StarInv
  <2>2. CASE \E l \in Loaders : ReadDay(l) \/ BeginLoad(l) \/ CommitLoad(l) \/ LoadFails(l)
    BY <2>2, LoadPast, Zenon DEF StarInv
  <2>3. CASE RunFails
    <3>1. \A m \in Loaders : txn'[m] \in {txn[m], NoTxn}
      BY <2>3, Zenon DEF RunFails, TypeOK
    <3>2. NoTxn.df = {}
      BY DEF NoTxn
    <3>3. UNCHANGED <<now, bronze, raw, fact>>
      BY <2>3, Zenon DEF RunFails, tables
    <3>4. QED
      BY <3>1, <3>2, <3>3, Zenon DEF StarInv, MinutesArePast
  <2>4. CASE \/ Tick
             \/ \E s \in Symbols, a \in Attrs : ChangeMeta(s, a)
             \/ \E flags \in ScriptFlags : ListTodo(flags)
             \/ StartRun \/ ListPending \/ SnapshotSymbols \/ JoinRoots
             \/ BuildRetried
    <3>1. UNCHANGED <<bronze, txn, raw, fact>>
      BY <2>4, Zenon DEF Tick, ChangeMeta, ListTodo, StartRun, ListPending, SnapshotSymbols,
                         JoinRoots, BuildRetried, tables, loading
    <3>2. QED
      BY <1>3, <3>1, MinutesStayPast, Zenon DEF StarInv
  <2>5. QED
    BY <2>1, <2>2, <2>3, <2>4, Zenon
<1>6. QED
  BY <1>1, <1>3, <1>4, <1>5, StarStays, Zenon

-----------------------------------------------------------------------------
(* Theorems.                                                               *)

LEMMA StarInit == Init => StarInv
<1> SUFFICES ASSUME Init PROVE StarInv
  OBVIOUS
<1>1. snap = {} /\ dim = {} /\ fact = {} /\ dag # "fact"
  BY DEF Init
<1>2. MinutesArePast
  BY DEF Init, MinutesArePast, NoTxn
<1>3. VersionsTile /\ VersionsArePast /\ Apart(dim) /\ FactGrain /\ FactAtItsVersion
  BY <1>1, Zenon DEF VersionsTile, VersionsArePast, Apart, FactGrain, FactAtItsVersion
<1>4. QED
  BY <1>1, <1>2, <1>3, Zenon DEF StarInv

LEMMA StarStep == TypeInv /\ StarInv /\ [Next]_vars => StarInv'
<1> SUFFICES ASSUME TypeInv, StarInv, [Next]_vars PROVE StarInv'
  OBVIOUS
<1>1. TypeOK
  BY Zenon DEF TypeInv
<1>2. CASE UNCHANGED vars
  <2>1. UNCHANGED <<now, bronze, raw, snap, dim, fact, dag, txn>>
    BY <1>2 DEF vars, tables, loading
  <2>2. now \in Nat /\ now' \in Nat /\ now <= now'
    BY <1>1, <2>1 DEF TypeOK
  <2>3. MinutesArePast'
    BY <1>1, <2>1, <2>2, MinutesStayPast, Zenon DEF StarInv
  <2>4. QED
    BY <1>1, <2>1, <2>2, <2>3, StarStays, Zenon
<1>3. CASE Next
  BY <1>1, <1>3, StepCases, SnapshotStar, DimStar, FactStar, OtherStar, Zenon
<1>4. QED
  BY <1>2, <1>3, Zenon

\* The inductive invariant of the star schema holds, whatever the loaders do.
THEOREM StarInvariant == Spec => []StarInv
<1>1. Init => TypeInv /\ StarInv
  BY TypeInvInit, StarInit
<1>2. TypeInv /\ StarInv /\ [Next]_vars => (TypeInv /\ StarInv)'
  BY TypeInvStep, StarStep
<1>3. QED
  BY <1>1, <1>2, PTL DEF Spec

\* The versions of a symbol follow each other without gap or overlap.
THEOREM VersionsFollow == Spec => []VersionsTile
<1>1. StarInv => VersionsTile
  BY Zenon DEF StarInv
<1>2. QED
  BY <1>1, StarInvariant, PTL

\* The fact table has one row per symbol and minute.
THEOREM FactRowsAreUnique == Spec => []FactGrain
<1>1. StarInv => FactGrain
  BY Zenon DEF StarInv
<1>2. QED
  BY <1>1, StarInvariant, PTL

\* Each fact is at the version of its symbol that was valid at its minute.
THEOREM FactsAtOneVersion == Spec => []FactAtItsVersion
<1>1. StarInv => FactAtItsVersion
  BY Zenon DEF StarInv
<1>2. QED
  BY <1>1, StarInvariant, PTL

-----------------------------------------------------------------------------
(* History: a version is a change, and a fact keeps its version.           *)

\* A snapshot leaves the attributes of a version, and opens one for what it observed.
LEMMA SnapshotAttrs ==
    ASSUME TypeOK
    PROVE  /\ \A v \in snap : Closed(v).attrs = v.attrs
           /\ \A s \in Changed : Opened(s).attrs = observed[s]
<1>1. \A v \in snap : Closed(v).attrs = v.attrs
  BY DEF TypeOK, Version, Closed
<1>2. \A s \in Changed : Opened(s).attrs = observed[s]
  BY DEF Opened
<1>3. QED
  BY <1>1, <1>2

LEMMA SnapshotDiffers ==
    ASSUME TypeOK, StarInv, VersionsDiffer, TakeSnapshot
    PROVE  VersionsDiffer'
<1> SUFFICES ASSUME NEW x \in snap', NEW y \in snap', x.symbol = y.symbol,
                    x.valid_to = y.valid_from
             PROVE  x.attrs # y.attrs
  BY Zenon DEF VersionsDiffer
<1>1. /\ now \in Nat /\ Open \notin Nat
      /\ \A v \in snap : /\ v.valid_from \in Nat /\ v.valid_from # now
                        /\ v.valid_to # now
  BY DEF StarInv, VersionsArePast, TypeOK, Version, Open
<1>2. PICK v \in snap : x = Closed(v)
  <2>1. y.valid_from \in Nat
    <3>1. \A w \in snap : Closed(w).valid_from \in Nat
      BY <1>1, ClosedFields
    <3>2. \A s \in Changed : Opened(s).valid_from \in Nat
      BY <1>1, OpenedFields
    <3>3. QED
      BY <3>1, <3>2, SnapshotSources, Zenon
  <2>2. \A s \in Changed : x # Opened(s)
    BY <1>1, <2>1, OpenedFields, Zenon
  <2>3. QED
    BY <2>2, SnapshotSources, Zenon
<1>3. x.symbol = v.symbol /\ x.attrs = v.attrs
  BY <1>2, ClosedFields, SnapshotAttrs, Zenon
<1>4. \/ x.valid_to = v.valid_to
      \/ v.valid_to = Open /\ v.symbol \in Changed /\ x.valid_to = now
  BY <1>2, ClosedFields, Zenon
<1>5. CASE \E w \in snap : y = Closed(w)
  <2>1. PICK w \in snap : y = Closed(w)
    BY <1>5
  <2>2. y.symbol = w.symbol /\ y.attrs = w.attrs /\ y.valid_from = w.valid_from
    BY <2>1, ClosedFields, SnapshotAttrs, Zenon
  <2>3. v.valid_to = w.valid_from
    BY <1>1, <1>4, <2>2, Zenon
  <2>4. QED
    BY <1>3, <2>2, <2>3, Zenon DEF VersionsDiffer
<1>6. CASE \E s \in Changed : y = Opened(s)
  <2>1. PICK s \in Changed : y = Opened(s)
    BY <1>6
  <2>2. y.symbol = s /\ y.attrs = observed[s] /\ y.valid_from = now
    BY <2>1, OpenedFields, SnapshotAttrs, Zenon
  <2>3. v.valid_to = Open /\ v.symbol = s
    BY <1>1, <1>3, <1>4, <2>2, Zenon
  <2>4. v.attrs # observed[s]
    BY <2>3, Zenon DEF Changed
  <2>5. QED
    BY <1>3, <2>2, <2>4, Zenon
<1>7. QED
  BY <1>5, <1>6, SnapshotSources, Zenon

\* Only the snapshot writes versions.
LEMMA SnapStays ==
    ASSUME [Next]_vars, ~TakeSnapshot
    PROVE  snap' = snap
<1>1. CASE UNCHANGED vars
  BY <1>1, Zenon DEF vars, tables
<1>2. CASE Next
  BY <1>2, StepCases, Zenon
     DEF Tick, ChangeMeta, PutObject, ListTodo, ReadDay, BeginLoad, CommitLoad, LoadFails,
         StartRun, ListPending, SnapshotSymbols, JoinRoots, BuildDim, BuildFact,
         BuildRetried, RunFails, tables
<1>3. QED
  BY <1>1, <1>2

\* A version of a symbol follows another only because a checked column
\* changed, whatever runs, fails and is retried in between.
THEOREM VersionsAreChanges == Spec => []VersionsDiffer
<1>1. Init => TypeInv /\ StarInv /\ VersionsDiffer
  <2>1. Init => VersionsDiffer
    BY Zenon DEF Init, VersionsDiffer
  <2>2. QED
    BY <2>1, TypeInvInit, StarInit
<1>2. TypeInv /\ StarInv /\ VersionsDiffer /\ [Next]_vars =>
        (TypeInv /\ StarInv /\ VersionsDiffer)'
  <2> SUFFICES ASSUME TypeInv, StarInv, VersionsDiffer, [Next]_vars
               PROVE  VersionsDiffer'
    BY TypeInvStep, StarStep, Zenon
  <2>1. CASE TakeSnapshot
    BY <2>1, SnapshotDiffers, Zenon DEF TypeInv
  <2>2. CASE ~TakeSnapshot
    BY <2>2, SnapStays, Zenon DEF VersionsDiffer
  <2>3. QED
    BY <2>1, <2>2
<1>3. QED
  BY <1>1, <1>2, PTL DEF Spec

\* Only the build of the fact table writes facts.
LEMMA FactStays ==
    ASSUME [Next]_vars, ~BuildFact
    PROVE  fact' = fact
<1>1. CASE UNCHANGED vars
  BY <1>1, Zenon DEF vars, tables
<1>2. CASE Next
  BY <1>2, StepCases, Zenon
     DEF Tick, ChangeMeta, PutObject, ListTodo, ReadDay, BeginLoad, CommitLoad, LoadFails,
         StartRun, ListPending, SnapshotSymbols, JoinRoots, TakeSnapshot, BuildDim,
         BuildRetried, RunFails, tables
<1>3. QED
  BY <1>1, <1>2

\* A row that the build joins again finds the version it was at.
LEMMA BuildKeepsVersions ==
    ASSUME TypeInv, StarInv, BuildFact, NEW f \in fact, NEW g \in fact', f.row = g.row
    PROVE  f.version = g.version
<1>1. dim \subseteq Version /\ dim = Backdated(snap) /\ Apart(dim)
  BY Zenon DEF BuildFact, TypeInv, TypeOK, StarInv
<1>2. f.row \in Rows /\ f.row[2] \in Int
  BY DEF TypeInv, TypeOK, FactRow, Rows, Minutes
<1>3. PICK u \in dim : Holds(u, f)
  BY <1>1, Zenon DEF StarInv, FactAtItsVersion, Holds
<1>4. PICK v \in dim : Holds(v, g)
  <2>1. FactAtItsVersion' /\ Backdated(snap)' = Backdated(snap)
    BY FactStar, Zenon DEF StarInv, BuildFact, Backdated
  <2>2. QED
    BY <1>1, <2>1, Zenon DEF FactAtItsVersion, Holds
<1>5. Covers(u, f.row[2]) /\ Covers(v, f.row[2])
  BY <1>3, <1>4, Zenon DEF Holds, Covers
<1>6. u = v
  BY <1>1, <1>2, <1>3, <1>4, <1>5, ApartCover, Zenon DEF Apart, Holds
<1>7. QED
  BY <1>3, <1>4, <1>6, Zenon DEF Holds

\* A fact that is loaded again after its symbol has changed is at the version it
\* was at before: loading a date twice does not rewrite history.
THEOREM FactsKeepTheirVersion == Spec => FactKeepsItsVersion
<1>1. TypeInv /\ StarInv /\ [Next]_vars =>
        [\A f \in fact, g \in fact' : f.row = g.row => f.version = g.version]_vars
  <2> SUFFICES ASSUME TypeInv, StarInv, [Next]_vars, NEW f \in fact, NEW g \in fact',
                      f.row = g.row
               PROVE  f.version = g.version
    BY Zenon
  <2>1. CASE BuildFact
    BY <2>1, BuildKeepsVersions
  <2>2. CASE ~BuildFact
    BY <2>2, FactStays, Zenon DEF StarInv, FactGrain
  <2>3. QED
    BY <2>1, <2>2
<1>2. TypeInv /\ StarInv /\ [Next]_vars => (TypeInv /\ StarInv)'
  BY TypeInvStep, StarStep
<1>3. Init => TypeInv /\ StarInv
  BY TypeInvInit, StarInit
<1>4. QED
  BY <1>1, <1>2, <1>3, PTL DEF Spec, FactKeepsItsVersion

-----------------------------------------------------------------------------
(* A build reaches every raw row, if no transaction of the script is open  *)
(* while it runs.                                                          *)

\* The versions of a symbol that has any cover every minute of dim_symbol.
LEMMA VersionsCover ==
    ASSUME TypeOK, StarInv, NEW s \in Symbols, \E v \in snap : v.symbol = s,
           NEW mi \in Minutes
    PROVE  \E w \in Backdated(snap) : w.symbol = s /\ Covers(w, mi)
<1> DEFINE Own == {v \in snap : v.symbol = s}
           F == {v.valid_from : v \in Own}
           T == {StartOf(v, snap) : v \in {u \in Own : StartOf(u, snap) <= mi}}
<1>0. mi \in Nat /\ snap \subseteq Version
  BY DaysAssumption DEF Minutes, TypeOK
<1>1. \A v \in snap : v.valid_from \in Nat /\ v.valid_to \in Nat \cup {Open}
  BY <1>0 DEF Version
<1>2. \A v \in snap : StartOf(v, snap) \in Nat /\ StartOf(v, snap) <= v.valid_from
  BY <1>1 DEF StartOf
<1>3. PICK v0 \in Own : \A u \in Own : v0.valid_from <= u.valid_from
  <2>1. F \subseteq Nat /\ F # {}
    BY <1>1, Zenon
  <2>2. Min(F) \in F /\ \A x \in F : Min(F) <= x
    <3> HIDE DEF F
    <3> QED
      BY <2>1, MinOfNats, Zenon
  <2>3. QED
    BY <2>2, Zenon
<1>4. StartOf(v0, snap) = 0
  BY <1>3, Zenon DEF StartOf
<1>5. T \subseteq 0..mi /\ T # {}
  <2>1. 0 \in T
    BY <1>0, <1>3, <1>4, SMT
  <2>2. T \subseteq 0..mi
    BY <1>0, <1>2, SMT
  <2>3. QED
    BY <2>1, <2>2, Zenon
<1>6. Max(T) \in T /\ \A x \in T : x <= Max(T)
  <2> HIDE DEF T
  <2> QED
    BY <1>0, <1>5, MaxOfBounded, Zenon
<1>7. PICK v \in Own : StartOf(v, snap) = Max(T) /\ StartOf(v, snap) <= mi
  BY <1>6, Zenon
<1> DEFINE w == [v EXCEPT !.valid_from = StartOf(v, snap)]
<1>8. /\ w \in Backdated(snap) /\ w.symbol = s
      /\ w.valid_to = v.valid_to /\ w.valid_from = StartOf(v, snap)
  BY <1>0, BackdatedIs, BackdatedOne, Zenon
<1>9. v.valid_to = Open \/ mi < v.valid_to
  <2> SUFFICES ASSUME v.valid_to # Open, ~(mi < v.valid_to) PROVE FALSE
    OBVIOUS
  <2>1. PICK u \in snap : u.symbol = v.symbol /\ u.valid_from = v.valid_to
    BY Zenon DEF StarInv, VersionsTile
  <2>2. v.valid_from < v.valid_to
    BY Zenon DEF StarInv, VersionsArePast
  <2>3. ~(u.valid_from <= v.valid_from)
    BY <1>1, <2>1, <2>2, SMT
  <2>4. StartOf(u, snap) = v.valid_to
    BY <2>1, <2>3, Zenon DEF StartOf
  <2>5. v.valid_to <= mi
    BY <1>0, <1>1, SMT
  <2>6. v.valid_to \in T
    BY <2>1, <2>4, <2>5, Zenon
  <2>7. v.valid_to <= StartOf(v, snap)
    BY <1>6, <1>7, <2>6, Zenon
  <2>8. QED
    BY <1>1, <1>2, <2>2, <2>7, SMT
<1>10. Covers(w, mi)
  <2> HIDE DEF w
  <2> QED
    BY <1>7, <1>8, <1>9, Zenon DEF Covers
<1>11. QED
  BY <1>8, <1>10, Zenon

\* A raw row is in the fact table as it was last loaded, or is newer than all of it.
InFact(r) == \E f \in fact : f.row = r /\ f.loaded_at = raw[r]
AllOlder(stamp) == \A f \in fact : f.loaded_at < stamp

\* A loader of the DAG works in the roots of a run only, until it is done; a run
\* past its first snapshot has a version of every symbol; and what is not in the
\* fact table, in raw or in an open transaction, is newer than the fact table.
ReachInv ==
    /\ dag # "roots" \/ done \cap {"loaded", "skipped"} # {} => Idle("dag")
    /\ dag \in {"build", "dim", "fact"} => \A s \in Symbols : \E v \in snap : v.symbol = s
    /\ \A r \in Rows : raw[r] # NotLoaded => InFact(r) \/ AllOlder(raw[r])
    /\ \A l \in Loaders : txn[l].stamp # NotLoaded => AllOlder(txn[l].stamp)

LEMMA ReachInit == Init => ReachInv
<1> SUFFICES ASSUME Init PROVE ReachInv
  OBVIOUS
<1>1. dag = "idle" /\ \A l \in Loaders : todo[l] = {} /\ txn[l] = NoTxn
  BY Zenon DEF Init
<1>2. Idle("dag")
  BY <1>1 DEF Idle, Loaders
<1>3. \A r \in Rows : raw[r] = NotLoaded
  BY Zenon DEF Init
<1>4. \A l \in Loaders : txn[l].stamp = NotLoaded
  BY <1>1 DEF NoTxn
<1>5. QED
  BY <1>1, <1>2, <1>3, <1>4 DEF ReachInv

LEMMA NewerThanAll ==
    ASSUME TypeInv, NEW r \in Rows, raw[r] # NotLoaded, AllOlder(raw[r])
    PROVE  Newer(r)
<1> DEFINE L == {NotLoaded} \cup {f.loaded_at : f \in fact}
<1>1. /\ stamps \in Nat /\ raw[r] \in Nat
      /\ \A f \in fact : f.loaded_at \in Nat /\ f.loaded_at <= stamps
  BY Zenon DEF TypeInv, TypeOK, FactRow
<1>2. L \subseteq 0..stamps
  BY <1>1, SMT DEF NotLoaded
<1>3. Max(L) \in L
  <2>1. L # {}
    BY Zenon
  <2> HIDE DEF L
  <2> QED
    BY <1>1, <1>2, <2>1, MaxOfBounded, Zenon
<1>4. \A x \in L : raw[r] > x
  BY <1>1, SMT DEF NotLoaded, AllOlder
<1>5. QED
  BY <1>3, <1>4, Zenon DEF Newer

\* The build itself.
LEMMA BuildReaches ==
    ASSUME TypeInv, StarInv, ReachInv, BuildFact, NEW r \in Rows, raw[r] # NotLoaded
    PROVE  \E f \in fact' : f.row = r /\ f.loaded_at = raw[r]
<1> DEFINE pairs == {j \in Rows \X dim : /\ Newer(j[1])
                                         /\ j[2].symbol = j[1][1]
                                         /\ Covers(j[2], j[1][2])}
           joined == {[row |-> j[1], version |-> j[2].valid_from, loaded_at |-> raw[j[1]]] :
                        j \in pairs}
<1>1. /\ fact' = {f \in fact : \A j \in joined : j.row # f.row} \cup joined
      /\ dag = "fact"
  BY Zenon DEF BuildFact
<1>2. ASSUME NEW f \in joined PROVE f.loaded_at = raw[f.row]
  <2> PICK j \in pairs :
        f = [row |-> j[1], version |-> j[2].valid_from, loaded_at |-> raw[j[1]]]
    <3> HIDE DEF pairs
    <3> QED
      BY Zenon
  <2>1. f.row = j[1] /\ f.loaded_at = raw[j[1]]
    OBVIOUS
  <2>2. QED
    BY <2>1, Zenon
<1>3. CASE AllOlder(raw[r])
  <2>1. Newer(r)
    BY <1>3, NewerThanAll
  <2>2. r[1] \in Symbols /\ r[2] \in Minutes
    BY DEF Rows
  <2>3. PICK w \in dim : w.symbol = r[1] /\ Covers(w, r[2])
    <3>1. \E v \in snap : v.symbol = r[1]
      BY <1>1, <2>2, Zenon DEF ReachInv
    <3>2. dim = Backdated(snap)
      BY <1>1, Zenon DEF StarInv
    <3>3. QED
      BY <2>2, <3>1, <3>2, VersionsCover, Zenon DEF TypeInv
  <2>4. <<r, w>> \in pairs
    BY <2>1, <2>3
  <2> DEFINE g == [row |-> r, version |-> w.valid_from, loaded_at |-> raw[r]]
  <2>5. g \in joined
    <3> HIDE DEF pairs
    <3> QED
      BY <2>4
  <2>6. g.row = r /\ g.loaded_at = raw[r]
    OBVIOUS
  <2>7. QED
    <3> HIDE DEF joined, g
    <3> QED
      BY <1>1, <2>5, <2>6, Zenon
<1>4. CASE InFact(r)
  <2> HIDE DEF joined
  <2>1. PICK f \in fact : f.row = r /\ f.loaded_at = raw[r]
    BY <1>4, Zenon DEF InFact
  <2>2. CASE \E j \in joined : j.row = r
    BY <1>1, <1>2, <2>2, Zenon
  <2>3. CASE \A j \in joined : j.row # r
    BY <1>1, <2>1, <2>3, Zenon
  <2>4. QED
    BY <2>2, <2>3
<1>5. QED
  BY <1>3, <1>4, Zenon DEF ReachInv

\* The steps of ReachInv, by what they change.
LEMMA ReachFact ==
    ASSUME Overlap = FALSE, TypeInv, StarInv, ReachInv, BuildFact
    PROVE  ReachInv'
<1>1. /\ dag = "fact" /\ dag' = "idle" /\ txn["script"].stamp = NotLoaded
      /\ UNCHANGED <<raw, snap, txn, todo, done>>
  BY Zenon DEF BuildFact, loading
<1>2. Idle("dag")
  BY <1>1, Zenon DEF ReachInv
<1>3. \A l \in Loaders : txn[l].stamp = NotLoaded
  BY <1>1, <1>2 DEF Idle, Loaders, NoTxn
<1>4. \A r \in Rows : raw'[r] # NotLoaded => InFact(r)'
  BY <1>1, BuildReaches, Zenon DEF InFact
<1>5. QED
  BY <1>1, <1>2, <1>3, <1>4, Zenon DEF ReachInv, Idle

LEMMA ReachCommit ==
    ASSUME TypeInv, ReachInv, NEW l \in Loaders, CommitLoad(l)
    PROVE  ReachInv'
<1> DEFINE t == txn[l]
<1>1. /\ t.stamp # NotLoaded /\ raw' = Replaced(t) /\ UNCHANGED <<snap, fact, dag>>
      /\ todo' = [m \in Loaders |-> IF m = l THEN todo[l] \ {t.day}
                                    ELSE IF Loses(m, l) THEN {} ELSE todo[m]]
      /\ txn' = [m \in Loaders |-> IF m = l \/ Loses(m, l) THEN NoTxn ELSE txn[m]]
      /\ done' = IF l = "dag" /\ todo'["dag"] = {} THEN done \cup {"loaded"} ELSE done
  BY Zenon DEF CommitLoad
<1>2. AllOlder(t.stamp)
  BY <1>1, Zenon DEF ReachInv
<1>3. \A r \in Rows : raw'[r] \in {t.stamp, NotLoaded, raw[r]}
  BY <1>1, Zenon DEF Replaced
<1>4. \A r \in Rows : raw'[r] # NotLoaded => InFact(r)' \/ AllOlder(raw[r])'
  BY <1>1, <1>2, <1>3, Zenon DEF ReachInv, InFact, AllOlder
<1>5. \A m \in Loaders : txn'[m] \in {NoTxn, txn[m]}
  BY <1>1, Zenon
<1>6. \A m \in Loaders : txn'[m].stamp # NotLoaded => AllOlder(txn[m].stamp)'
  BY <1>1, <1>5 DEF ReachInv, AllOlder, NoTxn
<1>7. dag' # "roots" \/ done' \cap {"loaded", "skipped"} # {} => Idle("dag")'
  <2> "dag" \in Loaders
    BY DEF Loaders
  <2>1. CASE l = "dag"
    <3>1. t # NoTxn
      BY <1>1 DEF NoTxn
    <3>2. dag = "roots" /\ done \cap {"loaded", "skipped"} = {}
      BY <2>1, <3>1, Zenon DEF ReachInv, Idle
    <3>3. txn'["dag"] = NoTxn
      BY <1>1, <2>1, Zenon
    <3>4. todo'["dag"] # {} => done' = done
      BY <1>1, Zenon
    <3>5. QED
      BY <1>1, <3>2, <3>3, <3>4, Zenon DEF Idle
  <2>2. CASE l # "dag"
    <3>1. Idle("dag") => Idle("dag")'
      BY <1>1, <2>2, <1>5, Zenon DEF Idle
    <3>2. QED
      BY <1>1, <2>2, <3>1, Zenon DEF ReachInv
  <2>3. QED
    BY <2>1, <2>2
<1>8. QED
  BY <1>1, <1>4, <1>6, <1>7, Zenon DEF ReachInv

LEMMA ReachBegin ==
    ASSUME TypeInv, ReachInv, NEW l \in Loaders, BeginLoad(l)
    PROVE  ReachInv'
<1>1. /\ txn[l] # NoTxn /\ stamps' = stamps + 1 /\ txn'[l] # NoTxn
      /\ txn'[l].stamp = stamps + 1 /\ \A m \in Loaders : m # l => txn'[m] = txn[m]
      /\ UNCHANGED <<raw, snap, fact, dag, done, todo>>
  BY BeginIs, NoTxnIsNone, Zenon DEF BeginLoad, TypeInv
<1>2. AllOlder(stamps + 1)
  <2>1. stamps \in Nat /\ \A f \in fact : f.loaded_at \in Nat /\ f.loaded_at <= stamps
    BY Zenon DEF TypeInv, TypeOK, FactRow
  <2>2. QED
    BY <2>1, SMT DEF AllOlder
<1>4. \A m \in Loaders : txn'[m] = txn[m] \/ txn'[m].stamp = stamps + 1
  BY <1>1, Zenon
<1>5. \A m \in Loaders : txn'[m].stamp # NotLoaded => AllOlder(txn[m].stamp)'
  BY <1>1, <1>2, <1>4, Zenon DEF ReachInv, AllOlder
<1>6. dag' # "roots" \/ done' \cap {"loaded", "skipped"} # {} => Idle("dag")'
  <2>1. Idle("dag") => l # "dag"
    BY <1>1, Zenon DEF Idle
  <2>2. "dag" \in Loaders
    BY DEF Loaders
  <2>3. Idle("dag") => Idle("dag")'
    BY <1>1, <2>1, <2>2, Zenon DEF Idle
  <2>4. QED
    BY <1>1, <2>3, Zenon DEF ReachInv
<1>7. QED
  BY <1>1, <1>5, <1>6, Zenon DEF ReachInv, InFact, AllOlder

LEMMA ReachSnapshot ==
    ASSUME TypeInv, ReachInv, TakeSnapshot
    PROVE  ReachInv'
<1>1. /\ snap' = {Closed(v) : v \in snap} \cup {Opened(s) : s \in Changed}
      /\ dag \in {"snapshot", "build"} /\ dag' \in {"build", "dim"}
      /\ UNCHANGED <<raw, fact, done, txn, todo>>
  BY Zenon DEF TakeSnapshot, loading
<1>2. \A s \in Symbols : \E w \in snap' : w.symbol = s
  <2> SUFFICES ASSUME NEW s \in Symbols PROVE \E w \in snap' : w.symbol = s
    OBVIOUS
  <2>1. CASE s \in Changed
    BY <1>1, <2>1, OpenedFields, Zenon
  <2>2. CASE s \notin Changed
    <3>1. PICK v \in snap : v.symbol = s
      BY <2>2, Zenon DEF Changed
    <3>2. Closed(v).symbol = s
      BY <3>1, ClosedFields, Zenon DEF TypeInv
    <3>3. QED
      BY <1>1, <3>2, Zenon
  <2>3. QED
    BY <2>1, <2>2
<1>3. dag # "roots" /\ dag' # "roots"
  BY <1>1
<1>4. QED
  BY <1>1, <1>2, <1>3, Zenon DEF ReachInv, Idle, InFact, AllOlder

\* What leaves the tables and the loader of the DAG as they are, or drops it.
LEMMA ReachStays ==
    ASSUME TypeInv, ReachInv, UNCHANGED <<raw, fact, snap>>,
           \A l \in Loaders : txn'[l].stamp \in {txn[l].stamp, NotLoaded},
           dag' \in {"build", "dim", "fact"} => dag \in {"build", "dim", "fact"},
           dag' # "roots" \/ done' \cap {"loaded", "skipped"} # {} => Idle("dag")'
    PROVE  ReachInv'
BY Zenon DEF ReachInv, InFact, AllOlder

LEMMA ReachOther ==
    ASSUME TypeInv, ReachInv,
           \/ Tick
           \/ \E s \in Symbols, a \in Attrs : ChangeMeta(s, a)
           \/ \E d \in Dates, s \in Symbols, shape \in Shapes : PutObject(d, s, shape)
           \/ \E flags \in ScriptFlags : ListTodo(flags)
           \/ \E l \in Loaders : ReadDay(l) \/ LoadFails(l)
           \/ StartRun \/ ListPending \/ SnapshotSymbols \/ JoinRoots
           \/ BuildDim \/ BuildRetried \/ RunFails
    PROVE  ReachInv'
<1>0. /\ txn \in [Loaders -> Txn \cup {NoTxn}] /\ todo \in [Loaders -> SUBSET Dates]
      /\ "dag" \in Loaders /\ "script" \in Loaders /\ "dag" # "script"
  BY DEF TypeInv, TypeOK, Loaders
<1>1. ASSUME NEW l \in Loaders, ReadDay(l)
      PROVE  ReachInv'
  <2> DEFINE t == [day |-> Min(todo[l]), stamp |-> NotLoaded, df |-> BronzeOf(Min(todo[l])),
             hit |-> {}]
  <2>1. /\ todo[l] # {} /\ txn' = [txn EXCEPT ![l] = t]
        /\ UNCHANGED <<raw, fact, snap, dag, done, todo>>
    BY <1>1, Zenon DEF ReadDay, tables
  <2>2. t.stamp = NotLoaded
    OBVIOUS
  <2> HIDE DEF t
  <2>3. \A m \in Loaders : txn'[m].stamp \in {txn[m].stamp, NotLoaded}
    BY <1>0, <2>1, <2>2, Zenon
  <2>4. Idle("dag") => Idle("dag")'
    BY <1>0, <2>1, Zenon DEF Idle
  <2>5. QED
    BY <2>1, <2>3, <2>4, ReachStays, Zenon DEF ReachInv
<1>2. ASSUME NEW l \in Loaders, LoadFails(l)
      PROVE  ReachInv'
  <2>1. /\ txn' = [txn EXCEPT ![l] = NoTxn] /\ todo' = [todo EXCEPT ![l] = {}]
        /\ UNCHANGED <<raw, fact, snap, dag, done>>
    BY <1>2, Zenon DEF LoadFails, tables
  <2>2. \A m \in Loaders : txn'[m].stamp \in {txn[m].stamp, NotLoaded}
    BY <1>0, <2>1 DEF NoTxn
  <2>3. Idle("dag") => Idle("dag")'
    BY <1>0, <2>1, Zenon DEF Idle
  <2>4. QED
    BY <2>1, <2>2, <2>3, ReachStays, Zenon DEF ReachInv
<1>3. ASSUME NEW flags \in ScriptFlags, ListTodo(flags)
      PROVE  ReachInv'
  <2>1. /\ todo'["dag"] = todo["dag"]
        /\ UNCHANGED <<raw, fact, snap, dag, done, txn>>
    BY <1>0, <1>3, Zenon DEF ListTodo, tables
  <2>2. QED
    BY <2>1, ReachStays, Zenon DEF ReachInv, Idle
<1>4. CASE Tick \/ SnapshotSymbols \/ StartRun \/ BuildDim \/ BuildRetried
           \/ (\E s \in Symbols, a \in Attrs : ChangeMeta(s, a))
           \/ (\E d \in Dates, s \in Symbols, shape \in Shapes : PutObject(d, s, shape))
  <2>1. UNCHANGED <<raw, fact, snap, txn, todo>>
    BY <1>4, Zenon DEF Tick, SnapshotSymbols, StartRun, BuildDim, BuildRetried, ChangeMeta,
                       PutObject, tables, loading
  <2>2. \/ UNCHANGED <<dag, done>>
        \/ dag = "roots" /\ UNCHANGED dag /\ done' = done \cup {"observed"}
        \/ dag = "idle" /\ dag' = "roots"
        \/ dag \in {"dim", "fact"} /\ dag' \in {"fact", "build"}
    BY <1>4, Zenon DEF Tick, SnapshotSymbols, StartRun, BuildDim, BuildRetried, ChangeMeta,
                       PutObject
  <2>3. QED
    BY <2>1, <2>2, ReachStays DEF ReachInv, Idle
<1>5. CASE ListPending
  <2> DEFINE pending == {d \in Dates : Pending(d)}
  <2>1. /\ dag = "roots" /\ done \cap {"loaded", "skipped"} = {} /\ Idle("dag")
        /\ todo' = [todo EXCEPT !["dag"] = pending]
        /\ done' = IF pending = {} THEN done \cup {"skipped"} ELSE done
        /\ UNCHANGED <<raw, fact, snap, dag, txn>>
    BY <1>5, Zenon DEF ListPending, tables
  <2> HIDE DEF pending
  <2>2. todo'["dag"] = pending
    BY <1>0, <2>1, Zenon
  <2>3. dag' # "roots" \/ done' \cap {"loaded", "skipped"} # {} => Idle("dag")'
    BY <2>1, <2>2, Zenon DEF Idle
  <2>4. QED
    BY <2>1, <2>3, ReachStays, Zenon
<1>6. CASE JoinRoots
  <2>1. /\ done \cap {"loaded", "skipped"} # {} /\ dag' \in {"snapshot", "idle"}
        /\ UNCHANGED <<raw, fact, snap, txn, todo>>
    BY <1>6, Zenon DEF JoinRoots, tables, loading
  <2>2. QED
    BY <2>1, ReachStays DEF ReachInv, Idle
<1>7. CASE RunFails
  <2>1. /\ txn' = [txn EXCEPT !["dag"] = NoTxn] /\ todo' = [todo EXCEPT !["dag"] = {}]
        /\ dag' = "idle" /\ UNCHANGED <<raw, fact, snap>>
    BY <1>7, Zenon DEF RunFails, tables
  <2>2. \A m \in Loaders : txn'[m].stamp \in {txn[m].stamp, NotLoaded}
    BY <1>0, <2>1 DEF NoTxn
  <2>3. Idle("dag")'
    BY <1>0, <2>1, Zenon DEF Idle
  <2>4. QED
    BY <2>1, <2>2, <2>3, ReachStays
<1>8. QED
  BY <1>1, <1>2, <1>3, <1>4, <1>5, <1>6, <1>7, Zenon

LEMMA ReachStep ==
    Overlap = FALSE /\ TypeInv /\ StarInv /\ ReachInv /\ [Next]_vars => ReachInv'
<1> SUFFICES ASSUME Overlap = FALSE, TypeInv, StarInv, ReachInv, [Next]_vars PROVE ReachInv'
  OBVIOUS
<1>1. CASE UNCHANGED vars
  <2>1. UNCHANGED <<raw, fact, snap, txn, todo, dag, done>>
    BY <1>1, Zenon DEF vars, tables, loading
  <2>2. QED
    BY <2>1, Zenon DEF ReachInv, Idle, InFact, AllOlder
<1>2. CASE Next
  BY <1>2, StepCases, ReachFact, ReachCommit, ReachBegin, ReachSnapshot, ReachOther, Zenon
<1>3. QED
  BY <1>1, <1>2

\* Every raw row is in the fact table after a build, at its last load, whatever was
\* loaded, reloaded, retried or failed before: "Every raw row reaches the fact
\* table", as long as no build runs inside a transaction of the script.
THEOREM EveryRowReachesTheFact ==
    ASSUME Overlap = FALSE
    PROVE  Spec => FactCoversRaw
<1>1. Init => TypeInv /\ StarInv /\ ReachInv
  BY TypeInvInit, StarInit, ReachInit
<1>2. TypeInv /\ StarInv /\ ReachInv /\ [Next]_vars => (TypeInv /\ StarInv /\ ReachInv)'
  BY Overlap = FALSE, TypeInvStep, StarStep, ReachStep
<1>3. TypeInv /\ StarInv /\ ReachInv =>
        (BuildFact => \A r \in Rows : raw[r] # NotLoaded =>
            \E f \in fact' : f.row = r /\ f.loaded_at = raw[r])
  BY BuildReaches
<1>4. QED
  BY <1>1, <1>2, <1>3, PTL DEF Spec, FactCoversRaw
=============================================================================
