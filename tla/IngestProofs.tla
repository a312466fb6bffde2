---------------------------- MODULE IngestProofs ----------------------------
(***************************************************************************)
(* Proofs about Ingest, for any finite universe, any number of dates, pages *)
(* of any size, any number of retries, workers, gaps, repairs and faults.  *)
(***************************************************************************)
EXTENDS Ingest, NatSets, FiniteSetTheorems, TLAPS

-----------------------------------------------------------------------------
(* Numbers.                                                                *)

LEMMA Zero == 0 \in Nat
BY SMT

LEMMA ProductType == \A a, b \in Nat : a * b \in Nat
BY SMT

LEMMA ProductRises ==
    ASSUME NEW a \in Nat, NEW b \in Nat, NEW n \in Nat \ {0}, a < b
    PROVE  a * n < b * n
<1>1. PICK c \in Nat : b = a + c /\ c > 0
  <2>1. b - a \in Nat /\ b = a + (b - a) /\ b - a > 0
    BY SMT
  <2>2. QED
    BY <2>1
<1>2. b * n = a * n + c * n
  BY <1>1, SMT
<1>3. a * n \in Nat /\ c * n \in Nat /\ c * n > 0
  BY <1>1, SMT
<1>4. QED
  BY <1>2, <1>3, SMT

LEMMA Sizes ==
    /\ Days \in Nat \ {0} /\ DayLen \in Nat \ {0} /\ MinuteMs \in Nat \ {0}
    /\ Limit \in Nat \ {0} /\ Attempts \in Nat \ {0}
    /\ Retries \in Nat /\ PerCent \in Nat /\ Start \in Nat /\ MaxNow \in Nat
    /\ MaxIncidents \in Nat
BY SizeAssumption, BoundsAssumption, Zenon

-----------------------------------------------------------------------------
(* Dates and jobs.                                                         *)

LEMMA DayBounds ==
    ASSUME NEW d \in Dates
    PROVE  /\ DayStart(d) \in Nat /\ DayStart(d + 1) \in Nat
           /\ DayEnd(d) = DayStart(d + 1) - 1
<1>1. d - 1 \in Nat /\ d \in Nat /\ (d + 1) - 1 = d
  BY Sizes, SMT DEF Dates
<1>2. (d - 1) * DayLen \in Nat /\ d * DayLen \in Nat
  BY <1>1, Sizes, ProductType, Zenon
<1>3. ((d - 1) * DayLen) * MinuteMs \in Nat /\ (d * DayLen) * MinuteMs \in Nat
  BY <1>2, Sizes, ProductType, Zenon
<1>4. DayStart(d) \in Nat
  BY <1>3, Zenon DEF DayStart
<1>5. DayStart(d + 1) = (d * DayLen) * MinuteMs
  BY <1>1, Zenon DEF DayStart
<1>6. DayEnd(d) = DayStart(d + 1) - 1
  BY <1>5, Zenon DEF DayEnd
<1>7. QED
  BY <1>3, <1>4, <1>5, <1>6, Zenon

LEMMA JobFields ==
    ASSUME NEW j \in Jobs
    PROVE  /\ j[1] \in {"dag", "script"} /\ j[2] \in Dates /\ j[3] \in Symbols
           /\ j = <<j[1], j[2], j[3]>>
           /\ Cell(j) \in Cells /\ Cell(j)[1] = j[2] /\ Cell(j)[2] = j[3]
<1>1. /\ j[1] \in {"dag", "script"} /\ j[2] \in Dates /\ j[3] \in Symbols
      /\ j = <<j[1], j[2], j[3]>>
  BY DEF Jobs
<1>2. QED
  BY <1>1 DEF Cell, Cells

LEMMA CellFields ==
    ASSUME NEW c \in Cells
    PROVE  c[1] \in Dates /\ c[2] \in Symbols /\ c = <<c[1], c[2]>>
BY DEF Cells

LEMMA JobOfCell ==
    ASSUME NEW c \in Cells, NEW by \in {"dag", "script"}
    PROVE  <<by, c[1], c[2]>> \in Jobs /\ Cell(<<by, c[1], c[2]>>) = c
<1>1. c[1] \in Dates /\ c[2] \in Symbols /\ c = <<c[1], c[2]>>
  BY CellFields, Zenon
<1>2. <<by, c[1], c[2]>> \in Jobs
  BY <1>1 DEF Jobs
<1>3. QED
  BY <1>1, <1>2 DEF Cell

-----------------------------------------------------------------------------
(* Types.                                                                  *)

Places == {"idle", "ready", "page", "put", "done", "failed"}
Fetches == [pc : Places, cursor : Nat, rows : SUBSET Nat, attempt : Nat, tries : Nat,
            asked : SUBSET Nat]
Runs == [on : BOOLEAN, force : BOOLEAN, range : SUBSET Cells, todo : SUBSET Cells,
         failed : Nat, exit : {"none", "0", "1", "died"}]

LEMMA TypesNamed ==
    TypeOK => job \in [Jobs -> Fetches] /\ script \in Runs
BY Zenon DEF TypeOK, Fetches, Runs, Places

LEMMA FetchFields ==
    ASSUME TypeOK, NEW j \in Jobs
    PROVE  /\ job[j] \in Fetches
           /\ job[j].pc \in Places /\ job[j].cursor \in Nat /\ job[j].rows \in SUBSET Nat
           /\ job[j].attempt \in Nat /\ job[j].tries \in Nat /\ job[j].asked \in SUBSET Nat
<1>1. job[j] \in Fetches
  BY TypesNamed, Zenon
<1>2. QED
  BY <1>1, Zenon DEF Fetches

LEMMA IdleType == Idle \in Fetches /\ Idle.pc = "idle" /\ Idle.rows = {} /\ Idle.asked = {}
<1>1. {} \in SUBSET Nat /\ 0 \in Nat
  BY SMT
<1>2. QED
  BY <1>1, Zenon DEF Idle, Fetches, Places

\* What Binance has is finite, and of minutes that have passed.
Offers == \A s \in Symbols : \A t \in offered[s] : t < now * MinuteMs

LEMMA OfDayTypes ==
    ASSUME TypeOK, NEW d \in Dates, NEW s \in Symbols
    PROVE  /\ OfDay(d, Serves(s)) \in SUBSET Nat
           /\ OfDay(d, Serves(s)) \subseteq OfDay(d, offered[s])
BY Zenon DEF TypeOK, OfDay, Serves

LEMMA KlinesType ==
    ASSUME TypeOK, NEW s \in Symbols, NEW from, NEW to
    PROVE  klines(s, from, to) \in SUBSET Nat
BY Zenon DEF TypeOK, klines, Serves

-----------------------------------------------------------------------------
(* What each step of a fetch leaves behind.                                *)

\* One fetch changes and no other.
OnlyFetch(j) ==
    /\ job' \in [Jobs -> Fetches]
    /\ \A k \in Jobs : k # j => job'[k] = job[k]

LEMMA Changed ==
    ASSUME TypeOK, NEW j \in Jobs, NEW r \in Fetches, job' = [job EXCEPT ![j] = r]
    PROVE  OnlyFetch(j) /\ job'[j] = r
BY TypesNamed, Zenon DEF OnlyFetch

\* The script counts a failure, or is left alone.
FailureCounted ==
    /\ script'.failed = script.failed + 1
    /\ script'.on = script.on /\ script'.range = script.range /\ script'.todo = script.todo
    /\ script'.exit = script.exit

LEMMA ScriptFields ==
    ASSUME TypeOK
    PROVE  /\ script \in Runs
           /\ script.on \in BOOLEAN /\ script.force \in BOOLEAN
           /\ script.range \in SUBSET Cells /\ script.todo \in SUBSET Cells
           /\ script.failed \in Nat /\ script.exit \in {"none", "0", "1", "died"}
<1>1. script \in Runs
  BY TypesNamed, Zenon
<1>2. QED
  BY <1>1, Zenon DEF Runs

LEMMA CountedOutcome ==
    ASSUME TypeOK, NEW j \in Jobs, script' = Counted(j)
    PROVE  FailureCounted /\ script' \in Runs
<1>1. script' = [script EXCEPT !.failed = script.failed + 1]
  BY Zenon DEF Counted
<1>2. script \in Runs /\ script.failed + 1 \in Nat
  BY ScriptFields, SMT
<1>3. script' \in Runs
  BY <1>1, <1>2, Zenon DEF Runs
<1>4. FailureCounted
  BY <1>1, <1>2, Zenon DEF Runs, FailureCounted
<1>5. QED
  BY <1>3, <1>4

LEMMA BeginOutcome ==
    ASSUME TypeOK, NEW j \in Jobs, Begin(j)
    PROVE  /\ OnlyFetch(j)
           /\ job'[j].pc = "page" /\ job'[j].cursor = DayStart(j[2]) /\ job'[j].rows = {}
           /\ job'[j].asked = OfDay(j[2], Serves(j[3]))
           /\ contested' \subseteq Cells /\ contested \subseteq contested'
           /\ \A k \in Jobs \ {j} :
                 Cell(k) = Cell(j) /\ InFlight(k) => Cell(j) \in contested'
<1> DEFINE r == [job[j] EXCEPT !.pc = "page", !.cursor = DayStart(j[2]), !.rows = {},
                               !.attempt = 1, !.asked = OfDay(j[2], Serves(j[3]))]
<1>1. job' = [job EXCEPT ![j] = r]
  BY Zenon DEF Begin
<1>2. /\ DayStart(j[2]) \in Nat /\ OfDay(j[2], Serves(j[3])) \in SUBSET Nat
      /\ {} \in SUBSET Nat /\ "page" \in Places
  BY JobFields, DayBounds, OfDayTypes, Zenon DEF Places
<1>3. 1 \in Nat
  BY SMT
<1>4. job[j] \in Fetches
  BY FetchFields, Zenon
<1>5. r \in Fetches
  BY <1>2, <1>3, <1>4, Zenon DEF Fetches
<1>6. /\ r.pc = "page" /\ r.cursor = DayStart(j[2]) /\ r.rows = {}
      /\ r.asked = OfDay(j[2], Serves(j[3]))
  BY <1>4, Zenon DEF Fetches
<1> HIDE DEF r
<1>7. OnlyFetch(j) /\ job'[j] = r
  BY <1>1, <1>5, Changed, Zenon
<1>8. /\ contested' \subseteq Cells /\ contested \subseteq contested'
      /\ \A k \in Jobs \ {j} : Cell(k) = Cell(j) /\ InFlight(k) => Cell(j) \in contested'
  <2>1. contested' = IF \E k \in Jobs \ {j} : Cell(k) = Cell(j) /\ InFlight(k)
                       THEN contested \cup {Cell(j)} ELSE contested
    BY Zenon DEF Begin
  <2>2. Cell(j) \in Cells /\ contested \subseteq Cells
    BY JobFields, Zenon DEF TypeOK
  <2>3. QED
    BY <2>1, <2>2, Zenon
<1>9. QED
  BY <1>6, <1>7, <1>8, Zenon

LEMMA EndsOutcome ==
    ASSUME TypeOK, NEW j \in Jobs, NEW pc \in Places, NEW tries \in Nat, Ends(j, pc, tries)
    PROVE  /\ OnlyFetch(j)
           /\ job'[j].pc = pc /\ job'[j].rows = {} /\ job'[j].asked = {}
           /\ IF j[1] = "script" THEN FailureCounted ELSE script' = script
           /\ script' \in Runs
<1> DEFINE r == [Idle EXCEPT !.pc = pc, !.tries = tries]
<1>1. job' = [job EXCEPT ![j] = r]
  BY Zenon DEF Ends
<1>2. r \in Fetches /\ r.pc = pc /\ r.rows = {} /\ r.asked = {}
  BY IdleType, Zenon DEF Fetches
<1> HIDE DEF r
<1>3. OnlyFetch(j) /\ job'[j] = r
  BY <1>1, <1>2, Changed, Zenon
<1>4. script' = IF j[1] = "script" THEN Counted(j) ELSE script
  BY Zenon DEF Ends
<1>5. QED
  BY <1>2, <1>3, <1>4, CountedOutcome, ScriptFields, Zenon

\* A fetch that raises is over: it is queued again, or has failed, or the script
\* counted it.
Finished(j) ==
    /\ OnlyFetch(j)
    /\ job'[j].pc \in (IF j[1] = "script" THEN {"idle"} ELSE {"ready", "failed"})
    /\ job'[j].rows = {} /\ job'[j].asked = {}
    /\ IF j[1] = "script" THEN FailureCounted ELSE script' = script
    /\ script' \in Runs

LEMMA RaisesOutcome ==
    ASSUME TypeOK, NEW j \in Jobs, Raises(j)
    PROVE  Finished(j)
<1> USE DEF Places
<1>1. CASE j[1] = "script"
  <2>1. Ends(j, "idle", 0)
    BY <1>1, Zenon DEF Raises
  <2>2. QED
    BY <1>1, <2>1, Zero, EndsOutcome, Zenon DEF Finished
<1>2. CASE j[1] # "script" /\ job[j].tries < Retries
  <2>1. Ends(j, "ready", job[j].tries + 1)
    BY <1>2, Zenon DEF Raises
  <2>2. job[j].tries + 1 \in Nat
    BY FetchFields, SMT
  <2>3. QED
    BY <1>2, <2>1, <2>2, EndsOutcome, Zenon DEF Finished
<1>3. CASE j[1] # "script" /\ ~(job[j].tries < Retries)
  <2>1. Ends(j, "failed", 0)
    BY <1>3, Zenon DEF Raises
  <2>2. QED
    BY <1>3, <2>1, Zero, EndsOutcome, Zenon DEF Finished
<1>4. QED
  BY <1>1, <1>2, <1>3

LEMMA FailsOutcome ==
    ASSUME TypeOK, NEW j \in Jobs, Fails(j)
    PROVE  Finished(j)
<1> USE DEF Places
<1>1. CASE j[1] = "script"
  <2>1. Ends(j, "idle", 0)
    BY <1>1, Zenon DEF Fails
  <2>2. QED
    BY <1>1, <2>1, Zero, EndsOutcome, Zenon DEF Finished
<1>2. CASE j[1] # "script"
  <2>1. Ends(j, "failed", 0)
    BY <1>2, Zenon DEF Fails
  <2>2. QED
    BY <1>2, <2>1, Zero, EndsOutcome, Zenon DEF Finished
<1>3. QED
  BY <1>1, <1>2

\* A page that goes unanswered changes nothing the fetch has, or ends it.
LEMMA UnansweredOutcome ==
    ASSUME TypeOK, NEW j \in Jobs, RetryOrRaise(j)
    PROVE  \/ Finished(j)
           \/ /\ OnlyFetch(j) /\ script' = script
              /\ job'[j].pc = job[j].pc /\ job'[j].cursor = job[j].cursor
              /\ job'[j].rows = job[j].rows /\ job'[j].asked = job[j].asked
<1>1. CASE job[j].attempt < Attempts
  <2> DEFINE r == [job[j] EXCEPT !.attempt = job[j].attempt + 1]
  <2>1. job' = [job EXCEPT ![j] = r] /\ script' = script
    BY <1>1, Zenon DEF RetryOrRaise
  <2>2. job[j] \in Fetches /\ job[j].attempt + 1 \in Nat
    BY FetchFields, SMT
  <2>3. /\ r \in Fetches /\ r.pc = job[j].pc /\ r.cursor = job[j].cursor
        /\ r.rows = job[j].rows /\ r.asked = job[j].asked
    BY <2>2, Zenon DEF Fetches
  <2> HIDE DEF r
  <2>4. OnlyFetch(j) /\ job'[j] = r
    BY <2>1, <2>3, Changed, Zenon
  <2>5. QED
    BY <2>1, <2>3, <2>4, Zenon
<1>2. CASE ~(job[j].attempt < Attempts)
  BY <1>2, RaisesOutcome, Zenon DEF RetryOrRaise
<1>3. QED
  BY <1>1, <1>2

-----------------------------------------------------------------------------
(* Pages.                                                                  *)

\* The oldest Limit elements of a finite set of times.
Oldest(R) == {t \in R : Cardinality({u \in R : u < t}) < Limit}

\* A page has no gap, and one with room left is all there is.
LEMMA OldestFirst ==
    ASSUME NEW R \in SUBSET Nat, IsFiniteSet(R)
    PROVE  /\ \A t \in R : \A b \in Oldest(R) : t < b => t \in Oldest(R)
           /\ Cardinality(Oldest(R)) < Limit => R \subseteq Oldest(R)
           /\ IsFiniteSet(Oldest(R))
<1> DEFINE Older(t) == {u \in R : u < t}
<1>1. \A t \in R : IsFiniteSet(Older(t)) /\ Cardinality(Older(t)) \in Nat
  <2>1. TAKE t \in R
  <2>2. Older(t) \in SUBSET R
    BY Zenon
  <2>3. QED
    BY <2>2, FS_Subset, FS_CardinalityType, Zenon
<1>2. Oldest(R) \in SUBSET R /\ \A t \in R : t \in Oldest(R) <=> Cardinality(Older(t)) < Limit
  BY Zenon DEF Oldest
<1>3. IsFiniteSet(Oldest(R)) /\ Cardinality(Oldest(R)) \in Nat
  BY <1>2, FS_Subset, FS_CardinalityType, Zenon
<1>4. ASSUME NEW t \in R, NEW b \in Oldest(R), t < b
      PROVE  t \in Oldest(R)
  <2>1. t \in Nat /\ b \in Nat /\ b \in R
    BY <1>2, Zenon
  <2>2. Older(t) \in SUBSET Older(b)
    <3>1. \A u \in Nat : u < t => u < b
      BY <1>4, <2>1, SMT
    <3>2. QED
      BY <3>1, Zenon
  <2>3. Cardinality(Older(t)) <= Cardinality(Older(b))
    <3> HIDE DEF Older
    <3> QED
      BY <1>1, <2>1, <2>2, FS_Subset, Zenon
  <2>4. Cardinality(Older(b)) < Limit
    BY <1>2, <2>1, Zenon
  <2>5. Cardinality(Older(t)) < Limit
    <3> HIDE DEF Older
    <3> QED
      BY <1>1, <2>1, <2>3, <2>4, Sizes, SMT
  <2>6. QED
    BY <1>2, <2>5, Zenon
<1>5. ASSUME Cardinality(Oldest(R)) < Limit, NEW x \in R, x \notin Oldest(R)
      PROVE  FALSE
  <2> DEFINE Left == R \ Oldest(R)
              m == Min(Left)
  <2>1. Left \subseteq Nat /\ Left # {}
    BY <1>5, Zenon
  <2>2. m \in Left /\ \A y \in Left : m <= y
    <3> HIDE DEF Left
    <3> QED
      BY <2>1, MinOfNats, Zenon
  <2> HIDE DEF m
  <2>3. m \in R /\ m \in Nat /\ ~(Cardinality(Older(m)) < Limit)
    BY <1>2, <2>2, Zenon
  <2>4. Older(m) \in SUBSET Oldest(R)
    <3>1. SUFFICES ASSUME NEW u \in R, u < m PROVE u \in Oldest(R)
      BY Zenon
    <3>2. u \in Left => m <= u
      BY <2>2, Zenon
    <3>3. u \in Nat
      BY Zenon
    <3>4. u \notin Left
      <4> HIDE DEF Left
      <4> QED
        BY <2>3, <3>1, <3>2, <3>3, SMT
    <3>5. QED
      BY <3>4, Zenon
  <2>5. Cardinality(Older(m)) <= Cardinality(Oldest(R))
    <3> HIDE DEF Older
    <3> QED
      BY <1>3, <2>4, FS_Subset, Zenon
  <2>6. Cardinality(Older(m)) \in Nat
    BY <1>1, <2>3, Zenon
  <2>7. QED
    <3> HIDE DEF Older
    <3> QED
      BY <1>3, <1>5, <2>3, <2>5, <2>6, Sizes, SMT
<1>6. QED
  BY <1>3, <1>4, <1>5, Zenon

LEMMA ServesFinite ==
    ASSUME TypeOK, Offers, NEW s \in Symbols
    PROVE  /\ Serves(s) \in SUBSET Nat /\ Serves(s) \subseteq offered[s]
           /\ IsFiniteSet(offered[s]) /\ IsFiniteSet(Serves(s))
<1>1. offered[s] \in SUBSET Nat
  BY Zenon DEF TypeOK
<1>2. now * MinuteMs \in Nat
  BY Sizes, ProductType, Zenon DEF TypeOK
<1>3. \A t \in offered[s] : t <= now * MinuteMs
  <2>1. \A t \in offered[s] : t < now * MinuteMs /\ t \in Nat
    BY <1>1, Zenon DEF Offers
  <2>2. QED
    BY <1>2, <2>1, SMT
<1>4. IsFiniteSet(offered[s])
  BY <1>1, <1>2, <1>3, FS_BoundedSetOfNaturals, Zenon
<1>5. Serves(s) \in SUBSET offered[s]
  BY Zenon DEF Serves
<1>6. QED
  BY <1>1, <1>4, <1>5, FS_Subset, Zenon

\* What one page of a day has.
LEMMA PageCovers ==
    ASSUME TypeOK, Offers, NEW s \in Symbols, NEW from \in Nat, NEW d \in Dates,
           NEW batch, batch = klines(s, from, DayEnd(d))
    PROVE  /\ \A t \in batch : t \in Serves(s) /\ t \in Nat /\ from <= t /\ t < DayStart(d + 1)
           /\ Cardinality(batch) < Limit =>
                 \A t \in Serves(s) : from <= t /\ t < DayStart(d + 1) => t \in batch
           /\ ~(Cardinality(batch) < Limit) =>
                 /\ Max(batch) + 1 \in Nat /\ from <= Max(batch) + 1
                 /\ \A t \in Serves(s) : from <= t /\ t < Max(batch) + 1 => t \in batch
<1> DEFINE R == {t \in Serves(s) : from <= t /\ t <= DayEnd(d)}
           last == DayStart(d + 1)
<1>1. batch = Oldest(R)
  BY Zenon DEF klines, Oldest
<1>2. Serves(s) \in SUBSET Nat /\ IsFiniteSet(Serves(s))
  BY ServesFinite, Zenon
<1>3. R \in SUBSET Serves(s) /\ R \in SUBSET Nat
  BY <1>2, Zenon
<1>4. IsFiniteSet(R)
  BY <1>2, <1>3, FS_Subset, Zenon
<1>5. last \in Nat /\ DayEnd(d) = last - 1
  BY DayBounds, Zenon
<1> HIDE DEF last
<1>6. \A t \in Nat : t \in R <=> t \in Serves(s) /\ from <= t /\ t < last
  <2>1. \A t \in Nat : t <= DayEnd(d) <=> t < last
    BY <1>5, SMT
  <2>2. QED
    BY <2>1, Zenon
<1> HIDE DEF R
<1>7. /\ batch \in SUBSET R
      /\ \A t \in R : \A b \in batch : t < b => t \in batch
      /\ Cardinality(batch) < Limit => R \subseteq batch
      /\ IsFiniteSet(batch)
  BY <1>1, <1>3, <1>4, OldestFirst, Zenon DEF Oldest
<1>8. \A t \in batch : t \in Serves(s) /\ t \in Nat /\ from <= t /\ t < last
  BY <1>3, <1>6, <1>7, Zenon
<1>9. Cardinality(batch) < Limit =>
          \A t \in Serves(s) : from <= t /\ t < last => t \in batch
  BY <1>2, <1>6, <1>7, Zenon
<1>10. ASSUME ~(Cardinality(batch) < Limit)
       PROVE  /\ Max(batch) + 1 \in Nat /\ from <= Max(batch) + 1
              /\ \A t \in Serves(s) : from <= t /\ t < Max(batch) + 1 => t \in batch
  <2>1. batch # {}
    BY <1>10, Sizes, FS_EmptySet, SMT
  <2>2. batch \subseteq 0..last
    BY <1>5, <1>8, SMT
  <2>3. Max(batch) \in batch
    BY <1>5, <2>1, <2>2, MaxOfBounded, Zenon
  <2> DEFINE m == Max(batch)
  <2> HIDE DEF m
  <2>4. m \in Nat /\ from <= m /\ m < last
    BY <1>8, <2>3, Zenon DEF m
  <2>5. ASSUME NEW t \in Serves(s), from <= t, t < m + 1
        PROVE  t \in batch
    <3>1. t \in Nat
      BY <1>2, Zenon
    <3>2. t < m \/ t = m
      BY <2>4, <2>5, <3>1, SMT
    <3>3. t < last
      BY <1>5, <2>4, <3>1, <3>2, SMT
    <3>4. t \in R
      BY <1>6, <2>5, <3>1, <3>3, Zenon
    <3>5. QED
      BY <1>7, <2>3, <3>2, <3>4, Zenon DEF m
  <2>6. m + 1 \in Nat /\ from <= m + 1
    BY <2>4, SMT
  <2>7. QED
    BY <2>5, <2>6, Zenon DEF m
<1>11. QED
  BY <1>8, <1>9, <1>10, Zenon DEF last

-----------------------------------------------------------------------------
(* The steps of a fetch that read a page or store the object.              *)

\* The page a fetch asks for next.
BatchOf(j) == klines(j[3], job[j].cursor, DayEnd(j[2]))

LEMMA PageOutcome ==
    ASSUME TypeOK, Offers, NEW j \in Jobs, Page(j), NEW batch, batch = BatchOf(j)
    PROVE  /\ job[j].pc = "page" /\ OnlyFetch(j)
           /\ job'[j].asked = job[j].asked /\ job'[j].rows = job[j].rows \cup batch
           /\ job'[j].pc = (IF IsLast(j, batch) THEN "put" ELSE "page")
           /\ ~IsLast(j, batch) =>
                 ~(Cardinality(batch) < Limit) /\ job'[j].cursor = Max(batch) + 1
<1> DEFINE r == [job[j] EXCEPT !.pc = "put", !.rows = job[j].rows \cup batch]
           q == [job[j] EXCEPT !.cursor = Max(batch) + 1, !.rows = job[j].rows \cup batch,
                               !.attempt = 1]
<1>1. /\ job[j].pc = "page"
      /\ IsLast(j, batch) => job' = [job EXCEPT ![j] = r]
      /\ ~IsLast(j, batch) => job' = [job EXCEPT ![j] = q]
  <2>1. job[j].pc = "page"
    BY Zenon DEF Page
  <2>2. IsLast(j, batch) =>
            job' = [job EXCEPT ![j].pc = "put", ![j].rows = @ \cup batch]
    BY Zenon DEF Page, BatchOf
  <2>3. ~IsLast(j, batch) =>
            job' = [job EXCEPT ![j].cursor = NextCursor(@, batch),
                               ![j].rows = @ \cup batch, ![j].attempt = 1]
    BY Zenon DEF Page, BatchOf
  <2>4. job \in [Jobs -> Fetches]
    BY TypesNamed, Zenon
  <2>5. job[j] \in Fetches
    BY FetchFields, Zenon
  <2>6. IsLast(j, batch) => job' = [job EXCEPT ![j] = r]
    BY <2>2, <2>4, <2>5 DEF Fetches
  <2>7. ~IsLast(j, batch) => job' = [job EXCEPT ![j] = q]
    BY <2>3, <2>4, <2>5 DEF Fetches, NextCursor
  <2>8. QED
    BY <2>1, <2>6, <2>7, Zenon
<1>2. /\ job[j] \in Fetches /\ job[j].rows \in SUBSET Nat /\ job[j].cursor \in Nat
      /\ j[2] \in Dates /\ j[3] \in Symbols
  BY FetchFields, JobFields, Zenon
<1>3. /\ \A t \in batch : t \in Nat
      /\ ~(Cardinality(batch) < Limit) => Max(batch) + 1 \in Nat
  <2>1. batch = klines(j[3], job[j].cursor, DayEnd(j[2]))
    BY Zenon DEF BatchOf
  <2>2. QED
    BY <1>2, <2>1, PageCovers, SMT
<1>4. job[j].rows \cup batch \in SUBSET Nat /\ "put" \in Places /\ "page" \in Places
  BY <1>2, <1>3, Zenon DEF Places
<1>5. CASE IsLast(j, batch)
  <2>1. job' = [job EXCEPT ![j] = r]
    BY <1>1, <1>5, Zenon
  <2>2. /\ r \in Fetches /\ r.pc = "put" /\ r.rows = job[j].rows \cup batch
        /\ r.asked = job[j].asked
    BY <1>2, <1>4, Zenon DEF Fetches
  <2> HIDE DEF r
  <2>3. OnlyFetch(j) /\ job'[j] = r
    BY <2>1, <2>2, Changed, Zenon
  <2>4. QED
    BY <1>1, <1>5, <2>2, <2>3, Zenon
<1>6. CASE ~IsLast(j, batch)
  <2>1. job' = [job EXCEPT ![j] = q] /\ ~(Cardinality(batch) < Limit)
    BY <1>1, <1>6, Zenon DEF IsLast
  <2>2. Max(batch) + 1 \in Nat /\ 1 \in Nat
    BY <1>3, <2>1, SMT
  <2>3. /\ q \in Fetches /\ q.pc = job[j].pc /\ q.rows = job[j].rows \cup batch
        /\ q.asked = job[j].asked /\ q.cursor = Max(batch) + 1
    BY <1>2, <1>4, <2>2, Zenon DEF Fetches
  <2> HIDE DEF q
  <2>4. OnlyFetch(j) /\ job'[j] = q
    BY <2>1, <2>3, Changed, Zenon
  <2>5. QED
    BY <1>1, <1>6, <2>1, <2>3, <2>4, Zenon
<1>7. QED
  BY <1>5, <1>6

\* The object of a cell becomes the rows of the fetch.
Stored(j) ==
    /\ job[j].pc = "put" /\ job[j].rows # {} /\ job[j].rows # NoObject
    /\ objects' \in [Cells -> SUBSET Int] /\ asked' \in [Cells -> SUBSET Nat]
    /\ objects'[Cell(j)] = job[j].rows /\ asked'[Cell(j)] = job[j].asked
    /\ \A c \in Cells : c # Cell(j) => objects'[c] = objects[c] /\ asked'[c] = asked[c]

LEMMA StoresOutcome ==
    ASSUME TypeOK, NEW j \in Jobs, Stores(j)
    PROVE  Stored(j)
<1>1. /\ Cell(j) \in Cells /\ job[j].rows \in SUBSET Nat /\ job[j].asked \in SUBSET Nat
      /\ objects \in [Cells -> SUBSET Int] /\ asked \in [Cells -> SUBSET Nat]
  BY JobFields, FetchFields, Zenon DEF TypeOK
<1>2. /\ job[j].pc = "put" /\ job[j].rows # {}
      /\ objects' = [objects EXCEPT ![Cell(j)] = job[j].rows]
      /\ asked' = [asked EXCEPT ![Cell(j)] = job[j].asked]
  BY Zenon DEF Stores
<1>3. -1 \notin Nat /\ Nat \subseteq Int
  BY SMT
<1>4. job[j].rows # NoObject
  BY <1>1, <1>3, Zenon DEF NoObject
<1>5. job[j].rows \in SUBSET Int
  BY <1>1, <1>3, Zenon
<1>6. QED
  BY <1>1, <1>2, <1>4, <1>5, Zenon DEF Stored

LEMMA PutOutcome ==
    ASSUME TypeOK, NEW j \in Jobs, Put(j)
    PROVE  /\ Stored(j) /\ OnlyFetch(j) /\ script' = script
           /\ IF j[1] = "script" THEN job'[j] = Idle
                                 ELSE job'[j].pc = "done" /\ job'[j].rows = job[j].rows
<1> DEFINE r == [Idle EXCEPT !.pc = "done", !.rows = job[j].rows]
<1>1. Stored(j) /\ script' = script
  BY StoresOutcome, Zenon DEF Put
<1>2. job' = [job EXCEPT ![j] = IF j[1] = "script" THEN Idle ELSE r]
  BY Zenon DEF Put
<1>3. r \in Fetches /\ r.pc = "done" /\ r.rows = job[j].rows
  BY IdleType, FetchFields, Zenon DEF Fetches, Places
<1> HIDE DEF r
<1>4. OnlyFetch(j) /\ job'[j] = IF j[1] = "script" THEN Idle ELSE r
  BY <1>2, <1>3, IdleType, Changed, Zenon
<1>5. QED
  BY <1>1, <1>3, <1>4, Zenon

-----------------------------------------------------------------------------
(* Type correctness.                                                       *)

StoreTypes == objects \in [Cells -> SUBSET Int] /\ asked \in [Cells -> SUBSET Nat]
DagTypes ==
    /\ stage \in [Dates -> {"none", "fetch", "registered", "refused", "failed"}]
    /\ universe \in [Dates -> SUBSET Symbols]
ExchangeTypes == now \in Nat /\ offered \in [Symbols -> SUBSET Nat] /\ listed \subseteq Symbols

\* The type invariant, by who changes what.
LEMMA TypeParts ==
    TypeOK <=> /\ ExchangeTypes /\ StoreTypes /\ DagTypes
               /\ loaded \subseteq Dates
               /\ job \in [Jobs -> Fetches] /\ script \in Runs
               /\ contested \subseteq Cells /\ incidents \in Nat
BY Zenon DEF TypeOK, ExchangeTypes, StoreTypes, DagTypes, Fetches, Runs, Places

LEMMA TypePartsNext ==
    TypeOK' <=> /\ ExchangeTypes' /\ StoreTypes' /\ DagTypes'
                /\ loaded' \subseteq Dates
                /\ job' \in [Jobs -> Fetches] /\ script' \in Runs
                /\ contested' \subseteq Cells /\ incidents' \in Nat
BY Zenon DEF TypeOK, ExchangeTypes, StoreTypes, DagTypes, Fetches, Runs, Places

LEMMA IncidentType ==
    ASSUME TypeOK, Incident \/ UNCHANGED incidents
    PROVE  incidents' \in Nat
BY SMT DEF TypeOK, Incident

LEMMA RunType == NotRunning \in Runs
<1>1. {} \in SUBSET Cells
  BY Zenon
<1>2. QED
  BY <1>1, Zero, Zenon DEF NotRunning, Runs

LEMMA TypesInit == Init => TypeOK /\ Offers
<1> SUFFICES ASSUME Init PROVE TypeOK /\ Offers
  OBVIOUS
<1>1. PICK missing \in SUBSET (Symbols \X (0..(Start - 1))) :
          /\ incidents = Cardinality(missing)
          /\ offered = [s \in Symbols |->
                {m * MinuteMs : m \in {n \in 0..(Start - 1) : <<s, n>> \notin missing}}]
  BY Zenon DEF Init
<1>2. incidents \in Nat
  <2>1. 0 \in Int /\ Start - 1 \in Int
    BY Sizes, SMT
  <2>2. IsFiniteSet(Symbols \X (0..(Start - 1)))
    BY <2>1, UniverseAssumption, FS_Interval, FS_Product, Zenon
  <2>3. QED
    BY <1>1, <2>2, FS_Subset, FS_CardinalityType, Zenon
<1>3. \A m \in 0..(Start - 1) : m * MinuteMs \in Nat /\ m * MinuteMs < Start * MinuteMs
  <2>1. TAKE m \in 0..(Start - 1)
  <2>2. m \in Nat /\ Start \in Nat /\ m < Start
    BY Sizes, SMT
  <2>3. QED
    BY <2>2, Sizes, ProductType, ProductRises, Zenon
<1>4. now = Start
  BY Zenon DEF Init
<1>5. offered \in [Symbols -> SUBSET Nat] /\ Offers
  <2>1. ASSUME NEW s \in Symbols, NEW t \in offered[s]
        PROVE  t \in Nat /\ t < Start * MinuteMs
    <3>1. PICK m \in 0..(Start - 1) : t = m * MinuteMs
      BY <1>1, <2>1, Zenon
    <3>2. QED
      BY <1>3, <3>1, Zenon
  <2>2. \A s \in Symbols : offered[s] \in SUBSET Nat
    BY <2>1, Zenon
  <2>3. offered = [s \in Symbols |-> offered[s]]
    BY <1>1, Zenon
  <2>4. QED
    BY <1>4, <2>1, <2>2, <2>3, Zenon DEF Offers
<1>6. ExchangeTypes
  BY <1>4, <1>5, Sizes, Zenon DEF ExchangeTypes, Init
<1>7. StoreTypes
  <2>1. NoObject \in SUBSET Int
    BY SMT DEF NoObject
  <2>2. QED
    BY <2>1, Zenon DEF StoreTypes, Init
<1>8. DagTypes
  BY Zenon DEF DagTypes, Init
<1>9. job \in [Jobs -> Fetches] /\ script \in Runs
  BY IdleType, RunType, Zenon DEF Init
<1>10. QED
  BY <1>2, <1>5, <1>6, <1>7, <1>8, <1>9, TypeParts, Zenon DEF Init

LEMMA ExchangeStep ==
    ASSUME TypeOK, Offers,
           Tick \/ \E s \in Symbols : Delist(s) \/ \E m \in 0..(now - 1) : Repair(s, m)
    PROVE  /\ TypeOK' /\ Offers'
           /\ \A s \in Symbols : offered[s] \subseteq offered'[s]
           /\ listed' \subseteq listed /\ now <= now'
           /\ UNCHANGED <<store, loaded, dag, job, script, contested>>
<1>1. UNCHANGED <<store, loaded, dag, job, script, contested>>
  BY Zenon DEF Tick, Repair, Delist, Elsewhere
<1>2. StoreTypes' /\ DagTypes'
  BY <1>1, TypeParts, Zenon DEF StoreTypes, DagTypes, store, dag
<1>3. now \in Nat /\ offered \in [Symbols -> SUBSET Nat] /\ listed \subseteq Symbols
  BY Zenon DEF TypeOK
<1> DEFINE Good ==
      /\ ExchangeTypes' /\ Offers'
      /\ \A s \in Symbols : offered[s] \subseteq offered'[s]
      /\ listed' \subseteq listed /\ now <= now' /\ incidents' \in Nat
<1>4. CASE Tick
  <2>1. PICK missing \in SUBSET Symbols :
            /\ incidents' = incidents + Cardinality(missing)
            /\ offered' = [s \in Symbols |->
                  IF s \in missing THEN offered[s] ELSE offered[s] \cup {now * MinuteMs}]
    BY <1>4, Zenon DEF Tick
  <2>2. now' = now + 1 /\ listed' = listed
    BY <1>4, Zenon DEF Tick
  <2>3. now' \in Nat /\ now < now' /\ now <= now'
    BY <1>3, <2>2, SMT
  <2>4. now * MinuteMs \in Nat /\ now' * MinuteMs \in Nat /\ now * MinuteMs < now' * MinuteMs
    BY <1>3, <2>3, Sizes, ProductType, ProductRises, Zenon
  <2>5. Cardinality(missing) \in Nat
    BY UniverseAssumption, FS_Subset, FS_CardinalityType, Zenon
  <2>6. incidents' \in Nat
    BY <2>1, <2>5, SMT DEF TypeOK
  <2>7. \A s \in Symbols : offered[s] \subseteq offered'[s] /\ offered'[s] \in SUBSET Nat
                           /\ \A t \in offered'[s] : t \in offered[s] \/ t = now * MinuteMs
    BY <1>3, <2>1, <2>4, Zenon
  <2>8. offered' \in [Symbols -> SUBSET Nat]
    <3>1. offered' = [s \in Symbols |-> offered'[s]]
      BY <2>1, Zenon
    <3>2. QED
      BY <2>7, <3>1, Zenon
  <2>9. Offers'
    <3>1. ASSUME NEW s \in Symbols, NEW t \in offered'[s]
          PROVE  t < now' * MinuteMs
      <4>1. t \in Nat
        BY <2>7, Zenon
      <4>2. t < now * MinuteMs \/ t = now * MinuteMs
        BY <2>7, Zenon DEF Offers
      <4>3. QED
        BY <2>4, <4>1, <4>2, SMT
    <3>2. QED
      BY <3>1, Zenon DEF Offers
  <2>10. Good
    BY <1>3, <2>2, <2>3, <2>6, <2>7, <2>8, <2>9, Zenon DEF ExchangeTypes
  <2>11. QED
    BY <1>1, <1>2, <2>10, TypeParts, TypePartsNext, Zenon
<1>5. ASSUME NEW s \in Symbols, Delist(s)
      PROVE  Good
  <2>1. now' = now /\ offered' = offered /\ listed' = listed \ {s} /\ incidents' \in Nat
    BY <1>5, IncidentType, Zenon DEF Delist
  <2>2. now <= now'
    BY <1>3, <2>1, SMT
  <2>3. QED
    BY <1>3, <2>1, <2>2, Zenon DEF ExchangeTypes, Offers
<1>6. ASSUME NEW s \in Symbols, NEW m \in 0..(now - 1), Repair(s, m)
      PROVE  Good
  <2>1. /\ now' = now /\ listed' = listed /\ incidents' \in Nat
        /\ offered' = [offered EXCEPT ![s] = offered[s] \cup {m * MinuteMs}]
    BY <1>6, IncidentType, Zenon DEF Repair
  <2>2. m \in Nat /\ m < now /\ now <= now'
    BY <1>3, <2>1, SMT
  <2>3. m * MinuteMs \in Nat /\ m * MinuteMs < now * MinuteMs
    BY <1>3, <2>2, Sizes, ProductType, ProductRises, Zenon
  <2>4. offered' \in [Symbols -> SUBSET Nat]
    BY <1>3, <2>1, <2>3, Zenon
  <2>5. \A x \in Symbols : offered[x] \subseteq offered'[x]
                           /\ \A t \in offered'[x] : t \in offered[x] \/ t = m * MinuteMs
    BY <1>3, <2>1, Zenon
  <2>6. Offers'
    BY <2>1, <2>3, <2>5, Zenon DEF Offers
  <2>7. QED
    BY <1>3, <2>1, <2>2, <2>4, <2>5, <2>6, Zenon DEF ExchangeTypes
<1>7. ASSUME Good
      PROVE  TypeOK'
  BY <1>1, <1>2, <1>7, TypeParts, TypePartsNext, Zenon
<1>8. QED
  BY <1>1, <1>4, <1>5, <1>6, <1>7, Zenon

\* The steps of a fetch.
Fetching(j) == FetchStep(j) \/ Unanswered(j) \/ Breaks(j)

LEMMA FetchEffect ==
    ASSUME TypeOK, Offers, NEW j \in Jobs, Fetching(j)
    PROVE  /\ InFlight(j)
           /\ UNCHANGED <<exchange, loaded, dag, contested>>
           /\ OnlyFetch(j) /\ script' \in Runs /\ incidents' \in Nat
           /\ Stored(j) \/ UNCHANGED store
<1>1. UNCHANGED <<exchange, loaded, dag, contested>>
  BY Zenon DEF Fetching, FetchStep, Page, NoCandles, Put, Unanswered, Breaks, FetchOnly
<1>2. incidents' \in Nat
  <2>1. Incident \/ UNCHANGED incidents
    BY Zenon DEF Fetching, FetchStep, Page, NoCandles, Put, Unanswered, Breaks
  <2>2. QED
    BY <2>1, IncidentType, Zenon
<1>3. script \in Runs
  BY ScriptFields, Zenon
<1>4. CASE Page(j)
  <2>1. job[j].pc = "page" /\ OnlyFetch(j)
    BY <1>4, PageOutcome, Zenon
  <2>2. UNCHANGED <<store, script>>
    BY <1>4, Zenon DEF Page
  <2>3. QED
    BY <1>1, <1>2, <1>3, <2>1, <2>2, Zenon DEF InFlight
<1>5. CASE NoCandles(j)
  <2>1. job[j].pc = "put" /\ Finished(j) /\ UNCHANGED store
    BY <1>5, FailsOutcome, Zenon DEF NoCandles
  <2>2. QED
    BY <1>1, <1>2, <2>1, Zenon DEF InFlight, Finished
<1>6. CASE Put(j)
  <2>1. Stored(j) /\ OnlyFetch(j) /\ script' = script
    BY <1>6, PutOutcome, Zenon
  <2>2. QED
    BY <1>1, <1>2, <1>3, <2>1, Zenon DEF InFlight, Stored
<1>7. CASE Unanswered(j)
  <2>1. job[j].pc = "page" /\ RetryOrRaise(j) /\ UNCHANGED store
    BY <1>7, Zenon DEF Unanswered
  <2>2. OnlyFetch(j) /\ script' \in Runs
    BY <1>3, <2>1, UnansweredOutcome, Zenon DEF Finished
  <2>3. QED
    BY <1>1, <1>2, <2>1, <2>2, Zenon DEF InFlight
<1>8. CASE Breaks(j)
  <2>1. InFlight(j) /\ Raises(j) /\ (Stores(j) \/ UNCHANGED store)
    BY <1>8, Zenon DEF Breaks
  <2>2. Finished(j) /\ (Stored(j) \/ UNCHANGED store)
    BY <2>1, RaisesOutcome, StoresOutcome, Zenon
  <2>3. QED
    BY <1>1, <1>2, <2>1, <2>2, Zenon DEF Finished
<1>9. QED
  BY <1>4, <1>5, <1>6, <1>7, <1>8, Zenon DEF Fetching, FetchStep

LEMMA FetchTypes ==
    ASSUME TypeOK, Offers, NEW j \in Jobs, Fetching(j)
    PROVE  TypeOK' /\ Offers'
<1>1. /\ UNCHANGED <<now, offered, listed, loaded, stage, universe, contested>>
      /\ job' \in [Jobs -> Fetches] /\ script' \in Runs /\ incidents' \in Nat
      /\ Stored(j) \/ UNCHANGED <<objects, asked>>
  BY FetchEffect, Zenon DEF exchange, dag, store, OnlyFetch
<1>2. StoreTypes'
  BY <1>1, TypeParts, Zenon DEF StoreTypes, Stored
<1>3. ExchangeTypes' /\ DagTypes' /\ Offers'
  BY <1>1, TypeParts, Zenon DEF ExchangeTypes, DagTypes, Offers
<1>4. QED
  BY <1>1, <1>2, <1>3, TypeParts, TypePartsNext, Zenon

\* The steps of the DAG runs.
DagStep ==
    \/ \E d \in Dates : RunStep(d) \/ ApiDown(d)
    \/ \E j \in Jobs : StartTask(j) \/ Clear(j)

LEMMA DagLeaves ==
    ASSUME TypeOK, DagStep
    PROVE  UNCHANGED <<exchange, store, loaded, script>> /\ incidents' \in Nat
<1>1. UNCHANGED <<exchange, store, loaded, script>>
  BY Zenon DEF DagStep, RunStep, CheckApi, ValidateDay, UpstreamFailed, ApiDown, StartTask,
               Clear, DagOnly
<1>2. Incident \/ UNCHANGED incidents
  BY Zenon DEF DagStep, RunStep, CheckApi, ValidateDay, UpstreamFailed, ApiDown, StartTask, Clear
<1>3. QED
  BY <1>1, <1>2, IncidentType, Zenon

\* A task is queued with nothing fetched.
Queued == [Idle EXCEPT !.pc = "ready"]

LEMMA QueuedType == Queued \in Fetches /\ Queued.pc = "ready"
BY IdleType, Zenon DEF Queued, Fetches, Places

LEMMA CheckApiOutcome ==
    ASSUME TypeOK, NEW d \in Dates, CheckApi(d)
    PROVE  /\ stage[d] = "none" /\ stage'[d] \in {"fetch", "failed"}
           /\ \A e \in Dates : e # d => stage'[e] = stage[e] /\ universe'[e] = universe[e]
           /\ universe'[d] = listed
           /\ \A j \in Jobs : job'[j] = IF j[1] = "dag" /\ j[2] = d /\ j[3] \in listed
                                          THEN Queued ELSE job[j]
           /\ DagTypes' /\ job' \in [Jobs -> Fetches] /\ contested' = contested
<1>1. /\ stage[d] = "none"
      /\ stage' = [stage EXCEPT ![d] = IF listed = {} THEN "failed" ELSE "fetch"]
      /\ universe' = [universe EXCEPT ![d] = listed]
      /\ job' = [j \in Jobs |-> IF j[1] = "dag" /\ j[2] = d /\ j[3] \in listed
                                  THEN Queued ELSE job[j]]
      /\ contested' = contested
  BY Zenon DEF CheckApi, Queued
<1>2. /\ stage \in [Dates -> {"none", "fetch", "registered", "refused", "failed"}]
      /\ universe \in [Dates -> SUBSET Symbols] /\ listed \subseteq Symbols
      /\ job \in [Jobs -> Fetches]
  BY TypesNamed, Zenon DEF TypeOK
<1>3. job' \in [Jobs -> Fetches]
  BY <1>1, <1>2, QueuedType, Zenon
<1>4. DagTypes'
  BY <1>1, <1>2, Zenon DEF DagTypes
<1>5. QED
  BY <1>1, <1>2, <1>3, <1>4, Zenon

\* The other steps of a run only move its stage.
LEMMA StageOutcome ==
    ASSUME TypeOK, NEW d \in Dates, ValidateDay(d) \/ UpstreamFailed(d) \/ ApiDown(d)
    PROVE  /\ \A e \in Dates : e # d => stage'[e] = stage[e]
           /\ stage'[d] = "registered" =>
                 /\ ValidateDay(d) /\ stage[d] = "fetch" /\ AllSuccess(d)
                 /\ \A j \in TasksOf(d) : ~Damaged(job[j].rows)
           /\ stage'[d] # "none"
           /\ stage[d] \in {"none", "fetch"}
           /\ DagTypes' /\ UNCHANGED <<universe, job, contested>>
<1>1. /\ stage \in [Dates -> {"none", "fetch", "registered", "refused", "failed"}]
      /\ universe \in [Dates -> SUBSET Symbols]
  BY Zenon DEF TypeOK
<1>2. CASE ValidateDay(d)
  <2>1. /\ stage[d] = "fetch" /\ AllSuccess(d) /\ UNCHANGED <<universe, job, contested>>
        /\ stage' = [stage EXCEPT ![d] =
              IF \E j \in TasksOf(d) : Damaged(job[j].rows) THEN "refused" ELSE "registered"]
    BY <1>2, Zenon DEF ValidateDay
  <2>2. QED
    BY <1>1, <1>2, <2>1, Zenon DEF DagTypes
<1>3. CASE UpstreamFailed(d)
  BY <1>1, <1>3, Zenon DEF UpstreamFailed, DagTypes
<1>4. CASE ApiDown(d)
  BY <1>1, <1>4, Zenon DEF ApiDown, DagTypes
<1>5. QED
  BY <1>2, <1>3, <1>4

LEMMA ClearOutcome ==
    ASSUME TypeOK, NEW j \in Jobs, Clear(j)
    PROVE  /\ j[1] = "dag" /\ job[j].pc \in {"done", "failed"}
           /\ OnlyFetch(j) /\ job'[j].pc = "ready"
           /\ stage'[j[2]] = "fetch"
           /\ \A e \in Dates : e # j[2] => stage'[e] = stage[e]
           /\ DagTypes' /\ UNCHANGED <<universe, contested>>
<1>1. /\ j[1] = "dag" /\ job[j].pc \in {"done", "failed"}
      /\ job' = [job EXCEPT ![j] = Queued]
      /\ stage' = [stage EXCEPT ![j[2]] = "fetch"]
      /\ UNCHANGED <<universe, contested>>
  BY Zenon DEF Clear, Queued
<1>2. /\ stage \in [Dates -> {"none", "fetch", "registered", "refused", "failed"}]
      /\ universe \in [Dates -> SUBSET Symbols] /\ j[2] \in Dates
  BY JobFields, Zenon DEF TypeOK
<1>3. OnlyFetch(j) /\ job'[j] = Queued
  BY <1>1, QueuedType, Changed, Zenon
<1>4. QED
  BY <1>1, <1>2, <1>3, QueuedType, Zenon DEF DagTypes

LEMMA DagStepTypes ==
    ASSUME TypeOK, Offers, DagStep
    PROVE  TypeOK' /\ Offers'
<1>1. /\ UNCHANGED <<now, offered, listed, objects, asked, loaded, script>>
      /\ incidents' \in Nat
  BY DagLeaves, Zenon DEF exchange, store
<1>2. StoreTypes' /\ ExchangeTypes' /\ Offers' /\ loaded' \subseteq Dates /\ script' \in Runs
  BY <1>1, TypeParts, Zenon DEF StoreTypes, ExchangeTypes, Offers
<1>3. DagTypes' /\ job' \in [Jobs -> Fetches] /\ contested' \subseteq Cells
  <2>1. ASSUME NEW d \in Dates, CheckApi(d)
        PROVE  DagTypes' /\ job' \in [Jobs -> Fetches] /\ contested' \subseteq Cells
    BY <2>1, CheckApiOutcome, TypeParts, Zenon
  <2>2. ASSUME NEW d \in Dates, ValidateDay(d) \/ UpstreamFailed(d) \/ ApiDown(d)
        PROVE  DagTypes' /\ job' \in [Jobs -> Fetches] /\ contested' \subseteq Cells
    BY <2>2, StageOutcome, TypeParts, Zenon
  <2>3. ASSUME NEW j \in Jobs, StartTask(j)
        PROVE  DagTypes' /\ job' \in [Jobs -> Fetches] /\ contested' \subseteq Cells
    <3>1. Begin(j) /\ UNCHANGED <<stage, universe>>
      BY <2>3, Zenon DEF StartTask, dag
    <3>2. QED
      BY <3>1, BeginOutcome, TypeParts, Zenon DEF OnlyFetch, DagTypes
  <2>4. ASSUME NEW j \in Jobs, Clear(j)
        PROVE  DagTypes' /\ job' \in [Jobs -> Fetches] /\ contested' \subseteq Cells
    BY <2>4, ClearOutcome, TypeParts, Zenon DEF OnlyFetch
  <2>5. QED
    BY <2>1, <2>2, <2>3, <2>4, Zenon DEF DagStep, RunStep
<1>4. QED
  BY <1>1, <1>2, <1>3, TypePartsNext, Zenon

\* The steps of the script.
ScriptStep ==
    \/ \E first, last \in Dates, force \in BOOLEAN : StartScript(first, last, force)
    \/ \E c \in Cells : NextCell(c)
    \/ ScriptDies \/ ScriptEnds

ByScript(c) == <<"script", c[1], c[2]>>
ByDag(c) == <<"dag", c[1], c[2]>>

LEMMA ScriptLeaves ==
    ASSUME TypeOK, ScriptStep
    PROVE  UNCHANGED <<exchange, store, loaded, dag>> /\ incidents' \in Nat
<1>1. UNCHANGED <<exchange, store, loaded, dag>>
  BY Zenon DEF ScriptStep, StartScript, NextCell, ScriptDies, ScriptEnds, ScriptOnly
<1>2. Incident \/ UNCHANGED incidents
  BY Zenon DEF ScriptStep, StartScript, NextCell, ScriptDies, ScriptEnds
<1>3. QED
  BY <1>1, <1>2, IncidentType, Zenon

LEMMA StartScriptOutcome ==
    ASSUME TypeOK, NEW first \in Dates, NEW last \in Dates, NEW force \in BOOLEAN,
           StartScript(first, last, force)
    PROVE  /\ ~script.on /\ script' \in Runs /\ script'.on /\ script'.todo = script'.range
           /\ script'.exit = "none"
           /\ UNCHANGED <<job, contested>>
<1> DEFINE range == (first..last) \X Symbols
<1>1. /\ ~script.on /\ UNCHANGED <<job, contested>>
      /\ script' = [NotRunning EXCEPT !.on = TRUE, !.force = force, !.range = range,
                                      !.todo = range]
  BY Zenon DEF StartScript
<1>2. range \in SUBSET Cells
  <2>1. first..last \subseteq Dates
    BY Sizes, SMT DEF Dates
  <2>2. QED
    BY <2>1 DEF Cells
<1> HIDE DEF range
<1>3. NotRunning \in Runs
  BY RunType
<1>4. script' \in Runs
  BY <1>1, <1>2, <1>3, Zenon DEF Runs
<1>5. script'.on /\ script'.todo = range /\ script'.range = range /\ script'.exit = "none"
  BY <1>1, Zenon DEF NotRunning
<1>6. QED
  BY <1>1, <1>4, <1>5, Zenon

LEMMA NextCellOutcome ==
    ASSUME TypeOK, NEW c \in Cells, NextCell(c)
    PROVE  /\ ~ScriptBusy /\ c \in script.todo
           /\ script' \in Runs /\ script'.todo = script.todo \ {c}
           /\ script'.on = script.on /\ script'.range = script.range
           /\ script'.failed = script.failed /\ script'.exit = script.exit
           /\ \/ Skips(c) /\ UNCHANGED <<job, contested>>
              \/ Begin(ByScript(c))
<1>1. /\ ~ScriptBusy /\ c \in script.todo
      /\ script' = [script EXCEPT !.todo = script.todo \ {c}]
      /\ \/ Skips(c) /\ UNCHANGED <<job, contested>>
         \/ Begin(ByScript(c))
  BY Zenon DEF NextCell, ByScript
<1>2. script \in Runs /\ script.todo \ {c} \in SUBSET Cells
  BY ScriptFields, Zenon
<1>3. /\ script' \in Runs /\ script'.todo = script.todo \ {c}
      /\ script'.on = script.on /\ script'.range = script.range
      /\ script'.failed = script.failed /\ script'.exit = script.exit
  BY <1>1, <1>2, Zenon DEF Runs
<1>4. QED
  BY <1>1, <1>3, Zenon

LEMMA ScriptDiesOutcome ==
    ASSUME TypeOK, ScriptDies
    PROVE  /\ script' \in Runs /\ ~script'.on /\ script'.todo = {} /\ script'.exit = "died"
           /\ job' \in [Jobs -> Fetches] /\ UNCHANGED contested
           /\ \A j \in Jobs : job'[j] = IF j[1] = "script" THEN Idle ELSE job[j]
<1>1. /\ script' = [script EXCEPT !.on = FALSE, !.todo = {}, !.exit = "died"]
      /\ job' = [j \in Jobs |-> IF j[1] = "script" THEN Idle ELSE job[j]]
      /\ UNCHANGED contested
  BY Zenon DEF ScriptDies
<1>2. script \in Runs /\ {} \in SUBSET Cells
  BY ScriptFields, Zenon
<1>3. script' \in Runs /\ script'.on = FALSE /\ script'.todo = {} /\ script'.exit = "died"
  BY <1>1, <1>2, Zenon DEF Runs
<1>4. job' \in [Jobs -> Fetches]
  BY <1>1, IdleType, TypesNamed, Zenon
<1>5. QED
  BY <1>1, <1>3, <1>4, Zenon

LEMMA ScriptEndsOutcome ==
    ASSUME TypeOK, ScriptEnds
    PROVE  /\ script.on /\ script.todo = {} /\ ~ScriptBusy
           /\ script' \in Runs /\ ~script'.on /\ script'.todo = {}
           /\ script'.range = script.range
           /\ script'.exit = (IF script.failed = 0 THEN "0" ELSE "1")
           /\ UNCHANGED <<job, contested>>
<1>1. /\ script.on /\ script.todo = {} /\ ~ScriptBusy
      /\ script' = [script EXCEPT !.on = FALSE,
                                  !.exit = IF script.failed = 0 THEN "0" ELSE "1"]
      /\ UNCHANGED <<job, contested>>
  BY Zenon DEF ScriptEnds
<1>2. script \in Runs
  BY ScriptFields, Zenon
<1>3. /\ script' \in Runs /\ script'.on = FALSE /\ script'.todo = script.todo
      /\ script'.range = script.range
      /\ script'.exit = (IF script.failed = 0 THEN "0" ELSE "1")
  BY <1>1, <1>2, Zenon DEF Runs
<1>4. QED
  BY <1>1, <1>3, Zenon

LEMMA ScriptStepTypes ==
    ASSUME TypeOK, Offers, ScriptStep
    PROVE  TypeOK' /\ Offers'
<1>1. /\ UNCHANGED <<now, offered, listed, objects, asked, loaded, stage, universe>>
      /\ incidents' \in Nat
  BY ScriptLeaves, Zenon DEF exchange, store, dag
<1>2. StoreTypes' /\ ExchangeTypes' /\ Offers' /\ loaded' \subseteq Dates /\ DagTypes'
  BY <1>1, TypeParts, Zenon DEF StoreTypes, ExchangeTypes, Offers, DagTypes
<1>3. script' \in Runs /\ job' \in [Jobs -> Fetches] /\ contested' \subseteq Cells
  <2>1. ASSUME NEW first \in Dates, NEW last \in Dates, NEW force \in BOOLEAN,
               StartScript(first, last, force)
        PROVE  script' \in Runs /\ job' \in [Jobs -> Fetches] /\ contested' \subseteq Cells
    BY <2>1, StartScriptOutcome, TypeParts, Zenon
  <2>2. ASSUME NEW c \in Cells, NextCell(c)
        PROVE  script' \in Runs /\ job' \in [Jobs -> Fetches] /\ contested' \subseteq Cells
    <3>1. ByScript(c) \in Jobs
      BY JobOfCell, Zenon DEF ByScript
    <3>2. QED
      BY <2>2, <3>1, NextCellOutcome, BeginOutcome, TypeParts, Zenon DEF OnlyFetch
  <2>3. CASE ScriptDies
    BY <2>3, ScriptDiesOutcome, TypeParts, Zenon
  <2>4. CASE ScriptEnds
    BY <2>4, ScriptEndsOutcome, TypeParts, Zenon
  <2>5. QED
    BY <2>1, <2>2, <2>3, <2>4, Zenon DEF ScriptStep
<1>4. QED
  BY <1>1, <1>2, <1>3, TypePartsNext, Zenon

\* The steps, by who takes them.
LEMMA Actors ==
    ASSUME Next
    PROVE  \/ Tick \/ \E s \in Symbols : Delist(s) \/ \E m \in 0..(now - 1) : Repair(s, m)
           \/ \E j \in Jobs : Fetching(j)
           \/ DagStep
           \/ ScriptStep
           \/ \E d \in Dates : LoadDay(d)
BY Zenon DEF Next, Fetching, DagStep, ScriptStep

\* Loading a date changes nothing else.
LEMMA LoadOutcome ==
    ASSUME TypeOK, NEW d \in Dates, LoadDay(d)
    PROVE  /\ loaded' \subseteq Dates
           /\ UNCHANGED <<exchange, store, dag, job, script, contested, incidents>>
BY Zenon DEF LoadDay, TypeOK

LEMMA TypesStep ==
    ASSUME TypeOK, Offers, Next
    PROVE  TypeOK' /\ Offers'
<1>1. CASE Tick \/ \E s \in Symbols : Delist(s) \/ \E m \in 0..(now - 1) : Repair(s, m)
  BY <1>1, ExchangeStep, Zenon
<1>2. CASE \E j \in Jobs : Fetching(j)
  BY <1>2, FetchTypes, Zenon
<1>3. CASE DagStep
  BY <1>3, DagStepTypes, Zenon
<1>4. CASE ScriptStep
  BY <1>4, ScriptStepTypes, Zenon
<1>5. CASE \E d \in Dates : LoadDay(d)
  BY <1>5, LoadOutcome, Zenon DEF TypeOK, Offers, exchange, store, dag
<1>6. QED
  BY <1>1, <1>2, <1>3, <1>4, <1>5, Actors, Zenon

LEMMA TypesStutter == TypeOK /\ Offers /\ UNCHANGED vars => TypeOK' /\ Offers'
BY Zenon DEF TypeOK, Offers, vars, exchange, store, dag

\* Every variable is of its type, and Binance has no candle of a minute to come.
LEMMA TypesAlways == Spec => [](TypeOK /\ Offers)
<1>1. TypeOK /\ Offers /\ [Next]_vars => TypeOK' /\ Offers'
  BY TypesStep, TypesStutter, Zenon
<1>2. QED
  BY <1>1, TypesInit, PTL DEF Spec

THEOREM TypeCorrect == Spec => []TypeOK
BY TypesAlways, PTL

-----------------------------------------------------------------------------
(* What a fetch has, and what the store keeps.                             *)

\* The candles that Binance has of a cell.
Has(c) == OfDay(c[1], offered[c[2]])

\* A fetch in flight has candles of its cell, and of a listed symbol every one up to
\* its cursor that Binance had when it began.
FetchOK(j) ==
    InFlight(j) =>
        /\ job[j].asked \subseteq Has(Cell(j)) /\ job[j].rows \subseteq Has(Cell(j))
        /\ job[j].pc = "page" => DayStart(j[2]) <= job[j].cursor
        /\ job[j].pc = "page" /\ j[3] \in listed =>
              \A t \in job[j].asked : t < job[j].cursor => t \in job[j].rows
        /\ job[j].pc = "put" /\ j[3] \in listed => job[j].asked \subseteq job[j].rows

ObjectOK(c) ==
    objects[c] # NoObject =>
        /\ objects[c] # {} /\ objects[c] \subseteq Has(c)
        /\ c[2] \in listed => asked[c] \subseteq objects[c]

\* The inductive invariant of the store.
StoreInv == (\A j \in Jobs : FetchOK(j)) /\ \A c \in Cells : ObjectOK(c)

LEMMA StoreInvInit == Init => StoreInv
<1> SUFFICES ASSUME Init PROVE StoreInv
  OBVIOUS
<1>1. \A j \in Jobs : ~InFlight(j)
  BY IdleType, Zenon DEF Init, InFlight
<1>2. \A c \in Cells : objects[c] = NoObject
  BY Zenon DEF Init
<1>3. QED
  BY <1>1, <1>2, Zenon DEF StoreInv, FetchOK, ObjectOK

\* A fetch that has begun.
Begun(j) ==
    /\ job'[j].pc = "page" /\ job'[j].cursor = DayStart(j[2]) /\ job'[j].rows = {}
    /\ job'[j].asked = OfDay(j[2], Serves(j[3]))

\* Outside its own steps, a fetch is left alone, begins, or is over.
LEMMA FetchesAside ==
    ASSUME TypeOK, DagStep \/ ScriptStep, NEW k \in Jobs
    PROVE  job'[k] = job[k] \/ job'[k].pc \in {"idle", "ready"} \/ Begun(k)
<1>1. ASSUME NEW j \in Jobs, Begin(j)
      PROVE  job'[k] = job[k] \/ Begun(k)
  BY <1>1, BeginOutcome, Zenon DEF Begun, OnlyFetch
<1>2. ASSUME NEW d \in Dates, CheckApi(d)
      PROVE  job'[k] = job[k] \/ job'[k].pc = "ready"
  BY <1>2, CheckApiOutcome, QueuedType, Zenon
<1>3. ASSUME NEW d \in Dates, ValidateDay(d) \/ UpstreamFailed(d) \/ ApiDown(d)
      PROVE  job'[k] = job[k]
  BY <1>3, StageOutcome, Zenon
<1>4. ASSUME NEW j \in Jobs, Clear(j)
      PROVE  job'[k] = job[k] \/ job'[k].pc = "ready"
  BY <1>4, ClearOutcome, Zenon DEF OnlyFetch
<1>5. ASSUME DagStep
      PROVE  job'[k] = job[k] \/ job'[k].pc = "ready" \/ Begun(k)
  BY <1>1, <1>2, <1>3, <1>4, <1>5, Zenon DEF DagStep, RunStep, StartTask
<1>6. ASSUME ScriptStep
      PROVE  job'[k] = job[k] \/ job'[k].pc = "idle" \/ Begun(k)
  <2>1. ASSUME NEW first \in Dates, NEW last \in Dates, NEW force \in BOOLEAN,
               StartScript(first, last, force)
        PROVE  job'[k] = job[k]
    BY <2>1, StartScriptOutcome, Zenon
  <2>2. ASSUME NEW c \in Cells, NextCell(c)
        PROVE  job'[k] = job[k] \/ Begun(k)
    <3>1. ByScript(c) \in Jobs
      BY JobOfCell, Zenon DEF ByScript
    <3>2. QED
      BY <1>1, <2>2, <3>1, NextCellOutcome, Zenon
  <2>3. ScriptDies => job'[k] = job[k] \/ job'[k].pc = "idle"
    BY ScriptDiesOutcome, IdleType, Zenon
  <2>4. ScriptEnds => job'[k] = job[k]
    BY ScriptEndsOutcome, Zenon
  <2>5. QED
    BY <1>6, <2>1, <2>2, <2>3, <2>4, Zenon DEF ScriptStep
<1>7. QED
  BY <1>5, <1>6, Zenon

LEMMA BegunIsOK ==
    ASSUME TypeOK, NEW j \in Jobs, Begun(j), UNCHANGED offered
    PROVE  FetchOK(j)'
<1>1. /\ job'[j].pc = "page" /\ job'[j].cursor = DayStart(j[2]) /\ job'[j].rows = {}
      /\ job'[j].asked = OfDay(j[2], Serves(j[3]))
  BY Zenon DEF Begun
<1>2. j[2] \in Dates /\ j[3] \in Symbols /\ Cell(j)[1] = j[2] /\ Cell(j)[2] = j[3]
  BY JobFields, Zenon
<1>3. DayStart(j[2]) \in Nat /\ OfDay(j[2], Serves(j[3])) \subseteq OfDay(j[2], offered[j[3]])
  BY <1>2, DayBounds, OfDayTypes, Zenon
<1>4. Has(Cell(j))' = OfDay(j[2], offered[j[3]])
  BY <1>2, Zenon DEF Has
<1>5. job'[j].asked \subseteq Has(Cell(j))' /\ job'[j].rows \subseteq Has(Cell(j))'
  BY <1>1, <1>3, <1>4, Zenon
<1>6. DayStart(j[2]) <= job'[j].cursor
  BY <1>1, <1>3, SMT
<1>7. \A t \in job'[j].asked : ~(t < job'[j].cursor)
  <2>1. \A t \in job'[j].asked : DayStart(j[2]) <= t
    BY <1>1, Zenon DEF OfDay
  <2>2. job'[j].asked \in SUBSET Nat
    BY <1>1, <1>2, OfDayTypes, Zenon
  <2>3. QED
    BY <1>1, <1>3, <2>1, <2>2, SMT
<1>8. QED
  BY <1>1, <1>5, <1>6, <1>7, Zenon DEF FetchOK

\* Binance has more candles, lists fewer symbols, and nothing else changes.
LEMMA StoreInvExchange ==
    ASSUME TypeOK, StoreInv,
           \A s \in Symbols : offered[s] \subseteq offered'[s],
           listed' \subseteq listed, UNCHANGED <<store, job>>
    PROVE  StoreInv'
<1>1. UNCHANGED <<objects, asked, job>>
  BY Zenon DEF store
<1>2. \A c \in Cells : Has(c) \subseteq Has(c)'
  BY CellFields, Zenon DEF Has, OfDay
<1>3. ASSUME NEW j \in Jobs
      PROVE  FetchOK(j)'
  <2>1. FetchOK(j) /\ Has(Cell(j)) \subseteq Has(Cell(j))'
    BY <1>2, JobFields, Zenon DEF StoreInv
  <2>2. QED
    BY <1>1, <2>1, Zenon DEF FetchOK, InFlight
<1>4. ASSUME NEW c \in Cells
      PROVE  ObjectOK(c)'
  <2>1. ObjectOK(c) /\ Has(c) \subseteq Has(c)'
    BY <1>2, Zenon DEF StoreInv
  <2>2. QED
    BY <1>1, <2>1, Zenon DEF ObjectOK
<1>5. QED
  BY <1>3, <1>4, Zenon DEF StoreInv

\* Nothing is fetched or stored.
LEMMA StoreInvAside ==
    ASSUME TypeOK, StoreInv, UNCHANGED <<exchange, store>>,
           \A k \in Jobs : job'[k] = job[k] \/ job'[k].pc \in {"idle", "ready"} \/ Begun(k)
    PROVE  StoreInv'
<1>1. UNCHANGED <<offered, listed, objects, asked>>
  BY Zenon DEF exchange, store
<1>2. ASSUME NEW j \in Jobs
      PROVE  FetchOK(j)'
  <2>1. CASE job'[j] = job[j]
    BY <1>1, <2>1, Zenon DEF StoreInv, FetchOK, InFlight, Has
  <2>2. CASE job'[j].pc \in {"idle", "ready"}
    BY <2>2, Zenon DEF FetchOK, InFlight
  <2>3. CASE Begun(j)
    BY <1>1, <2>3, BegunIsOK, Zenon
  <2>4. QED
    BY <2>1, <2>2, <2>3, Zenon
<1>3. \A c \in Cells : ObjectOK(c)'
  BY <1>1, Zenon DEF StoreInv, ObjectOK, Has
<1>4. QED
  BY <1>2, <1>3, Zenon DEF StoreInv

LEMMA PageIsOK ==
    ASSUME TypeOK, Offers, NEW j \in Jobs, FetchOK(j), Page(j), UNCHANGED exchange
    PROVE  FetchOK(j)'
<1>1. PICK batch : batch = BatchOf(j)
  BY Zenon
<1> DEFINE d == j[2]
           s == j[3]
           cursor == job[j].cursor
           rows == job[j].rows
           wanted == job[j].asked
<1>2. d \in Dates /\ s \in Symbols /\ Cell(j)[1] = d /\ Cell(j)[2] = s
  BY JobFields, Zenon
<1>3. cursor \in Nat /\ rows \in SUBSET Nat /\ wanted \in SUBSET Nat
  BY FetchFields, Zenon
<1>4. /\ job[j].pc = "page" /\ job'[j].asked = wanted /\ job'[j].rows = rows \cup batch
      /\ job'[j].pc = (IF IsLast(j, batch) THEN "put" ELSE "page")
      /\ ~IsLast(j, batch) =>
            ~(Cardinality(batch) < Limit) /\ job'[j].cursor = Max(batch) + 1
  BY <1>1, PageOutcome, Zenon
<1>5. /\ wanted \subseteq Has(Cell(j)) /\ rows \subseteq Has(Cell(j))
      /\ DayStart(d) <= cursor
      /\ s \in listed => \A t \in wanted : t < cursor => t \in rows
  BY <1>4, Zenon DEF FetchOK, InFlight
<1>6. Has(Cell(j))' = Has(Cell(j)) /\ listed' = listed
  BY Zenon DEF Has, exchange
<1>7. /\ \A t \in batch : t \in Serves(s) /\ t \in Nat /\ cursor <= t /\ t < DayStart(d + 1)
      /\ Cardinality(batch) < Limit =>
            \A t \in Serves(s) : cursor <= t /\ t < DayStart(d + 1) => t \in batch
      /\ ~(Cardinality(batch) < Limit) =>
            /\ Max(batch) + 1 \in Nat /\ cursor <= Max(batch) + 1
            /\ \A t \in Serves(s) : cursor <= t /\ t < Max(batch) + 1 => t \in batch
  <2>1. batch = klines(s, cursor, DayEnd(d))
    BY <1>1, Zenon DEF BatchOf
  <2> HIDE DEF s, d, cursor
  <2>2. QED
    BY <1>2, <1>3, <2>1, PageCovers, SMT
<1>8. DayStart(d) \in Nat /\ DayStart(d + 1) \in Nat /\ DayEnd(d) = DayStart(d + 1) - 1
  BY <1>2, DayBounds, Zenon
<1>9. Has(Cell(j)) = OfDay(d, offered[s])
  BY <1>2, Zenon DEF Has
<1>10. batch \subseteq Has(Cell(j))
  <2>1. \A t \in batch : DayStart(d) <= t
    BY <1>3, <1>5, <1>7, <1>8, SMT
  <2>2. \A t \in batch : t \in offered[s] /\ t < DayStart(d + 1)
    BY <1>2, <1>7, ServesFinite, Zenon
  <2>3. QED
    BY <1>9, <2>1, <2>2, Zenon DEF OfDay
<1>11. s \in listed => \A t \in wanted : t \in Serves(s) /\ t < DayStart(d + 1) /\ t \in Nat
  BY <1>3, <1>5, <1>9, Zenon DEF OfDay, Serves
<1> HIDE DEF d, s, cursor, rows, wanted
<1>12. CASE ~IsLast(j, batch)
  <2> DEFINE m == Max(batch) + 1
  <2>1. /\ ~(Cardinality(batch) < Limit) /\ job'[j].cursor = m /\ job'[j].pc = "page"
        /\ m \in Nat /\ cursor <= m
    BY <1>4, <1>7, <1>12, Zenon
  <2>2. DayStart(d) <= m
    <3> HIDE DEF m
    <3> QED
      BY <1>3, <1>5, <1>8, <2>1, SMT
  <2>3. ASSUME s \in listed, NEW t \in wanted, t < m
        PROVE  t \in rows \cup batch
    <3>1. t \in Nat /\ t \in Serves(s)
      BY <1>11, <2>3, Zenon
    <3>2. t < cursor \/ cursor <= t
      BY <1>3, <3>1, SMT
    <3>3. t < cursor => t \in rows
      BY <1>5, <2>3, Zenon
    <3>4. cursor <= t => t \in batch
      BY <1>7, <2>1, <2>3, <3>1, Zenon
    <3>5. QED
      BY <3>2, <3>3, <3>4, Zenon
  <2>4. /\ DayStart(j[2]) <= job'[j].cursor
        /\ j[3] \in listed' =>
              \A t \in job'[j].asked : t < job'[j].cursor => t \in job'[j].rows
    BY <1>4, <1>6, <2>1, <2>2, <2>3, Zenon DEF d, s
  <2>5. QED
    BY <1>4, <1>5, <1>6, <1>10, <2>1, <2>4, Zenon DEF FetchOK
<1>13. CASE IsLast(j, batch)
  <2>1. s \in listed => \A t \in Serves(s) :
            t \in Nat /\ cursor <= t /\ t < DayStart(d + 1) => t \in batch
    <3>1. CASE Cardinality(batch) < Limit
      BY <1>7, <3>1, Zenon
    <3>2. CASE ~(Cardinality(batch) < Limit)
      <4> DEFINE m == Max(batch) + 1
      <4>1. m \in Nat /\ m > DayEnd(d)
        BY <1>7, <1>13, <3>2, Zenon DEF IsLast, NextCursor, d
      <4>2. \A t \in Nat : t < DayStart(d + 1) => t < m
        <5> HIDE DEF m
        <5> QED
          BY <1>8, <4>1, SMT
      <4>3. QED
        BY <1>7, <3>2, <4>2, Zenon
    <3>3. QED
      BY <3>1, <3>2
  <2>2. ASSUME s \in listed, NEW t \in wanted
        PROVE  t \in rows \cup batch
    <3>1. t \in Nat /\ t \in Serves(s) /\ t < DayStart(d + 1)
      BY <1>11, <2>2, Zenon
    <3>2. t < cursor \/ cursor <= t
      BY <1>3, <3>1, SMT
    <3>3. t < cursor => t \in rows
      BY <1>5, <2>2, Zenon
    <3>4. cursor <= t => t \in batch
      BY <2>1, <2>2, <3>1, Zenon
    <3>5. QED
      BY <3>2, <3>3, <3>4, Zenon
  <2>3. job'[j].pc = "put"
    BY <1>4, <1>13, Zenon
  <2>4. j[3] \in listed' => job'[j].asked \subseteq job'[j].rows
    BY <1>4, <1>6, <2>2, Zenon DEF s
  <2>5. QED
    BY <1>4, <1>5, <1>6, <1>10, <2>3, <2>4, Zenon DEF FetchOK
<1>14. QED
  BY <1>12, <1>13

LEMMA FetchIsOK ==
    ASSUME TypeOK, Offers, NEW j \in Jobs, FetchOK(j), Fetching(j)
    PROVE  FetchOK(j)'
<1>1. UNCHANGED exchange
  BY FetchEffect, Zenon
<1>2. CASE Page(j)
  BY <1>1, <1>2, PageIsOK, Zenon
<1>3. Finished(j) => job'[j].pc \notin {"page", "put"}
  BY Zenon DEF Finished
<1>4. job'[j].pc \notin {"page", "put"} => FetchOK(j)'
  BY Zenon DEF FetchOK, InFlight
<1>5. CASE NoCandles(j) \/ Breaks(j)
  <2>1. Finished(j)
    BY <1>5, FailsOutcome, RaisesOutcome, Zenon DEF NoCandles, Breaks
  <2>2. QED
    BY <1>3, <1>4, <2>1, Zenon
<1>6. CASE Put(j)
  BY <1>4, <1>6, PutOutcome, IdleType, Zenon
<1>7. CASE Unanswered(j)
  <2>1. \/ Finished(j)
        \/ /\ job'[j].pc = job[j].pc /\ job'[j].cursor = job[j].cursor
           /\ job'[j].rows = job[j].rows /\ job'[j].asked = job[j].asked
    BY <1>7, UnansweredOutcome, Zenon DEF Unanswered
  <2>2. UNCHANGED <<offered, listed>>
    BY <1>1, Zenon DEF exchange
  <2>3. CASE Finished(j)
    BY <1>3, <1>4, <2>3, Zenon
  <2>4. CASE /\ job'[j].pc = job[j].pc /\ job'[j].cursor = job[j].cursor
             /\ job'[j].rows = job[j].rows /\ job'[j].asked = job[j].asked
    BY <2>2, <2>4, Zenon DEF FetchOK, InFlight, Has
  <2>5. QED
    BY <2>1, <2>3, <2>4, Zenon
<1>8. QED
  BY <1>2, <1>5, <1>6, <1>7, Zenon DEF Fetching, FetchStep

LEMMA StoreInvFetch ==
    ASSUME TypeOK, Offers, StoreInv, NEW j \in Jobs, Fetching(j)
    PROVE  StoreInv'
<1>1. /\ UNCHANGED <<offered, listed>> /\ OnlyFetch(j)
      /\ Stored(j) \/ UNCHANGED <<objects, asked>>
  BY FetchEffect, Zenon DEF exchange, store
<1>2. ASSUME NEW k \in Jobs
      PROVE  FetchOK(k)'
  <2>1. CASE k = j
    BY <2>1, FetchIsOK, Zenon DEF StoreInv
  <2>2. CASE k # j
    BY <1>1, <2>2, Zenon DEF OnlyFetch, StoreInv, FetchOK, InFlight, Has
  <2>3. QED
    BY <2>1, <2>2
<1>3. ASSUME NEW c \in Cells
      PROVE  ObjectOK(c)'
  <2>1. CASE Stored(j) /\ c = Cell(j)
    <3>1. FetchOK(j) /\ c[2] = j[3] /\ Has(c)' = Has(c)
      BY <1>1, <2>1, JobFields, Zenon DEF StoreInv, Has
    <3>2. /\ job[j].pc = "put" /\ job[j].rows # {}
          /\ objects'[c] = job[j].rows /\ asked'[c] = job[j].asked
      BY <2>1, Zenon DEF Stored
    <3>3. /\ job[j].rows \subseteq Has(c)
          /\ c[2] \in listed => job[j].asked \subseteq job[j].rows
      BY <2>1, <3>1, <3>2, Zenon DEF FetchOK, InFlight
    <3>4. QED
      BY <1>1, <3>1, <3>2, <3>3, Zenon DEF ObjectOK
  <2>2. CASE objects'[c] = objects[c] /\ asked'[c] = asked[c]
    BY <1>1, <2>2, Zenon DEF StoreInv, ObjectOK, Has
  <2>3. QED
    BY <1>1, <2>1, <2>2, Zenon DEF Stored
<1>4. QED
  BY <1>2, <1>3, Zenon DEF StoreInv

LEMMA StoreInvStep ==
    ASSUME TypeOK, Offers, StoreInv, Next
    PROVE  StoreInv'
<1>1. CASE Tick \/ \E s \in Symbols : Delist(s) \/ \E m \in 0..(now - 1) : Repair(s, m)
  BY <1>1, ExchangeStep, StoreInvExchange, Zenon
<1>2. CASE \E j \in Jobs : Fetching(j)
  BY <1>2, StoreInvFetch, Zenon
<1>3. CASE DagStep \/ ScriptStep
  BY <1>3, DagLeaves, ScriptLeaves, FetchesAside, StoreInvAside, Zenon
<1>4. CASE \E d \in Dates : LoadDay(d)
  BY <1>4, LoadOutcome, StoreInvAside, Zenon
<1>5. QED
  BY <1>1, <1>2, <1>3, <1>4, Actors, Zenon

LEMMA StoreInvStutter == TypeOK /\ StoreInv /\ UNCHANGED vars => StoreInv'
BY StoreInvAside, Zenon DEF vars

LEMMA StoreInvAlways == Spec => []StoreInv
<1>1. TypeOK /\ Offers /\ StoreInv /\ [Next]_vars => StoreInv'
  BY StoreInvStep, StoreInvStutter, Zenon
<1>2. QED
  BY <1>1, StoreInvInit, TypesAlways, PTL DEF Spec

\* A stored object has every candle its date had at Binance when its fetch began,
\* for every page size and every number of retries.
THEOREM NothingIsSkipped == Spec => []ObjectsWhole
<1>1. StoreInv => ObjectsWhole
  BY Zenon DEF StoreInv, ObjectOK, ObjectsWhole
<1>2. QED
  BY <1>1, StoreInvAlways, PTL

\* No minute lands in two partitions.
THEOREM PartitionsAreDays == Spec => []ObjectsOfTheirDate
<1>1. StoreInv => ObjectsOfTheirDate
  BY Zenon DEF StoreInv, ObjectOK, ObjectsOfTheirDate, Has
<1>2. QED
  BY <1>1, StoreInvAlways, PTL

-----------------------------------------------------------------------------
(* The ingest implements Bronze: minutes pass, and an object is put whole. *)

lake == [c \in Cells |-> objects[c] \ NoObject]

LEMMA ClockMoves ==
    ASSUME TypeOK, Offers, UNCHANGED store,
           Tick \/ \E s \in Symbols : Delist(s) \/ \E m \in 0..(now - 1) : Repair(s, m)
    PROVE  Objects!Pass \/ UNCHANGED <<now * MinuteMs, lake>>
<1>1. UNCHANGED lake
  BY Zenon DEF lake, store
<1>2. CASE Tick
  <2>1. now \in Nat /\ now' = now + 1 /\ now' \in Nat /\ now < now'
    BY <1>2 DEF Tick, TypeOK
  <2>2. now * MinuteMs < now' * MinuteMs
    BY <2>1, Sizes, ProductRises, Zenon
  <2>3. now' * MinuteMs > now * MinuteMs
    BY <2>1, <2>2, Sizes, ProductType, SMT
  <2>4. QED
    BY <1>1, <2>3, Zenon DEF Objects!Pass, lake
<1>3. CASE \E s \in Symbols : Delist(s) \/ \E m \in 0..(now - 1) : Repair(s, m)
  <2>1. now' = now
    BY <1>3, Zenon DEF Delist, Repair
  <2>2. QED
    BY <1>1, <2>1, Zenon
<1>4. QED
  BY <1>2, <1>3, Zenon

LEMMA StoredIsPut ==
    ASSUME TypeOK, Offers, StoreInv, now' = now, NEW j \in Jobs, Stored(j)
    PROVE  Objects!Put(Cell(j))
<1>1. /\ Cell(j) \in Cells /\ Cell(j)[1] \in Dates /\ Cell(j)[2] \in Symbols
      /\ job[j].rows \in SUBSET Nat
  BY JobFields, CellFields, FetchFields, Zenon DEF TypeOK
<1>2. /\ objects'[Cell(j)] = job[j].rows /\ job[j].rows # {} /\ job[j].pc = "put"
      /\ \A c \in Cells : c # Cell(j) => objects'[c] = objects[c]
  BY Zenon DEF Stored
<1>3. job[j].rows \subseteq Has(Cell(j))
  BY <1>2, Zenon DEF StoreInv, FetchOK, InFlight
<1>4. job[j].rows \ NoObject = job[j].rows
  <2>1. -1 \notin Nat
    BY SMT
  <2>2. \A t : t \in job[j].rows \ NoObject <=> t \in job[j].rows
    BY <1>1, <2>1, Zenon DEF NoObject
  <2>3. QED
    BY <2>2, Zenon
<1>5. lake'[Cell(j)] = job[j].rows
  BY <1>1, <1>2, <1>4, Zenon DEF lake
<1>6. OfDay(Cell(j)[1], job[j].rows) = job[j].rows
  <2>1. \A t : t \in OfDay(Cell(j)[1], job[j].rows) <=> t \in job[j].rows
    BY <1>3, Zenon DEF Has, OfDay
  <2>2. QED
    BY <2>1, Zenon
<1>7. \A t \in job[j].rows : t < now * MinuteMs
  BY <1>1, <1>3, Zenon DEF Has, OfDay, Offers
<1>8. lake' = [lake EXCEPT ![Cell(j)] = job[j].rows]
  BY <1>1, <1>2, <1>4, Zenon DEF lake
<1>9. QED
  BY <1>2, <1>5, <1>6, <1>7, <1>8, Zenon DEF Objects!Put, lake

\* The DAG and the script implement Bronze: whatever is retried, cleared, killed or
\* fetched by both at once, an object is put whole, of its own date and of minutes
\* begun, and is never removed.
THEOREM ImplementsBronze == Spec => FillsBronze
<1>1. Init => Objects!Init
  BY Zenon DEF Init, Objects!Init
<1>2. TypeOK /\ Offers /\ StoreInv /\ [Next]_vars => [Objects!Next]_<<now * MinuteMs, lake>>
  <2> SUFFICES ASSUME TypeOK, Offers, StoreInv, [Next]_vars
               PROVE  Objects!Next \/ UNCHANGED <<now * MinuteMs, lake>>
    BY Zenon
  <2>1. CASE Tick \/ \E s \in Symbols : Delist(s) \/ \E m \in 0..(now - 1) : Repair(s, m)
    BY <2>1, ExchangeStep, ClockMoves, Zenon DEF Objects!Next
  <2>2. ASSUME NEW j \in Jobs, Fetching(j)
        PROVE  Objects!Next \/ UNCHANGED <<now * MinuteMs, lake>>
    <3>1. now' = now /\ (Stored(j) \/ UNCHANGED objects) /\ Cell(j) \in Cells
      BY <2>2, FetchEffect, JobFields, Zenon DEF exchange, store
    <3>2. CASE Stored(j)
      BY <3>1, <3>2, StoredIsPut, Zenon DEF Objects!Next
    <3>3. CASE UNCHANGED objects
      BY <3>1, <3>3, Zenon DEF lake
    <3>4. QED
      BY <3>1, <3>2, <3>3
  <2>3. CASE DagStep \/ ScriptStep \/ (\E d \in Dates : LoadDay(d)) \/ UNCHANGED vars
    <3>1. UNCHANGED <<now, objects>>
      BY <2>3, DagLeaves, ScriptLeaves, LoadOutcome, Zenon DEF exchange, store, vars
    <3>2. QED
      BY <3>1, Zenon DEF lake
  <2>4. QED
    BY <2>1, <2>2, <2>3, Actors, Zenon
<1>3. QED
  BY <1>1, <1>2, TypesAlways, StoreInvAlways, PTL DEF Spec, FillsBronze, Objects!Spec, lake

-----------------------------------------------------------------------------
(* What a green date and a script that succeeded are worth.                *)

\* A step of a fetch goes on, ends it with nothing more, or stores the object.
LEMMA FetchFate ==
    ASSUME TypeOK, Offers, NEW j \in Jobs, Fetching(j)
    PROVE  \/ /\ job'[j].pc \in {"page", "put"} /\ job'[j].asked = job[j].asked
              /\ script' = script /\ UNCHANGED store
           \/ Finished(j)
           \/ Put(j)
<1>1. CASE Page(j)
  <2>1. PICK batch : batch = BatchOf(j)
    BY Zenon
  <2>2. job'[j].pc \in {"page", "put"} /\ job'[j].asked = job[j].asked
    BY <1>1, <2>1, PageOutcome, Zenon
  <2>3. QED
    BY <1>1, <2>2, Zenon DEF Page
<1>2. CASE NoCandles(j) \/ Breaks(j)
  BY <1>2, FailsOutcome, RaisesOutcome, Zenon DEF NoCandles, Breaks
<1>3. CASE Unanswered(j)
  BY <1>3, UnansweredOutcome, Zenon DEF Unanswered
<1>4. QED
  BY <1>1, <1>2, <1>3, Zenon DEF Fetching, FetchStep

\* An object is replaced and never removed.
LEMMA ObjectsStay ==
    ASSUME TypeOK, Offers, Next, NEW c \in Cells, objects[c] # NoObject
    PROVE  objects'[c] # NoObject
<1>1. ASSUME NEW j \in Jobs, Fetching(j)
      PROVE  objects'[c] # NoObject
  <2>1. Stored(j) \/ UNCHANGED objects
    BY <1>1, FetchEffect, Zenon DEF store
  <2>2. QED
    BY <2>1, Zenon DEF Stored
<1>2. ~(\E j \in Jobs : Fetching(j)) => UNCHANGED objects
  BY Actors, ExchangeStep, DagLeaves, ScriptLeaves, LoadOutcome, Zenon DEF store
<1>3. QED
  BY <1>1, <1>2, Zenon

\* A task is done when it has stored its object.
LEMMA DoneByPut ==
    ASSUME TypeOK, Offers, Next, NEW k \in Jobs, job'[k].pc = "done"
    PROVE  (job'[k] = job[k]) \/ Put(k)
<1>1. ASSUME NEW j \in Jobs, Fetching(j)
      PROVE  (job'[k] = job[k]) \/ Put(k)
  <2>1. CASE k # j
    BY <1>1, <2>1, FetchEffect, Zenon DEF OnlyFetch
  <2>2. CASE k = j
    BY <1>1, <2>2, FetchFate, Zenon DEF Finished
  <2>3. QED
    BY <2>1, <2>2
<1>2. CASE DagStep \/ ScriptStep
  BY <1>2, FetchesAside, Zenon DEF Begun
<1>3. ~(\E j \in Jobs : Fetching(j)) /\ ~(DagStep \/ ScriptStep) => UNCHANGED job
  BY Actors, ExchangeStep, LoadOutcome, Zenon
<1>4. QED
  BY <1>1, <1>2, <1>3, Zenon

\* A date is registered by validate_day and keeps its universe.
LEMMA RegisteredBy ==
    ASSUME TypeOK, Offers, Next, NEW d \in Dates, stage'[d] = "registered"
    PROVE  /\ universe'[d] = universe[d]
           /\ \/ stage[d] = "registered"
              \/ /\ AllSuccess(d) /\ \A j \in TasksOf(d) : ~Damaged(job[j].rows)
                 /\ UNCHANGED <<job, objects, contested, listed>>
<1>1. CASE DagStep
  <2>1. UNCHANGED <<objects, listed>>
    BY <1>1, DagLeaves, Zenon DEF exchange, store
  <2>2. ASSUME NEW e \in Dates, CheckApi(e)
        PROVE  universe'[d] = universe[d] /\ stage[d] = "registered"
    BY <2>2, CheckApiOutcome, Zenon
  <2>3. ASSUME NEW e \in Dates, ValidateDay(e) \/ UpstreamFailed(e) \/ ApiDown(e)
        PROVE  /\ universe'[d] = universe[d]
               /\ \/ stage[d] = "registered"
                  \/ /\ AllSuccess(d) /\ \A j \in TasksOf(d) : ~Damaged(job[j].rows)
                     /\ UNCHANGED <<job, contested>>
    BY <2>3, StageOutcome, Zenon
  <2>4. ASSUME NEW j \in Jobs, StartTask(j)
        PROVE  universe'[d] = universe[d] /\ stage[d] = "registered"
    BY <2>4, Zenon DEF StartTask, dag
  <2>5. ASSUME NEW j \in Jobs, Clear(j)
        PROVE  universe'[d] = universe[d] /\ stage[d] = "registered"
    BY <2>5, ClearOutcome, JobFields, Zenon
  <2>6. QED
    BY <1>1, <2>1, <2>2, <2>3, <2>4, <2>5, Zenon DEF DagStep, RunStep
<1>2. CASE ~DagStep
  <2>1. UNCHANGED dag
    BY <1>2, Actors, ExchangeStep, FetchEffect, ScriptLeaves, LoadOutcome, Zenon
  <2>2. QED
    BY <2>1, Zenon DEF dag
<1>3. QED
  BY <1>1, <1>2

LEMMA TaskOf ==
    ASSUME TypeOK, NEW d \in Dates, NEW s \in universe[d]
    PROVE  /\ <<d, s>> \in Cells /\ s \in Symbols
           /\ <<"dag", d, s>> \in Jobs /\ <<"dag", d, s>> \in TasksOf(d)
           /\ Cell(<<"dag", d, s>>) = <<d, s>>
<1>1. s \in Symbols
  BY Zenon DEF TypeOK
<1>2. <<"dag", d, s>> \in TasksOf(d)
  BY Zenon DEF TasksOf
<1>3. <<d, s>> \in Cells /\ <<"dag", d, s>> \in Jobs
  BY <1>1 DEF Cells, Jobs
<1>4. Cell(<<"dag", d, s>>) = <<d, s>>
  BY Zenon DEF Cell
<1>5. QED
  BY <1>1, <1>2, <1>3, <1>4, Zenon

\* What a done task and a registered date have stored.
DoneInv ==
    /\ \A j \in Jobs : job[j].pc = "done" => objects[Cell(j)] # NoObject
    /\ \A d \in Dates : stage[d] = "registered" =>
          \A s \in universe[d] : objects[<<d, s>>] # NoObject

LEMMA DoneInit == Init => DoneInv
<1> SUFFICES ASSUME Init PROVE DoneInv
  OBVIOUS
<1>1. \A j \in Jobs : job[j].pc # "done"
  BY IdleType, Zenon DEF Init
<1>2. \A d \in Dates : stage[d] # "registered"
  BY Zenon DEF Init
<1>3. QED
  BY <1>1, <1>2, Zenon DEF DoneInv

LEMMA DoneStep ==
    ASSUME TypeOK, Offers, DoneInv, Next
    PROVE  DoneInv'
<1>1. ASSUME NEW j \in Jobs, job'[j].pc = "done"
      PROVE  objects'[Cell(j)] # NoObject
  <2>1. CASE Put(j)
    BY <2>1, PutOutcome, Zenon DEF Stored
  <2>2. CASE job'[j] = job[j]
    BY <1>1, <2>2, JobFields, ObjectsStay, Zenon DEF DoneInv
  <2>3. QED
    BY <1>1, <2>1, <2>2, DoneByPut, Zenon
<1>2. ASSUME NEW d \in Dates, stage'[d] = "registered", NEW s \in universe'[d]
      PROVE  objects'[<<d, s>>] # NoObject
  <2>1. s \in universe[d]
    BY <1>2, RegisteredBy, Zenon
  <2>2. /\ <<d, s>> \in Cells /\ <<"dag", d, s>> \in Jobs
        /\ <<"dag", d, s>> \in TasksOf(d) /\ Cell(<<"dag", d, s>>) = <<d, s>>
    BY <2>1, TaskOf, Zenon
  <2>3. objects[<<d, s>>] # NoObject
    BY <1>2, <2>1, <2>2, RegisteredBy, Zenon DEF DoneInv, AllSuccess
  <2>4. QED
    BY <2>2, <2>3, ObjectsStay, Zenon
<1>3. QED
  BY <1>1, <1>2, Zenon DEF DoneInv, Cell

LEMMA DoneStutter == DoneInv /\ UNCHANGED vars => DoneInv'
BY Zenon DEF DoneInv, vars, store, dag, Cell

LEMMA DoneAlways == Spec => []DoneInv
<1>1. TypeOK /\ Offers /\ DoneInv /\ [Next]_vars => DoneInv'
  BY DoneStep, DoneStutter, Zenon
<1>2. QED
  BY <1>1, DoneInit, TypesAlways, PTL DEF Spec

\* Whatever was retried or cleared, a green date lacks no symbol of its universe.
THEOREM GreenLacksOnlyDelisted == Spec => []MissingMeansDelisted
<1>1. DoneInv => MissingMeansDelisted
  BY Zenon DEF DoneInv, MissingMeansDelisted, KeysOf
<1>2. QED
  BY <1>1, DoneAlways, PTL

-----------------------------------------------------------------------------
(* A re-fetch of a green date.                                             *)

\* Of a cell that never had two fetches at once, while its symbol is listed: what
\* the store has is what a fetch in flight asked for or less, and the gate's count of
\* a done task or a registered date is what the store has or less.
CellGreen(c) ==
    c \notin contested /\ c[2] \in listed =>
        /\ \A j \in Jobs : Cell(j) = c /\ InFlight(j) /\ objects[c] # NoObject =>
              objects[c] \subseteq job[j].asked
        /\ \A j \in Jobs : Cell(j) = c /\ job[j].pc = "done" => job[j].rows \subseteq objects[c]
        /\ stage[c[1]] = "registered" /\ c[2] \in universe[c[1]] => ~Damaged(objects[c])

\* Two fetches at once contest their cell.
Alone ==
    \A j, k \in Jobs : j # k /\ Cell(j) = Cell(k) /\ InFlight(j) /\ InFlight(k) =>
        Cell(j) \in contested

GreenInv == Alone /\ \A c \in Cells : CellGreen(c)

LEMMA GreenInit == Init => GreenInv
<1> SUFFICES ASSUME Init PROVE GreenInv
  OBVIOUS
<1>1. \A j \in Jobs : ~InFlight(j) /\ job[j].pc # "done"
  BY IdleType, Zenon DEF Init, InFlight
<1>2. \A d \in Dates : stage[d] # "registered"
  BY Zenon DEF Init
<1>3. QED
  BY <1>1, <1>2, CellFields, Zenon DEF GreenInv, Alone, CellGreen

\* More candles pass the gate if fewer did.
LEMMA MorePasses ==
    ASSUME NEW R, NEW S, IsFiniteSet(S), R \subseteq S, ~Damaged(R)
    PROVE  ~Damaged(S)
<1>1. IsFiniteSet(R) /\ Cardinality(R) <= Cardinality(S)
  BY FS_Subset, Zenon
<1>2. Cardinality(R) \in Nat /\ Cardinality(S) \in Nat
  BY <1>1, FS_CardinalityType, Zenon
<1>3. DayLen * PerCent \in Nat
  BY Sizes, ProductType, Zenon
<1>4. QED
  BY <1>1, <1>2, <1>3, SMT DEF Damaged

LEMMA ObjectFinite ==
    ASSUME TypeOK, Offers, StoreInv, NEW c \in Cells, objects[c] # NoObject
    PROVE  IsFiniteSet(objects[c])
<1>1. objects[c] \subseteq offered[c[2]] /\ c[2] \in Symbols
  BY CellFields, Zenon DEF StoreInv, ObjectOK, Has, OfDay
<1>2. QED
  BY <1>1, ServesFinite, FS_Subset, Zenon

LEMMA AloneStep ==
    ASSUME TypeOK, Offers, Alone, Next
    PROVE  Alone' /\ contested \subseteq contested'
<1>1. ASSUME NEW b \in Jobs, Begin(b)
      PROVE  Alone' /\ contested \subseteq contested'
  <2>1. /\ OnlyFetch(b) /\ contested \subseteq contested'
        /\ \A k \in Jobs \ {b} : Cell(k) = Cell(b) /\ InFlight(k) => Cell(b) \in contested'
    BY <1>1, BeginOutcome, Zenon
  <2>2. \A k \in Jobs : k # b => InFlight(k)' = InFlight(k)
    BY <2>1, Zenon DEF OnlyFetch, InFlight
  <2>3. ASSUME NEW j \in Jobs, NEW k \in Jobs, j # k, Cell(j) = Cell(k), InFlight(j)', InFlight(k)'
        PROVE  Cell(j) \in contested'
    <3>1. CASE j = b
      BY <2>1, <2>2, <2>3, <3>1, Zenon
    <3>2. CASE k = b
      BY <2>1, <2>2, <2>3, <3>2, Zenon
    <3>3. CASE j # b /\ k # b
      BY <2>1, <2>2, <2>3, <3>3, Zenon DEF Alone
    <3>4. QED
      BY <3>1, <3>2, <3>3
  <2>4. QED
    BY <2>1, <2>3, Zenon DEF Alone, Cell
<1>2. ASSUME contested' = contested, \A k \in Jobs : InFlight(k)' => InFlight(k)
      PROVE  Alone' /\ contested \subseteq contested'
  BY <1>2, Zenon DEF Alone, Cell
<1>3. ASSUME NEW j \in Jobs, Fetching(j)
      PROVE  contested' = contested /\ \A k \in Jobs : InFlight(k)' => InFlight(k)
  BY <1>3, FetchEffect, Zenon DEF OnlyFetch, InFlight
<1>4. CASE DagStep \/ ScriptStep
  <2>1. CASE \E b \in Jobs : Begin(b)
    BY <1>1, <2>1, Zenon
  <2>2. CASE ~\E b \in Jobs : Begin(b)
    <3>1. contested' = contested
      <4>1. ASSUME DagStep
            PROVE  contested' = contested
        BY <2>2, <4>1, CheckApiOutcome, StageOutcome, ClearOutcome, Zenon
           DEF DagStep, RunStep, StartTask
      <4>2. ASSUME ScriptStep
            PROVE  contested' = contested
        <5>1. \A c \in Cells : ByScript(c) \in Jobs
          BY JobOfCell, Zenon DEF ByScript
        <5>2. QED
          BY <2>2, <4>2, <5>1, StartScriptOutcome, NextCellOutcome, ScriptDiesOutcome,
             ScriptEndsOutcome, Zenon DEF ScriptStep
      <4>3. QED
        BY <1>4, <4>1, <4>2, Zenon
    <3>2. ASSUME NEW k \in Jobs, InFlight(k)'
          PROVE  InFlight(k)
      <4>1. job'[k].pc \in {"page", "put"}
        BY <3>2, Zenon DEF InFlight
      <4>2. ASSUME DagStep
            PROVE  job'[k] = job[k]
        BY <2>2, <4>1, <4>2, CheckApiOutcome, StageOutcome, ClearOutcome, QueuedType, Zenon
           DEF DagStep, RunStep, StartTask, OnlyFetch
      <4>3. ASSUME ScriptStep
            PROVE  job'[k] = job[k]
        <5>1. \A c \in Cells : ByScript(c) \in Jobs
          BY JobOfCell, Zenon DEF ByScript
        <5>2. QED
          BY <2>2, <4>1, <4>3, <5>1, StartScriptOutcome, NextCellOutcome, ScriptDiesOutcome,
             ScriptEndsOutcome, IdleType, Zenon DEF ScriptStep
      <4>4. QED
        BY <1>4, <4>1, <4>2, <4>3, Zenon DEF InFlight
    <3>3. QED
      BY <1>2, <3>1, <3>2, Zenon
  <2>3. QED
    BY <2>1, <2>2
<1>5. CASE UNCHANGED <<job, contested>>
  BY <1>2, <1>5, Zenon DEF InFlight
<1>6. QED
  BY <1>2, <1>3, <1>4, <1>5, Actors, ExchangeStep, LoadOutcome, Zenon

\* An object that replaces another has all of it.
LEMMA ObjectGrows ==
    ASSUME TypeOK, Offers, StoreInv, GreenInv, Next,
           NEW c \in Cells, c \notin contested, c[2] \in listed, objects[c] # NoObject
    PROVE  objects[c] \subseteq objects'[c] /\ IsFiniteSet(objects'[c])
<1>1. CASE objects'[c] = objects[c]
  BY <1>1, ObjectFinite, Zenon
<1>2. ASSUME NEW j \in Jobs, Stored(j), Cell(j) = c
      PROVE  objects[c] \subseteq objects'[c] /\ IsFiniteSet(objects'[c])
  <2>1. job[j].pc = "put" /\ InFlight(j) /\ objects'[c] = job[j].rows
    BY <1>2, Zenon DEF Stored, InFlight
  <2>2. objects[c] \subseteq job[j].asked
    BY <1>2, <2>1, Zenon DEF GreenInv, CellGreen
  <2>3. c[2] = j[3] /\ c[2] \in Symbols
    BY <1>2, JobFields, Zenon
  <2>4. job[j].asked \subseteq job[j].rows /\ job[j].rows \subseteq Has(c)
    BY <1>2, <2>1, <2>3, Zenon DEF StoreInv, FetchOK
  <2>5. job[j].rows \subseteq offered[c[2]]
    BY <2>4, Zenon DEF Has, OfDay
  <2>6. IsFiniteSet(job[j].rows)
    BY <2>3, <2>5, ServesFinite, FS_Subset, Zenon
  <2>7. QED
    BY <2>1, <2>2, <2>4, <2>6, Zenon
<1>3. objects'[c] = objects[c] \/ \E j \in Jobs : Stored(j) /\ Cell(j) = c
  <2>1. ASSUME NEW j \in Jobs, Fetching(j)
        PROVE  objects'[c] = objects[c] \/ (Stored(j) /\ Cell(j) = c)
    BY <2>1, FetchEffect, Zenon DEF Stored, store
  <2>2. ~(\E j \in Jobs : Fetching(j)) => UNCHANGED objects
    BY Actors, ExchangeStep, DagLeaves, ScriptLeaves, LoadOutcome, Zenon DEF store
  <2>3. QED
    BY <2>1, <2>2, Zenon
<1>4. QED
  BY <1>1, <1>2, <1>3, Zenon

\* The first part of CellGreen.
LEMMA AskedForAll ==
    ASSUME TypeOK, Offers, StoreInv, GreenInv, Next,
           NEW c \in Cells, c \notin contested', c[2] \in listed',
           NEW j \in Jobs, Cell(j) = c, InFlight(j)', objects'[c] # NoObject
    PROVE  objects'[c] \subseteq job'[j].asked
<1>1. c \notin contested
  BY AloneStep, Zenon DEF GreenInv
<1>2. listed' \subseteq listed
  BY Actors, ExchangeStep, FetchEffect, DagLeaves, ScriptLeaves, LoadOutcome, Zenon DEF exchange
<1>3. c[2] \in listed
  BY <1>2, Zenon
<1>4. CASE objects'[c] = objects[c] /\ job'[j].asked = job[j].asked /\ InFlight(j)
  BY <1>1, <1>3, <1>4, Zenon DEF GreenInv, CellGreen
<1>5. CASE objects'[c] = objects[c] /\ Begun(j)
  <2>1. j[2] = c[1] /\ j[3] = c[2]
    BY JobFields, Zenon
  <2>2. job'[j].asked = Has(c)
    BY <1>3, <1>5, <2>1, Zenon DEF Begun, Serves, Has
  <2>3. objects[c] \subseteq Has(c)
    BY <1>5, Zenon DEF StoreInv, ObjectOK
  <2>4. QED
    BY <1>5, <2>2, <2>3, Zenon
<1>6. ASSUME NEW k \in Jobs, Fetching(k)
      PROVE  objects'[c] = objects[c] /\ job'[j].asked = job[j].asked /\ InFlight(j)
  <2>1. InFlight(k) /\ OnlyFetch(k) /\ (Stored(k) \/ UNCHANGED store) /\ UNCHANGED contested
    BY <1>6, FetchEffect, Zenon
  <2>2. CASE k = j
    <3>1. job'[j].pc \in {"page", "put"}
      BY Zenon DEF InFlight
    <3>2. ~Finished(j)
      BY <3>1, Zenon DEF Finished
    <3>3. ~Put(j)
      BY <3>1, PutOutcome, IdleType, Zenon
    <3>4. job'[j].asked = job[j].asked /\ UNCHANGED store
      BY <1>6, <2>2, <3>2, <3>3, FetchFate, Zenon
    <3>5. QED
      BY <2>1, <2>2, <3>4, Zenon DEF store
  <2>3. CASE k # j
    <3>1. job'[j] = job[j] /\ InFlight(j)
      BY <2>1, <2>3, Zenon DEF OnlyFetch, InFlight
    <3>2. Cell(k) # c
      BY <1>1, <2>1, <2>3, <3>1, Zenon DEF GreenInv, Alone
    <3>3. objects'[c] = objects[c]
      BY <2>1, <3>2, Zenon DEF Stored, store
    <3>4. QED
      BY <3>1, <3>3, Zenon
  <2>4. QED
    BY <2>2, <2>3
<1>7. ASSUME DagStep \/ ScriptStep
      PROVE  objects'[c] = objects[c] /\ ((job'[j] = job[j] /\ InFlight(j)) \/ Begun(j))
  <2>1. objects' = objects
    BY <1>7, DagLeaves, ScriptLeaves, Zenon DEF store
  <2>2. job'[j] = job[j] \/ job'[j].pc \in {"idle", "ready"} \/ Begun(j)
    BY <1>7, FetchesAside, Zenon
  <2>3. QED
    BY <2>1, <2>2, Zenon DEF InFlight
<1>8. CASE UNCHANGED <<store, job>>
  BY <1>4, <1>8, Zenon DEF store, InFlight
<1>9. QED
  BY <1>4, <1>5, <1>6, <1>7, <1>8, Actors, ExchangeStep, LoadOutcome, Zenon

LEMMA GreenStep ==
    ASSUME TypeOK, Offers, StoreInv, DoneInv, GreenInv, Next
    PROVE  GreenInv'
<1>1. Alone' /\ contested \subseteq contested'
  BY AloneStep, Zenon DEF GreenInv
<1>2. listed' \subseteq listed
  BY Actors, ExchangeStep, FetchEffect, DagLeaves, ScriptLeaves, LoadOutcome, Zenon DEF exchange
<1>3. ASSUME NEW c \in Cells, c \notin contested', c[2] \in listed'
      PROVE  /\ \A j \in Jobs : Cell(j) = c /\ InFlight(j)' /\ objects'[c] # NoObject =>
                   objects'[c] \subseteq job'[j].asked
             /\ \A j \in Jobs : Cell(j) = c /\ job'[j].pc = "done" =>
                   job'[j].rows \subseteq objects'[c]
             /\ stage'[c[1]] = "registered" /\ c[2] \in universe'[c[1]] => ~Damaged(objects'[c])
  <2>1. c \notin contested /\ c[2] \in listed
    BY <1>1, <1>2, <1>3, Zenon
  <2>2. CellGreen(c)
    BY Zenon DEF GreenInv
  <2>3. objects[c] # NoObject => objects[c] \subseteq objects'[c] /\ IsFiniteSet(objects'[c])
    BY <2>1, ObjectGrows, Zenon
  <2>4. ASSUME NEW j \in Jobs, Cell(j) = c, job'[j].pc = "done"
        PROVE  job'[j].rows \subseteq objects'[c]
    <3>1. CASE Put(j)
      BY <2>4, <3>1, PutOutcome, IdleType, Zenon DEF Stored
    <3>2. CASE job'[j] = job[j]
      <4>1. objects[c] # NoObject /\ job[j].rows \subseteq objects[c]
        BY <2>1, <2>2, <2>4, <3>2, Zenon DEF DoneInv, CellGreen
      <4>2. QED
        BY <2>3, <3>2, <4>1, Zenon
    <3>3. QED
      BY <2>4, <3>1, <3>2, DoneByPut, Zenon
  <2>5. ASSUME stage'[c[1]] = "registered", c[2] \in universe'[c[1]]
        PROVE  ~Damaged(objects'[c])
    <3> DEFINE d == c[1]
               s == c[2]
    <3>1. d \in Dates /\ s \in Symbols /\ c = <<d, s>>
      BY CellFields, Zenon
    <3>2. s \in universe[d]
      BY <2>5, <3>1, RegisteredBy, Zenon
    <3>3. CASE stage[d] = "registered"
      <4>1. ~Damaged(objects[c]) /\ objects[c] # NoObject
        BY <2>1, <2>2, <3>1, <3>2, <3>3, Zenon DEF CellGreen, DoneInv
      <4>2. QED
        BY <2>3, <4>1, MorePasses, Zenon
    <3>4. CASE /\ AllSuccess(d) /\ \A j \in TasksOf(d) : ~Damaged(job[j].rows)
               /\ UNCHANGED <<job, objects, contested, listed>>
      <4> DEFINE j == <<"dag", d, s>>
      <4>1. j \in Jobs /\ j \in TasksOf(d) /\ Cell(j) = c
        BY <3>1, <3>2, TaskOf, Zenon
      <4>2. job[j].pc = "done" /\ ~Damaged(job[j].rows)
        BY <3>4, <4>1, Zenon DEF AllSuccess
      <4> HIDE DEF j
      <4>3. job[j].rows \subseteq objects[c] /\ objects[c] # NoObject
        BY <2>1, <2>2, <4>1, <4>2, Zenon DEF CellGreen, DoneInv
      <4>4. IsFiniteSet(objects[c]) /\ objects'[c] = objects[c]
        BY <3>4, <4>3, ObjectFinite, Zenon
      <4>5. QED
        BY <4>2, <4>3, <4>4, MorePasses, Zenon
    <3>5. QED
      BY <2>5, <3>1, <3>3, <3>4, RegisteredBy, Zenon
  <2>6. \A j \in Jobs : Cell(j) = c /\ InFlight(j)' /\ objects'[c] # NoObject =>
            objects'[c] \subseteq job'[j].asked
    BY <1>3, AskedForAll, Zenon
  <2>7. QED
    BY <2>4, <2>5, <2>6, Zenon
<1>4. \A c \in Cells : CellGreen(c)'
  BY <1>3, Zenon DEF CellGreen, Cell
<1>5. QED
  BY <1>1, <1>4, Zenon DEF GreenInv

LEMMA GreenStutter == GreenInv /\ UNCHANGED vars => GreenInv'
BY Zenon DEF GreenInv, Alone, CellGreen, vars, exchange, store, dag, Cell, InFlight, Damaged

LEMMA GreenAlways == Spec => []GreenInv
<1>1. TypeOK /\ Offers /\ StoreInv /\ DoneInv /\ GreenInv /\ [Next]_vars => GreenInv'
  BY GreenStep, GreenStutter, Zenon
<1>2. QED
  BY <1>1, GreenInit, TypesAlways, StoreInvAlways, DoneAlways, PTL DEF Spec

\* A green date stays green through re-fetches, unless two fetches met at a cell.
THEOREM GreenIsForGood == Spec => []GreenStaysComplete
<1>1. ASSUME TypeOK, Offers, StoreInv, DoneInv, GreenInv,
             NEW d \in Dates, stage[d] = "registered", NEW s \in universe[d] \cap listed,
             <<d, s>> \notin contested
      PROVE  /\ objects[<<d, s>>] # NoObject
             /\ Cardinality(objects[<<d, s>>]) * 100 >= DayLen * PerCent
  <2> DEFINE c == <<d, s>>
  <2>1. c \in Cells /\ c[1] = d /\ c[2] = s
    BY <1>1, TaskOf, Zenon
  <2>2. objects[c] # NoObject
    BY <1>1, Zenon DEF DoneInv
  <2>3. ~Damaged(objects[c])
    <3> HIDE DEF c
    <3>1. CellGreen(c) /\ c \notin contested
      BY <1>1, <2>1, Zenon DEF GreenInv, c
    <3>2. QED
      BY <1>1, <2>1, <3>1, Zenon DEF CellGreen
  <2>4. Cardinality(objects[c]) \in Nat
    BY <1>1, <2>1, <2>2, ObjectFinite, FS_CardinalityType, Zenon
  <2>5. DayLen * PerCent \in Nat
    BY Sizes, ProductType, Zenon
  <2>6. Cardinality(objects[c]) * 100 >= DayLen * PerCent
    <3> HIDE DEF c
    <3> QED
      BY <2>3, <2>4, <2>5, SMT DEF Damaged
  <2>7. QED
    BY <2>2, <2>6
<1>2. TypeOK /\ Offers /\ StoreInv /\ DoneInv /\ GreenInv => GreenStaysComplete
  BY <1>1, Zenon DEF GreenStaysComplete
<1>3. QED
  BY <1>2, TypesAlways, StoreInvAlways, DoneAlways, GreenAlways, PTL

-----------------------------------------------------------------------------
(* The exit status of the script.                                          *)

\* While it counts no failure, each cell of its range is stored, to come, or being
\* fetched.
ScriptInv ==
    /\ script.on => script.exit = "none"
    /\ ~script.on => script.todo = {} /\ ~ScriptBusy
    /\ script.on /\ script.failed = 0 => \A c \in script.range :
          objects[c] # NoObject \/ c \in script.todo \/ InFlight(ByScript(c))
    /\ ExitZeroMeansStored

LEMMA Busy == ScriptBusy <=> \E c \in Cells : InFlight(ByScript(c))
BY Zenon DEF ScriptBusy, Cells, ByScript

LEMMA BusyNext == ScriptBusy' <=> \E c \in Cells : InFlight(ByScript(c))'
BY Zenon DEF ScriptBusy, Cells, ByScript

LEMMA ScriptInit == Init => ScriptInv
<1> SUFFICES ASSUME Init PROVE ScriptInv
  OBVIOUS
<1>1. ~script.on /\ script.todo = {} /\ script.exit = "none"
  BY Zenon DEF Init, NotRunning
<1>2. \A j \in Jobs : ~InFlight(j)
  BY IdleType, Zenon DEF Init, InFlight
<1>3. ~ScriptBusy
  BY <1>2, Busy, JobOfCell, Zenon DEF ByScript
<1>4. QED
  BY <1>1, <1>3, Zenon DEF ScriptInv, ExitZeroMeansStored

\* Steps that leave the script's record alone, and its fetches in flight or stored.
LEMMA ScriptInvKept ==
    ASSUME TypeOK, Offers, ScriptInv, Next, script' = script,
           \A c \in Cells : InFlight(ByScript(c)) =>
               InFlight(ByScript(c))' \/ objects'[c] # NoObject,
           \A c \in Cells : InFlight(ByScript(c))' => InFlight(ByScript(c))
    PROVE  ScriptInv'
<1>1. ScriptBusy' => ScriptBusy
  BY Busy, BusyNext, Zenon
<1>2. \A c \in script.range : c \in Cells /\ (objects[c] # NoObject => objects'[c] # NoObject)
  BY ScriptFields, ObjectsStay, Zenon
<1>3. script.on /\ script.failed = 0 => \A c \in script.range :
          objects'[c] # NoObject \/ c \in script.todo \/ InFlight(ByScript(c))'
  BY <1>2, Zenon DEF ScriptInv
<1>4. ExitZeroMeansStored'
  BY <1>2, Zenon DEF ScriptInv, ExitZeroMeansStored
<1>5. QED
  BY <1>1, <1>3, <1>4, Zenon DEF ScriptInv, ByScript

LEMMA ScriptInvFetch ==
    ASSUME TypeOK, Offers, ScriptInv, NEW j \in Jobs, Fetching(j), Next
    PROVE  ScriptInv'
<1>1. OnlyFetch(j) /\ InFlight(j)
  BY FetchEffect, Zenon
<1>2. \A c \in Cells : ByScript(c) \in Jobs /\ Cell(ByScript(c)) = c /\ ByScript(c)[1] = "script"
  BY JobOfCell, Zenon DEF ByScript
<1>3. \A c \in Cells : InFlight(ByScript(c))' => InFlight(ByScript(c))
  BY <1>1, <1>2, Zenon DEF OnlyFetch, InFlight
<1>4. \A c \in Cells : ByScript(c) # j /\ InFlight(ByScript(c)) => InFlight(ByScript(c))'
  BY <1>1, <1>2, Zenon DEF OnlyFetch, InFlight, ByScript
<1>5. CASE job'[j].pc \in {"page", "put"} /\ script' = script
  <2>1. InFlight(j)'
    BY <1>5, Zenon DEF InFlight
  <2>2. \A c \in Cells : InFlight(ByScript(c)) => InFlight(ByScript(c))'
    <3>1. TAKE c \in Cells
    <3>2. ByScript(c) = j => InFlight(ByScript(c))'
      BY <2>1, Zenon DEF ByScript
    <3>3. QED
      BY <1>4, <3>2, Zenon
  <2>3. QED
    BY <1>3, <1>5, <2>2, ScriptInvKept, Zenon
<1>6. CASE Put(j)
  <2>1. Stored(j) /\ script' = script
    BY <1>6, PutOutcome, Zenon
  <2>2. \A c \in Cells : ByScript(c) = j => objects'[c] # NoObject
    BY <1>2, <2>1, Zenon DEF Stored
  <2>3. \A c \in Cells : InFlight(ByScript(c)) =>
            InFlight(ByScript(c))' \/ objects'[c] # NoObject
    BY <1>4, <2>2, Zenon
  <2>4. QED
    BY <1>3, <2>1, <2>3, ScriptInvKept, Zenon
<1>7. CASE Finished(j) /\ j[1] # "script"
  <2>1. script' = script /\ \A c \in Cells : ByScript(c) # j
    BY <1>2, <1>7, Zenon DEF Finished
  <2>2. QED
    BY <1>3, <1>4, <2>1, ScriptInvKept, Zenon
<1>8. CASE Finished(j) /\ j[1] = "script"
  <2>1. FailureCounted
    BY <1>8, Zenon DEF Finished
  <2>2. j = ByScript(Cell(j)) /\ Cell(j) \in Cells
    BY <1>8, JobFields, Zenon DEF ByScript
  <2>3. script.on
    BY <1>1, <2>2, Busy, Zenon DEF ScriptInv, ScriptFields
  <2>4. script'.failed # 0
    BY <2>1, ScriptFields, SMT DEF FailureCounted
  <2>5. script'.on = script.on /\ script'.exit = script.exit
    BY <2>1, Zenon DEF FailureCounted
  <2>6. QED
    BY <2>3, <2>4, <2>5, Zenon DEF ScriptInv, ExitZeroMeansStored
<1>9. QED
  BY <1>5, <1>6, <1>7, <1>8, FetchFate, Zenon

\* A DAG run leaves the script's fetches alone.
LEMMA DagLeavesScript ==
    ASSUME TypeOK, DagStep, NEW k \in Jobs, k[1] = "script"
    PROVE  job'[k] = job[k]
<1>1. ASSUME NEW d \in Dates, CheckApi(d)
      PROVE  job'[k] = job[k]
  BY <1>1, CheckApiOutcome, Zenon
<1>2. ASSUME NEW d \in Dates, ValidateDay(d) \/ UpstreamFailed(d) \/ ApiDown(d)
      PROVE  job'[k] = job[k]
  BY <1>2, StageOutcome, Zenon
<1>3. ASSUME NEW j \in Jobs, StartTask(j)
      PROVE  job'[k] = job[k]
  BY <1>3, BeginOutcome, Zenon DEF StartTask, OnlyFetch
<1>4. ASSUME NEW j \in Jobs, Clear(j)
      PROVE  job'[k] = job[k]
  BY <1>4, ClearOutcome, Zenon DEF OnlyFetch
<1>5. QED
  BY <1>1, <1>2, <1>3, <1>4, Zenon DEF DagStep, RunStep

LEMMA ScriptInvScript ==
    ASSUME TypeOK, Offers, ScriptInv, ScriptStep
    PROVE  ScriptInv'
<1>1. objects' = objects
  BY ScriptLeaves, Zenon DEF store
<1>2. \A c \in Cells : ByScript(c) \in Jobs /\ ByScript(c)[1] = "script"
  BY JobOfCell, Zenon DEF ByScript
<1>3. ASSUME NEW first \in Dates, NEW last \in Dates, NEW force \in BOOLEAN,
             StartScript(first, last, force)
      PROVE  ScriptInv'
  <2>1. script'.on /\ script'.todo = script'.range /\ script'.exit = "none"
    BY <1>3, StartScriptOutcome, Zenon
  <2>2. QED
    BY <2>1, Zenon DEF ScriptInv, ExitZeroMeansStored
<1>4. ASSUME NEW c \in Cells, NextCell(c)
      PROVE  ScriptInv'
  <2>1. /\ ~ScriptBusy /\ c \in script.todo /\ script'.todo = script.todo \ {c}
        /\ script'.on = script.on /\ script'.range = script.range
        /\ script'.failed = script.failed /\ script'.exit = script.exit
        /\ Skips(c) \/ Begin(ByScript(c))
    BY <1>4, NextCellOutcome, Zenon
  <2>2. script.on /\ script.exit = "none"
    BY <2>1, ScriptFields, Zenon DEF ScriptInv
  <2>3. \A e \in Cells : ~InFlight(ByScript(e))
    BY <2>1, Busy, Zenon
  <2>4. objects[c] # NoObject \/ InFlight(ByScript(c))'
    <3>1. Skips(c) => objects[c] # NoObject
      BY Zenon DEF Skips
    <3>2. Begin(ByScript(c)) => job'[ByScript(c)].pc = "page"
      BY <1>2, BeginOutcome, Zenon
    <3>3. QED
      BY <2>1, <3>1, <3>2, Zenon DEF InFlight, ByScript
  <2>5. script.failed = 0 => \A e \in script.range :
            objects[e] # NoObject \/ e \in script'.todo \/ InFlight(ByScript(e))'
    <3>1. ASSUME script.failed = 0, NEW e \in script.range
          PROVE  objects[e] # NoObject \/ e \in script'.todo \/ InFlight(ByScript(e))'
      <4>1. e \in Cells /\ (objects[e] # NoObject \/ e \in script.todo)
        BY <2>2, <2>3, <3>1, ScriptFields, Zenon DEF ScriptInv
      <4>2. CASE e = c
        BY <2>4, <4>2, Zenon
      <4>3. CASE e # c
        BY <2>1, <4>1, <4>3, Zenon
      <4>4. QED
        BY <4>2, <4>3
    <3>2. QED
      BY <3>1, Zenon
  <2>6. QED
    BY <1>1, <2>1, <2>2, <2>5, Zenon DEF ScriptInv, ExitZeroMeansStored
<1>5. CASE ScriptDies
  <2>1. /\ ~script'.on /\ script'.todo = {} /\ script'.exit = "died"
        /\ \A k \in Jobs : k[1] = "script" => job'[k] = Idle
    BY <1>5, ScriptDiesOutcome, Zenon
  <2>2. \A c \in Cells : ~InFlight(ByScript(c))'
    BY <1>2, <2>1, IdleType, Zenon DEF InFlight, ByScript
  <2>3. QED
    BY <2>1, <2>2, BusyNext, Zenon DEF ScriptInv, ExitZeroMeansStored
<1>6. CASE ScriptEnds
  <2>1. /\ script.on /\ script.todo = {} /\ ~ScriptBusy
        /\ ~script'.on /\ script'.todo = {} /\ script'.range = script.range
        /\ script'.exit = (IF script.failed = 0 THEN "0" ELSE "1")
        /\ job' = job
    BY <1>6, ScriptEndsOutcome, Zenon
  <2>2. ~ScriptBusy'
    BY <2>1, Zenon DEF ScriptBusy, InFlight
  <2>3. script'.exit = "0" => \A c \in script.range : objects[c] # NoObject
    <3>1. script'.exit = "0" => script.failed = 0
      BY <2>1, Zenon
    <3>2. \A c \in script.range : c \in Cells
      BY ScriptFields, Zenon
    <3>3. \A c \in script.range : c \notin script.todo /\ ~InFlight(ByScript(c))
      BY <2>1, <3>2, Busy, Zenon
    <3>4. QED
      BY <2>1, <3>1, <3>3, Zenon DEF ScriptInv
  <2>4. QED
    BY <1>1, <2>1, <2>2, <2>3, Zenon DEF ScriptInv, ExitZeroMeansStored
<1>7. QED
  BY <1>3, <1>4, <1>5, <1>6, Zenon DEF ScriptStep

LEMMA ScriptInvStep ==
    ASSUME TypeOK, Offers, ScriptInv, Next
    PROVE  ScriptInv'
<1>1. CASE \E j \in Jobs : Fetching(j)
  BY <1>1, ScriptInvFetch, Zenon
<1>2. CASE ScriptStep
  BY <1>2, ScriptInvScript, Zenon
<1>3. ASSUME script' = script, \A c \in Cells : job'[ByScript(c)] = job[ByScript(c)]
      PROVE  ScriptInv'
  <2>1. \A c \in Cells : InFlight(ByScript(c))' <=> InFlight(ByScript(c))
    BY <1>3, Zenon DEF InFlight, ByScript
  <2>2. QED
    BY <1>3, <2>1, ScriptInvKept, Zenon
<1>4. CASE DagStep
  <2>1. \A c \in Cells : ByScript(c) \in Jobs /\ ByScript(c)[1] = "script"
    BY JobOfCell, Zenon DEF ByScript
  <2>2. \A c \in Cells : job'[ByScript(c)] = job[ByScript(c)]
    BY <1>4, <2>1, DagLeavesScript, Zenon
  <2>3. script' = script
    BY <1>4, DagLeaves, Zenon
  <2>4. QED
    BY <1>3, <2>2, <2>3, Zenon
<1>5. CASE UNCHANGED <<job, script>>
  BY <1>3, <1>5, Zenon
<1>6. QED
  BY <1>1, <1>2, <1>4, <1>5, Actors, ExchangeStep, LoadOutcome, Zenon

LEMMA ScriptInvStutter == ScriptInv /\ UNCHANGED vars => ScriptInv'
BY Zenon DEF ScriptInv, vars, store, ExitZeroMeansStored, ScriptBusy, InFlight, ByScript

\* Exit status 0 is kept through skipped, failed and killed fetches.
THEOREM ExitZeroIsTrue == Spec => []ExitZeroMeansStored
<1>1. TypeOK /\ Offers /\ ScriptInv /\ [Next]_vars => ScriptInv'
  BY ScriptInvStep, ScriptInvStutter, Zenon
<1>2. ScriptInv => ExitZeroMeansStored
  BY Zenon DEF ScriptInv
<1>3. QED
  BY <1>1, <1>2, ScriptInit, TypesAlways, PTL DEF Spec
=============================================================================
