----------------------------- MODULE FeedProofs -----------------------------
(* Proofs about Feed and the query store it extends, for any servers,       *)
(* settings and reactions: the types, that nothing older than the last      *)
(* invalidation is kept, that every spinner has a fetch, and that no        *)
(* counter is shown below zero.                                             *)
EXTENDS Feed, FiniteSetTheorems, WellFoundedInduction, TLAPS

----------------------------------------------------------------------------
(* The identity of a new object.                                           *)

LEMMA LeastNumber ==
  ASSUME NEW T \in SUBSET Nat, T # {}
  PROVE  \E n \in T : \A m \in T : n <= m
<1>1. \E x \in T : \A y \in T : ~ (<<y, x>> \in OpToRel(<, Nat))
  BY NatLessThanWellFounded, WFMin
<1>2. PICK x \in T : \A y \in T : ~ (<<y, x>> \in OpToRel(<, Nat))
  BY <1>1
<1>3. \A y \in T : ~ (y < x)
  BY <1>2 DEF OpToRel
<1> QED BY <1>3

LEMMA NewIdIsNew ==
  ASSUME held \subseteq Nat, IsFiniteSet(held), entry.data.id \in Nat
  PROVE  NewId \in Nat \ {0} /\ NewId \notin held /\ NewId # entry.data.id
<1> DEFINE used == held \cup {entry.data.id}
           k == Cardinality(used)
           Fits(n) == n \notin used /\ 1..(n - 1) \subseteq used
<1>1. used \subseteq Nat /\ IsFiniteSet(used) /\ k \in Nat
  BY FS_AddElement, FS_CardinalityType
<1>2. IsFiniteSet(1..(k + 1)) /\ Cardinality(1..(k + 1)) = k + 1
  <2> HIDE DEF k
  <2> QED BY <1>1, FS_Interval
<1>3. (1..(k + 1)) \ used # {}
  <2>1. SUFFICES ASSUME 1..(k + 1) \subseteq used PROVE FALSE
    OBVIOUS
  <2>2. Cardinality(1..(k + 1)) <= k
    BY <1>1, <2>1, FS_Subset
  <2> QED BY <1>1, <1>2, <2>2
<1>4. PICK n \in (1..(k + 1)) \ used : \A m \in (1..(k + 1)) \ used : n <= m
  <2>1. (1..(k + 1)) \ used \in SUBSET Nat
    OBVIOUS
  <2> HIDE DEF used, k
  <2> QED BY <1>3, <2>1, LeastNumber
<1>5. Fits(n)
  <2> HIDE DEF k
  <2>1. k \in Nat /\ n \in 1..(k + 1)
    BY <1>1, <1>4
  <2>2. ASSUME NEW m \in 1..(n - 1) PROVE m \in used
    BY <1>4, <2>1, <2>2
  <2> QED BY <1>4, <2>2
<1>6. NewId \in 1..(k + 1) /\ NewId \notin used
  <2>1. NewId = CHOOSE m \in 1..(k + 1) : Fits(m)
    BY DEF NewId
  <2> HIDE DEF k, Fits
  <2>2. NewId \in 1..(k + 1) /\ Fits(NewId)
    BY <1>4, <1>5, <2>1
  <2> QED BY <2>2 DEF Fits
<1> HIDE DEF k
<1> QED BY <1>1, <1>6

----------------------------------------------------------------------------
(* The query store.                                                        *)

DataUpTo(n) == [id : Nat, versions : SUBSET (0..n)]

CoreRecord(n) == [pages : [Servers -> SUBSET (0..n)], at : [Servers -> Nat],
                  epoch : Nat, latestReplace : Nat]

EntryRecord(n) == [data : DataUpTo(n), status : {"loading", "success", "error"},
                   hasPendingRefresh : BOOLEAN]

(* A fan-out, in a core that has opened k epochs and a world in which the   *)
(* servers have taken V into account.                                       *)
TaskOK(t, k, V, n) ==
  /\ t \in [epoch : 1..k, waiting : SUBSET Servers, successful : Nat,
            asked : [Servers -> 0..n]]
  /\ t.waiting # {}
  /\ t.successful + Cardinality(t.waiting) <= Cardinality(Servers)
  /\ \A s \in Servers : t.asked[s] <= V[s]

(* No epoch the core has noted is ahead of the last one it opened.          *)
CoreOK(c, n) ==
  /\ c \in CoreRecord(n)
  /\ c.latestReplace <= c.epoch
  /\ \A s \in Servers : c.at[s] <= c.epoch

(* What the core c keeps, and what answers to fan-outs it will accept can   *)
(* bring, is not older than F.                                              *)
Young(c, T, F) ==
  /\ \A s \in Servers : \A v \in c.pages[s] : v >= F[s]
  /\ \A t \in T : t.epoch >= c.latestReplace => \A s \in Servers : t.asked[s] >= F[s]

YoungSince(c, T, l, F) ==
  /\ \A s \in Servers : c.at[s] >= l => \A v \in c.pages[s] : v >= F[s]
  /\ \A t \in T : t.epoch >= l => \A s \in Servers : t.asked[s] >= F[s]

StoreTypes ==
  /\ setting \in Settings /\ latest \in Nat /\ refCount \in Nat
  /\ entry \in EntryRecord(latest)
  /\ version \in [Servers -> 0..latest] /\ floor \in [Servers -> 0..latest]
  /\ \A s \in Servers : floor[s] <= version[s]

FetchOK ==
  /\ CoreOK(core, latest)
  /\ \A t \in tasks : TaskOK(t, core.epoch, version, latest)
  /\ live \in 0..core.epoch
  /\ refCount = 0 => live = 0
  /\ setting.updateMode = "merge" => Young(core, tasks, floor)
  /\ setting.updateMode = "replace" /\ live # 0 => YoungSince(core, tasks, live, floor)

StoreInv == StoreTypes /\ FetchOK /\ SpinnerHasFetch

LEMMA SettingMeans ==
  ASSUME setting \in Settings
  PROVE  /\ setting.servers \subseteq Servers /\ setting.updateMode \in {"merge", "replace"}
         /\ setting.start \subseteq 0..1
         /\ IsFiniteSet(setting.servers) /\ Cardinality(setting.servers) \in Nat
         /\ Cardinality(setting.servers) <= Cardinality(Servers)
         /\ Cardinality(Servers) \in Nat
<1>1. /\ IsFiniteSet(Servers) /\ setting.servers \subseteq Servers
      /\ setting.updateMode \in {"merge", "replace"} /\ setting.start \subseteq 0..1
  BY QueryAssumption DEF Setting
<1> QED BY <1>1, FS_Subset, FS_CardinalityType

LEMMA MergedTyped ==
  ASSUME NEW n \in Nat, NEW c, CoreOK(c, n)
  PROVE  Merged(c) \subseteq 0..n
BY DEF Merged, CoreOK, CoreRecord

LEMMA OnNextTyped ==
  ASSUME NEW n \in Nat, NEW e \in EntryRecord(n), NEW versions \in SUBSET (0..n),
         NEW status \in {"loading", "success", "error"}, NEW ok, NEW pending, NEW id \in Nat
  PROVE  /\ OnNext(e, versions, status, ok, pending, id) \in EntryRecord(n)
         /\ OnNext(e, versions, status, ok, pending, id).status = status
<1> DEFINE d == IF versions = {} \/ (e.data # NoData /\ LocalEmpty(versions, ok))
                THEN e.data ELSE [id |-> id, versions |-> versions]
           p == e.hasPendingRefresh /\ pending # 0 /\ ok = 0
           r == [e EXCEPT !.status = status, !.data = d, !.hasPendingRefresh = p]
<1>1. d \in DataUpTo(n)
  BY DEF EntryRecord, DataUpTo
<1>2. p \in BOOLEAN
  BY DEF EntryRecord
<1>3. OnNext(e, versions, status, ok, pending, id) = r
  BY DEF OnNext
<1> HIDE DEF d, p
<1>4. r \in EntryRecord(n) /\ r.status = status
  BY <1>1, <1>2 DEF EntryRecord
<1> HIDE DEF r
<1> QED BY <1>3, <1>4

LEMMA OnCompleteTyped ==
  ASSUME NEW n \in Nat, NEW e \in EntryRecord(n)
  PROVE  /\ OnComplete(e) \in EntryRecord(n)
         /\ OnComplete(e).status # "loading" /\ OnComplete(e).hasPendingRefresh = FALSE
         /\ OnComplete(e).data = e.data
BY DEF OnComplete, EntryRecord

LEMMA LoadingTyped ==
  ASSUME NEW n \in Nat, NEW e \in EntryRecord(n)
  PROVE  Loading(e) \in EntryRecord(n) /\ Loading(e).data = e.data
BY DEF Loading, EntryRecord

(* A fetch ends in an open fan-out, or in an entry that does not load.      *)
NewTask(epoch) ==
  [epoch |-> epoch, waiting |-> setting.servers, successful |-> 0, asked |-> version]

LEMMA FetchMeans ==
  ASSUME NEW how, NEW patched \in EntryRecord(latest), NEW c, CoreOK(c, latest),
         latest \in Nat, NewId \in Nat, Fetch(how, patched, c)
  PROVE  /\ entry' \in EntryRecord(latest)
         /\ \/ /\ setting.servers # {} /\ core' = NextFanout(c, setting.updateMode)
               /\ live' = c.epoch + 1 /\ tasks' = tasks \cup {NewTask(c.epoch + 1)}
            \/ /\ core' = c /\ live' = 0 /\ tasks' = tasks
               /\ entry'.status # "loading" /\ entry'.hasPendingRefresh = FALSE
<1> DEFINE cached    == Merged(c)
           willFetch == /\ setting.servers # {}
                        /\ \/ how \in {"unset", "default"}
                           \/ how = "offline_first" /\ cached = {}
           next == OnNext(patched, cached, IF willFetch THEN "loading" ELSE "success", 0,
                          IF willFetch THEN Cardinality(setting.servers) ELSE 0, NewId)
           shown == IF cached = {} THEN patched ELSE next
<1>1. cached \in SUBSET (0..latest)
  BY MergedTyped
<1>2. next \in EntryRecord(latest)
  <2> HIDE DEF cached, willFetch
  <2>1. (IF willFetch THEN "loading" ELSE "success") \in {"loading", "success", "error"}
    OBVIOUS
  <2> QED BY <1>1, <2>1, OnNextTyped
<1>3. shown \in EntryRecord(latest)
  BY <1>2
<1>4. /\ entry' = IF willFetch THEN shown ELSE OnComplete(shown)
      /\ IF willFetch
         THEN /\ core' = NextFanout(c, setting.updateMode) /\ live' = c.epoch + 1
              /\ tasks' = tasks \cup {NewTask(c.epoch + 1)}
         ELSE /\ core' = c /\ live' = 0 /\ tasks' = tasks
  BY DEF Fetch, NewTask
<1>5. willFetch => setting.servers # {}
  OBVIOUS
<1> HIDE DEF willFetch, shown
<1> QED BY <1>3, <1>4, <1>5, OnCompleteTyped

LEMMA NextFanoutOK ==
  ASSUME NEW n \in Nat, NEW c, CoreOK(c, n), NEW how
  PROVE  LET d == NextFanout(c, how)
         IN /\ CoreOK(d, n) /\ d.epoch = c.epoch + 1 /\ d.pages = c.pages /\ d.at = c.at
            /\ how = "replace" => d.latestReplace = c.epoch + 1
            /\ how # "replace" => d.latestReplace = c.latestReplace
<1> DEFINE d == NextFanout(c, how)
           e == c.epoch + 1
           r == IF how = "replace" THEN c.epoch + 1 ELSE c.latestReplace
<1>1. d = [c EXCEPT !.epoch = e, !.latestReplace = r]
  BY DEF NextFanout, CoreOK, CoreRecord
<1>2. e \in Nat /\ r \in Nat /\ r <= e /\ c \in CoreRecord(n)
  BY DEF CoreOK, CoreRecord
<1>3. /\ d \in CoreRecord(n) /\ d.epoch = e /\ d.pages = c.pages /\ d.at = c.at
      /\ d.latestReplace = r
  <2> HIDE DEF d, e, r
  <2> QED BY <1>1, <1>2 DEF CoreRecord
<1>4. CoreOK(d, n)
  <2>1. \A s \in Servers : c.at[s] <= e
    BY DEF CoreOK, CoreRecord
  <2> HIDE DEF d, e, r
  <2> QED BY <1>2, <1>3, <2>1 DEF CoreOK
<1> QED BY <1>3, <1>4

LEMMA TaskGrows ==
  ASSUME NEW t, NEW k \in Nat, NEW V, NEW n \in Nat, TaskOK(t, k, V, n),
         NEW l \in Nat, k <= l, NEW m \in Nat, n <= m,
         NEW W, \A s \in Servers : V[s] \in Nat /\ W[s] \in Nat /\ V[s] <= W[s]
  PROVE  TaskOK(t, l, W, m)
<1>1. /\ t.asked \in [Servers -> 0..n] /\ \A s \in Servers : t.asked[s] <= V[s]
  BY DEF TaskOK
<1>2. \A s \in Servers : t.asked[s] <= W[s]
  BY <1>1
<1>3. t.asked \in [Servers -> 0..m]
  BY <1>1
<1> QED BY <1>1, <1>2, <1>3 DEF TaskOK

LEMMA NewTaskOK ==
  ASSUME StoreTypes, setting.servers # {}, NEW k \in Nat
  PROVE  TaskOK(NewTask(k + 1), k + 1, version, latest)
<1>1. /\ setting.servers \subseteq Servers /\ Cardinality(setting.servers) \in Nat
      /\ Cardinality(setting.servers) <= Cardinality(Servers) /\ Cardinality(Servers) \in Nat
  BY SettingMeans DEF StoreTypes
<1>2. \A s \in Servers : version[s] <= version[s]
  BY DEF StoreTypes
<1> QED BY <1>1, <1>2 DEF TaskOK, NewTask, StoreTypes

(* A fetch on a core that is in order, whether it was invalidated just      *)
(* before or not, leaves the store in order.                                *)
LEMMA FetchStep ==
  ASSUME StoreInv, NewId \in Nat, NEW how, NEW patched \in EntryRecord(latest),
         NEW c, CoreOK(c, latest), c.epoch >= core.epoch, Fetch(how, patched, c),
         UNCHANGED <<setting, latest, version>>, refCount' \in Nat \ {0},
         floor' \in [Servers -> 0..latest], \A s \in Servers : floor'[s] <= version[s],
         setting.updateMode = "merge" => Young(c, tasks, floor')
  PROVE  StoreInv'
<1>1. /\ StoreTypes /\ FetchOK /\ latest \in Nat /\ core.epoch \in Nat /\ c.epoch \in Nat
      /\ version \in [Servers -> 0..latest]
  BY DEF StoreInv, StoreTypes, FetchOK, CoreOK, CoreRecord
<1>2. /\ entry' \in EntryRecord(latest)
      /\ \/ /\ setting.servers # {} /\ core' = NextFanout(c, setting.updateMode)
            /\ live' = c.epoch + 1 /\ tasks' = tasks \cup {NewTask(c.epoch + 1)}
         \/ /\ core' = c /\ live' = 0 /\ tasks' = tasks
            /\ entry'.status # "loading" /\ entry'.hasPendingRefresh = FALSE
  BY <1>1, FetchMeans
<1>3. StoreTypes'
  BY <1>1, <1>2 DEF StoreTypes
<1>4. \A k \in Nat : k >= core.epoch => \A t \in tasks : TaskOK(t, k, version, latest)
  BY <1>1, TaskGrows DEF FetchOK
<1>5. \A s \in Servers : version[s] >= floor'[s]
  BY <1>1
<1>6. CASE /\ setting.servers # {} /\ core' = NextFanout(c, setting.updateMode)
           /\ live' = c.epoch + 1 /\ tasks' = tasks \cup {NewTask(c.epoch + 1)}
  <2>1. /\ CoreOK(core', latest) /\ core'.epoch = c.epoch + 1 /\ core'.pages = c.pages
        /\ core'.at = c.at
        /\ setting.updateMode # "replace" => core'.latestReplace = c.latestReplace
    BY <1>1, <1>6, NextFanoutOK
  <2>2. \A t \in tasks' : TaskOK(t, core'.epoch, version', latest')
    BY <1>1, <1>4, <1>6, <2>1, NewTaskOK
  <2>3. NewTask(c.epoch + 1).asked = version /\ NewTask(c.epoch + 1).epoch = c.epoch + 1
    BY DEF NewTask
  <2>4. setting.updateMode = "merge" => Young(core', tasks', floor')
    BY <1>5, <1>6, <2>1, <2>3 DEF Young
  <2>5. YoungSince(core', tasks', live', floor')
    <3>1. \A t \in tasks : t.epoch \in Nat /\ t.epoch <= core.epoch
      BY <1>1 DEF FetchOK, TaskOK
    <3>2. \A s \in Servers : c.at[s] \in Nat /\ c.at[s] <= c.epoch
      BY DEF CoreOK, CoreRecord
    <3> QED BY <1>1, <1>5, <1>6, <2>1, <2>3, <3>1, <3>2 DEF YoungSince
  <2>6. FetchOK'
    BY <1>1, <1>6, <2>1, <2>2, <2>4, <2>5 DEF FetchOK
  <2>7. SpinnerHasFetch'
    BY <1>6, <2>3 DEF SpinnerHasFetch
  <2> QED BY <1>3, <2>6, <2>7 DEF StoreInv
<1>7. CASE /\ core' = c /\ live' = 0 /\ tasks' = tasks
           /\ entry'.status # "loading" /\ entry'.hasPendingRefresh = FALSE
  <2>1. \A t \in tasks' : TaskOK(t, core'.epoch, version', latest')
    BY <1>1, <1>4, <1>7
  <2>2. FetchOK'
    BY <1>1, <1>7, <2>1 DEF FetchOK
  <2>3. SpinnerHasFetch'
    BY <1>7 DEF SpinnerHasFetch
  <2> QED BY <1>3, <2>2, <2>3 DEF StoreInv
<1> QED BY <1>2, <1>6, <1>7

LEMMA SubscribeStep ==
  ASSUME StoreInv, NewId \in Nat, NEW how, Subscribe(how)
  PROVE  StoreInv'
<1>1. /\ StoreTypes /\ FetchOK /\ CoreOK(core, latest) /\ core.epoch \in Nat /\ latest \in Nat
      /\ entry \in EntryRecord(latest) /\ refCount \in Nat
  BY DEF StoreInv, StoreTypes, FetchOK, CoreOK, CoreRecord
<1>2. refCount' = refCount + 1 /\ UNCHANGED <<setting, latest, version, floor>>
  BY DEF Subscribe
<1>3. CASE refCount > 0 /\ UNCHANGED <<core, tasks, live, entry>>
  BY <1>1, <1>2, <1>3 DEF StoreInv, StoreTypes, FetchOK, SpinnerHasFetch
<1>4. ASSUME NEW args, NEW patched \in EntryRecord(latest), Fetch(args, patched, core)
      PROVE  StoreInv'
  <2>1. /\ floor' \in [Servers -> 0..latest] /\ \A s \in Servers : floor'[s] <= version[s]
        /\ refCount' \in Nat \ {0} /\ core.epoch >= core.epoch
        /\ setting.updateMode = "merge" => Young(core, tasks, floor')
    BY <1>1, <1>2 DEF StoreTypes, FetchOK
  <2> QED BY <1>1, <1>2, <1>4, <2>1, FetchStep
<1> DEFINE hasData == entry.data # NoData
           recover == ~ hasData /\ entry.status = "error"
           args    == IF recover THEN "default" ELSE how
           patched == IF hasData THEN entry ELSE Loading(entry)
<1>5. patched \in EntryRecord(latest)
  BY <1>1, LoadingTyped
<1>6. (refCount > 0 /\ UNCHANGED <<core, tasks, live, entry>>) \/ Fetch(args, patched, core)
  BY DEF Subscribe
<1> HIDE DEF args, patched
<1> QED BY <1>3, <1>4, <1>5, <1>6

LEMMA UnsubscribeStep ==
  ASSUME StoreInv, Unsubscribe
  PROVE  StoreInv'
<1>1. /\ refCount \in Nat /\ refCount > 0 /\ refCount' = refCount - 1
      /\ live' = IF refCount = 1 THEN 0 ELSE live
      /\ UNCHANGED <<setting, core, tasks, entry, latest, version, floor>>
  BY DEF Unsubscribe, StoreInv, StoreTypes
<1>2. StoreTypes'
  BY <1>1 DEF StoreInv, StoreTypes
<1>3. FetchOK'
  <2>1. core.epoch \in Nat
    BY DEF StoreInv, FetchOK, CoreOK, CoreRecord
  <2> QED BY <1>1, <2>1 DEF StoreInv, FetchOK
<1>4. SpinnerHasFetch'
  BY <1>1 DEF StoreInv, SpinnerHasFetch
<1> QED BY <1>2, <1>3, <1>4 DEF StoreInv

LEMMA InvalidatedOK ==
  ASSUME StoreInv, NEW F
  PROVE  /\ CoreOK(Invalidated(core), latest) /\ Invalidated(core).epoch = core.epoch + 1
         /\ Young(Invalidated(core), tasks, F)
<1> DEFINE P == [s \in Servers |-> {}]
           A == [s \in Servers |-> 0]
           c == [core EXCEPT !.pages = P, !.at = A]
           d == NextFanout(c, "replace")
<1>1. CoreOK(core, latest) /\ core.epoch \in Nat /\ latest \in Nat
  BY DEF StoreInv, StoreTypes, FetchOK, CoreOK, CoreRecord
<1>2. /\ CoreOK(c, latest) /\ c.epoch = core.epoch /\ c.pages = P
  <2>1. /\ P \in [Servers -> SUBSET (0..latest)] /\ A \in [Servers -> Nat]
        /\ core \in CoreRecord(latest) /\ core.latestReplace <= core.epoch
        /\ \A s \in Servers : A[s] <= core.epoch
    BY <1>1 DEF CoreOK
  <2> HIDE DEF P, A
  <2>2. /\ c \in CoreRecord(latest) /\ c.pages = P /\ c.at = A /\ c.epoch = core.epoch
        /\ c.latestReplace = core.latestReplace
    BY <2>1 DEF CoreRecord
  <2> HIDE DEF c
  <2> QED BY <2>1, <2>2 DEF CoreOK
<1>3. Invalidated(core) = d
  BY DEF Invalidated
<1> HIDE DEF c
<1>4. /\ CoreOK(d, latest) /\ d.epoch = core.epoch + 1 /\ d.pages = c.pages
      /\ d.latestReplace = core.epoch + 1
  BY <1>1, <1>2, NextFanoutOK
<1>5. \A t \in tasks : t.epoch \in Nat /\ t.epoch <= core.epoch
  BY <1>1 DEF StoreInv, FetchOK, TaskOK
<1> HIDE DEF d
<1>6. Young(d, tasks, F)
  BY <1>1, <1>2, <1>4, <1>5 DEF Young
<1> QED BY <1>3, <1>4, <1>6

LEMMA RefreshStep ==
  ASSUME StoreInv, NewId \in Nat, NEW strategy, Refresh(strategy)
  PROVE  StoreInv'
<1> DEFINE c == IF strategy = "fetch" THEN core ELSE Invalidated(core)
           F == IF strategy = "fetch" THEN floor ELSE version
           patched == [Loading(entry) EXCEPT !.hasPendingRefresh = TRUE,
                         !.data = IF strategy = "eager" THEN NoData ELSE @]
<1>1. /\ StoreTypes /\ FetchOK /\ CoreOK(core, latest) /\ core.epoch \in Nat /\ latest \in Nat
      /\ entry \in EntryRecord(latest) /\ refCount \in Nat
  BY DEF StoreInv, StoreTypes, FetchOK, CoreOK, CoreRecord
<1>2. /\ CoreOK(c, latest) /\ c.epoch >= core.epoch
      /\ setting.updateMode = "merge" => Young(c, tasks, F)
  BY <1>1, InvalidatedOK DEF FetchOK
<1>3. /\ F \in [Servers -> 0..latest] /\ \A s \in Servers : F[s] <= version[s]
  BY <1>1 DEF StoreTypes
<1>4. patched \in EntryRecord(latest)
  <2>1. NoData \in DataUpTo(latest)
    BY <1>1 DEF NoData, DataUpTo
  <2>2. Loading(entry) \in EntryRecord(latest)
    BY <1>1, LoadingTyped
  <2> QED BY <2>1, <2>2 DEF EntryRecord
<1>5. /\ floor' = F /\ UNCHANGED <<setting, refCount, latest, version>>
      /\ \/ refCount > 0 /\ Fetch("default", patched, c)
         \/ refCount = 0 /\ core' = c /\ UNCHANGED <<tasks, live, entry>>
  BY DEF Refresh
<1> HIDE DEF c, F, patched
<1>6. CASE refCount > 0 /\ Fetch("default", patched, c)
  <2>1. refCount' \in Nat \ {0}
    BY <1>1, <1>5, <1>6
  <2> QED BY <1>1, <1>2, <1>3, <1>4, <1>5, <1>6, <2>1, FetchStep
<1>7. CASE refCount = 0 /\ core' = c /\ UNCHANGED <<tasks, live, entry>>
  <2>1. c.epoch \in Nat
    BY <1>2 DEF CoreOK, CoreRecord
  <2>2. \A t \in tasks : TaskOK(t, c.epoch, version, latest)
    <3>1. \A s \in Servers : version[s] \in Nat
      BY <1>1 DEF StoreTypes
    <3> QED BY <1>1, <1>2, <2>1, <3>1, TaskGrows DEF FetchOK
  <2>3. StoreTypes'
    BY <1>1, <1>3, <1>5, <1>7 DEF StoreTypes
  <2>4. live = 0
    BY <1>1, <1>7 DEF FetchOK
  <2>5. FetchOK'
    BY <1>1, <1>2, <1>5, <1>7, <2>1, <2>2, <2>4 DEF FetchOK
  <2> QED BY <1>5, <1>7, <2>3, <2>5 DEF StoreInv, SpinnerHasFetch
<1> QED BY <1>5, <1>6, <1>7

LEMMA ExtendStep ==
  ASSUME StoreInv, NewId \in Nat, NEW how, Extend(how)
  PROVE  StoreInv'
<1>1. /\ StoreTypes /\ FetchOK /\ CoreOK(core, latest) /\ core.epoch \in Nat /\ latest \in Nat
      /\ entry \in EntryRecord(latest) /\ refCount \in Nat
  BY DEF StoreInv, StoreTypes, FetchOK, CoreOK, CoreRecord
<1>2. /\ refCount > 0 /\ UNCHANGED <<setting, refCount, latest, version, floor>>
      /\ Fetch(how, Loading(entry), core)
  BY DEF Extend
<1>3. Loading(entry) \in EntryRecord(latest)
  BY <1>1, LoadingTyped
<1>4. /\ floor' \in [Servers -> 0..latest] /\ \A s \in Servers : floor'[s] <= version[s]
      /\ refCount' \in Nat \ {0} /\ core.epoch >= core.epoch
      /\ setting.updateMode = "merge" => Young(core, tasks, floor')
  BY <1>1, <1>2 DEF StoreTypes, FetchOK
<1> QED BY <1>1, <1>2, <1>3, <1>4, FetchStep

(* What an answer does to the core.                                        *)
Updated(d, c, s, value, epoch) ==
  \/ d = c
  \/ /\ setting.updateMode = "merge" /\ c.latestReplace <= epoch
     /\ d.pages = [c.pages EXCEPT ![s] = c.pages[s] \cup {value}]
  \/ /\ setting.updateMode = "replace"
     /\ d.pages = [c.pages EXCEPT ![s] = {value}]
     /\ d.at = [c.at EXCEPT ![s] = epoch]

LEMMA UpdateMeans ==
  ASSUME NEW n \in Nat, NEW c, CoreOK(c, n), setting.updateMode \in {"merge", "replace"},
         NEW s \in Servers, NEW value \in 0..n, NEW epoch \in Nat, epoch <= c.epoch,
         NEW d, d = Update(c, s, value, epoch)
  PROVE  /\ CoreOK(d, n) /\ d.epoch = c.epoch /\ d.latestReplace = c.latestReplace
         /\ Updated(d, c, s, value, epoch)
<1> DEFINE P == IF setting.updateMode = "merge" THEN c.pages[s] \cup {value} ELSE {value}
           a == IF setting.updateMode = "merge" /\ c.at[s] >= epoch THEN c.at[s] ELSE epoch
           e == [c EXCEPT !.pages = [c.pages EXCEPT ![s] = P], !.at = [c.at EXCEPT ![s] = a]]
<1>1. /\ c \in CoreRecord(n) /\ c.pages \in [Servers -> SUBSET (0..n)]
      /\ c.at \in [Servers -> Nat] /\ c.epoch \in Nat /\ c.latestReplace \in Nat
      /\ c.latestReplace <= c.epoch /\ \A r \in Servers : c.at[r] <= c.epoch
  BY DEF CoreOK, CoreRecord
<1>2. P \in SUBSET (0..n) /\ a \in Nat /\ a <= c.epoch
  BY <1>1
<1>3. \/ d = c
      \/ /\ setting.updateMode = "merge" /\ c.latestReplace <= epoch /\ d = e
      \/ /\ setting.updateMode = "replace" /\ d = e
  <2>1. CASE setting.updateMode = "merge"
    BY <1>1, <2>1 DEF Update, CoreRecord
  <2>2. CASE setting.updateMode = "replace"
    BY <1>1, <2>2 DEF Update, CoreRecord
  <2> QED BY <2>1, <2>2
<1>4. setting.updateMode = "merge" => P = c.pages[s] \cup {value}
  OBVIOUS
<1>5. setting.updateMode = "replace" => P = {value} /\ a = epoch
  OBVIOUS
<1> HIDE DEF P, a
<1>6. /\ e \in CoreRecord(n) /\ e.pages = [c.pages EXCEPT ![s] = P]
      /\ e.at = [c.at EXCEPT ![s] = a]
      /\ e.epoch = c.epoch /\ e.latestReplace = c.latestReplace
  BY <1>1, <1>2 DEF CoreRecord
<1> HIDE DEF e
<1>7. CoreOK(e, n)
  BY <1>1, <1>2, <1>6 DEF CoreOK
<1> QED BY <1>3, <1>4, <1>5, <1>6, <1>7 DEF Updated

(* The answer belongs to fan-out t of s; it is not older than its question. *)
LEMMA UpdateYoung ==
  ASSUME StoreInv, NEW t \in tasks, NEW s \in Servers, NEW value \in Nat,
         value >= t.asked[s], value <= version[s],
         NEW d, d = Update(core, s, value, t.epoch)
  PROVE  /\ CoreOK(d, latest) /\ d.epoch = core.epoch
         /\ setting.updateMode = "merge" => Young(d, tasks, floor)
         /\ setting.updateMode = "replace" /\ live # 0 => YoungSince(d, tasks, live, floor)
<1>1. /\ CoreOK(core, latest) /\ TaskOK(t, core.epoch, version, latest) /\ latest \in Nat
      /\ core.epoch \in Nat /\ live \in 0..core.epoch /\ core.latestReplace \in Nat
      /\ core.pages \in [Servers -> SUBSET (0..latest)] /\ core.at \in [Servers -> Nat]
      /\ version \in [Servers -> 0..latest] /\ floor \in [Servers -> 0..latest]
      /\ setting.updateMode \in {"merge", "replace"}
  BY SettingMeans DEF StoreInv, StoreTypes, FetchOK, CoreOK, CoreRecord
<1>2. /\ t.epoch \in Nat /\ t.epoch <= core.epoch /\ t.asked[s] \in Nat
      /\ value \in 0..latest
  BY <1>1 DEF TaskOK
<1>3. /\ CoreOK(d, latest) /\ d.epoch = core.epoch /\ d.latestReplace = core.latestReplace
      /\ Updated(d, core, s, value, t.epoch)
  BY <1>1, <1>2, UpdateMeans
<1>4. ASSUME setting.updateMode = "merge" PROVE Young(d, tasks, floor)
  <2>1. Young(core, tasks, floor)
    BY <1>4 DEF StoreInv, FetchOK
  <2>2. core.latestReplace <= t.epoch => value >= floor[s]
    <3>1. core.latestReplace <= t.epoch => t.asked[s] >= floor[s]
      BY <1>1, <1>2, <2>1 DEF Young
    <3> QED BY <1>1, <1>2, <3>1
  <2> QED BY <1>1, <1>3, <1>4, <2>1, <2>2 DEF Young, Updated
<1>5. ASSUME setting.updateMode = "replace", live # 0 PROVE YoungSince(d, tasks, live, floor)
  <2>1. YoungSince(core, tasks, live, floor)
    BY <1>5 DEF StoreInv, FetchOK
  <2>2. t.epoch >= live => value >= floor[s]
    <3>1. t.epoch >= live => t.asked[s] >= floor[s]
      BY <1>1, <1>2, <2>1 DEF YoungSince
    <3> QED BY <1>1, <1>2, <3>1
  <2> QED BY <1>1, <1>2, <1>3, <1>5, <2>1, <2>2 DEF YoungSince, Updated
<1> QED BY <1>3, <1>4, <1>5

(* Fan-outs whose epochs and questions are those of T stay young.          *)
LEMMA YoungShrinks ==
  ASSUME NEW c, NEW T, NEW U, NEW F, NEW l,
         \A u \in U : \E t \in T : u.epoch = t.epoch /\ u.asked = t.asked
  PROVE  /\ Young(c, T, F) => Young(c, U, F)
         /\ YoungSince(c, T, l, F) => YoungSince(c, U, l, F)
BY DEF Young, YoungSince

LEMMA AnswerStep ==
  ASSUME StoreInv, NewId \in Nat, NEW t \in tasks, NEW s \in Servers,
         NEW succeeds \in BOOLEAN, NEW value \in Nat, Answer(t, s, succeeds, value),
         succeeds => value >= t.asked[s] /\ value <= version[s]
  PROVE  StoreInv'
<1> DEFINE ok == IF succeeds THEN t.successful + 1 ELSE t.successful
           rest == t.waiting \ {s}
           left == [t EXCEPT !.waiting = rest, !.successful = ok]
           status == IF Merged(core') = {} THEN "error" ELSE "success"
           next == OnNext(entry, Merged(core'), status, left.successful, 0, NewId)
<1>1. /\ StoreTypes /\ FetchOK /\ CoreOK(core, latest) /\ core.epoch \in Nat /\ latest \in Nat
      /\ entry \in EntryRecord(latest) /\ TaskOK(t, core.epoch, version, latest)
  BY DEF StoreInv, StoreTypes, FetchOK, CoreOK, CoreRecord
<1>2. /\ t \in [epoch : 1..core.epoch, waiting : SUBSET Servers, successful : Nat,
                asked : [Servers -> 0..latest]]
      /\ t.successful + Cardinality(t.waiting) <= Cardinality(Servers)
      /\ \A r \in Servers : t.asked[r] <= version[r]
  BY <1>1 DEF TaskOK
<1>3. /\ s \in t.waiting /\ UNCHANGED <<setting, live, refCount, latest, version, floor>>
      /\ core' = IF succeeds THEN Update(core, s, value, t.epoch) ELSE core
  BY DEF Answer
<1>4. /\ tasks' = (tasks \ {t}) \cup (IF rest = {} THEN {} ELSE {left})
      /\ entry' = IF rest = {} /\ t.epoch = live THEN OnComplete(next) ELSE entry
  <2>1. left.waiting = rest
    BY <1>2
  <2>2. left = [t EXCEPT !.waiting = @ \ {s}, !.successful = IF succeeds THEN @ + 1 ELSE @]
    BY <1>2
  <2> QED BY <2>1, <2>2 DEF Answer
<1>5. /\ CoreOK(core', latest) /\ core'.epoch = core.epoch
      /\ setting.updateMode = "merge" => Young(core', tasks, floor)
      /\ setting.updateMode = "replace" /\ live # 0 => YoungSince(core', tasks, live, floor)
  <2>1. CASE succeeds
    BY <1>3, <2>1, UpdateYoung
  <2>2. CASE ~ succeeds
    BY <1>1, <1>3, <2>2 DEF FetchOK
  <2> QED BY <2>1, <2>2
<1>6. /\ left.epoch = t.epoch /\ left.asked = t.asked
      /\ rest # {} => TaskOK(left, core.epoch, version, latest)
  <2>1. IsFiniteSet(t.waiting) /\ Cardinality(Servers) \in Nat
    BY <1>2, QueryAssumption, FS_Subset, FS_CardinalityType
  <2>2. Cardinality(rest) = Cardinality(t.waiting) - 1 /\ Cardinality(t.waiting) \in Nat
    BY <1>3, <2>1, FS_RemoveElement, FS_CardinalityType
  <2>3. ok \in Nat /\ ok + Cardinality(rest) <= Cardinality(Servers) /\ rest \in SUBSET Servers
    <3>1. ok \in Nat /\ ok <= t.successful + 1 /\ rest \in SUBSET Servers
      BY <1>2
    <3> HIDE DEF ok, rest
    <3> QED BY <1>2, <2>1, <2>2, <3>1
  <2> HIDE DEF ok, rest
  <2>4. /\ left \in [epoch : 1..core.epoch, waiting : SUBSET Servers, successful : Nat,
                     asked : [Servers -> 0..latest]]
        /\ left.epoch = t.epoch /\ left.asked = t.asked /\ left.waiting = rest
        /\ left.successful = ok
    BY <1>2, <2>3
  <2> HIDE DEF left
  <2> QED BY <1>2, <2>3, <2>4 DEF TaskOK
<1>7. \A u \in tasks' : \E r \in tasks : u.epoch = r.epoch /\ u.asked = r.asked
  BY <1>4, <1>6
<1>8. next \in EntryRecord(latest)
  <2>1. Merged(core') \in SUBSET (0..latest)
    BY <1>1, <1>5, MergedTyped
  <2>2. status \in {"loading", "success", "error"}
    OBVIOUS
  <2> HIDE DEF status
  <2> QED BY <1>1, <2>1, <2>2, OnNextTyped
<1> HIDE DEF next, left, rest, ok, status
<1>9. /\ StoreTypes'
      /\ rest = {} /\ t.epoch = live =>
           entry'.status # "loading" /\ entry'.hasPendingRefresh = FALSE
      /\ ~ (rest = {} /\ t.epoch = live) => entry' = entry
  BY <1>1, <1>3, <1>4, <1>8, OnCompleteTyped DEF StoreTypes
<1>10. FetchOK'
  <2>1. \A u \in tasks' : TaskOK(u, core'.epoch, version', latest')
    BY <1>1, <1>3, <1>4, <1>5, <1>6 DEF FetchOK
  <2>2. /\ setting.updateMode = "merge" => Young(core', tasks', floor)
        /\ setting.updateMode = "replace" /\ live # 0 => YoungSince(core', tasks', live, floor)
    BY <1>5, <1>7, YoungShrinks
  <2> QED BY <1>1, <1>3, <1>5, <2>1, <2>2 DEF FetchOK
<1>11. SpinnerHasFetch'
  <2>1. SUFFICES ASSUME refCount > 0, entry' = entry, \E u \in tasks : u.epoch = live,
                        ~ (rest = {} /\ t.epoch = live)
                 PROVE  \E u \in tasks' : u.epoch = live
    BY <1>3, <1>9 DEF SpinnerHasFetch, StoreInv
  <2>2. CASE t.epoch = live
    BY <1>4, <1>6, <2>1, <2>2
  <2>3. CASE t.epoch # live
    BY <1>4, <2>1, <2>3
  <2> QED BY <2>2, <2>3
<1> QED BY <1>9, <1>10, <1>11 DEF StoreInv

LEMMA AnswersStep ==
  ASSUME StoreInv, NewId \in Nat, NEW s \in Servers, Answers(s)
  PROVE  StoreInv'
<1>1. PICK t \in tasks : \/ Answer(t, s, FALSE, 0)
                         \/ \E value \in t.asked[s]..version[s] : Answer(t, s, TRUE, value)
  BY DEF Answers
<1>2. t.asked[s] \in Nat /\ version[s] \in Nat
  BY DEF StoreInv, StoreTypes, FetchOK, TaskOK
<1>3. CASE Answer(t, s, FALSE, 0)
  BY <1>3, AnswerStep
<1>4. ASSUME NEW value \in t.asked[s]..version[s], Answer(t, s, TRUE, value)
      PROVE  StoreInv'
  <2>1. value \in Nat /\ value >= t.asked[s] /\ value <= version[s]
    BY <1>2
  <2> QED BY <1>4, <2>1, AnswerStep
<1> QED BY <1>1, <1>3, <1>4

(* The world goes on: servers catch up, the user publishes.                *)
LEMMA WorldStep ==
  ASSUME StoreInv, UNCHANGED <<setting, core, tasks, live, entry, refCount, floor>>,
         latest' \in Nat, latest <= latest', version' \in [Servers -> 0..latest'],
         \A s \in Servers : version[s] <= version'[s]
  PROVE  StoreInv'
<1>1. /\ StoreTypes /\ FetchOK /\ latest \in Nat /\ core.epoch \in Nat
      /\ version \in [Servers -> 0..latest] /\ floor \in [Servers -> 0..latest]
      /\ \A s \in Servers : floor[s] <= version[s]
  BY DEF StoreInv, StoreTypes, FetchOK, CoreOK, CoreRecord
<1>2. 0..latest \subseteq 0..latest'
  BY <1>1
<1>3. entry \in EntryRecord(latest')
  BY <1>1, <1>2 DEF EntryRecord, DataUpTo, StoreTypes
<1>4. CoreOK(core, latest')
  BY <1>1, <1>2 DEF FetchOK, CoreOK, CoreRecord
<1>5. \A t \in tasks : TaskOK(t, core.epoch, version', latest')
  BY <1>1, TaskGrows DEF FetchOK
<1>6. StoreTypes'
  BY <1>1, <1>2, <1>3 DEF StoreTypes
<1>7. FetchOK'
  BY <1>1, <1>4, <1>5 DEF FetchOK
<1> QED BY <1>6, <1>7 DEF StoreInv, SpinnerHasFetch

LEMMA ServeStep ==
  ASSUME StoreInv, NEW s \in Servers, Serve(s)
  PROVE  StoreInv'
<1>1. /\ version \in [Servers -> 0..latest] /\ latest \in Nat /\ version[s] < latest
      /\ version' = [version EXCEPT ![s] = version[s] + 1]
      /\ UNCHANGED <<setting, core, tasks, live, entry, refCount, latest, floor>>
  BY DEF Serve, StoreInv, StoreTypes
<1>2. version' \in [Servers -> 0..latest] /\ \A r \in Servers : version[r] <= version'[r]
  BY <1>1
<1> QED BY <1>1, <1>2, WorldStep

(* What the store does in a step of the application.                       *)
StoreStep ==
  \/ UNCHANGED storeVars
  \/ \E how \in setting.fetchModes : Subscribe(how) \/ Extend(how)
  \/ Unsubscribe
  \/ \E strategy \in {"fetch", "lazy", "eager"} : Refresh(strategy)
  \/ \E s \in setting.servers : Answers(s) \/ Serve(s)
  \/ /\ latest' \in Nat /\ latest <= latest'
     /\ UNCHANGED <<setting, core, tasks, live, entry, refCount, version, floor>>

LEMMA StoreStepOK ==
  ASSUME StoreInv, NewId \in Nat, StoreStep
  PROVE  StoreInv'
<1>1. setting.servers \subseteq Servers
  BY SettingMeans DEF StoreInv, StoreTypes
<1>2. CASE UNCHANGED storeVars
  BY <1>2 DEF storeVars, StoreInv, StoreTypes, FetchOK, SpinnerHasFetch
<1>3. CASE /\ latest' \in Nat /\ latest <= latest'
           /\ UNCHANGED <<setting, core, tasks, live, entry, refCount, version, floor>>
  <2>1. /\ version \in [Servers -> 0..latest] /\ latest \in Nat
        /\ \A s \in Servers : version[s] <= version[s]
    BY DEF StoreInv, StoreTypes
  <2>2. version' \in [Servers -> 0..latest']
    BY <1>3, <2>1
  <2> QED BY <1>3, <2>1, <2>2, WorldStep
<1> QED BY <1>1, <1>2, <1>3, SubscribeStep, ExtendStep, UnsubscribeStep, RefreshStep,
           AnswersStep, ServeStep DEF StoreStep

----------------------------------------------------------------------------
(* The overlays.  A counter with its overlay never falls below zero.       *)

Counter == {c \in [original : Nat, localOffset : Int] : c.original + c.localOffset >= 0}

ReactionOverlay ==
  [previous : Choices, previousTally : Counter, next : Choices, nextTally : Counter,
   total : Counter, upvote : Counter, downvote : Counter]

PostOverlay == [replyCount : Counter, reaction : ReactionOverlay]

Post == [replyCount : Nat, total : Nat, upvote : Nat, downvote : Nat,
         tally : [Reactions -> Nat]]

PostEntry == [originalPost : Post, overlay : PostOverlay]

LEMMA CounterMeans ==
  ASSUME NEW a \in Nat, NEW b \in Int, a + b >= 0
  PROVE  CounterOverlay(a, b) \in Counter
BY DEF CounterOverlay, Counter

LEMMA UndefinedTyped == Undefined \in Counter
BY CounterMeans DEF Undefined

LEMMA GetTyped ==
  ASSUME NEW c \in Counter
  PROVE  Get(c) \in Nat /\ c.original \in Nat /\ c.localOffset \in Int
         /\ Get(c) = c.original + c.localOffset
BY DEF Get, Counter

LEMMA CappedTyped ==
  ASSUME NEW c \in Counter, NEW amount \in Int
  PROVE  Capped(c, amount) \in Counter
<1> DEFINE shift == Larger(amount, -Get(c))
<1>1. shift \in Int /\ Get(c) + shift >= 0
  BY GetTyped DEF Larger
<1>2. LocalUpdate(c, shift) \in Counter
  <2> HIDE DEF shift
  <2>1. c.localOffset + shift \in Int /\ c.original + (c.localOffset + shift) >= 0
    BY <1>1, GetTyped
  <2> QED BY <2>1, GetTyped, CounterMeans, UndefinedTyped DEF LocalUpdate
<1> QED BY <1>2 DEF Capped

LEMMA RemoteUpdateTyped ==
  ASSUME NEW c \in Counter, NEW count \in Nat
  PROVE  RemoteUpdate(c, count) \in Counter
<1>1. CounterOverlay(count, Get(c) - count) \in Counter
  BY GetTyped, CounterMeans
<1> QED BY <1>1, UndefinedTyped DEF RemoteUpdate

LEMMA ReactionCounterTyped ==
  ASSUME NEW current \in Nat, NEW offset \in Int
  PROVE  ReactionCounter(current, offset) \in Counter
<1> DEFINE n == Larger(0, current + offset)
<1>1. n \in Nat
  BY DEF Larger
<1>2. CounterOverlay(current, n - current) \in Counter
  <2> HIDE DEF n
  <2> QED BY <1>1, CounterMeans
<1> QED BY <1>2, UndefinedTyped DEF ReactionCounter

LEMMA OffsetsTyped ==
  ASSUME NEW previous, NEW next
  PROVE  /\ ReactionOffsets(previous, next).total \in {-1, 0, 1}
         /\ ReactionOffsets(previous, next).upvote \in {-1, 0, 1}
         /\ ReactionOffsets(previous, next).downvote \in {-1, 0, 1}
<1>1. \A A, B : Sign(A) - Sign(B) \in {-1, 0, 1}
  BY DEF Sign
<1> QED BY <1>1 DEF ReactionOffsets

LEMMA TallyOverlayTyped ==
  ASSUME NEW post \in Post, NEW reaction \in Choices, NEW change \in Int
  PROVE  TallyOverlay(post, reaction, change) \in Counter
<1>1. reaction # NoReaction => post.tally[reaction] \in Nat
  BY DEF Post, Choices
<1> QED BY <1>1, UndefinedTyped, ReactionCounterTyped DEF TallyOverlay

LEMMA NoReactionOverlayTyped == NoReactionOverlay \in ReactionOverlay
BY UndefinedTyped DEF NoReactionOverlay, ReactionOverlay, Choices

LEMMA AssembleTyped ==
  ASSUME NEW o \in ReactionOverlay
  PROVE  Assemble(o) \in ReactionOverlay
BY NoReactionOverlayTyped DEF Assemble

LEMMA SummaryUpdateTyped ==
  ASSUME NEW existing \in Counter, NEW postValue \in Nat, NEW amount \in Int
  PROVE  SummaryUpdate(existing, postValue, amount) \in Counter
BY CappedTyped, ReactionCounterTyped DEF SummaryUpdate

LEMMA CreateTyped ==
  ASSUME NEW previous \in Choices, NEW next \in Choices, NEW post \in Post
  PROVE  Create(previous, next, post) \in ReactionOverlay
<1> DEFINE offsets == ReactionOffsets(previous, next)
           p == TallyOverlay(post, previous, -1)
           q == TallyOverlay(post, next, 1)
           t == ReactionCounter(post.total, offsets.total)
           u == ReactionCounter(post.upvote, offsets.upvote)
           d == ReactionCounter(post.downvote, offsets.downvote)
           o == [previous |-> previous, previousTally |-> p, next |-> next, nextTally |-> q,
                 total |-> t, upvote |-> u, downvote |-> d]
<1>1. p \in Counter /\ q \in Counter
  BY TallyOverlayTyped
<1>2. t \in Counter /\ u \in Counter /\ d \in Counter
  <2>1. /\ offsets.total \in Int /\ offsets.upvote \in Int /\ offsets.downvote \in Int
    BY OffsetsTyped
  <2>2. post.total \in Nat /\ post.upvote \in Nat /\ post.downvote \in Nat
    BY DEF Post
  <2> HIDE DEF offsets
  <2> QED BY <2>1, <2>2, ReactionCounterTyped
<1>3. o \in ReactionOverlay
  <2> HIDE DEF p, q, t, u, d
  <2> QED BY <1>1, <1>2 DEF ReactionOverlay
<1>4. Create(previous, next, post) = IF previous = next THEN NoReactionOverlay ELSE Assemble(o)
  BY DEF Create
<1> HIDE DEF o
<1> QED BY <1>3, <1>4, AssembleTyped, NoReactionOverlayTyped

LEMMA ReactionLocalUpdateTyped ==
  ASSUME NEW o \in ReactionOverlay, NEW prev \in Choices, NEW next \in Choices,
         NEW post \in Post
  PROVE  ReactionLocalUpdate(o, prev, next, post) \in ReactionOverlay
<1> DEFINE offsets  == ReactionOffsets(prev, next)
           previous == IF prev = o.next THEN o.previous ELSE prev
           removed  == IF previous = next THEN NoReaction ELSE previous
           added    == IF previous = next THEN NoReaction ELSE next
           p == TallyOverlay(post, removed, -1)
           q == TallyOverlay(post, added, 1)
           t == SummaryUpdate(o.total, post.total, offsets.total)
           u == SummaryUpdate(o.upvote, post.upvote, offsets.upvote)
           d == SummaryUpdate(o.downvote, post.downvote, offsets.downvote)
           r == [previous |-> removed, previousTally |-> p, next |-> added, nextTally |-> q,
                 total |-> t, upvote |-> u, downvote |-> d]
<1>1. /\ o.previous \in Choices /\ o.total \in Counter /\ o.upvote \in Counter
      /\ o.downvote \in Counter
  BY DEF ReactionOverlay
<1>2. removed \in Choices /\ added \in Choices
  BY <1>1 DEF Choices
<1>3. p \in Counter /\ q \in Counter
  <2> HIDE DEF removed, added
  <2> QED BY <1>2, TallyOverlayTyped
<1>4. t \in Counter /\ u \in Counter /\ d \in Counter
  <2>1. /\ offsets.total \in Int /\ offsets.upvote \in Int /\ offsets.downvote \in Int
    BY OffsetsTyped
  <2>2. post.total \in Nat /\ post.upvote \in Nat /\ post.downvote \in Nat
    BY DEF Post
  <2> HIDE DEF offsets
  <2> QED BY <1>1, <2>1, <2>2, SummaryUpdateTyped
<1>5. ReactionLocalUpdate(o, prev, next, post) = Assemble(r)
  BY DEF ReactionLocalUpdate
<1>6. r \in ReactionOverlay
  <2> HIDE DEF p, q, t, u, d, removed, added
  <2> QED BY <1>2, <1>3, <1>4 DEF ReactionOverlay
<1> HIDE DEF r
<1> QED BY <1>5, <1>6, AssembleTyped

LEMMA ReactionRemoteUpdateTyped ==
  ASSUME NEW o \in ReactionOverlay, NEW post \in Post
  PROVE  ReactionRemoteUpdate(o, post) \in ReactionOverlay
<1> DEFINE p == TallyRemoteUpdate(o.previousTally, o.previous, post)
           q == TallyRemoteUpdate(o.nextTally, o.next, post)
           t == RemoteUpdate(o.total, post.total)
           u == RemoteUpdate(o.upvote, post.upvote)
           d == RemoteUpdate(o.downvote, post.downvote)
           r == [o EXCEPT !.total = t, !.upvote = u, !.downvote = d, !.previousTally = p,
                          !.nextTally = q]
<1>1. /\ o.previous \in Choices /\ o.next \in Choices /\ o.total \in Counter
      /\ o.upvote \in Counter /\ o.downvote \in Counter
      /\ o.previousTally \in Counter /\ o.nextTally \in Counter
  BY DEF ReactionOverlay
<1>2. /\ post.total \in Nat /\ post.upvote \in Nat /\ post.downvote \in Nat
      /\ \A x \in Choices : x # NoReaction => post.tally[x] \in Nat
  BY DEF Post, Choices
<1>3. p \in Counter /\ q \in Counter
  BY <1>1, <1>2, RemoteUpdateTyped DEF TallyRemoteUpdate
<1>4. t \in Counter /\ u \in Counter /\ d \in Counter
  BY <1>1, <1>2, RemoteUpdateTyped
<1>5. ReactionRemoteUpdate(o, post) = Assemble(r)
  BY DEF ReactionRemoteUpdate, ReactionOverlay
<1>6. r \in ReactionOverlay
  <2> HIDE DEF p, q, t, u, d
  <2> QED BY <1>3, <1>4 DEF ReactionOverlay
<1> HIDE DEF r
<1> QED BY <1>5, <1>6, AssembleTyped

LEMMA UpdatePostEntryTyped ==
  ASSUME NEW e \in PostEntry, NEW post \in Post
  PROVE  UpdatePostEntry(e, post) \in PostEntry
<1> DEFINE c == RemoteUpdate(e.overlay.replyCount, post.replyCount)
           r == ReactionRemoteUpdate(e.overlay.reaction, post)
<1>1. /\ e.overlay.replyCount \in Counter /\ e.overlay.reaction \in ReactionOverlay
      /\ post.replyCount \in Nat
  BY DEF PostEntry, PostOverlay, Post
<1>2. c \in Counter /\ r \in ReactionOverlay
  BY <1>1, RemoteUpdateTyped, ReactionRemoteUpdateTyped
<1>3. UpdatePostEntry(e, post)
        = [originalPost |-> post, overlay |-> [replyCount |-> c, reaction |-> r]]
  BY DEF UpdatePostEntry, UpdatePostOverlay
<1> HIDE DEF c, r
<1> QED BY <1>2, <1>3 DEF PostEntry, PostOverlay

LEMMA ReplyCountAlteredTyped ==
  ASSUME NEW e \in PostEntry, NEW amount \in Int
  PROVE  ReplyCountAltered(e, amount) \in PostEntry
<1> DEFINE base == IF Defined(e.overlay.replyCount) THEN e.overlay.replyCount
                   ELSE CounterOverlay(e.originalPost.replyCount, 0)
           c == Capped(base, amount)
<1>1. /\ e.overlay \in PostOverlay /\ e.overlay.replyCount \in Counter
      /\ e.originalPost.replyCount \in Nat
  BY DEF PostEntry, PostOverlay, Post
<1>2. base \in Counter
  BY <1>1, CounterMeans
<1>3. c \in Counter
  <2> HIDE DEF base
  <2> QED BY <1>2, CappedTyped
<1>4. ReplyCountAltered(e, amount) = [e EXCEPT !.overlay = [e.overlay EXCEPT !.replyCount = c]]
  BY DEF ReplyCountAltered, PostEntry
<1> HIDE DEF c
<1>5. [e.overlay EXCEPT !.replyCount = c] \in PostOverlay
  BY <1>1, <1>3 DEF PostOverlay
<1> QED BY <1>4, <1>5 DEF PostEntry

LEMMA ReactionInjectedTyped ==
  ASSUME NEW e \in PostEntry, NEW prev \in Choices, NEW next \in Choices
  PROVE  ReactionInjected(e, prev, next) \in PostEntry
<1> DEFINE old == e.overlay.reaction
           r == IF old = NoReactionOverlay THEN Create(prev, next, e.originalPost)
                ELSE ReactionLocalUpdate(old, prev, next, e.originalPost)
<1>1. /\ e.overlay \in PostOverlay /\ old \in ReactionOverlay /\ e.originalPost \in Post
  BY DEF PostEntry, PostOverlay
<1>2. r \in ReactionOverlay
  <2> HIDE DEF old
  <2> QED BY <1>1, CreateTyped, ReactionLocalUpdateTyped
<1>3. ReactionInjected(e, prev, next) = [e EXCEPT !.overlay = [e.overlay EXCEPT !.reaction = r]]
  BY DEF ReactionInjected, PostEntry
<1> HIDE DEF r
<1>4. [e.overlay EXCEPT !.reaction = r] \in PostOverlay
  BY <1>1, <1>2 DEF PostOverlay
<1> QED BY <1>3, <1>4 DEF PostEntry

LEMMA TallyOverlaidTyped ==
  ASSUME NEW tally \in [Reactions -> Nat], NEW reaction \in Choices, NEW c \in Counter
  PROVE  TallyOverlaid(tally, reaction, c) \in [Reactions -> Nat]
<1>1. Get(c) \in Nat /\ (reaction # NoReaction => reaction \in Reactions)
  BY GetTyped DEF Choices
<1> QED BY <1>1 DEF TallyOverlaid

(* What is shown of a post are counters.                                    *)
LEMMA ShownTyped ==
  ASSUME NEW post \in Post, NEW overlay \in PostOverlay
  PROVE  ApplyPostOverlay(post, overlay) \in Post
<1> DEFINE r == overlay.reaction
           a == Overlaid(post.replyCount, overlay.replyCount)
           b == Overlaid(post.total, r.total)
           u == Overlaid(post.upvote, r.upvote)
           d == Overlaid(post.downvote, r.downvote)
           p == TallyOverlaid(post.tally, r.previous, r.previousTally)
           q == TallyOverlaid(p, r.next, r.nextTally)
<1>1. overlay.replyCount \in Counter /\ r \in ReactionOverlay
  BY DEF PostOverlay
<1>2. /\ r.previous \in Choices /\ r.next \in Choices /\ r.total \in Counter
      /\ r.upvote \in Counter /\ r.downvote \in Counter
      /\ r.previousTally \in Counter /\ r.nextTally \in Counter
  BY <1>1 DEF ReactionOverlay
<1> HIDE DEF r
<1>3. a \in Nat /\ b \in Nat /\ u \in Nat /\ d \in Nat
  BY <1>1, <1>2, GetTyped DEF Overlaid, Post
<1>4. post.tally \in [Reactions -> Nat]
  BY DEF Post
<1>5. p \in [Reactions -> Nat]
  BY <1>2, <1>4, TallyOverlaidTyped
<1>6. q \in [Reactions -> Nat]
  <2> HIDE DEF p
  <2> QED BY <1>2, <1>5, TallyOverlaidTyped
<1>7. ApplyPostOverlay(post, overlay)
        = [replyCount |-> a, total |-> b, upvote |-> u, downvote |-> d, tally |-> q]
  BY DEF ApplyPostOverlay, r
<1> HIDE DEF a, b, u, d, q
<1> QED BY <1>3, <1>6, <1>7 DEF Post

----------------------------------------------------------------------------
(* The feed cache.                                                         *)

FeedEntry(n) == [data : DataUpTo(n), output : BOOLEAN, listed : BOOLEAN,
                 post : PostEntry, injections : SUBSET Nat]

FeedRecord(n) == [stored : FeedEntry(n), cached : FeedEntry(n)]

LEMMA NoFeedTyped ==
  ASSUME NEW n \in Nat
  PROVE  NoFeed \in FeedEntry(n) /\ NoData \in DataUpTo(n)
<1>1. NoData \in DataUpTo(n)
  BY DEF NoData, DataUpTo
<1>2. NoPost \in Post
  BY DEF NoPost, Post
<1>3. EmptyPostOverlay \in PostOverlay
  BY UndefinedTyped, NoReactionOverlayTyped DEF EmptyPostOverlay, PostOverlay
<1> QED BY <1>1, <1>2, <1>3 DEF NoFeed, FeedEntry, PostEntry

LEMMA CountedFinite ==
  ASSUME NEW v \in Nat
  PROVE  /\ Counted(v) \subseteq 1..(v - 1) /\ IsFiniteSet(Counted(v))
<1>1. Counted(v) \subseteq 1..(v - 1)
  BY DEF Counted
<1>2. IsFiniteSet(1..(v - 1))
  BY FS_Interval
<1> QED BY <1>1, <1>2, FS_Subset

LEMMA HighestTyped ==
  ASSUME NEW S \in SUBSET Nat
  PROVE  Highest(S) \in Nat /\ (Highest(S) = 0 \/ Highest(S) \in S)
<1>1. CASE \E n \in S : Greatest(n, S)
  <2>1. (CHOOSE n \in S : Greatest(n, S)) \in S
    BY <1>1
  <2> QED BY <1>1, <2>1 DEF Highest
<1>2. CASE ~ \E n \in S : Greatest(n, S)
  BY <1>2 DEF Highest
<1> QED BY <1>1, <1>2

LEMMA ReactedWithTyped ==
  ASSUME NEW v \in Nat, NEW S
  PROVE  ReactedWith(v, S) \in Nat
<1> DEFINE T == {i \in Counted(v) : made[i].kind = "react" /\ made[i].reaction \in S}
<1>1. T \subseteq Counted(v)
  OBVIOUS
<1>2. IsFiniteSet(T)
  <2> HIDE DEF T
  <2> QED BY <1>1, CountedFinite, FS_Subset
<1>3. Cardinality(T) \in Nat
  <2> HIDE DEF T
  <2> QED BY <1>2, FS_CardinalityType
<1> QED BY <1>3 DEF ReactedWith

LEMMA RepliesTyped ==
  ASSUME NEW v \in Nat
  PROVE  Cardinality(Replies(v)) \in Nat /\ Replies(v) \subseteq 1..(v - 1)
<1>1. Replies(v) \subseteq Counted(v)
  BY DEF Replies
<1> QED BY <1>1, CountedFinite, FS_Subset, FS_CardinalityType

LEMMA MergedPostTyped ==
  ASSUME NEW n \in Nat, NEW d \in DataUpTo(n)
  PROVE  MergedPost(d) \in Post
<1> DEFINE vs == d.versions \ {0}
           Reacted(S) == Highest({ReactedWith(v, S) : v \in vs})
           Replied == Highest({Cardinality(Replies(v)) : v \in vs})
           T == [r \in Reactions |-> Reacted({r})]
<1>1. vs \subseteq Nat
  BY DEF DataUpTo
<1>2. \A S : Reacted(S) \in Nat
  <2>1. ASSUME NEW S PROVE Reacted(S) \in Nat
    <3>1. {ReactedWith(v, S) : v \in vs} \in SUBSET Nat
      <4> HIDE DEF vs
      <4> QED BY <1>1, ReactedWithTyped
    <3> HIDE DEF vs
    <3> QED BY <3>1, HighestTyped
  <2> HIDE DEF Reacted
  <2> QED BY <2>1
<1>3. Replied \in Nat
  <2>1. {Cardinality(Replies(v)) : v \in vs} \in SUBSET Nat
    <3> HIDE DEF vs
    <3> QED BY <1>1, RepliesTyped
  <2> HIDE DEF vs
  <2> QED BY <2>1, HighestTyped
<1>4. MergedPost(d) = [replyCount |-> Replied, total |-> Reacted(Reactions),
                       upvote |-> Reacted(Positive), downvote |-> Reacted(Reactions \ Positive),
                       tally |-> T]
  BY DEF MergedPost
<1> HIDE DEF Reacted, Replied
<1>5. T \in [Reactions -> Nat]
  BY <1>2
<1> HIDE DEF T
<1> QED BY <1>2, <1>3, <1>4, <1>5 DEF Post

LEMMA DerivedTyped ==
  ASSUME NEW n \in Nat, NEW d \in DataUpTo(n), NEW old \in FeedEntry(n)
  PROVE  Derived(old, d) \in FeedEntry(n)
<1> DEFINE l == old.listed \/ Answered(d)
           p == IF Answered(d) THEN UpdatePostEntry(old.post, MergedPost(d)) ELSE old.post
           i == IF old.data = d THEN old.injections ELSE {}
<1>1. l \in BOOLEAN
  OBVIOUS
<1>2. p \in PostEntry
  BY MergedPostTyped, UpdatePostEntryTyped DEF FeedEntry
<1>3. i \in SUBSET Nat
  BY DEF FeedEntry
<1>4. Derived(old, d) = [data |-> d, output |-> TRUE, listed |-> l, post |-> p, injections |-> i]
  BY DEF Derived
<1> HIDE DEF l, p, i
<1> QED BY <1>1, <1>2, <1>3, <1>4 DEF FeedEntry

LEMMA GetFeedEntryTyped ==
  ASSUME NEW n \in Nat, NEW d \in DataUpTo(n), NEW f \in FeedRecord(n)
  PROVE  GetFeedEntry(f, d) \in FeedEntry(n)
<1>1. f.stored \in FeedEntry(n) /\ f.cached \in FeedEntry(n)
  BY DEF FeedRecord
<1>2. \/ GetFeedEntry(f, d) = f.stored \/ GetFeedEntry(f, d) = f.cached
      \/ GetFeedEntry(f, d) = Derived(f.stored, d)
  BY DEF GetFeedEntry
<1> QED BY <1>1, <1>2, DerivedTyped

LEMMA SelectedTyped ==
  ASSUME NEW n \in Nat, seen \in DataUpTo(n), NEW f \in FeedRecord(n)
  PROVE  Selected(f) \in FeedRecord(n)
<1> DEFINE g == GetFeedEntry(f, seen)
<1>1. g \in FeedEntry(n)
  BY GetFeedEntryTyped
<1>2. Selected(f) = f \/ Selected(f) = [f EXCEPT !.cached = g]
  BY DEF Selected
<1> HIDE DEF g
<1> QED BY <1>1, <1>2 DEF FeedRecord

LEMMA PulledTyped ==
  ASSUME NEW n \in Nat, NEW d \in DataUpTo(n), NEW f \in FeedRecord(n)
  PROVE  Pulled(f, d) \in FeedRecord(n)
BY GetFeedEntryTyped, NoFeedTyped DEF Pulled, FeedRecord

LEMMA ExistingTyped ==
  ASSUME NEW n \in Nat, entry.data \in DataUpTo(n), NEW f \in FeedRecord(n)
  PROVE  /\ Existing(f) \in FeedEntry(n) /\ Existing(f) \in {f.stored, f.cached}
         /\ QueryData(f) \in DataUpTo(n) /\ PurgedCache(f) \in FeedEntry(n)
<1>1. Existing(f) \in {f.stored, f.cached}
  BY DEF Existing
<1>2. Existing(f) \in FeedEntry(n)
  BY <1>1 DEF FeedRecord
<1>3. QueryData(f) \in DataUpTo(n)
  BY <1>2 DEF QueryData, FeedEntry
<1>4. PurgedCache(f) \in FeedEntry(n)
  BY NoFeedTyped DEF PurgedCache, FeedRecord
<1> QED BY <1>1, <1>2, <1>3, <1>4

LEMMA WithPostTyped ==
  ASSUME NEW n \in Nat, entry.data \in DataUpTo(n), seen \in DataUpTo(n),
         NEW f \in FeedRecord(n), NEW post \in PostEntry
  PROVE  WithPost(f, post) \in FeedRecord(n)
<1> DEFINE e == [Existing(f) EXCEPT !.post = post, !.output = FALSE]
           g == [stored |-> e, cached |-> PurgedCache(f)]
<1>1. e \in FeedEntry(n)
  BY ExistingTyped DEF FeedEntry
<1>2. g \in FeedRecord(n)
  <2> HIDE DEF e
  <2> QED BY <1>1, ExistingTyped DEF FeedRecord
<1>3. WithPost(f, post) = f \/ WithPost(f, post) = Selected(g)
  BY DEF WithPost
<1> HIDE DEF g
<1> QED BY <1>2, <1>3, SelectedTyped

LEMMA AlterReplyCountTyped ==
  ASSUME NEW n \in Nat, entry.data \in DataUpTo(n), seen \in DataUpTo(n),
         NEW f \in FeedRecord(n), NEW amount \in Int
  PROVE  AlterReplyCount(f, amount) \in FeedRecord(n)
<1>1. ReplyCountAltered(Existing(f).post, amount) \in PostEntry
  BY ExistingTyped, ReplyCountAlteredTyped DEF FeedEntry
<1> QED BY <1>1, WithPostTyped DEF AlterReplyCount

LEMMA InjectReactionTyped ==
  ASSUME NEW n \in Nat, entry.data \in DataUpTo(n), seen \in DataUpTo(n),
         NEW f \in FeedRecord(n), NEW prev \in Choices, NEW next \in Choices
  PROVE  InjectReaction(f, prev, next) \in FeedRecord(n)
<1>1. ReactionInjected(Existing(f).post, prev, next) \in PostEntry
  BY ExistingTyped, ReactionInjectedTyped DEF FeedEntry
<1> QED BY <1>1, WithPostTyped DEF InjectReaction

LEMMA InjectPostTyped ==
  ASSUME NEW n \in Nat, entry.data \in DataUpTo(n), seen \in DataUpTo(n),
         NEW f \in FeedRecord(n), NEW id \in Nat
  PROVE  InjectPost(f, id) \in FeedRecord(n)
<1> DEFINE i == Existing(f).injections \cup {id}
           e == [Existing(f) EXCEPT !.data = QueryData(f), !.output = FALSE, !.injections = i]
           g == [stored |-> e, cached |-> PurgedCache(f)]
<1>1. i \in SUBSET Nat
  BY ExistingTyped DEF FeedEntry
<1>2. e \in FeedEntry(n)
  <2> HIDE DEF i
  <2> QED BY <1>1, ExistingTyped DEF FeedEntry
<1>3. g \in FeedRecord(n)
  <2> HIDE DEF e
  <2> QED BY <1>2, ExistingTyped DEF FeedRecord
<1>4. InjectPost(f, id) = f \/ InjectPost(f, id) = Selected(g)
  <2>1. e = [Existing(f) EXCEPT !.data = QueryData(f), !.output = FALSE,
                                !.injections = @ \cup {id}]
    BY ExistingTyped DEF FeedEntry
  <2> QED BY <2>1 DEF InjectPost
<1> HIDE DEF g
<1> QED BY <1>3, <1>4, SelectedTyped

----------------------------------------------------------------------------
(* The application.                                                        *)

Event == [kind : {"reply"}, id : Nat] \cup [kind : {"delete"}, target : Nat]
           \cup [kind : {"react"}, reaction : Reactions]

(* The indices of reactions among the events m, and 0 for none.             *)
Reacting(m) == {0} \cup {i \in 1..Len(m) : m[i].kind = "react"}

AuthorOK ==
  /\ made \in Seq(Event) /\ Len(made) = latest - 1 /\ composed \in Nat
  /\ mine \in Reacting(made)
  /\ flows \subseteq [was : Reacting(made), next : Choices]
  /\ syncing \subseteq [kind : {"reply", "delete"}, event : 1..Len(made)]

ShownOK ==
  /\ screen \in {"gone", "on"}
  /\ seen \in DataUpTo(latest)
  /\ feed \in FeedRecord(latest)

HeldOK == held \subseteq Nat /\ IsFiniteSet(held)

FeedInv == StoreInv /\ AuthorOK /\ ShownOK /\ HeldOK

authorVars == <<made, composed, syncing, mine, flows>>

LEMMA StoreMeans ==
  ASSUME FeedInv
  PROVE  /\ latest \in Nat /\ entry.data \in DataUpTo(latest) /\ NewId \in Nat
         /\ feed \in FeedRecord(latest) /\ seen \in DataUpTo(latest)
         /\ screen \in {"gone", "on"}
<1>1. latest \in Nat /\ entry.data \in DataUpTo(latest)
  BY DEF FeedInv, StoreInv, StoreTypes, EntryRecord
<1>2. entry.data.id \in Nat
  BY <1>1 DEF DataUpTo
<1>3. NewId \in Nat
  BY <1>2, NewIdIsNew DEF FeedInv, HeldOK
<1> QED BY <1>1, <1>3 DEF FeedInv, ShownOK

LEMMA AuthorStays ==
  ASSUME AuthorOK, UNCHANGED <<latest, authorVars>>
  PROVE  AuthorOK'
BY DEF AuthorOK, authorVars

LEMMA ReactionOfTyped ==
  ASSUME made \in Seq(Event), NEW i \in Reacting(made)
  PROVE  ReactionOf(i) \in Choices
<1>1. CASE i = 0
  BY <1>1 DEF ReactionOf, Choices
<1>2. CASE i # 0
  <2>1. i \in 1..Len(made) /\ made[i].kind = "react" /\ made[i] \in Event
    BY <1>2 DEF Reacting
  <2>2. made[i].reaction \in Reactions
    BY <2>1 DEF Event
  <2> QED BY <1>2, <2>2 DEF ReactionOf, Choices
<1> QED BY <1>1, <1>2

LEMMA PublishMeans ==
  ASSUME AuthorOK, latest \in Nat, NEW events \in Seq(Event), Publish(events)
  PROVE  /\ StoreStep
         /\ made' \in Seq(Event) /\ Len(made') = latest' - 1 /\ latest' \in Nat
         /\ latest <= latest' /\ Len(made) <= Len(made') /\ Len(made) \in Nat
         /\ Len(made') = Len(made) + Len(events)
         /\ Reacting(made) \subseteq Reacting(made')
         /\ \A i \in 1..Len(events) : made'[Len(made) + i] = events[i]
<1>1. /\ made' = made \o events /\ latest' = latest + Len(events)
      /\ UNCHANGED <<setting, core, tasks, live, entry, refCount, version, floor>>
      /\ made \in Seq(Event) /\ Len(made) = latest - 1
  BY DEF Publish, AuthorOK
<1>2. /\ Len(events) \in Nat /\ Len(made) \in Nat /\ made' \in Seq(Event)
      /\ Len(made') = Len(made) + Len(events)
      /\ \A i \in 1..Len(made) : made'[i] = made[i]
      /\ \A i \in 1..Len(events) : made'[Len(made) + i] = events[i]
  BY <1>1
<1>3. /\ latest' \in Nat /\ latest <= latest' /\ Len(made') = latest' - 1
      /\ Len(made) <= Len(made')
  BY <1>1, <1>2
<1>4. StoreStep
  BY <1>1, <1>3 DEF StoreStep
<1>5. Reacting(made) \subseteq Reacting(made')
  BY <1>2 DEF Reacting
<1>6. \A i \in 1..Len(events) : made'[Len(made) + i] = events[i]
  BY <1>2
<1> QED BY ONLY <1>2, <1>3, <1>4, <1>5, <1>6

(* What every step does: the store takes a step of its own, and the rest    *)
(* stays typed.                                                            *)
StepOK ==
  /\ StoreStep /\ AuthorOK' /\ screen' \in {"gone", "on"}
  /\ seen' \in DataUpTo(latest) /\ feed' \in FeedRecord(latest)

LEMMA NetworkOK ==
  ASSUME FeedInv, Network
  PROVE  StepOK
<1>1. PICK s \in setting.servers : Answers(s) \/ Serve(s)
  BY DEF Network
<1>2. StoreStep
  BY <1>1 DEF StoreStep
<1>3. latest' = latest
  BY <1>1 DEF Answers, Answer, Serve
<1>4. UNCHANGED <<feedVars, authorVars>>
  BY DEF Network, feedVars, authorVars
<1> QED BY <1>2, <1>3, <1>4, AuthorStays, StoreMeans DEF StepOK, FeedInv, feedVars

LEMMA SharingOK ==
  ASSUME FeedInv, Sharing
  PROVE  StepOK
<1>1. setting.strategies \subseteq {"fetch", "lazy", "eager"}
  BY QueryAssumption DEF FeedInv, StoreInv, StoreTypes, Setting
<1>2. StoreStep
  BY <1>1 DEF StoreStep, Sharing
<1>3. latest' = latest
  BY DEF Sharing, Subscribe, Unsubscribe, Refresh, Extend
<1>4. UNCHANGED <<feedVars, authorVars>>
  BY DEF Sharing, feedVars, authorVars
<1> QED BY <1>2, <1>3, <1>4, AuthorStays, StoreMeans DEF StepOK, FeedInv, feedVars

LEMMA ScreenOK ==
  ASSUME FeedInv, Screen
  PROVE  StepOK
<1>1. UNCHANGED authorVars /\ latest' = latest
  BY DEF Screen, Mount, Render, Unmount, Subscribe, Unsubscribe, authorVars, storeVars
<1>2. AuthorOK'
  BY <1>1, AuthorStays DEF FeedInv
<1>3. StoreStep
  BY DEF Screen, Mount, Render, Unmount, StoreStep
<1>4. screen' \in {"gone", "on"}
  BY StoreMeans DEF Screen, Mount, Render, Unmount
<1>5. seen' \in DataUpTo(latest)
  BY StoreMeans, NoFeedTyped DEF Screen, Mount, Render, Unmount
<1>6. feed' \in FeedRecord(latest)
  BY StoreMeans, PulledTyped DEF Screen, Mount, Render, Unmount
<1> QED BY <1>2, <1>3, <1>4, <1>5, <1>6 DEF StepOK

LEMMA InjectedTyped ==
  ASSUME FeedInv
  PROVE  InjectPost(AlterReplyCount(feed, 1), composed + 1) \in FeedRecord(latest)
<1>1. AlterReplyCount(feed, 1) \in FeedRecord(latest)
  BY StoreMeans, AlterReplyCountTyped
<1>2. composed + 1 \in Nat
  BY DEF FeedInv, AuthorOK
<1> QED BY <1>1, <1>2, StoreMeans, InjectPostTyped

LEMMA ComposeOK ==
  ASSUME FeedInv, Compose
  PROVE  StepOK
<1> DEFINE event == [kind |-> "reply", id |-> composed + 1]
<1>1. AuthorOK /\ latest \in Nat /\ composed \in Nat
  BY StoreMeans DEF FeedInv, AuthorOK
<1>2. <<event>> \in Seq(Event) /\ Len(<<event>>) = 1
  <2>1. event \in Event
    BY <1>1 DEF Event
  <2> HIDE DEF event
  <2> QED BY <2>1
<1>3. Publish(<<event>>)
  BY DEF Compose
<1> HIDE DEF event
<1>4. /\ StoreStep /\ made' \in Seq(Event) /\ Len(made') = latest' - 1 /\ latest' \in Nat
      /\ latest <= latest' /\ Len(made) \in Nat /\ Len(made') = Len(made) + 1
      /\ Reacting(made) \subseteq Reacting(made')
  BY <1>1, <1>2, <1>3, PublishMeans
<1>5. /\ composed' = composed + 1 /\ UNCHANGED <<screen, seen, mine, flows>>
      /\ syncing' = syncing \cup {[kind |-> "reply", event |-> Len(made) + 1]}
      /\ feed' = InjectPost(AlterReplyCount(feed, 1), composed + 1)
  BY DEF Compose
<1>6. syncing' \subseteq [kind : {"reply", "delete"}, event : 1..Len(made')]
  BY <1>1, <1>4, <1>5 DEF AuthorOK
<1>7. AuthorOK'
  BY <1>1, <1>4, <1>5, <1>6 DEF AuthorOK
<1> QED BY <1>4, <1>5, <1>7, StoreMeans, InjectedTyped DEF StepOK

LEMMA ComposeFailOK ==
  ASSUME FeedInv, ComposeFail
  PROVE  StepOK
<1>1. /\ UNCHANGED <<storeVars, screen, seen, made, syncing, mine, flows>>
      /\ composed' = composed + 1
      /\ feed' = InjectPost(AlterReplyCount(feed, 1), composed + 1)
  BY DEF ComposeFail
<1>2. AuthorOK'
  BY <1>1 DEF FeedInv, AuthorOK, storeVars
<1> QED BY <1>1, <1>2, StoreMeans, InjectedTyped DEF StepOK, StoreStep

LEMMA DeleteReplyOK ==
  ASSUME FeedInv, NEW i, DeleteReply(i)
  PROVE  StepOK
<1> DEFINE event == [kind |-> "delete", target |-> i]
<1>1. /\ AuthorOK /\ latest \in Nat /\ Len(made) = latest - 1 /\ i \in 1..Len(made)
  <2>1. i \in 1..(latest - 1) /\ latest \in Nat
    BY StoreMeans, RepliesTyped DEF DeleteReply
  <2> QED BY <2>1 DEF FeedInv, AuthorOK
<1>2. <<event>> \in Seq(Event) /\ Len(<<event>>) = 1
  <2>1. event \in Event
    BY <1>1 DEF Event
  <2> HIDE DEF event
  <2> QED BY <2>1
<1>3. Publish(<<event>>)
  BY DEF DeleteReply
<1> HIDE DEF event
<1>4. /\ StoreStep /\ made' \in Seq(Event) /\ Len(made') = latest' - 1 /\ latest' \in Nat
      /\ latest <= latest' /\ Len(made) \in Nat /\ Len(made') = Len(made) + 1
      /\ Reacting(made) \subseteq Reacting(made')
  BY <1>1, <1>2, <1>3, PublishMeans
<1>5. /\ UNCHANGED <<screen, seen, feed, composed, mine, flows>>
      /\ syncing' = syncing \cup {[kind |-> "delete", event |-> i]}
  BY DEF DeleteReply
<1>6. syncing' \subseteq [kind : {"reply", "delete"}, event : 1..Len(made')]
  BY <1>1, <1>4, <1>5 DEF AuthorOK
<1>7. AuthorOK'
  BY <1>1, <1>4, <1>5, <1>6 DEF AuthorOK
<1> QED BY <1>4, <1>5, <1>7, StoreMeans DEF StepOK

LEMMA SyncOK ==
  ASSUME FeedInv, NEW w, Synced(w) \/ SyncFailed(w)
  PROVE  StepOK
<1>1. /\ UNCHANGED <<screen, seen, made, composed, mine, flows>> /\ syncing' = syncing \ {w}
      /\ latest' = latest
  BY DEF Synced, SyncFailed, Refresh, storeVars
<1>2. AuthorOK'
  BY <1>1 DEF FeedInv, AuthorOK
<1>3. StoreStep
  BY DEF Synced, SyncFailed, StoreStep
<1>4. AlterReplyCount(feed, -1) \in FeedRecord(latest)
  BY StoreMeans, AlterReplyCountTyped
<1>5. feed' = feed \/ feed' = AlterReplyCount(feed, -1)
  BY DEF Synced, SyncFailed
<1> QED BY <1>1, <1>2, <1>3, <1>4, <1>5, StoreMeans DEF StepOK

LEMMA TapOK ==
  ASSUME FeedInv, NEW r \in Reactions, Tap(r)
  PROVE  StepOK
<1> DEFINE n == IF ReactionOf(mine) = r THEN NoReaction ELSE r
<1>1. /\ UNCHANGED <<storeVars, screen, seen, feed, made, composed, syncing, mine>>
      /\ flows' = flows \cup {[was |-> mine, next |-> n]}
  BY DEF Tap
<1>2. n \in Choices
  BY DEF Choices
<1> HIDE DEF n
<1>3. AuthorOK'
  BY <1>1, <1>2 DEF FeedInv, AuthorOK, storeVars
<1> QED BY <1>1, <1>3, StoreMeans DEF StepOK, StoreStep

LEMMA ReactionEventsTyped ==
  ASSUME made \in Seq(Event), NEW f \in [was : Reacting(made), next : Choices]
  PROVE  LET events == ReactionEvents(f)
         IN /\ events \in Seq(Event)
            /\ f.next # NoReaction =>
                 Len(events) \in Nat \ {0} /\ events[Len(events)].kind = "react"
            /\ <<[kind |-> "delete", target |-> f.was]>> \in Seq(Event)
<1> DEFINE d == [kind |-> "delete", target |-> f.was]
           r == [kind |-> "react", reaction |-> f.next]
           events == ReactionEvents(f)
<1>1. d \in Event
  BY DEF Event, Reacting
<1>2. f.next # NoReaction => r \in Event /\ r.kind = "react"
  BY DEF Event, Choices
<1>3. events = (IF f.was = 0 THEN <<>> ELSE <<d>>)
                 \o (IF f.next = NoReaction THEN <<>> ELSE <<r>>)
  BY DEF ReactionEvents
<1> HIDE DEF d, r, events
<1>4. CASE f.was = 0
  BY <1>1, <1>2, <1>3, <1>4 DEF d, events
<1>5. CASE f.was # 0
  BY <1>1, <1>2, <1>3, <1>5 DEF d, events
<1> QED BY <1>4, <1>5

LEMMA ReactOK ==
  ASSUME FeedInv, NEW f \in flows, React(f)
  PROVE  StepOK
<1> DEFINE events == ReactionEvents(f)
<1>1. /\ AuthorOK /\ latest \in Nat /\ made \in Seq(Event)
      /\ f \in [was : Reacting(made), next : Choices]
  BY StoreMeans DEF FeedInv, AuthorOK
<1>2. /\ events \in Seq(Event)
      /\ f.next # NoReaction => Len(events) \in Nat \ {0} /\ events[Len(events)].kind = "react"
  BY <1>1, ReactionEventsTyped
<1>3. /\ Publish(events) /\ mine' = IF f.next = NoReaction THEN 0 ELSE Len(made')
      /\ feed' = InjectReaction(feed, ReactionOf(f.was), f.next)
      /\ flows' = flows \ {f} /\ UNCHANGED <<screen, seen, composed, syncing>>
  BY DEF React
<1> HIDE DEF events
<1>4. /\ StoreStep /\ made' \in Seq(Event) /\ Len(made') = latest' - 1 /\ latest' \in Nat
      /\ latest <= latest' /\ Len(made) \in Nat /\ Len(made') = Len(made) + Len(events)
      /\ Len(made) <= Len(made') /\ Reacting(made) \subseteq Reacting(made')
      /\ \A i \in 1..Len(events) : made'[Len(made) + i] = events[i]
  BY <1>1, <1>2, <1>3, PublishMeans
<1>5. mine' \in Reacting(made')
  <2>1. CASE f.next = NoReaction
    BY <1>3, <2>1 DEF Reacting
  <2>2. CASE f.next # NoReaction
    <3>1. Len(events) \in 1..Len(events) /\ events[Len(events)].kind = "react"
      BY <1>2, <2>2
    <3>2. made'[Len(made')].kind = "react"
      BY <1>4, <3>1
    <3>3. Len(made') \in 1..Len(made')
      <4>1. \A m, k \in Nat : k # 0 => m + k \in 1..(m + k)
        OBVIOUS
      <4> QED BY <1>2, <1>4, <2>2, <4>1
    <3> QED BY <1>3, <2>2, <3>2, <3>3 DEF Reacting
  <2> QED BY <2>1, <2>2
<1>6. syncing' \subseteq [kind : {"reply", "delete"}, event : 1..Len(made')]
  BY <1>1, <1>3, <1>4 DEF AuthorOK
<1>7. flows' \subseteq [was : Reacting(made'), next : Choices]
  BY <1>1, <1>3, <1>4 DEF AuthorOK
<1>8. AuthorOK'
  BY <1>1, <1>3, <1>4, <1>5, <1>6, <1>7 DEF AuthorOK
<1>9. feed' \in FeedRecord(latest)
  <2>1. ReactionOf(f.was) \in Choices /\ f.next \in Choices
    BY <1>1, ReactionOfTyped
  <2> QED BY <1>3, <2>1, StoreMeans, InjectReactionTyped
<1> QED BY <1>3, <1>4, <1>8, <1>9, StoreMeans DEF StepOK

LEMMA ReactFailOK ==
  ASSUME FeedInv, NEW f \in flows, ReactFail(f)
  PROVE  StepOK
<1> DEFINE events == <<[kind |-> "delete", target |-> f.was]>>
<1>1. /\ AuthorOK /\ latest \in Nat /\ made \in Seq(Event)
      /\ f \in [was : Reacting(made), next : Choices]
  BY StoreMeans DEF FeedInv, AuthorOK
<1>2. events \in Seq(Event)
  BY <1>1, ReactionEventsTyped
<1>3. /\ (UNCHANGED storeVars /\ made' = made) \/ Publish(events)
      /\ flows' = flows \ {f} /\ UNCHANGED <<screen, seen, feed, composed, syncing, mine>>
  BY DEF ReactFail
<1> HIDE DEF events
<1>4. CASE UNCHANGED storeVars /\ made' = made
  <2>1. AuthorOK'
    BY <1>1, <1>3, <1>4 DEF AuthorOK, storeVars
  <2> QED BY <1>3, <1>4, <2>1, StoreMeans DEF StepOK, StoreStep
<1>5. CASE Publish(events)
  <2>1. /\ StoreStep /\ made' \in Seq(Event) /\ Len(made') = latest' - 1 /\ latest' \in Nat
        /\ latest <= latest' /\ Len(made) \in Nat /\ Len(made) <= Len(made')
        /\ Len(made') \in Nat /\ Reacting(made) \subseteq Reacting(made')
    BY <1>1, <1>2, <1>5, PublishMeans
  <2>2. syncing' \subseteq [kind : {"reply", "delete"}, event : 1..Len(made')]
    BY <1>1, <1>3, <2>1 DEF AuthorOK
  <2>3. flows' \subseteq [was : Reacting(made'), next : Choices]
    BY <1>1, <1>3, <2>1 DEF AuthorOK
  <2>4. AuthorOK'
    BY <1>1, <1>3, <2>1, <2>2, <2>3 DEF AuthorOK
  <2> QED BY <1>3, <2>1, <2>4, StoreMeans DEF StepOK
<1> QED BY <1>3, <1>4, <1>5

LEMMA RefreshReactionsOK ==
  ASSUME FeedInv, RefreshReactions
  PROVE  StepOK
<1> DEFINE S == {i \in Counted(latest) : made[i].kind = "react"}
<1>1. /\ AuthorOK /\ latest \in Nat /\ Len(made) = latest - 1
      /\ UNCHANGED <<storeVars, screen, seen, feed, made, composed, syncing, flows>>
      /\ mine' = Highest(S)
  BY StoreMeans DEF FeedInv, AuthorOK, RefreshReactions
<1>2. S \subseteq Reacting(made) /\ S \subseteq Nat
  <2>1. Counted(latest) \subseteq 1..Len(made)
    BY <1>1, CountedFinite
  <2> QED BY <2>1 DEF Reacting
<1>3. mine' \in Reacting(made)
  <2> HIDE DEF S
  <2> QED BY <1>1, <1>2, HighestTyped DEF Reacting
<1>4. AuthorOK'
  BY <1>1, <1>3 DEF AuthorOK, storeVars
<1> QED BY <1>1, <1>4, StoreMeans DEF StepOK, StoreStep

LEMMA NextOK ==
  ASSUME FeedInv, Next
  PROVE  StepOK
<1>1. Author => StepOK
  BY ComposeOK, ComposeFailOK, DeleteReplyOK, SyncOK, TapOK, ReactOK, ReactFailOK,
     RefreshReactionsOK DEF Author
<1> QED BY <1>1, NetworkOK, SharingOK, ScreenOK DEF Next

----------------------------------------------------------------------------
(* The invariant.                                                          *)

LEMMA StoreInitially ==
  ASSUME QueryInit
  PROVE  StoreInv
<1>1. /\ setting \in Settings /\ latest = 1 /\ refCount = 0 /\ live = 0 /\ tasks = {}
      /\ entry = EMPTY_ENTRY /\ version \in [Servers -> setting.start]
      /\ floor = [s \in Servers |-> 0]
      /\ core = [pages |-> [s \in Servers |-> {}], at |-> [s \in Servers |-> 0],
                 epoch |-> 0, latestReplace |-> 0]
  BY DEF QueryInit
<1>2. version \in [Servers -> 0..1]
  BY <1>1, SettingMeans
<1>3. entry \in EntryRecord(1)
  <2>1. NoData \in DataUpTo(1)
    BY NoFeedTyped
  <2> QED BY <1>1, <2>1 DEF EMPTY_ENTRY, EntryRecord
<1>4. StoreTypes
  BY <1>1, <1>2, <1>3 DEF StoreTypes
<1>5. CoreOK(core, 1) /\ core.epoch = 0 /\ Young(core, {}, floor)
  BY <1>1 DEF CoreOK, CoreRecord, Young
<1>6. FetchOK
  BY <1>1, <1>5 DEF FetchOK
<1>7. SpinnerHasFetch
  BY <1>1 DEF SpinnerHasFetch
<1> QED BY <1>4, <1>6, <1>7 DEF StoreInv

LEMMA FeedInitially == Init => FeedInv
<1>1. SUFFICES ASSUME Init PROVE FeedInv
  OBVIOUS
<1>2. StoreInv /\ latest = 1 /\ held = {}
  BY <1>1, StoreInitially DEF Init, QueryInit
<1>3. AuthorOK
  BY <1>1, <1>2 DEF Init, AuthorOK, Reacting
<1>4. ShownOK
  BY <1>1, <1>2, NoFeedTyped DEF Init, ShownOK, FeedRecord
<1>5. HeldOK
  BY <1>2, FS_EmptySet DEF HeldOK
<1> QED BY <1>2, <1>3, <1>4, <1>5 DEF FeedInv

LEMMA FeedPreserved == FeedInv /\ [Next]_vars => FeedInv'
<1>1. SUFFICES ASSUME FeedInv, [Next]_vars PROVE FeedInv'
  OBVIOUS
<1>2. CASE UNCHANGED vars
  <2>1. UNCHANGED <<storeVars, held, screen, seen, feed>> /\ UNCHANGED authorVars
    BY <1>2 DEF vars, feedVars, authorVars
  <2>2. StoreInv' /\ latest' = latest
    BY <1>1, <2>1 DEF FeedInv, StoreInv, StoreTypes, FetchOK, SpinnerHasFetch, storeVars
  <2>3. AuthorOK'
    BY <1>1, <2>1, <2>2, AuthorStays DEF FeedInv
  <2> QED BY <1>1, <2>1, <2>2, <2>3 DEF FeedInv, ShownOK, HeldOK
<1>3. CASE Next
  <2>1. StepOK
    BY <1>1, <1>3, NextOK
  <2>2. StoreInv'
    BY <1>1, <2>1, StoreMeans, StoreStepOK DEF FeedInv, StepOK
  <2>3. latest \in Nat /\ latest' \in Nat /\ latest <= latest'
    <3>1. latest \in Nat /\ latest' \in Nat
      BY <1>1, <2>2 DEF FeedInv, StoreInv, StoreTypes
    <3>2. latest' = latest \/ latest <= latest'
      BY <2>1 DEF StepOK, StoreStep, storeVars, Subscribe, Extend, Unsubscribe, Refresh,
                  Answers, Answer, Serve
    <3> QED BY <3>1, <3>2
  <2>4. DataUpTo(latest) \subseteq DataUpTo(latest')
    BY <2>3 DEF DataUpTo
  <2>5. FeedEntry(latest) \subseteq FeedEntry(latest')
    BY <2>4 DEF FeedEntry
  <2>6. ShownOK'
    BY <2>1, <2>4, <2>5 DEF StepOK, ShownOK, FeedRecord
  <2>7. HeldOK'
    <3>1. held' = {seen'.id, feed'.stored.data.id, feed'.cached.data.id}
      BY <1>3 DEF Next
    <3>2. /\ seen'.id \in Nat /\ feed'.stored.data.id \in Nat
          /\ feed'.cached.data.id \in Nat
      BY <2>6 DEF ShownOK, FeedRecord, FeedEntry, DataUpTo
    <3>3. held' = ({seen'.id} \cup {feed'.stored.data.id}) \cup {feed'.cached.data.id}
      BY <3>1
    <3>4. IsFiniteSet(held')
      <4>1. IsFiniteSet({seen'.id}) /\ IsFiniteSet({feed'.stored.data.id})
            /\ IsFiniteSet({feed'.cached.data.id})
        BY FS_Singleton
      <4>2. IsFiniteSet({seen'.id} \cup {feed'.stored.data.id})
        BY <4>1, FS_Union
      <4> QED BY <3>3, <4>1, <4>2, FS_Union
    <3> QED BY <3>1, <3>2, <3>4 DEF HeldOK
  <2> QED BY <2>1, <2>2, <2>6, <2>7 DEF StepOK, FeedInv
<1> QED BY <1>1, <1>2, <1>3

LEMMA FeedInvariant == Spec => []FeedInv
BY FeedInitially, FeedPreserved, PTL DEF Spec

(* The state of the query store, the feed cache, the screen and the flows   *)
(* has its type, at every step of every interleaving of them.               *)
THEOREM FeedTyped == Spec => []TypeOK
<1>1. FeedInv => TypeOK
  <2>1. SUFFICES ASSUME FeedInv PROVE TypeOK
    OBVIOUS
  <2>2. tasks \subseteq Task
    <3>1. SUFFICES ASSUME NEW t \in tasks PROVE t \in Task
      OBVIOUS
    <3>2. TaskOK(t, core.epoch, version, latest)
      BY <2>1 DEF FeedInv, StoreInv, FetchOK
    <3>3. /\ t \in [epoch : 1..core.epoch, waiting : SUBSET Servers, successful : Nat,
                    asked : [Servers -> 0..latest]]
          /\ t.successful + Cardinality(t.waiting) <= Cardinality(Servers)
      BY <3>2 DEF TaskOK
    <3>4. Cardinality(t.waiting) \in Nat /\ Cardinality(Servers) \in Nat
      BY <3>3, QueryAssumption, FS_Subset, FS_CardinalityType
    <3>5. t.successful \in 0..Cardinality(Servers)
      BY <3>3, <3>4
    <3> QED BY <3>3, <3>5 DEF Task
  <2>3. QueryTypeOK
    <3>1. /\ core \in CoreRecord(latest) /\ live \in 0..core.epoch /\ StoreTypes
      BY <2>1 DEF FeedInv, StoreInv, FetchOK, CoreOK
    <3>2. DataUpTo(latest) = Data
      BY DEF DataUpTo, Data
    <3>3. entry \in [data : Data, status : {"loading", "success", "error"},
                     hasPendingRefresh : BOOLEAN]
      BY <3>1, <3>2 DEF StoreTypes, EntryRecord
    <3>4. held \subseteq Nat
      BY <2>1 DEF FeedInv, HeldOK
    <3> QED BY <2>2, <3>1, <3>3, <3>4 DEF QueryTypeOK, StoreTypes, CoreRecord
  <2>4. AuthorOK /\ ShownOK
    BY <2>1 DEF FeedInv
  <2>5. Reacting(made) \subseteq 0..Len(made)
    <3>1. Len(made) \in Nat
      BY <2>4 DEF AuthorOK
    <3> QED BY <3>1 DEF Reacting
  <2> QED BY <2>3, <2>4, <2>5 DEF TypeOK, AuthorOK, ShownOK, DataUpTo
<1> QED BY <1>1, FeedInvariant, PTL

(* What the core keeps is never older than its last invalidation, for any   *)
(* servers and in both update modes: the epoch that invalidate() opens      *)
(* turns away every answer that was under way.                              *)
THEOREM KeptIsFresh == Spec => []FreshAfterInvalidate
<1>1. FeedInv => FreshAfterInvalidate
  <2>1. SUFFICES ASSUME FeedInv PROVE FreshAfterInvalidate
    OBVIOUS
  <2>2. FetchOK /\ setting.updateMode \in {"merge", "replace"}
    BY <2>1, SettingMeans DEF FeedInv, StoreInv, StoreTypes
  <2> QED BY <2>2 DEF FreshAfterInvalidate, FetchOK, Young, YoungSince
<1> QED BY <1>1, FeedInvariant, PTL

(* A subscribed query that says it loads or refreshes has an open fan-out,  *)
(* whatever subscribers, refreshes and page loads dispose.                  *)
THEOREM SpinnersHaveFetches == Spec => []SpinnerHasFetch
<1>1. FeedInv => SpinnerHasFetch
  BY DEF FeedInv, StoreInv
<1> QED BY <1>1, FeedInvariant, PTL

(* No counter of the post is ever shown below zero, for any reactions and   *)
(* any number of changes, answers and renders.                              *)
THEOREM CountersNonNegative == Spec => []NonNegative
<1>1. FeedInv => NonNegative
  <2>1. SUFFICES ASSUME FeedInv PROVE NonNegative
    OBVIOUS
  <2>2. Current \in FeedEntry(latest)
    BY <2>1, StoreMeans, ExistingTyped DEF Current
  <2>3. Displayed \in Post
    BY <2>2, ShownTyped DEF Displayed, FeedEntry, PostEntry
  <2> QED BY <2>3 DEF NonNegative, Post
<1> QED BY <1>1, FeedInvariant, PTL

----------------------------------------------------------------------------
(* What an overlay shows of a count n.  A defined overlay was laid over the *)
(* count it is shown with.                                                  *)

Fits(c, n) == Defined(c) => c.original = n

AheadOf(s, b, count) == (s > b /\ s > count) \/ (s < b /\ s < count)

AtLeast0(n) == IF n >= 0 THEN n ELSE 0

LEMMA SignOfProduct ==
  ASSUME NEW x \in Int, NEW y \in Int
  PROVE  /\ y > 0 => (x * y <= 0 <=> x <= 0)
         /\ y < 0 => (x * y <= 0 <=> x >= 0)
         /\ y = 0 => x * y <= 0
OBVIOUS

LEMMA OverlayView ==
  ASSUME NEW n \in Nat, NEW o \in Int, n + o >= 0
  PROVE  /\ CounterOverlay(n, o) \in Counter /\ Fits(CounterOverlay(n, o), n)
         /\ Overlaid(n, CounterOverlay(n, o)) = n + o
         /\ Fits(Undefined, n) /\ Overlaid(n, Undefined) = n
<1>1. CounterOverlay(n, o).original = n /\ CounterOverlay(n, o).localOffset = o
  BY DEF CounterOverlay
<1>2. Undefined.localOffset = 0
  BY DEF Undefined, CounterOverlay
<1> QED BY <1>1, <1>2, CounterMeans DEF Fits, Overlaid, Get, Defined

LEMMA ViewMeans ==
  ASSUME NEW n \in Nat, NEW c \in Counter, Fits(c, n)
  PROVE  Overlaid(n, c) = n + c.localOffset /\ Overlaid(n, c) \in Nat
BY GetTyped DEF Fits, Overlaid, Defined

LEMMA RemoteView ==
  ASSUME NEW n \in Nat, NEW c \in Counter, Fits(c, n), NEW m \in Nat
  PROVE  /\ Fits(RemoteUpdate(c, m), m)
         /\ Overlaid(m, RemoteUpdate(c, m))
              = IF AheadOf(Overlaid(n, c), n, m) THEN Overlaid(n, c) ELSE m
<1> DEFINE o == c.localOffset
           g == Get(c)
           v == Overlaid(n, c)
<1>1. g \in Nat /\ o \in Int /\ g = c.original + o /\ v = n + o /\ v \in Nat
  BY GetTyped, ViewMeans
<1>2. o # 0 => g = v
  BY <1>1 DEF Overlaid, Defined
<1>3. (g - m) * o <= 0 <=> ~ AheadOf(v, n, m)
  <2>1. CASE o = 0
    <3>1. ~ AheadOf(v, n, m)
      BY <1>1, <2>1 DEF AheadOf
    <3> HIDE DEF g, o, v
    <3>2. g - m \in Int /\ o \in Int
      BY <1>1
    <3> QED BY <2>1, <3>1, <3>2, SignOfProduct
  <2>2. CASE o # 0
    <3> HIDE DEF g, o, v
    <3>1. g - m \in Int /\ o \in Int /\ g = v
      BY <1>1, <1>2, <2>2
    <3>2. o > 0 => ((g - m) * o <= 0 <=> g - m <= 0)
      BY <3>1, SignOfProduct
    <3>3. o < 0 => ((g - m) * o <= 0 <=> g - m >= 0)
      BY <3>1, SignOfProduct
    <3>4. AheadOf(v, n, m) <=> (o > 0 /\ g - m > 0) \/ (o < 0 /\ g - m < 0)
      BY <1>1, <3>1 DEF AheadOf
    <3> QED BY <1>1, <2>2, <3>1, <3>2, <3>3, <3>4
  <2> QED BY <2>1, <2>2
<1>4. RemoteUpdate(c, m) = IF ~ AheadOf(v, n, m) THEN Undefined ELSE CounterOverlay(m, g - m)
  BY <1>3 DEF RemoteUpdate
<1>5. AheadOf(v, n, m) => g = v
  BY <1>1, <1>2 DEF AheadOf
<1> HIDE DEF g, o, v
<1>6. /\ Fits(CounterOverlay(m, g - m), m) /\ Overlaid(m, CounterOverlay(m, g - m)) = g
      /\ Fits(Undefined, m) /\ Overlaid(m, Undefined) = m
  <2>1. g - m \in Int /\ m + (g - m) >= 0 /\ m + (g - m) = g
    BY <1>1
  <2> QED BY <2>1, OverlayView
<1> QED BY <1>4, <1>5, <1>6 DEF v

LEMMA ReactionView ==
  ASSUME NEW n \in Nat, NEW offset \in {-1, 0, 1}
  PROVE  /\ Fits(ReactionCounter(n, offset), n)
         /\ Overlaid(n, ReactionCounter(n, offset)) = AtLeast0(n + offset)
<1> DEFINE k == Larger(0, n + offset)
<1>1. k \in Nat /\ k = AtLeast0(n + offset)
  BY DEF Larger, AtLeast0
<1>2. ReactionCounter(n, offset) = IF k = n THEN Undefined ELSE CounterOverlay(n, k - n)
  BY DEF ReactionCounter
<1> HIDE DEF k
<1>3. k - n \in Int /\ n + (k - n) >= 0 /\ n + (k - n) = k
  BY <1>1
<1>4. /\ Fits(CounterOverlay(n, k - n), n) /\ Overlaid(n, CounterOverlay(n, k - n)) = k
      /\ Fits(Undefined, n) /\ Overlaid(n, Undefined) = n
  BY <1>3, OverlayView
<1> QED BY <1>1, <1>2, <1>4

(* The overlay that a local change starts from.                             *)
Laid(c, n) == IF Defined(c) THEN c ELSE CounterOverlay(n, 0)

LEMMA CappedView ==
  ASSUME NEW n \in Nat, NEW c \in Counter, Fits(c, n), NEW amount \in {-1, 0, 1}
  PROVE  /\ Fits(Capped(Laid(c, n), amount), n)
         /\ Overlaid(n, Capped(Laid(c, n), amount)) = AtLeast0(Overlaid(n, c) + amount)
<1> DEFINE b == Laid(c, n)
           v == Overlaid(n, c)
           shift == Larger(amount, -Get(b))
           o == b.localOffset + shift
<1>1. b \in Counter /\ b.original = n /\ b.localOffset = v - n /\ Get(b) = v /\ v \in Nat
  <2>1. v = n + c.localOffset /\ v \in Nat
    BY ViewMeans
  <2>2. CASE Defined(c)
    BY <2>1, <2>2, GetTyped DEF Laid, Fits
  <2>3. CASE ~ Defined(c)
    <3>1. b = CounterOverlay(n, 0) /\ v = n
      BY <2>3 DEF Laid, Overlaid
    <3>2. b.original = n /\ b.localOffset = 0
      BY <3>1 DEF CounterOverlay
    <3>3. b \in Counter
      BY <3>1, CounterMeans
    <3> QED BY <3>1, <3>2, <3>3, GetTyped
  <2> QED BY <2>2, <2>3
<1>2. shift \in {-1, 0, 1} /\ v + shift >= 0 /\ v + shift = AtLeast0(v + amount)
  BY <1>1 DEF Larger, AtLeast0
<1>3. Capped(b, amount) = IF o = 0 THEN Undefined ELSE CounterOverlay(n, o)
  BY <1>1 DEF Capped, LocalUpdate
<1> HIDE DEF b, v, shift
<1>4. o \in Int /\ n + o >= 0 /\ n + o = v + shift
  BY <1>1, <1>2
<1> HIDE DEF o
<1>5. Fits(Capped(b, amount), n) /\ Overlaid(n, Capped(b, amount)) = v + shift
  <2>1. /\ Fits(CounterOverlay(n, o), n) /\ Overlaid(n, CounterOverlay(n, o)) = n + o
        /\ Fits(Undefined, n) /\ Overlaid(n, Undefined) = n
    BY <1>4, OverlayView
  <2>2. CASE o = 0
    <3>1. v + shift = n
      BY <1>4, <2>2
    <3> QED BY <1>3, <2>1, <2>2, <3>1
  <2>3. CASE o # 0
    BY <1>3, <1>4, <2>1, <2>3
  <2> QED BY <2>2, <2>3
<1> QED BY <1>1, <1>2, <1>5 DEF b, v

LEMMA SummaryView ==
  ASSUME NEW n \in Nat, NEW c \in Counter, Fits(c, n), NEW amount \in {-1, 0, 1}
  PROVE  /\ Fits(SummaryUpdate(c, n, amount), n)
         /\ Overlaid(n, SummaryUpdate(c, n, amount)) = AtLeast0(Overlaid(n, c) + amount)
<1>1. CASE Defined(c)
  <2>1. Laid(c, n) = c
    BY <1>1 DEF Laid
  <2> QED BY <1>1, <2>1, CappedView DEF SummaryUpdate
<1>2. CASE ~ Defined(c)
  <2>1. Overlaid(n, c) = n
    BY <1>2 DEF Overlaid
  <2> QED BY <1>2, <2>1, ReactionView DEF SummaryUpdate
<1> QED BY <1>1, <1>2

----------------------------------------------------------------------------
(* The counters of a post: the server's and the ones shown.                 *)

Overlays(p) ==
  [replyCount |-> p.overlay.replyCount, total |-> p.overlay.reaction.total,
   upvote |-> p.overlay.reaction.upvote, downvote |-> p.overlay.reaction.downvote]

Base(p) == [c \in Shown |-> p.originalPost[c]]

View(p) == [c \in Shown |-> Overlaid(p.originalPost[c], Overlays(p)[c])]

PostFits(p) == \A c \in Shown : Fits(Overlays(p)[c], p.originalPost[c])

Same(p, q) == Base(q) = Base(p) /\ View(q) = View(p)

Changed(p, q, by) == /\ Base(q) = Base(p)
                     /\ View(q) = [c \in Shown |-> AtLeast0(View(p)[c] + by[c])]

ReplyShift(n) == [c \in Shown |-> IF c = "replyCount" THEN n ELSE 0]

ChoiceShift(prev, next) ==
  [c \in Shown |-> IF c = "replyCount" THEN 0 ELSE ReactionOffsets(prev, next)[c]]

Received(p, q) ==
  View(q) = [c \in Shown |-> IF AheadOf(View(p)[c], Base(p)[c], Base(q)[c])
                             THEN View(p)[c] ELSE Base(q)[c]]

LEMMA ViewTyped ==
  ASSUME NEW p \in PostEntry
  PROVE  /\ Base(p) \in [Shown -> Nat]
         /\ \A c \in Shown : p.originalPost[c] \in Nat /\ Overlays(p)[c] \in Counter
         /\ PostFits(p) => View(p) \in [Shown -> Nat]
         /\ ApplyPostOverlay(p.originalPost, p.overlay).replyCount = View(p)["replyCount"]
         /\ [c \in Shown |-> ApplyPostOverlay(p.originalPost, p.overlay)[c]] = View(p)
<1>1. /\ p.originalPost \in Post /\ p.overlay \in PostOverlay
      /\ p.overlay.replyCount \in Counter /\ p.overlay.reaction \in ReactionOverlay
  BY DEF PostEntry, PostOverlay
<1>2. /\ p.overlay.reaction.total \in Counter /\ p.overlay.reaction.upvote \in Counter
      /\ p.overlay.reaction.downvote \in Counter
  BY <1>1 DEF ReactionOverlay
<1>3. \A c \in Shown : p.originalPost[c] \in Nat
  BY <1>1 DEF Post, Shown
<1>4. \A c \in Shown : Overlays(p)[c] \in Counter
  BY <1>1, <1>2 DEF Overlays, Shown
<1>5. PostFits(p) => View(p) \in [Shown -> Nat]
  BY <1>3, <1>4, ViewMeans DEF View, PostFits
<1>6. \A c \in Shown : ApplyPostOverlay(p.originalPost, p.overlay)[c]
                          = Overlaid(p.originalPost[c], Overlays(p)[c])
  BY DEF ApplyPostOverlay, Overlays, Shown
<1>7. ApplyPostOverlay(p.originalPost, p.overlay).replyCount = View(p)["replyCount"]
  BY <1>6 DEF View, Shown
<1> QED BY <1>3, <1>4, <1>5, <1>6, <1>7 DEF Base, View

LEMMA Unassembled ==
  ASSUME NEW o \in ReactionOverlay, NEW n \in Nat, NEW f \in {"total", "upvote", "downvote"}
  PROVE  /\ Overlaid(n, Assemble(o)[f]) = Overlaid(n, o[f])
         /\ Fits(o[f], n) => Fits(Assemble(o)[f], n)
<1>1. CASE Assemble(o) = o
  BY <1>1
<1>2. CASE Assemble(o) # o
  <2>1. Assemble(o) = NoReactionOverlay /\ ~ Defined(o[f])
    BY <1>2 DEF Assemble
  <2>2. Assemble(o)[f] = Undefined
    BY <2>1 DEF NoReactionOverlay
  <2>3. Overlaid(n, Undefined) = n /\ Fits(Undefined, n)
    BY OverlayView
  <2> QED BY <2>1, <2>2, <2>3 DEF Overlaid
<1> QED BY <1>1, <1>2

(* An answer is received; one that says what is known changes nothing.      *)
LEMMA PostReceives ==
  ASSUME NEW p \in PostEntry, PostFits(p), NEW post \in Post,
         NEW q, q = UpdatePostEntry(p, post)
  PROVE  /\ q \in PostEntry /\ PostFits(q) /\ q.originalPost = post /\ Received(p, q)
         /\ p.originalPost = post => Same(p, q)
<1> DEFINE old == p.overlay.reaction
           t == RemoteUpdate(old.total, post.total)
           u == RemoteUpdate(old.upvote, post.upvote)
           d == RemoteUpdate(old.downvote, post.downvote)
           r == [old EXCEPT !.total = t, !.upvote = u, !.downvote = d,
                   !.previousTally = TallyRemoteUpdate(old.previousTally, old.previous, post),
                   !.nextTally = TallyRemoteUpdate(old.nextTally, old.next, post)]
<1>1. /\ q \in PostEntry /\ q.originalPost = post /\ old \in ReactionOverlay
      /\ q.overlay.replyCount = RemoteUpdate(p.overlay.replyCount, post.replyCount)
      /\ q.overlay.reaction = ReactionRemoteUpdate(old, post)
  BY UpdatePostEntryTyped DEF UpdatePostEntry, UpdatePostOverlay, PostEntry, PostOverlay
<1>2. ReactionRemoteUpdate(old, post) = Assemble(r)
  BY <1>1 DEF ReactionRemoteUpdate, ReactionOverlay
<1>3. /\ r.total = t /\ r.upvote = u /\ r.downvote = d
      /\ r \in ReactionOverlay
  <2>1. /\ old.previous \in Choices /\ old.next \in Choices /\ old.total \in Counter
        /\ old.upvote \in Counter /\ old.downvote \in Counter
        /\ old.previousTally \in Counter /\ old.nextTally \in Counter
    BY <1>1 DEF ReactionOverlay
  <2>2. /\ post.total \in Nat /\ post.upvote \in Nat /\ post.downvote \in Nat
        /\ \A x \in Choices : x # NoReaction => post.tally[x] \in Nat
    BY DEF Post, Choices
  <2>3. /\ TallyRemoteUpdate(old.previousTally, old.previous, post) \in Counter
        /\ TallyRemoteUpdate(old.nextTally, old.next, post) \in Counter
    BY <2>1, <2>2, RemoteUpdateTyped DEF TallyRemoteUpdate
  <2>4. t \in Counter /\ u \in Counter /\ d \in Counter
    BY <2>1, <2>2, RemoteUpdateTyped
  <2> HIDE DEF t, u, d, old
  <2> QED BY <1>1, <2>3, <2>4 DEF ReactionOverlay
<1>4. ASSUME NEW c \in Shown
      PROVE  /\ Fits(Overlays(q)[c], post[c])
             /\ Overlaid(post[c], Overlays(q)[c])
                  = IF AheadOf(Overlaid(p.originalPost[c], Overlays(p)[c]), p.originalPost[c],
                               post[c])
                    THEN Overlaid(p.originalPost[c], Overlays(p)[c]) ELSE post[c]
  <2>1. /\ p.originalPost[c] \in Nat /\ Overlays(p)[c] \in Counter /\ post[c] \in Nat
        /\ Fits(Overlays(p)[c], p.originalPost[c])
    BY ViewTyped DEF PostFits, Shown, Post
  <2>2. /\ Fits(RemoteUpdate(Overlays(p)[c], post[c]), post[c])
        /\ Overlaid(post[c], RemoteUpdate(Overlays(p)[c], post[c]))
             = IF AheadOf(Overlaid(p.originalPost[c], Overlays(p)[c]), p.originalPost[c], post[c])
               THEN Overlaid(p.originalPost[c], Overlays(p)[c]) ELSE post[c]
    BY <2>1, RemoteView
  <2>3. CASE c = "replyCount"
    BY <1>1, <2>2, <2>3 DEF Overlays
  <2>4. CASE c \in {"total", "upvote", "downvote"}
    <3>1. Overlays(q)[c] = Assemble(r)[c]
      BY <1>1, <1>2, <2>4 DEF Overlays
    <3>2. r[c] = RemoteUpdate(Overlays(p)[c], post[c])
      <4> HIDE DEF r
      <4>1. CASE c = "total"
        BY <1>3, <4>1 DEF Overlays
      <4>2. CASE c = "upvote"
        BY <1>3, <4>2 DEF Overlays
      <4>3. CASE c = "downvote"
        BY <1>3, <4>3 DEF Overlays
      <4> QED BY <2>4, <4>1, <4>2, <4>3
    <3> HIDE DEF r
    <3> QED BY <1>3, <2>1, <2>2, <2>4, <3>1, <3>2, Unassembled
  <2> QED BY <2>3, <2>4 DEF Shown
<1> HIDE DEF r
<1>5. PostFits(q) /\ Received(p, q)
  BY <1>1, <1>4 DEF PostFits, Received, View, Base
<1>6. ASSUME p.originalPost = post PROVE Same(p, q)
  <2>1. Base(q) = Base(p)
    BY <1>1, <1>6 DEF Base
  <2>2. \A c \in Shown : View(p)[c] \in Nat /\ Base(p)[c] \in Nat
    BY ViewTyped
  <2>3. \A c \in Shown : View(q)[c] = View(p)[c]
    BY <1>5, <2>1, <2>2 DEF Received, AheadOf
  <2>4. View(q) = View(p)
    BY <2>3 DEF View
  <2> QED BY <2>1, <2>4 DEF Same
<1> QED BY <1>1, <1>5, <1>6

(* The user changes the number of replies.                                  *)
LEMMA PostReplied ==
  ASSUME NEW p \in PostEntry, PostFits(p), NEW amount \in {-1, 0, 1},
         NEW q, q = ReplyCountAltered(p, amount)
  PROVE  /\ q \in PostEntry /\ PostFits(q) /\ q.originalPost = p.originalPost
         /\ Changed(p, q, ReplyShift(amount))
         /\ amount = 1 => View(q)["replyCount"] = View(p)["replyCount"] + 1
<1> DEFINE n == p.originalPost.replyCount
           k == Capped(Laid(p.overlay.replyCount, n), amount)
<1>1. q \in PostEntry
  BY ReplyCountAlteredTyped
<1>2. /\ n \in Nat /\ p.overlay.replyCount \in Counter /\ Fits(p.overlay.replyCount, n)
  <2>1. n \in Nat /\ p.overlay.replyCount \in Counter
    BY DEF PostEntry, PostOverlay, Post
  <2>2. Overlays(p)["replyCount"] = p.overlay.replyCount /\ "replyCount" \in Shown
    BY DEF Overlays, Shown
  <2> QED BY <2>1, <2>2 DEF PostFits
<1>3. q = [p EXCEPT !.overlay = [p.overlay EXCEPT !.replyCount = k]]
  BY DEF ReplyCountAltered, Laid, PostEntry
<1>4. Fits(k, n) /\ Overlaid(n, k) = AtLeast0(Overlaid(n, p.overlay.replyCount) + amount)
  BY <1>2, CappedView
<1> HIDE DEF k
<1>5. /\ q.originalPost = p.originalPost /\ q.overlay.reaction = p.overlay.reaction
      /\ q.overlay.replyCount = k
  BY <1>3 DEF PostEntry, PostOverlay
<1>6. ASSUME NEW c \in Shown
      PROVE  /\ Fits(Overlays(q)[c], q.originalPost[c])
             /\ View(q)[c] = AtLeast0(View(p)[c] + ReplyShift(amount)[c])
  <2>1. CASE c = "replyCount"
    <3>1. /\ View(q)[c] = Overlaid(n, k) /\ View(p)[c] = Overlaid(n, p.overlay.replyCount)
          /\ Fits(Overlays(q)[c], q.originalPost[c]) <=> Fits(k, n)
      BY <1>5, <2>1 DEF View, Overlays, Shown
    <3>2. ReplyShift(amount)[c] = amount
      BY <2>1 DEF ReplyShift
    <3> QED BY <1>4, <3>1, <3>2
  <2>2. CASE c # "replyCount"
    <3>1. Overlays(q)[c] = Overlays(p)[c]
      BY <1>5, <2>2 DEF Overlays, Shown
    <3>2. Fits(Overlays(q)[c], q.originalPost[c]) /\ View(q)[c] = View(p)[c]
      BY <1>5, <3>1 DEF PostFits, View
    <3>3. View(p)[c] \in Nat /\ ReplyShift(amount)[c] = 0
      BY <2>2, ViewTyped DEF ReplyShift
    <3> QED BY <3>2, <3>3 DEF AtLeast0
  <2> QED BY <2>1, <2>2
<1>7. View(q)["replyCount"] = Overlaid(n, k)
      /\ View(p)["replyCount"] = Overlaid(n, p.overlay.replyCount)
  BY <1>5 DEF View, Overlays, Shown
<1>8. Base(q) = Base(p)
  BY <1>5 DEF Base
<1>9. View(q) = [c \in Shown |-> AtLeast0(View(p)[c] + ReplyShift(amount)[c])]
  BY <1>6 DEF View
<1>10. View(p)["replyCount"] \in Nat
  BY ViewTyped DEF Shown
<1>11. amount = 1 => View(q)["replyCount"] = View(p)["replyCount"] + 1
  BY <1>4, <1>7, <1>10 DEF AtLeast0
<1> QED BY <1>1, <1>5, <1>6, <1>8, <1>9, <1>11 DEF PostFits, Changed

(* The user changes his reaction.                                           *)
LEMMA PostReacted ==
  ASSUME NEW p \in PostEntry, PostFits(p), NEW prev \in Choices, NEW next \in Choices,
         NEW q, q = ReactionInjected(p, prev, next)
  PROVE  /\ q \in PostEntry /\ PostFits(q) /\ q.originalPost = p.originalPost
         /\ Changed(p, q, ChoiceShift(prev, next))
<1> DEFINE old == p.overlay.reaction
           post == p.originalPost
           new == IF old = NoReactionOverlay THEN Create(prev, next, post)
                  ELSE ReactionLocalUpdate(old, prev, next, post)
           Fields == {"total", "upvote", "downvote"}
<1>1. /\ q \in PostEntry /\ post \in Post /\ p.overlay \in PostOverlay
      /\ old \in ReactionOverlay
  BY ReactionInjectedTyped DEF PostEntry, PostOverlay
<1>2. \A c \in Fields : /\ post[c] \in Nat /\ old[c] \in Counter /\ Fits(old[c], post[c])
                        /\ old[c] = Overlays(p)[c]
  <2>1. \A c \in Fields : c \in Shown /\ old[c] = Overlays(p)[c]
    BY DEF Shown, Overlays
  <2> QED BY <2>1, ViewTyped DEF PostFits
<1>3. \A c \in Fields : ReactionOffsets(prev, next)[c] \in {-1, 0, 1}
  BY OffsetsTyped
<1>4. ASSUME NEW c \in Fields
      PROVE  /\ Fits(new[c], post[c])
             /\ Overlaid(post[c], new[c])
                  = AtLeast0(Overlaid(post[c], old[c]) + ReactionOffsets(prev, next)[c])
  <2> DEFINE offsets == ReactionOffsets(prev, next)
             offset == offsets[c]
  <2>1. post[c] \in Nat /\ old[c] \in Counter /\ Fits(old[c], post[c]) /\ offset \in {-1, 0, 1}
    BY <1>2, <1>3
  <2>2. CASE old = NoReactionOverlay
    <3>1. old[c] = Undefined
      BY <2>2 DEF NoReactionOverlay
    <3>2. Overlaid(post[c], old[c]) = post[c] /\ Fits(Undefined, post[c])
          /\ Overlaid(post[c], Undefined) = post[c]
      BY <2>1, <3>1, OverlayView
    <3>3. CASE prev = next
      <4>1. new[c] = Undefined
        BY <2>2, <3>1, <3>3 DEF Create
      <4>2. offset = 0
        BY <3>3 DEF ReactionOffsets, Sign, Fields
      <4> HIDE DEF new, old, post
      <4> QED BY <2>1, <3>2, <4>1, <4>2 DEF AtLeast0
    <3>4. CASE prev # next
      <4> DEFINE o == [previous |-> prev, previousTally |-> TallyOverlay(post, prev, -1),
                       next |-> next, nextTally |-> TallyOverlay(post, next, 1),
                       total |-> ReactionCounter(post.total, offsets.total),
                       upvote |-> ReactionCounter(post.upvote, offsets.upvote),
                       downvote |-> ReactionCounter(post.downvote, offsets.downvote)]
      <4>1. new = Assemble(o)
        BY <2>2, <3>4 DEF Create
      <4>2. o[c] = ReactionCounter(post[c], offset)
        BY DEF Fields
      <4>3. o \in ReactionOverlay
        <5>1. /\ TallyOverlay(post, prev, -1) \in Counter /\ TallyOverlay(post, next, 1) \in Counter
          BY <1>1, TallyOverlayTyped
        <5>2. \A f \in Fields : ReactionCounter(post[f], offsets[f]) \in Counter
          BY <1>2, <1>3, ReactionCounterTyped
        <5>3. /\ ReactionCounter(post.total, offsets.total) \in Counter
              /\ ReactionCounter(post.upvote, offsets.upvote) \in Counter
              /\ ReactionCounter(post.downvote, offsets.downvote) \in Counter
          <6> HIDE DEF offsets
          <6> QED BY <5>2
        <5> HIDE DEF offsets
        <5> QED BY <5>1, <5>3 DEF ReactionOverlay
      <4> HIDE DEF o, offset
      <4>4. Fits(o[c], post[c]) /\ Overlaid(post[c], o[c]) = AtLeast0(post[c] + offset)
        BY <2>1, <4>2, ReactionView
      <4>5. Fits(Assemble(o)[c], post[c])
            /\ Overlaid(post[c], Assemble(o)[c]) = Overlaid(post[c], o[c])
        BY <2>1, <4>3, <4>4, Unassembled
      <4> HIDE DEF new, old, post
      <4> QED BY <3>2, <4>1, <4>4, <4>5 DEF offset
    <3> QED BY <3>3, <3>4
  <2>3. CASE old # NoReactionOverlay
    <3> DEFINE previous == IF prev = old.next THEN old.previous ELSE prev
               removed  == IF previous = next THEN NoReaction ELSE previous
               added    == IF previous = next THEN NoReaction ELSE next
               o == [previous |-> removed, previousTally |-> TallyOverlay(post, removed, -1),
                     next |-> added, nextTally |-> TallyOverlay(post, added, 1),
                     total |-> SummaryUpdate(old.total, post.total, offsets.total),
                     upvote |-> SummaryUpdate(old.upvote, post.upvote, offsets.upvote),
                     downvote |-> SummaryUpdate(old.downvote, post.downvote, offsets.downvote)]
    <3>1. new = Assemble(o)
      BY <2>3 DEF ReactionLocalUpdate
    <3>2. o[c] = SummaryUpdate(old[c], post[c], offset)
      BY DEF Fields
    <3>3. o \in ReactionOverlay
      <4>1. removed \in Choices /\ added \in Choices
        BY <1>1 DEF ReactionOverlay, Choices
      <4> HIDE DEF removed, added
      <4>2. /\ TallyOverlay(post, removed, -1) \in Counter
            /\ TallyOverlay(post, added, 1) \in Counter
        BY <1>1, <4>1, TallyOverlayTyped
      <4>3. ASSUME NEW f \in Fields
            PROVE  SummaryUpdate(old[f], post[f], offsets[f]) \in Counter
        <5>1. old[f] \in Counter /\ post[f] \in Nat /\ offsets[f] \in Int
          BY <1>2, <1>3
        <5> HIDE DEF old, post, offsets
        <5> QED BY <5>1, SummaryUpdateTyped
      <4>4. /\ SummaryUpdate(old.total, post.total, offsets.total) \in Counter
            /\ SummaryUpdate(old.upvote, post.upvote, offsets.upvote) \in Counter
            /\ SummaryUpdate(old.downvote, post.downvote, offsets.downvote) \in Counter
        <5> HIDE DEF offsets
        <5> QED BY <4>3
      <4> HIDE DEF offsets
      <4> QED BY <4>1, <4>2, <4>4 DEF ReactionOverlay
    <3> HIDE DEF o, offset
    <3>4. /\ Fits(o[c], post[c])
          /\ Overlaid(post[c], o[c]) = AtLeast0(Overlaid(post[c], old[c]) + offset)
      BY <2>1, <3>2, SummaryView
    <3>5. Fits(Assemble(o)[c], post[c])
          /\ Overlaid(post[c], Assemble(o)[c]) = Overlaid(post[c], o[c])
      BY <2>1, <3>3, <3>4, Unassembled
    <3> HIDE DEF new, old, post
    <3> QED BY <3>1, <3>4, <3>5 DEF offset
  <2> QED BY <2>2, <2>3
<1>5. q = [p EXCEPT !.overlay = [p.overlay EXCEPT !.reaction = new]]
  BY DEF ReactionInjected, PostEntry
<1> HIDE DEF new
<1>6. /\ q.originalPost = post /\ q.overlay.reaction = new
      /\ q.overlay.replyCount = p.overlay.replyCount
  BY <1>1, <1>5 DEF PostEntry, PostOverlay
<1>7. ASSUME NEW c \in Shown
      PROVE  /\ Fits(Overlays(q)[c], q.originalPost[c])
             /\ View(q)[c] = AtLeast0(View(p)[c] + ChoiceShift(prev, next)[c])
  <2>1. CASE c = "replyCount"
    <3>1. Overlays(q)[c] = Overlays(p)[c]
      BY <1>6, <2>1 DEF Overlays
    <3>2. Fits(Overlays(q)[c], q.originalPost[c]) /\ View(q)[c] = View(p)[c]
      BY <1>6, <3>1 DEF PostFits, View
    <3>3. View(p)[c] \in Nat /\ ChoiceShift(prev, next)[c] = 0
      BY <2>1, ViewTyped DEF ChoiceShift
    <3> QED BY <3>2, <3>3 DEF AtLeast0
  <2>2. CASE c \in Fields
    <3>1. Overlays(q)[c] = new[c]
      BY <1>6, <2>2 DEF Overlays
    <3>2. /\ View(q)[c] = Overlaid(post[c], new[c]) /\ View(p)[c] = Overlaid(post[c], old[c])
      BY <1>2, <1>6, <2>2, <3>1 DEF View
    <3>3. ChoiceShift(prev, next)[c] = ReactionOffsets(prev, next)[c]
      BY <2>2 DEF ChoiceShift, Shown
    <3> HIDE DEF old, post, Fields
    <3> QED BY <1>4, <1>6, <2>2, <3>1, <3>2, <3>3
  <2> QED BY <2>1, <2>2 DEF Shown
<1>8. Base(q) = Base(p)
  BY <1>6 DEF Base
<1>9. View(q) = [c \in Shown |-> AtLeast0(View(p)[c] + ChoiceShift(prev, next)[c])]
  BY <1>7 DEF View
<1> QED BY <1>1, <1>6, <1>7, <1>8, <1>9 DEF PostFits, Changed

----------------------------------------------------------------------------
(* What data d says of P, once the events m are published.                  *)

CountedIn(m, v) ==
  {i \in 1..(v - 1) : \A j \in 1..(v - 1) : m[j].kind = "delete" => m[j].target # i}

RepliesIn(m, v) == {i \in CountedIn(m, v) : m[i].kind = "reply"}

ReactedIn(m, v, S) ==
  Cardinality({i \in CountedIn(m, v) : m[i].kind = "react" /\ m[i].reaction \in S})

PostOf(m, d) ==
  LET vs == d.versions \ {0}
      Reacted(S) == Highest({ReactedIn(m, v, S) : v \in vs})
  IN [replyCount |-> Highest({Cardinality(RepliesIn(m, v)) : v \in vs}),
      total |-> Reacted(Reactions), upvote |-> Reacted(Positive),
      downvote |-> Reacted(Reactions \ Positive),
      tally |-> [r \in Reactions |-> Reacted({r})]]

LEMMA PostOfMade ==
  ASSUME NEW d
  PROVE  MergedPost(d) = PostOf(made, d)
BY DEF MergedPost, PostOf, ReactedWith, ReactedIn, Replies, RepliesIn, Counted, CountedIn

(* Later events do not change what an answer said.                          *)
LEMMA PostOfStays ==
  ASSUME NEW n \in Nat, NEW d \in DataUpTo(n), NEW m, NEW k,
         \A i \in 1..(n - 1) : k[i] = m[i]
  PROVE  PostOf(k, d) = PostOf(m, d)
<1> DEFINE vs == d.versions \ {0}
<1>1. ASSUME NEW v \in vs
      PROVE  /\ RepliesIn(k, v) = RepliesIn(m, v)
             /\ \A S : ReactedIn(k, v, S) = ReactedIn(m, v, S)
  <2>1. v \in Nat /\ \A i \in 1..(v - 1) : k[i] = m[i]
    BY DEF DataUpTo
  <2>2. CountedIn(k, v) = CountedIn(m, v)
    BY <2>1 DEF CountedIn
  <2>3. \A i \in CountedIn(m, v) : k[i] = m[i]
    BY <2>1 DEF CountedIn
  <2>4. RepliesIn(k, v) = RepliesIn(m, v)
    BY <2>2, <2>3 DEF RepliesIn
  <2>5. ASSUME NEW S PROVE ReactedIn(k, v, S) = ReactedIn(m, v, S)
    <3>1. {i \in CountedIn(k, v) : k[i].kind = "react" /\ k[i].reaction \in S}
            = {i \in CountedIn(m, v) : m[i].kind = "react" /\ m[i].reaction \in S}
      BY <2>2, <2>3
    <3> QED BY <3>1 DEF ReactedIn
  <2> QED BY <2>4, <2>5
<1> HIDE DEF vs
<1>2. \A S : {ReactedIn(k, v, S) : v \in vs} = {ReactedIn(m, v, S) : v \in vs}
  BY <1>1
<1>3. {Cardinality(RepliesIn(k, v)) : v \in vs} = {Cardinality(RepliesIn(m, v)) : v \in vs}
  BY <1>1
<1> QED BY <1>2, <1>3 DEF PostOf, vs

----------------------------------------------------------------------------
(* The invariant of the feed cache, for a feed f, data d in the store, data *)
(* s of the last render and published events m.                             *)

Follows(e, d, m) == Answered(d) => e.listed /\ e.post.originalPost = PostOf(m, d)

(* The stored and the derived entry each say what their data says, and show *)
(* the same when the derived one is the current one.                        *)
CacheOK(f, d, s, m) ==
  /\ PostFits(f.stored.post) /\ PostFits(f.cached.post)
  /\ f.stored.output => Follows(f.stored, f.stored.data, m)
  /\ f.cached.data # NoData => Follows(f.cached, f.cached.data, m)
  /\ s # NoData => f.cached.data \in {NoData, s} /\ Follows(f.stored, s, m)
  /\ d # NoData /\ f.cached.data = d =>
       /\ Same(f.stored.post, f.cached.post) /\ f.cached.listed = f.stored.listed
       /\ f.stored.data = d => f.stored.injections \subseteq f.cached.injections
  /\ f.stored = NoFeed => f.cached = NoFeed /\ s = NoData

CacheInv ==
  /\ CacheOK(feed, entry.data, seen, made)
  /\ {seen.id, feed.stored.data.id, feed.cached.data.id} \subseteq held \cup {0}

(* The entry that counts when the store holds d, and the user's replies     *)
(* that it adds.                                                            *)
At(f, d) == IF d # NoData /\ f.cached.data = d THEN f.cached ELSE f.stored

Own(f, d) ==
  IF f.cached.data = d /\ ~ (f.stored.data = d /\ f.stored.output) THEN f.cached.injections
  ELSE IF f.stored.data = d THEN f.stored.injections ELSE {}

(* What may happen to the counters of an entry e that becomes g: nothing,   *)
(* an answer, or a change that shows if the post is listed.                 *)
Quiet(e, g) == Same(e.post, g.post) /\ g.listed = e.listed

Heard(e, g) == Received(e.post, g.post) /\ (e.listed => g.listed)

Done(e, g, by) ==
  /\ g.listed = e.listed
  /\ IF e.listed THEN Changed(e.post, g.post, by) ELSE Same(e.post, g.post)

LEMMA SameFacts ==
  /\ \A p : Same(p, p)
  /\ \A p, q : Same(p, q) => Same(q, p)
  /\ \A p, q, r : Same(p, q) /\ Same(q, r) => Same(p, r)
  /\ \A p, q, r, by : Same(p, q) /\ Changed(q, r, by) => Changed(p, r, by)
  /\ \A p, q, r, by : Changed(p, q, by) /\ Same(q, r) => Changed(p, r, by)
  /\ \A p, q, r : Same(p, q) /\ Received(q, r) => Received(p, r)
  /\ \A p, q, r : Received(p, q) /\ Same(q, r) => Received(p, r)
BY DEF Same, Changed, Received

LEMMA QuietFacts ==
  /\ \A e : Quiet(e, e)
  /\ \A e, g : Quiet(e, g) => Quiet(g, e)
  /\ \A e, g, h : Quiet(e, g) /\ Quiet(g, h) => Quiet(e, h)
  /\ \A e, g, h : Heard(e, g) /\ Quiet(g, h) => Heard(e, h)
  /\ \A e, g, h, by : Done(e, g, by) /\ Quiet(g, h) => Done(e, h, by)
BY SameFacts DEF Quiet, Heard, Done

LEMMA NoFeedFits == PostFits(NoFeed.post) /\ NoFeed.data = NoData
<1>1. Undefined.localOffset = 0
  BY DEF Undefined, CounterOverlay
<1>2. \A c \in Shown : Overlays(NoFeed.post)[c] = Undefined
  BY DEF Shown, Overlays, NoFeed, EmptyPostOverlay, NoReactionOverlay
<1> QED BY <1>1, <1>2 DEF PostFits, Fits, Defined, NoFeed

LEMMA OwnMeans ==
  ASSUME NEW f \in FeedRecord(latest), NEW d, NEW s, NEW m, CacheOK(f, d, s, m), d # NoData
  PROVE  Own(f, d) \subseteq IF At(f, d).data = d THEN At(f, d).injections ELSE {}
BY DEF Own, At, CacheOK

LEMMA DerivedOK ==
  ASSUME latest \in Nat, NEW d \in DataUpTo(latest), NEW old \in FeedEntry(latest),
         PostFits(old.post), NEW g, g = Derived(old, d)
  PROVE  /\ g \in FeedEntry(latest) /\ g.data = d /\ g.output = TRUE /\ PostFits(g.post)
         /\ Follows(g, d, made)
         /\ Quiet(old, g) \/ Heard(old, g)
         /\ Follows(old, d, made) => Quiet(old, g)
         /\ g.injections = IF old.data = d THEN old.injections ELSE {}
<1>1. /\ g \in FeedEntry(latest) /\ g.data = d /\ g.output = TRUE
      /\ g.listed = (old.listed \/ Answered(d)) /\ old.listed \in BOOLEAN
      /\ g.post = IF Answered(d) THEN UpdatePostEntry(old.post, MergedPost(d)) ELSE old.post
      /\ g.injections = IF old.data = d THEN old.injections ELSE {}
  BY DerivedTyped DEF Derived, FeedEntry
<1>2. CASE ~ Answered(d)
  <2>1. g.listed = old.listed /\ g.post = old.post
    BY <1>1, <1>2
  <2> QED BY <1>1, <1>2, <2>1, SameFacts DEF Follows, Quiet
<1>3. CASE Answered(d)
  <2>1. old.post \in PostEntry /\ MergedPost(d) \in Post /\ MergedPost(d) = PostOf(made, d)
    BY MergedPostTyped, PostOfMade DEF FeedEntry
  <2>2. /\ PostFits(g.post) /\ g.post.originalPost = MergedPost(d) /\ Received(old.post, g.post)
        /\ old.post.originalPost = MergedPost(d) => Same(old.post, g.post)
    BY <1>1, <1>3, <2>1, PostReceives
  <2>3. g.listed = TRUE
    BY <1>1, <1>3
  <2>4. Heard(old, g) /\ Follows(g, d, made)
    BY <2>1, <2>2, <2>3 DEF Heard, Follows
  <2>5. Follows(old, d, made) => Quiet(old, g)
    BY <1>1, <1>3, <2>1, <2>2, <2>3 DEF Follows, Quiet
  <2> QED BY <1>1, <2>2, <2>4, <2>5
<1> QED BY <1>2, <1>3

(* The selector, after a change f of the stored entry has purged what was   *)
(* derived for the data of the store.                                       *)
Purged(f) ==
  /\ f \in FeedRecord(latest) /\ f.stored.output = FALSE /\ f.stored # NoFeed
  /\ PostFits(f.stored.post) /\ PostFits(f.cached.post)
  /\ f.cached.data # NoData => Follows(f.cached, f.cached.data, made)
  /\ seen # NoData => f.cached.data \in {NoData, seen} /\ Follows(f.stored, seen, made)
  /\ entry.data # NoData => f.cached.data # entry.data

LEMMA SelectedOK ==
  ASSUME FeedInv, NEW f, Purged(f), NEW h, h = Selected(f)
  PROVE  /\ h \in FeedRecord(latest) /\ CacheOK(h, entry.data, seen, made)
         /\ h.stored = f.stored /\ h.cached.data \in {f.cached.data, seen}
         /\ Quiet(f.stored, At(h, entry.data))
         /\ entry.data # NoData =>
              Own(h, entry.data)
                = IF f.stored.data = entry.data THEN f.stored.injections ELSE {}
<1> DEFINE g == GetFeedEntry(f, seen)
<1>1. /\ f \in FeedRecord(latest) /\ latest \in Nat /\ seen \in DataUpTo(latest)
      /\ f.stored \in FeedEntry(latest) /\ f.cached \in FeedEntry(latest)
  BY StoreMeans DEF Purged, FeedRecord
<1>2. h \in FeedRecord(latest)
  BY <1>1, SelectedTyped
<1>3. \/ h = f
      \/ seen # NoData /\ h = [f EXCEPT !.cached = g]
  BY DEF Selected
<1>4. g = f.cached \/ g = Derived(f.stored, seen)
  BY DEF GetFeedEntry, Purged
<1>5. h = f \/ (seen # NoData /\ h.stored = f.stored /\ h.cached = Derived(f.stored, seen))
  <2> HIDE DEF g
  <2>1. CASE h = f
    BY <2>1
  <2>2. CASE seen # NoData /\ h = [f EXCEPT !.cached = g]
    <3>1. h.stored = f.stored /\ h.cached = g
      BY <1>1, <2>2 DEF FeedRecord
    <3>2. CASE g = f.cached
      BY <1>1, <2>2, <3>2 DEF FeedRecord
    <3> QED BY <1>4, <2>2, <3>1, <3>2
  <2> QED BY <1>3, <2>1, <2>2
<1>6. CASE h = f
  <2>1. CacheOK(h, entry.data, seen, made)
    BY <1>6 DEF Purged, CacheOK
  <2>2. At(h, entry.data) = f.stored
    BY <1>6 DEF Purged, At
  <2>3. entry.data # NoData => Own(h, entry.data)
          = IF f.stored.data = entry.data THEN f.stored.injections ELSE {}
    BY <1>6 DEF Purged, Own
  <2> QED BY <1>2, <1>6, <2>1, <2>2, <2>3, QuietFacts
<1>7. CASE seen # NoData /\ h.stored = f.stored /\ h.cached = Derived(f.stored, seen)
  <2>1. /\ h.cached.data = seen /\ PostFits(h.cached.post) /\ Follows(h.cached, seen, made)
        /\ Quiet(f.stored, h.cached)
        /\ h.cached.injections = IF f.stored.data = seen THEN f.stored.injections ELSE {}
    <3>1. Follows(f.stored, seen, made) /\ PostFits(f.stored.post)
      BY <1>7 DEF Purged
    <3>2. /\ h.cached.data = seen /\ PostFits(h.cached.post) /\ Follows(h.cached, seen, made)
          /\ Follows(f.stored, seen, made) => Quiet(f.stored, h.cached)
          /\ h.cached.injections = IF f.stored.data = seen THEN f.stored.injections ELSE {}
      <4> DEFINE old == f.stored
                 new == h.cached
      <4>1. /\ latest \in Nat /\ seen \in DataUpTo(latest) /\ old \in FeedEntry(latest)
            /\ PostFits(old.post) /\ new = Derived(old, seen)
        BY <1>1, <1>7, <3>1
      <4> HIDE DEF old, new
      <4>2. /\ new.data = seen /\ PostFits(new.post) /\ Follows(new, seen, made)
            /\ Follows(old, seen, made) => Quiet(old, new)
            /\ new.injections = IF old.data = seen THEN old.injections ELSE {}
        BY <4>1, DerivedOK
      <4> QED BY <4>2 DEF old, new
    <3> QED BY <3>1, <3>2
  <2>2. CacheOK(h, entry.data, seen, made)
    BY <1>7, <2>1 DEF Purged, CacheOK, Quiet
  <2>3. Quiet(f.stored, At(h, entry.data))
    BY <1>7, <2>1, QuietFacts DEF At
  <2>4. entry.data # NoData => Own(h, entry.data)
          = IF f.stored.data = entry.data THEN f.stored.injections ELSE {}
    BY <1>7, <2>1 DEF Purged, Own
  <2> QED BY <1>2, <1>7, <2>1, <2>2, <2>3, <2>4
<1> QED BY <1>5, <1>6, <1>7

(* The entry to modify.                                                     *)
LEMMA ExistingOK ==
  ASSUME FeedInv, NEW f \in FeedRecord(latest), CacheOK(f, entry.data, seen, made)
  PROVE  /\ Existing(f) = At(f, entry.data) /\ Existing(f) \in FeedEntry(latest)
         /\ PostFits(Existing(f).post)
         /\ seen # NoData => Follows(Existing(f), seen, made)
         /\ QueryData(f) \in DataUpTo(latest)
         /\ entry.data # NoData => QueryData(f) = entry.data
         /\ PurgedCache(f) \in {NoFeed, f.cached}
         /\ entry.data # NoData => PurgedCache(f).data # entry.data
<1>1. Existing(f) = At(f, entry.data)
  BY DEF Existing, At
<1>2. latest \in Nat /\ entry.data \in DataUpTo(latest)
  BY StoreMeans
<1>3. PostFits(Existing(f).post)
  BY DEF Existing, CacheOK
<1>4. seen # NoData => Follows(Existing(f), seen, made)
  BY DEF Existing, CacheOK
<1>5. entry.data # NoData => QueryData(f) = entry.data
  BY DEF QueryData
<1>6. PurgedCache(f) \in {NoFeed, f.cached}
  BY DEF PurgedCache
<1>7. entry.data # NoData => PurgedCache(f).data # entry.data
  BY <1>5, NoFeedFits DEF PurgedCache
<1> QED BY <1>1, <1>2, <1>3, <1>4, <1>5, <1>6, <1>7, ExistingTyped

(* A changed entry is stored and what was derived before is purged.         *)
LEMMA StoredOK ==
  ASSUME FeedInv, NEW f \in FeedRecord(latest), CacheOK(f, entry.data, seen, made),
         NEW e \in FeedEntry(latest), e.output = FALSE, e # NoFeed, PostFits(e.post),
         e.post.originalPost = Existing(f).post.originalPost, e.listed = Existing(f).listed,
         NEW g, g = [stored |-> e, cached |-> PurgedCache(f)]
  PROVE  Purged(g) /\ g.stored = e /\ g.cached.data \in {NoData, f.cached.data}
<1>1. /\ f.cached \in FeedEntry(latest) /\ NoFeed \in FeedEntry(latest)
      /\ g.stored = e /\ g.cached = PurgedCache(f)
  BY StoreMeans, NoFeedTyped DEF FeedRecord
<1>2. /\ g.cached \in {NoFeed, f.cached} /\ (entry.data # NoData => g.cached.data # entry.data)
      /\ (seen # NoData => Follows(Existing(f), seen, made))
  BY <1>1, ExistingOK
<1>3. g \in FeedRecord(latest)
  BY <1>1, <1>2 DEF FeedRecord
<1>4. PostFits(g.cached.post) /\ (g.cached.data # NoData => Follows(g.cached, g.cached.data, made))
  BY <1>2, NoFeedFits DEF CacheOK
<1>5. seen # NoData => g.cached.data \in {NoData, seen} /\ Follows(e, seen, made)
  BY <1>2, NoFeedFits DEF CacheOK, Follows
<1> QED BY <1>1, <1>2, <1>3, <1>4, <1>5, NoFeedFits DEF Purged

(* modifyPostOverlay                                                        *)
LEMMA WithPostOK ==
  ASSUME FeedInv, NEW f \in FeedRecord(latest), CacheOK(f, entry.data, seen, made),
         NEW post \in PostEntry, PostFits(post),
         post.originalPost = Existing(f).post.originalPost,
         NEW h, h = WithPost(f, post)
  PROVE  /\ h \in FeedRecord(latest) /\ CacheOK(h, entry.data, seen, made)
         /\ h.cached.data \in {NoData, f.cached.data, seen}
         /\ entry.data # NoData => Own(f, entry.data) \subseteq Own(h, entry.data)
         /\ \/ h = f /\ (f.stored = NoFeed \/ ~ At(f, entry.data).listed)
            \/ /\ f.stored # NoFeed /\ Same(post, At(h, entry.data).post)
               /\ At(f, entry.data).listed /\ At(h, entry.data).listed = At(f, entry.data).listed
               /\ h.stored # NoFeed
<1> DEFINE e == [Existing(f) EXCEPT !.post = post, !.output = FALSE]
           g == [stored |-> e, cached |-> PurgedCache(f)]
<1>1. Existing(f) = At(f, entry.data) /\ Existing(f) \in FeedEntry(latest)
  BY ExistingOK
<1>2. CASE f.stored = NoFeed \/ ~ Existing(f).listed
  <2>1. h = f
    BY <1>2 DEF WithPost
  <2> QED BY <1>1, <1>2, <2>1
<1>3. CASE f.stored # NoFeed /\ Existing(f).listed
  <2>1. h = Selected(g)
    BY <1>3 DEF WithPost
  <2>2. /\ e \in FeedEntry(latest) /\ e.post = post /\ e.output = FALSE
        /\ e.data = Existing(f).data /\ e.injections = Existing(f).injections
        /\ e.listed = Existing(f).listed
    BY <1>1 DEF FeedEntry
  <2>3. e # NoFeed
    <3>1. NoFeed.listed = FALSE
      BY DEF NoFeed
    <3> HIDE DEF e
    <3> QED BY <1>3, <2>2, <3>1
  <2> HIDE DEF e
  <2>4. Purged(g) /\ g.stored = e /\ g.cached.data \in {NoData, f.cached.data}
    BY <2>2, <2>3, StoredOK
  <2> HIDE DEF g
  <2>5. /\ h \in FeedRecord(latest) /\ CacheOK(h, entry.data, seen, made) /\ h.stored = e
        /\ h.cached.data \in {g.cached.data, seen} /\ Quiet(e, At(h, entry.data))
        /\ entry.data # NoData => Own(h, entry.data)
             = IF e.data = entry.data THEN e.injections ELSE {}
    BY <2>1, <2>4, SelectedOK
  <2>6. entry.data # NoData => Own(f, entry.data) \subseteq Own(h, entry.data)
    BY <1>1, <2>2, <2>5, OwnMeans
  <2>7. Same(post, At(h, entry.data).post) /\ At(h, entry.data).listed = At(f, entry.data).listed
    BY <1>1, <2>2, <2>5 DEF Quiet
  <2> QED BY <1>1, <1>3, <2>3, <2>4, <2>5, <2>6, <2>7
<1> QED BY <1>2, <1>3

(* injectPostToFront, injectPostReply                                       *)
LEMMA InjectPostOK ==
  ASSUME FeedInv, NEW f \in FeedRecord(latest), CacheOK(f, entry.data, seen, made),
         NEW id \in Nat, NEW h, h = InjectPost(f, id)
  PROVE  /\ h \in FeedRecord(latest) /\ CacheOK(h, entry.data, seen, made)
         /\ h.cached.data \in {NoData, f.cached.data, seen}
         /\ Quiet(At(f, entry.data), At(h, entry.data))
         /\ entry.data # NoData => Own(f, entry.data) \subseteq Own(h, entry.data)
         /\ entry.data # NoData /\ f.stored # NoFeed => id \in Own(h, entry.data)
<1> DEFINE i == Existing(f).injections \cup {id}
           e == [Existing(f) EXCEPT !.data = QueryData(f), !.output = FALSE, !.injections = i]
           g == [stored |-> e, cached |-> PurgedCache(f)]
<1>1. /\ Existing(f) = At(f, entry.data) /\ Existing(f) \in FeedEntry(latest)
      /\ QueryData(f) \in DataUpTo(latest) /\ PostFits(Existing(f).post)
      /\ (entry.data # NoData => QueryData(f) = entry.data)
  BY ExistingOK
<1>2. CASE f.stored = NoFeed
  <2>1. h = f
    BY <1>2 DEF InjectPost
  <2> QED BY <1>2, <2>1, QuietFacts
<1>3. CASE f.stored # NoFeed
  <2>1. i \in SUBSET Nat /\ id \in i /\ Existing(f).injections \subseteq i
    BY <1>1 DEF FeedEntry
  <2>2. h = Selected(g)
    <3>1. e = [Existing(f) EXCEPT !.data = QueryData(f), !.output = FALSE,
                                  !.injections = @ \cup {id}]
      BY <1>1 DEF FeedEntry
    <3> QED BY <1>3, <3>1 DEF InjectPost
  <2> HIDE DEF i
  <2>3. /\ e \in FeedEntry(latest) /\ e.post = Existing(f).post /\ e.output = FALSE
        /\ e.data = QueryData(f) /\ e.injections = i /\ e.listed = Existing(f).listed
    BY <1>1, <2>1 DEF FeedEntry
  <2>4. e # NoFeed
    <3>1. NoFeed.injections = {}
      BY DEF NoFeed
    <3> HIDE DEF e
    <3> QED BY <2>1, <2>3, <3>1
  <2> HIDE DEF e
  <2>5. Purged(g) /\ g.stored = e /\ g.cached.data \in {NoData, f.cached.data}
    BY <1>1, <2>3, <2>4, StoredOK
  <2> HIDE DEF g
  <2>6. /\ h \in FeedRecord(latest) /\ CacheOK(h, entry.data, seen, made) /\ h.stored = e
        /\ h.cached.data \in {g.cached.data, seen} /\ Quiet(e, At(h, entry.data))
        /\ entry.data # NoData => Own(h, entry.data)
             = IF e.data = entry.data THEN e.injections ELSE {}
    BY <2>2, <2>5, SelectedOK
  <2>7. entry.data # NoData => Own(h, entry.data) = i
    BY <1>1, <2>3, <2>6
  <2>8. entry.data # NoData => Own(f, entry.data) \subseteq Existing(f).injections
    BY <1>1, OwnMeans
  <2>9. Quiet(At(f, entry.data), At(h, entry.data))
    BY <1>1, <2>3, <2>6 DEF Quiet
  <2> QED BY <1>1, <2>1, <2>5, <2>6, <2>7, <2>8, <2>9
<1> QED BY <1>2, <1>3

(* alterReplyCount                                                          *)
LEMMA AlterReplyCountOK ==
  ASSUME FeedInv, NEW f \in FeedRecord(latest), CacheOK(f, entry.data, seen, made),
         NEW amount \in {-1, 0, 1}, NEW h, h = AlterReplyCount(f, amount)
  PROVE  /\ h \in FeedRecord(latest) /\ CacheOK(h, entry.data, seen, made)
         /\ h.cached.data \in {NoData, f.cached.data, seen}
         /\ Done(At(f, entry.data), At(h, entry.data), ReplyShift(amount))
         /\ entry.data # NoData => Own(f, entry.data) \subseteq Own(h, entry.data)
         /\ At(f, entry.data).listed /\ amount = 1 =>
              /\ h.stored # NoFeed
              /\ View(At(h, entry.data).post)["replyCount"]
                   = View(At(f, entry.data).post)["replyCount"] + 1
<1> DEFINE p == Existing(f).post
           q == ReplyCountAltered(p, amount)
<1>1. /\ Existing(f) = At(f, entry.data) /\ Existing(f) \in FeedEntry(latest) /\ PostFits(p)
  BY ExistingOK
<1>2. p \in PostEntry
  BY <1>1 DEF FeedEntry
<1>3. h = WithPost(f, q)
  BY DEF AlterReplyCount
<1>4. p.originalPost = Existing(f).post.originalPost /\ p = At(f, entry.data).post
  BY <1>1
<1> HIDE DEF p
<1>5. /\ q \in PostEntry /\ PostFits(q) /\ q.originalPost = p.originalPost
      /\ Changed(p, q, ReplyShift(amount))
      /\ amount = 1 => View(q)["replyCount"] = View(p)["replyCount"] + 1
  BY <1>1, <1>2, PostReplied
<1> HIDE DEF q
<1>6. /\ h \in FeedRecord(latest) /\ CacheOK(h, entry.data, seen, made)
      /\ h.cached.data \in {NoData, f.cached.data, seen}
      /\ entry.data # NoData => Own(f, entry.data) \subseteq Own(h, entry.data)
      /\ \/ h = f /\ (f.stored = NoFeed \/ ~ At(f, entry.data).listed)
         \/ /\ f.stored # NoFeed /\ Same(q, At(h, entry.data).post)
            /\ At(f, entry.data).listed /\ At(h, entry.data).listed = At(f, entry.data).listed
            /\ h.stored # NoFeed
  BY <1>3, <1>4, <1>5, WithPostOK
<1>7. CASE h = f /\ (f.stored = NoFeed \/ ~ At(f, entry.data).listed)
  <2>1. ~ At(f, entry.data).listed
    <3>1. NoFeed.listed = FALSE
      BY DEF NoFeed
    <3> QED BY <1>7, <3>1 DEF At, CacheOK
  <2> QED BY <1>6, <1>7, <2>1, SameFacts DEF Done
<1>8. CASE /\ f.stored # NoFeed /\ Same(q, At(h, entry.data).post)
            /\ At(f, entry.data).listed /\ At(h, entry.data).listed = At(f, entry.data).listed
            /\ h.stored # NoFeed
  <2>1. Done(At(f, entry.data), At(h, entry.data), ReplyShift(amount))
    BY <1>4, <1>5, <1>8, SameFacts DEF Done
  <2>2. View(At(h, entry.data).post) = View(q)
    BY <1>8 DEF Same
  <2> QED BY <1>4, <1>5, <1>6, <1>8, <2>1, <2>2
<1> QED BY <1>6, <1>7, <1>8

(* injectReaction                                                           *)
LEMMA InjectReactionOK ==
  ASSUME FeedInv, NEW f \in FeedRecord(latest), CacheOK(f, entry.data, seen, made),
         NEW prev \in Choices, NEW next \in Choices, NEW h, h = InjectReaction(f, prev, next)
  PROVE  /\ h \in FeedRecord(latest) /\ CacheOK(h, entry.data, seen, made)
         /\ h.cached.data \in {NoData, f.cached.data, seen}
         /\ Done(At(f, entry.data), At(h, entry.data), ChoiceShift(prev, next))
         /\ entry.data # NoData => Own(f, entry.data) \subseteq Own(h, entry.data)
<1> DEFINE p == Existing(f).post
           q == ReactionInjected(p, prev, next)
<1>1. /\ Existing(f) = At(f, entry.data) /\ Existing(f) \in FeedEntry(latest) /\ PostFits(p)
  BY ExistingOK
<1>2. p \in PostEntry
  BY <1>1 DEF FeedEntry
<1>3. h = WithPost(f, q)
  BY DEF InjectReaction
<1>4. p.originalPost = Existing(f).post.originalPost /\ p = At(f, entry.data).post
  BY <1>1
<1> HIDE DEF p
<1>5. /\ q \in PostEntry /\ PostFits(q) /\ q.originalPost = p.originalPost
      /\ Changed(p, q, ChoiceShift(prev, next))
  BY <1>1, <1>2, PostReacted
<1> HIDE DEF q
<1>6. /\ h \in FeedRecord(latest) /\ CacheOK(h, entry.data, seen, made)
      /\ h.cached.data \in {NoData, f.cached.data, seen}
      /\ entry.data # NoData => Own(f, entry.data) \subseteq Own(h, entry.data)
      /\ \/ h = f /\ (f.stored = NoFeed \/ ~ At(f, entry.data).listed)
         \/ /\ Same(q, At(h, entry.data).post)
            /\ At(f, entry.data).listed /\ At(h, entry.data).listed = At(f, entry.data).listed
  BY <1>3, <1>4, <1>5, WithPostOK
<1>7. CASE h = f /\ (f.stored = NoFeed \/ ~ At(f, entry.data).listed)
  <2>1. ~ At(f, entry.data).listed
    <3>1. NoFeed.listed = FALSE
      BY DEF NoFeed
    <3> QED BY <1>7, <3>1 DEF At, CacheOK
  <2> QED BY <1>6, <1>7, <2>1, SameFacts DEF Done
<1>8. CASE /\ Same(q, At(h, entry.data).post)
            /\ At(f, entry.data).listed /\ At(h, entry.data).listed = At(f, entry.data).listed
  BY <1>4, <1>5, <1>6, <1>8, SameFacts DEF Done
<1> QED BY <1>6, <1>7, <1>8

(* A render with data d pulls what was derived for d into the store.        *)
LEMMA PulledOK ==
  ASSUME latest \in Nat, NEW d \in DataUpTo(latest), d # NoData,
         NEW f \in FeedRecord(latest), NEW s, CacheOK(f, d, s, made), NEW h, h = Pulled(f, d)
  PROVE  /\ h \in FeedRecord(latest) /\ CacheOK(h, d, d, made) /\ h.cached.data = NoData
         /\ Quiet(At(f, d), At(h, d)) \/ Heard(At(f, d), At(h, d))
         /\ Own(f, d) \subseteq Own(h, d)
<1> DEFINE g == GetFeedEntry(f, d)
<1>1. /\ f.stored \in FeedEntry(latest) /\ f.cached \in FeedEntry(latest)
      /\ NoFeed \in FeedEntry(latest) /\ g \in FeedEntry(latest)
  BY GetFeedEntryTyped, NoFeedTyped DEF FeedRecord
<1>2. h = [stored |-> g, cached |-> NoFeed]
  BY DEF Pulled
<1>3. /\ g.data = d /\ PostFits(g.post) /\ Follows(g, d, made)
      /\ Quiet(At(f, d), g) \/ Heard(At(f, d), g)
      /\ Own(f, d) \subseteq g.injections
  <2>1. CASE f.stored.data = d /\ f.stored.output
    <3>1. g = f.stored
      BY <2>1 DEF GetFeedEntry
    <3>2. Quiet(At(f, d), g)
      BY <3>1, SameFacts DEF At, CacheOK, Quiet
    <3>3. PostFits(g.post) /\ Follows(g, d, made)
      BY <2>1, <3>1 DEF CacheOK
    <3>4. Own(f, d) = g.injections
      BY <2>1, <3>1 DEF Own
    <3> QED BY <2>1, <3>1, <3>2, <3>3, <3>4
  <2>2. CASE f.cached.data = d /\ ~ (f.stored.data = d /\ f.stored.output)
    <3>1. g = f.cached
      BY <2>2 DEF GetFeedEntry
    <3>2. At(f, d) = g /\ Own(f, d) = g.injections
      BY <2>2, <3>1 DEF At, Own
    <3>3. PostFits(g.post) /\ Follows(g, d, made)
      BY <2>2, <3>1 DEF CacheOK
    <3> QED BY <2>2, <3>1, <3>2, <3>3, QuietFacts
  <2>3. CASE f.cached.data # d /\ ~ (f.stored.data = d /\ f.stored.output)
    <3> DEFINE old == f.stored
    <3>1. g = Derived(old, d)
      BY <2>3 DEF GetFeedEntry
    <3>2. old \in FeedEntry(latest) /\ PostFits(old.post)
      BY <1>1 DEF CacheOK
    <3>3. At(f, d) = old /\ Own(f, d) = IF old.data = d THEN old.injections ELSE {}
      BY <2>3 DEF At, Own
    <3> HIDE DEF old, g
    <3>4. /\ g.data = d /\ PostFits(g.post) /\ Follows(g, d, made)
          /\ Quiet(old, g) \/ Heard(old, g)
          /\ g.injections = IF old.data = d THEN old.injections ELSE {}
      BY <3>1, <3>2, DerivedOK
    <3> QED BY <3>3, <3>4
  <2> QED BY <2>1, <2>2, <2>3
<1> HIDE DEF g
<1>4. h.stored = g /\ h.cached = NoFeed /\ h \in FeedRecord(latest)
  BY <1>1, <1>2 DEF FeedRecord
<1>5. At(h, d) = g /\ Own(h, d) = g.injections
  BY <1>3, <1>4, NoFeedFits DEF At, Own
<1>6. CacheOK(h, d, d, made)
  BY <1>3, <1>4, NoFeedFits DEF CacheOK
<1> QED BY <1>3, <1>4, <1>5, <1>6, NoFeedFits

----------------------------------------------------------------------------
(* The data of the store: it stays, is cleared, or is a new object.         *)

LEMMA OnNextData ==
  ASSUME NEW n \in Nat, NEW e \in EntryRecord(n), NEW versions, NEW status, NEW ok,
         NEW pending, NEW id
  PROVE  LET r == OnNext(e, versions, status, ok, pending, id)
         IN r.data = e.data \/ r.data.id = id
BY DEF OnNext, EntryRecord

LEMMA FetchData ==
  ASSUME StoreInv, NewId \in Nat, NEW how, NEW patched \in EntryRecord(latest), NEW c,
         CoreOK(c, latest), Fetch(how, patched, c)
  PROVE  entry'.data = patched.data \/ entry'.data.id = NewId
<1> DEFINE cached    == Merged(c)
           willFetch == /\ setting.servers # {}
                        /\ \/ how \in {"unset", "default"}
                           \/ how = "offline_first" /\ cached = {}
           status == IF willFetch THEN "loading" ELSE "success"
           next == OnNext(patched, cached, status, 0,
                          IF willFetch THEN Cardinality(setting.servers) ELSE 0, NewId)
           shown == IF cached = {} THEN patched ELSE next
<1>1. latest \in Nat
  BY DEF StoreInv, StoreTypes
<1>2. cached \in SUBSET (0..latest) /\ status \in {"loading", "success", "error"}
  BY <1>1, MergedTyped
<1>3. entry' = shown \/ entry' = OnComplete(shown)
  BY DEF Fetch
<1> HIDE DEF willFetch, cached, status
<1>4. next \in EntryRecord(latest) /\ (next.data = patched.data \/ next.data.id = NewId)
  BY <1>1, <1>2, OnNextTyped, OnNextData
<1> HIDE DEF next
<1>5. shown \in EntryRecord(latest) /\ (shown.data = patched.data \/ shown.data.id = NewId)
  BY <1>4
<1> HIDE DEF shown
<1> QED BY <1>1, <1>3, <1>5, OnCompleteTyped

EntryMoves == entry'.data \in {entry.data, NoData} \/ entry'.data.id = NewId

LEMMA EntryData ==
  ASSUME FeedInv, StoreStep
  PROVE  EntryMoves
<1>1. /\ StoreInv /\ NewId \in Nat /\ latest \in Nat /\ entry \in EntryRecord(latest)
      /\ CoreOK(core, latest)
  BY StoreMeans DEF FeedInv, StoreInv, StoreTypes, FetchOK
<1>2. Loading(entry) \in EntryRecord(latest) /\ Loading(entry).data = entry.data
  BY <1>1, LoadingTyped
<1>3. ASSUME NEW how, Subscribe(how) \/ Extend(how) PROVE EntryMoves
  <2>1. \/ entry' = entry
        \/ \E a : Fetch(a, entry, core) \/ Fetch(a, Loading(entry), core)
    BY <1>3 DEF Subscribe, Extend
  <2> QED BY <1>1, <1>2, <2>1, FetchData DEF EntryMoves
<1>4. ASSUME NEW strategy, Refresh(strategy) PROVE EntryMoves
  <2> DEFINE c == IF strategy = "fetch" THEN core ELSE Invalidated(core)
             d == IF strategy = "eager" THEN NoData ELSE Loading(entry).data
             patched == [Loading(entry) EXCEPT !.hasPendingRefresh = TRUE, !.data = d]
  <2>1. entry' = entry \/ Fetch("default", patched, c)
    BY <1>4 DEF Refresh
  <2>2. CoreOK(c, latest)
    <3>1. core.epoch \in Nat
      BY <1>1 DEF CoreOK, CoreRecord
    <3> QED BY <1>1, <3>1, InvalidatedOK
  <2>3. d \in DataUpTo(latest) /\ d \in {entry.data, NoData}
    <3>1. NoData \in DataUpTo(latest)
      BY <1>1, NoFeedTyped
    <3> QED BY <1>1, <1>2, <3>1 DEF EntryRecord
  <2> HIDE DEF d, c
  <2>4. patched \in EntryRecord(latest) /\ patched.data = d
    BY <1>2, <2>3 DEF EntryRecord
  <2> HIDE DEF patched
  <2> QED BY <1>1, <2>1, <2>2, <2>3, <2>4, FetchData DEF EntryMoves
<1>5. ASSUME NEW t, NEW s, NEW succeeds, NEW value, Answer(t, s, succeeds, value)
      PROVE  EntryMoves
  <2> DEFINE c    == IF succeeds THEN Update(core, s, value, t.epoch) ELSE core
             left == [t EXCEPT !.waiting = @ \ {s},
                               !.successful = IF succeeds THEN @ + 1 ELSE @]
             status == IF Merged(c) = {} THEN "error" ELSE "success"
             next == OnNext(entry, Merged(c), status, left.successful, 0, NewId)
  <2>1. entry' = entry \/ entry' = OnComplete(next)
    BY <1>5 DEF Answer
  <2> HIDE DEF c, left, status
  <2>2. next.data = entry.data \/ next.data.id = NewId
    BY <1>1, OnNextData
  <2>3. OnComplete(next).data = next.data
    BY <1>1 DEF OnComplete, OnNext, EntryRecord
  <2> QED BY <2>1, <2>2, <2>3 DEF EntryMoves
<1>6. CASE \E s \in setting.servers : Answers(s) \/ Serve(s)
  <2>1. CASE \E s \in setting.servers : Answers(s)
    BY <1>5, <2>1 DEF Answers
  <2>2. CASE \E s \in setting.servers : Serve(s)
    BY <2>2 DEF Serve, EntryMoves
  <2> QED BY <1>6, <2>1, <2>2
<1> QED BY <1>3, <1>4, <1>6 DEF StoreStep, storeVars, Unsubscribe, EntryMoves

----------------------------------------------------------------------------
(* What a step does to the feed, for the data the store held before it.     *)

Moved ==
  /\ feed' \in FeedRecord(latest) /\ CacheOK(feed', entry.data, seen', made)
  /\ feed'.cached.data \in {NoData, feed.cached.data, seen}
  /\ entry.data # NoData => Own(feed, entry.data) \subseteq Own(feed', entry.data)
  /\ composed' # composed /\ entry.data # NoData /\ At(feed, entry.data).listed =>
       /\ composed' \in Own(feed', entry.data)
       /\ View(At(feed', entry.data).post)["replyCount"]
            = View(At(feed, entry.data).post)["replyCount"] + 1

LEMMA StaysMoved ==
  ASSUME FeedInv, CacheInv, UNCHANGED <<feed, composed>>, seen' \in {seen, NoData}
  PROVE  Moved
<1>1. feed \in FeedRecord(latest) /\ CacheOK(feed, entry.data, seen, made)
  BY StoreMeans DEF CacheInv
<1>2. CacheOK(feed, entry.data, seen', made)
  BY <1>1 DEF CacheOK
<1> QED BY <1>1, <1>2 DEF Moved

LEMMA ComposedMoved ==
  ASSUME FeedInv, CacheInv, seen' = seen, composed' = composed + 1,
         feed' = InjectPost(AlterReplyCount(feed, 1), composed + 1)
  PROVE  Moved
<1> DEFINE d == entry.data
           h == AlterReplyCount(feed, 1)
<1>1. /\ feed \in FeedRecord(latest) /\ CacheOK(feed, d, seen, made)
      /\ composed + 1 \in Nat
  BY StoreMeans DEF CacheInv, FeedInv, AuthorOK
<1>2. /\ h \in FeedRecord(latest) /\ CacheOK(h, d, seen, made)
      /\ h.cached.data \in {NoData, feed.cached.data, seen}
      /\ d # NoData => Own(feed, d) \subseteq Own(h, d)
      /\ At(feed, d).listed =>
           /\ h.stored # NoFeed
           /\ View(At(h, d).post)["replyCount"] = View(At(feed, d).post)["replyCount"] + 1
  BY <1>1, AlterReplyCountOK
<1> HIDE DEF h
<1>3. /\ feed' \in FeedRecord(latest) /\ CacheOK(feed', d, seen, made)
      /\ feed'.cached.data \in {NoData, h.cached.data, seen}
      /\ Quiet(At(h, d), At(feed', d))
      /\ d # NoData => Own(h, d) \subseteq Own(feed', d)
      /\ d # NoData /\ h.stored # NoFeed => composed + 1 \in Own(feed', d)
  <2>1. feed' = InjectPost(h, composed + 1)
    BY DEF h
  <2> QED BY <1>1, <1>2, <2>1, InjectPostOK
<1>4. View(At(feed', d).post) = View(At(h, d).post)
  BY <1>3 DEF Quiet, Same
<1> QED BY <1>2, <1>3, <1>4 DEF Moved

LEMMA RenderMoved ==
  ASSUME FeedInv, CacheInv, seen' = entry.data, feed' = Pulled(feed, entry.data),
         composed' = composed
  PROVE  Moved
<1>1. CASE entry.data = NoData
  <2>1. feed' = feed
    BY <1>1 DEF Pulled
  <2> QED BY <1>1, <2>1, StaysMoved
<1>2. CASE entry.data # NoData
  <2>1. /\ feed \in FeedRecord(latest) /\ CacheOK(feed, entry.data, seen, made)
        /\ latest \in Nat /\ entry.data \in DataUpTo(latest)
    BY StoreMeans DEF CacheInv
  <2>2. /\ feed' \in FeedRecord(latest) /\ CacheOK(feed', entry.data, entry.data, made)
        /\ feed'.cached.data = NoData
        /\ Own(feed, entry.data) \subseteq Own(feed', entry.data)
    BY <1>2, <2>1, PulledOK
  <2> QED BY <2>2 DEF Moved
<1> QED BY <1>1, <1>2

LEMMA NextMoved ==
  ASSUME FeedInv, CacheInv, Next
  PROVE  Moved
<1>1. feed \in FeedRecord(latest) /\ CacheOK(feed, entry.data, seen, made)
  BY StoreMeans DEF CacheInv
<1>2. CASE Network \/ Sharing
  <2>1. UNCHANGED <<feed, composed, seen>>
    BY <1>2 DEF Network, Sharing, feedVars
  <2> QED BY <2>1, StaysMoved
<1>3. CASE Screen
  <2>1. composed' = composed
    BY <1>3 DEF Screen, Mount, Render, Unmount
  <2>2. \/ seen' = entry.data /\ feed' = Pulled(feed, entry.data)
        \/ seen' = NoData /\ feed' = feed
    BY <1>3 DEF Screen, Mount, Render, Unmount
  <2> QED BY <2>1, <2>2, RenderMoved, StaysMoved
<1>4. CASE Compose \/ ComposeFail
  <2>1. /\ seen' = seen /\ composed' = composed + 1
        /\ feed' = InjectPost(AlterReplyCount(feed, 1), composed + 1)
    BY <1>4 DEF Compose, ComposeFail
  <2> QED BY <2>1, ComposedMoved
<1>5. ASSUME NEW w \in syncing, Synced(w) \/ SyncFailed(w) PROVE Moved
  <2>1. /\ seen' = seen /\ composed' = composed
        /\ feed' = feed \/ feed' = AlterReplyCount(feed, -1)
    BY <1>5 DEF Synced, SyncFailed
  <2>2. CASE feed' = feed
    BY <2>1, <2>2, StaysMoved
  <2>3. CASE feed' = AlterReplyCount(feed, -1)
    <3>1. /\ feed' \in FeedRecord(latest) /\ CacheOK(feed', entry.data, seen, made)
          /\ feed'.cached.data \in {NoData, feed.cached.data, seen}
          /\ entry.data # NoData => Own(feed, entry.data) \subseteq Own(feed', entry.data)
      BY <1>1, <2>3, AlterReplyCountOK
    <3> QED BY <2>1, <3>1 DEF Moved
  <2> QED BY <2>1, <2>2, <2>3
<1>6. ASSUME NEW f \in flows, React(f) PROVE Moved
  <2>1. /\ seen' = seen /\ composed' = composed
        /\ feed' = InjectReaction(feed, ReactionOf(f.was), f.next)
    BY <1>6 DEF React
  <2>2. ReactionOf(f.was) \in Choices /\ f.next \in Choices
    BY ReactionOfTyped DEF FeedInv, AuthorOK
  <2>3. /\ feed' \in FeedRecord(latest) /\ CacheOK(feed', entry.data, seen, made)
        /\ feed'.cached.data \in {NoData, feed.cached.data, seen}
        /\ entry.data # NoData => Own(feed, entry.data) \subseteq Own(feed', entry.data)
    BY <1>1, <2>1, <2>2, InjectReactionOK
  <2> QED BY <2>1, <2>3 DEF Moved
<1>7. ASSUME \/ \E i \in 1..Len(made) : DeleteReply(i)
             \/ \E r \in Reactions : Tap(r)
             \/ \E f \in flows : ReactFail(f)
             \/ RefreshReactions
      PROVE  Moved
  <2>1. UNCHANGED <<feed, composed, seen>>
    BY <1>7 DEF DeleteReply, Tap, ReactFail, RefreshReactions
  <2> QED BY <2>1, StaysMoved
<1>8. Author => Moved
  BY <1>4, <1>5, <1>6, <1>7 DEF Author
<1> QED BY <1>2, <1>3, <1>8 DEF Next

(* The events already published stay as they are.                           *)
LEMMA MadeStays ==
  ASSUME FeedInv, Next
  PROVE  \A i \in 1..(latest - 1) : made'[i] = made[i]
<1>1. made \in Seq(Event) /\ Len(made) = latest - 1
  BY DEF FeedInv, AuthorOK
<1>2. ASSUME NEW events \in Seq(Event), Publish(events)
      PROVE  \A i \in 1..(latest - 1) : made'[i] = made[i]
  BY <1>1, <1>2 DEF Publish
<1>3. CASE Network \/ Sharing \/ Screen
  BY <1>3 DEF Network, Sharing, Screen, Mount, Render, Unmount, feedVars
<1>4. CASE Compose
  <2> DEFINE event == [kind |-> "reply", id |-> composed + 1]
  <2>1. event \in Event /\ Publish(<<event>>)
    BY <1>4 DEF FeedInv, AuthorOK, Event, Compose
  <2> HIDE DEF event
  <2>2. <<event>> \in Seq(Event)
    BY <2>1
  <2> QED BY <1>2, <2>1, <2>2
<1>5. ASSUME NEW i \in 1..Len(made), DeleteReply(i)
      PROVE  \A j \in 1..(latest - 1) : made'[j] = made[j]
  <2> DEFINE event == [kind |-> "delete", target |-> i]
  <2>1. event \in Event /\ Publish(<<event>>)
    BY <1>5 DEF Event, DeleteReply
  <2> HIDE DEF event
  <2>2. <<event>> \in Seq(Event)
    BY <2>1
  <2> QED BY <1>2, <2>1, <2>2
<1>6. ASSUME NEW f \in flows, React(f) \/ ReactFail(f)
      PROVE  \A j \in 1..(latest - 1) : made'[j] = made[j]
  <2>1. f \in [was : Reacting(made), next : Choices]
    BY DEF FeedInv, AuthorOK
  <2>2. ReactionEvents(f) \in Seq(Event)
    BY <1>1, <2>1, ReactionEventsTyped
  <2>3. <<[kind |-> "delete", target |-> f.was]>> \in Seq(Event)
    BY <1>1, <2>1, ReactionEventsTyped
  <2> QED BY <1>2, <1>6, <2>2, <2>3 DEF React, ReactFail
<1>7. CASE ComposeFail \/ RefreshReactions
  BY <1>7 DEF ComposeFail, RefreshReactions
<1>8. ASSUME NEW w \in syncing, Synced(w) \/ SyncFailed(w)
      PROVE  \A j \in 1..(latest - 1) : made'[j] = made[j]
  BY <1>8 DEF Synced, SyncFailed
<1>9. ASSUME NEW r \in Reactions, Tap(r)
      PROVE  \A j \in 1..(latest - 1) : made'[j] = made[j]
  BY <1>9 DEF Tap
<1> QED BY <1>3, <1>4, <1>5, <1>6, <1>7, <1>8, <1>9 DEF Next, Author

LEMMA CacheGoesOn ==
  ASSUME FeedInv, CacheInv, Next
  PROVE  /\ CacheInv'
         /\ Quiet(At(feed', entry.data), At(feed', entry'.data))
<1>1. /\ StepOK /\ Moved /\ EntryMoves /\ latest \in Nat
      /\ \A i \in 1..(latest - 1) : made'[i] = made[i]
  BY NextOK, NextMoved, EntryData, MadeStays, StoreMeans DEF StepOK
<1>2. feed'.cached.data.id \in held \cup {0}
  BY <1>1 DEF Moved, CacheInv, NoData
<1>3. entry'.data \in {entry.data, NoData} \/ entry'.data # feed'.cached.data
  <2>1. entry.data.id \in Nat
    BY StoreMeans DEF DataUpTo
  <2>2. NewId \notin held \cup {0}
    BY <2>1, NewIdIsNew DEF FeedInv, HeldOK
  <2> QED BY <1>1, <1>2, <2>2 DEF EntryMoves
<1>4. ASSUME NEW e, NEW d \in DataUpTo(latest), Follows(e, d, made)
      PROVE  Follows(e, d, made')
  <2>1. PostOf(made', d) = PostOf(made, d)
    BY <1>1, PostOfStays
  <2> QED BY <1>4, <2>1 DEF Follows
<1>5. /\ feed'.stored.data \in DataUpTo(latest) /\ feed'.cached.data \in DataUpTo(latest)
      /\ seen' \in DataUpTo(latest)
  BY <1>1 DEF StepOK, FeedRecord, FeedEntry
<1>6. CacheOK(feed', entry.data, seen', made)
  BY <1>1 DEF Moved
<1>7. CacheOK(feed', entry'.data, seen', made')
  BY <1>3, <1>4, <1>5, <1>6 DEF CacheOK
<1>8. held' = {seen'.id, feed'.stored.data.id, feed'.cached.data.id}
  BY DEF Next
<1>9. CacheInv'
  BY <1>7, <1>8 DEF CacheInv
<1>10. Quiet(At(feed', entry.data), At(feed', entry'.data))
  BY <1>3, <1>6, SameFacts DEF At, CacheOK, Quiet
<1> QED BY <1>9, <1>10

LEMMA CacheInitially == Init => CacheInv
<1>1. SUFFICES ASSUME Init PROVE CacheInv
  OBVIOUS
<1>2. /\ feed.stored = NoFeed /\ feed.cached = NoFeed /\ seen = NoData
      /\ NoFeed.output = FALSE /\ NoData.id = 0
  BY <1>1 DEF Init, NoFeed, NoData
<1>3. CacheOK(feed, entry.data, seen, made)
  BY <1>2, NoFeedFits, SameFacts DEF CacheOK
<1> QED BY <1>2, <1>3, NoFeedFits DEF CacheInv

LEMMA CachePreserved == FeedInv /\ CacheInv /\ [Next]_vars => CacheInv'
<1>1. CASE UNCHANGED vars
  BY <1>1 DEF vars, feedVars, storeVars, CacheInv
<1> QED BY <1>1, CacheGoesOn

LEMMA CacheInvariant == Spec => [](FeedInv /\ CacheInv)
BY FeedInitially, FeedPreserved, CacheInitially, CachePreserved, PTL DEF Spec

----------------------------------------------------------------------------
(* The two theorems about the feed cache.                                   *)

CurrentOK ==
  /\ Current = At(feed, entry.data) /\ Current.listed \in BOOLEAN
  /\ Base(Current.post) \in [Shown -> Nat] /\ View(Current.post) \in [Shown -> Nat]
  /\ [c \in Shown |-> Current.post.originalPost[c]] = Base(Current.post)
  /\ [c \in Shown |-> Displayed[c]] = View(Current.post)
  /\ Displayed.replyCount = View(Current.post)["replyCount"]

LEMMA CurrentMeans == FeedInv /\ CacheInv => CurrentOK
<1> SUFFICES ASSUME FeedInv, CacheInv PROVE CurrentOK
  OBVIOUS
<1>1. /\ Current = At(feed, entry.data) /\ Current \in FeedEntry(latest)
      /\ PostFits(Current.post)
  BY StoreMeans, ExistingOK DEF Current, CacheInv
<1>2. Current.post \in PostEntry /\ Current.listed \in BOOLEAN
  BY <1>1 DEF FeedEntry
<1> QED BY <1>1, <1>2, ViewTyped DEF CurrentOK, Displayed, Base

(* The change of a reaction that a flow f stands for, once the events m are *)
(* published.                                                               *)
ChangeIn(m, f) ==
  [flow |-> f,
   by   |-> ChoiceShift(IF f.was = 0 THEN NoReaction ELSE m[f.was].reaction, f.next)]

LEMMA ChangesMean ==
  /\ ReactionChanges = {ChangeIn(made, f) : f \in flows}
  /\ ReactionChanges' = {ChangeIn(made', f) : f \in flows'}
BY DEF ReactionChanges, ReactionShift, ReactionOf, ChangeIn, ChoiceShift

LEMMA ChangesStay ==
  ASSUME FeedInv, Next
  PROVE  /\ flows' = flows => ReactionChanges' = ReactionChanges
         /\ flows \subseteq flows' => ReactionChanges \subseteq ReactionChanges'
         /\ \A f \in flows : flows' = flows \ {f} =>
              ReactionChanges' = ReactionChanges \ {ChangeIn(made, f)}
<1>1. ASSUME NEW f \in flows PROVE ChangeIn(made', f) = ChangeIn(made, f)
  <2>1. f.was \in 0..(latest - 1) /\ latest \in Nat
    BY StoreMeans DEF FeedInv, AuthorOK, Reacting
  <2>2. f.was # 0 => made'[f.was] = made[f.was]
    BY <2>1, MadeStays
  <2> QED BY <2>2 DEF ChangeIn
<1>2. \A m, f, g : ChangeIn(m, f) = ChangeIn(m, g) => f = g
  <2>1. \A m, f : ChangeIn(m, f).flow = f
    BY DEF ChangeIn
  <2> QED BY <2>1
<1> QED BY <1>1, <1>2, ChangesMean

(* What a step does to the entry e that counts, which becomes g, and to     *)
(* what the user has under way.                                             *)
Effect(e, g) ==
  \/ /\ composed' = composed /\ Deletions' = Deletions /\ ReactionChanges' = ReactionChanges
     /\ Quiet(e, g) \/ Heard(e, g)
  \/ /\ composed' = composed /\ Deletions \subseteq Deletions'
     /\ ReactionChanges \subseteq ReactionChanges' /\ Quiet(e, g)
  \/ /\ composed' = composed + 1 /\ Deletions' = Deletions
     /\ ReactionChanges' = ReactionChanges /\ Done(e, g, ReplyShift(1))
  \/ /\ composed' = composed /\ ReactionChanges' = ReactionChanges
     /\ \E w \in Deletions : Deletions' = Deletions \ {w}
     /\ Done(e, g, ReplyShift(-1)) \/ Quiet(e, g)
  \/ /\ composed' = composed /\ Deletions' = Deletions
     /\ \E r \in ReactionChanges : /\ ReactionChanges' = ReactionChanges \ {r}
                                   /\ Done(e, g, r.by) \/ Quiet(e, g)

LEMMA EffectQuiet ==
  ASSUME NEW e, NEW g, NEW h, Effect(e, g), Quiet(g, h)
  PROVE  Effect(e, h)
<1>1. /\ Quiet(e, g) => Quiet(e, h)
      /\ Heard(e, g) => Heard(e, h)
      /\ \A by : Done(e, g, by) => Done(e, h, by)
  BY QuietFacts
<1> HIDE DEF Quiet, Heard, Done
<1> QED BY <1>1 DEF Effect

LEMMA NextEffect ==
  ASSUME FeedInv, CacheInv, Next
  PROVE  Effect(At(feed, entry.data), At(feed', entry.data))
<1> DEFINE e == At(feed, entry.data)
           g == At(feed', entry.data)
<1>1. feed \in FeedRecord(latest) /\ CacheOK(feed, entry.data, seen, made)
  BY StoreMeans DEF CacheInv
<1>2. feed' = feed => Quiet(e, g)
  BY QuietFacts
<1>3. syncing' = syncing => Deletions' = Deletions
  BY DEF Deletions
<1>4. flows' = flows => ReactionChanges' = ReactionChanges
  BY ChangesStay
<1>5. CASE Network \/ Sharing
  <2>1. UNCHANGED <<feed, composed, syncing, flows>>
    BY <1>5 DEF Network, Sharing, feedVars
  <2> HIDE DEF e, g
  <2> QED BY <1>2, <1>3, <1>4, <2>1 DEF Effect, e, g
<1>6. CASE Screen
  <2>1. UNCHANGED <<composed, syncing, flows>>
    BY <1>6 DEF Screen, Mount, Render, Unmount
  <2>2. feed' = feed \/ feed' = Pulled(feed, entry.data)
    BY <1>6 DEF Screen, Mount, Render, Unmount
  <2>3. Quiet(e, g) \/ Heard(e, g)
    <3>1. CASE entry.data = NoData
      BY <1>2, <2>2, <3>1 DEF Pulled
    <3>2. CASE entry.data # NoData
      <4>1. latest \in Nat /\ entry.data \in DataUpTo(latest)
        BY StoreMeans
      <4>2. feed' = Pulled(feed, entry.data) => Quiet(e, g) \/ Heard(e, g)
        BY <1>1, <3>2, <4>1, PulledOK
      <4> QED BY <1>2, <2>2, <4>2
    <3> QED BY <3>1, <3>2
  <2> HIDE DEF e, g
  <2> QED BY <1>3, <1>4, <2>1, <2>3 DEF Effect, e, g
<1>7. CASE Compose \/ ComposeFail
  <2> DEFINE h == AlterReplyCount(feed, 1)
             x == At(h, entry.data)
  <2>1. /\ UNCHANGED flows /\ composed' = composed + 1
        /\ feed' = InjectPost(h, composed + 1)
    BY <1>7 DEF Compose, ComposeFail
  <2>2. Deletions' = Deletions
    BY <1>7 DEF Compose, ComposeFail, Deletions
  <2>3. /\ h \in FeedRecord(latest) /\ CacheOK(h, entry.data, seen, made)
        /\ Done(e, x, ReplyShift(1))
    BY <1>1, AlterReplyCountOK
  <2> HIDE DEF h
  <2>4. composed + 1 \in Nat
    BY DEF FeedInv, AuthorOK
  <2>5. Quiet(x, g)
    BY <2>1, <2>3, <2>4, InjectPostOK
  <2>6. Done(e, g, ReplyShift(1))
    <3> HIDE DEF e, g, x
    <3> QED BY <2>3, <2>5, QuietFacts
  <2> HIDE DEF e, g
  <2> QED BY <1>4, <2>1, <2>2, <2>6 DEF Effect, e, g
<1>8. ASSUME NEW w \in syncing, Synced(w) \/ SyncFailed(w)
      PROVE  Effect(e, g)
  <2>1. /\ UNCHANGED <<composed, flows>> /\ syncing' = syncing \ {w}
        /\ feed' = feed \/ (w.kind = "delete" /\ feed' = AlterReplyCount(feed, -1))
    BY <1>8 DEF Synced, SyncFailed
  <2>2. Quiet(e, g) \/ (w.kind = "delete" /\ Done(e, g, ReplyShift(-1)))
    <3>1. feed' = AlterReplyCount(feed, -1) => Done(e, g, ReplyShift(-1))
      BY <1>1, AlterReplyCountOK
    <3> QED BY <1>2, <2>1, <3>1
  <2>3. \/ w.kind = "delete" /\ w \in Deletions /\ Deletions' = Deletions \ {w}
        \/ w.kind # "delete" /\ Deletions' = Deletions
    BY <2>1 DEF Deletions
  <2> HIDE DEF e, g
  <2> QED BY <1>4, <2>1, <2>2, <2>3 DEF Effect
<1>9. ASSUME NEW f \in flows, React(f) \/ ReactFail(f)
      PROVE  Effect(e, g)
  <2> DEFINE r == ChangeIn(made, f)
  <2>1. /\ UNCHANGED <<composed, syncing>> /\ flows' = flows \ {f}
        /\ feed' = feed \/ feed' = InjectReaction(feed, ReactionOf(f.was), f.next)
    BY <1>9 DEF React, ReactFail
  <2>2. ReactionOf(f.was) \in Choices /\ f.next \in Choices
    BY ReactionOfTyped DEF FeedInv, AuthorOK
  <2>3. feed' = InjectReaction(feed, ReactionOf(f.was), f.next)
          => Done(e, g, ChoiceShift(ReactionOf(f.was), f.next))
    BY <1>1, <2>2, InjectReactionOK
  <2>4. r \in ReactionChanges /\ ReactionChanges' = ReactionChanges \ {r}
    BY <2>1, ChangesStay, ChangesMean
  <2>5. r.by = ChoiceShift(ReactionOf(f.was), f.next)
    BY DEF ChangeIn, ReactionOf
  <2> HIDE DEF e, g, r
  <2>6. Quiet(e, g) \/ Done(e, g, r.by)
    BY <1>2, <2>1, <2>3, <2>5
  <2> QED BY <1>3, <2>1, <2>4, <2>6 DEF Effect
<1>10. ASSUME \/ \E i \in 1..Len(made) : DeleteReply(i)
              \/ \E r \in Reactions : Tap(r)
              \/ RefreshReactions
       PROVE  Effect(e, g)
  <2>1. UNCHANGED <<feed, composed>> /\ syncing \subseteq syncing' /\ flows \subseteq flows'
    BY <1>10 DEF DeleteReply, Tap, RefreshReactions
  <2>2. Deletions \subseteq Deletions'
    BY <2>1 DEF Deletions
  <2>3. ReactionChanges \subseteq ReactionChanges'
    BY <2>1, ChangesStay
  <2> HIDE DEF e, g
  <2> QED BY <1>2, <2>1, <2>2, <2>3 DEF Effect
<1>11. Author => Effect(e, g)
  <2> HIDE DEF e, g
  <2> QED BY <1>7, <1>8, <1>9, <1>10 DEF Author, e, g
<1> QED BY <1>5, <1>6, <1>11 DEF Next

LEMMA StepRefines ==
  ASSUME FeedInv, CacheInv, Next, FeedInv', CacheInv'
  PROVE  [Counters!Next]_(Counters!vars)
<1> DEFINE e == Current
           g == Current'
           p == e.post
           q == g.post
<1>1. /\ Base(p) \in [Shown -> Nat] /\ View(p) \in [Shown -> Nat]
      /\ [c \in Shown |-> Current.post.originalPost[c]] = Base(p)
      /\ [c \in Shown |-> Displayed[c]] = View(p)
      /\ e = At(feed, entry.data)
  BY CurrentMeans DEF CurrentOK
<1>2. /\ Base(q) \in [Shown -> Nat] /\ View(q) \in [Shown -> Nat]
      /\ [c \in Shown |-> Current.post.originalPost[c]]' = Base(q)
      /\ [c \in Shown |-> Displayed[c]]' = View(q)
  <2>1. CurrentOK'
    BY CurrentMeans, PTL
  <2> QED BY <2>1 DEF CurrentOK, Base, View, Overlays
<1>3. Effect(e, g)
  <2>1. g = At(feed', entry'.data)
    BY DEF Current, Existing, At
  <2> QED BY <1>1, <2>1, CacheGoesOn, NextEffect, EffectQuiet
<1>4. e.listed \in BOOLEAN /\ g.listed \in BOOLEAN
  <2>1. CurrentOK /\ CurrentOK'
    BY CurrentMeans, PTL
  <2> QED BY <2>1 DEF CurrentOK
<1>5. ASSUME NEW by, Done(e, g, by) PROVE Base(q) = Base(p) /\ Counters!Shift(by)
  BY <1>1, <1>2, <1>5 DEF Done, Changed, Same, Counters!Shift, AtLeast0
<1>6. \A n : Counters!ReplyCount(n) = ReplyShift(n)
  BY DEF Counters!ReplyCount, ReplyShift
<1>7. Heard(e, g) =>
        /\ g.listed \in {e.listed, TRUE}
        /\ [c \in Shown |-> Displayed[c]]'
             = [c \in Shown |-> IF Counters!Ahead(View(p)[c], Base(p)[c], Base(q)[c])
                                THEN View(p)[c] ELSE Base(q)[c]]
  BY <1>2, <1>4 DEF Heard, Received, AheadOf, Counters!Ahead
<1>8. Quiet(e, g) => Base(q) = Base(p) /\ View(q) = View(p) /\ g.listed = e.listed
  BY DEF Quiet, Same
<1>9. \A by : Done(e, g, by) => g.listed = e.listed
  BY DEF Done
<1> QED BY <1>1, <1>2, <1>3, <1>5, <1>6, <1>7, <1>8, <1>9
        DEF Effect, Counters!Next, Counters!vars, Counters!Reply, Counters!Begin, Counters!Receive,
            Counters!EndDeletion, Counters!EndReaction

LEMMA InitRefines == Init => Counters!Init
<1>1. SUFFICES ASSUME Init PROVE Counters!Init
  OBVIOUS
<1>2. FeedInv /\ CacheInv
  BY <1>1, FeedInitially, CacheInitially
<1>3. Current = NoFeed
  BY <1>1 DEF Init, Current, Existing
<1>4. \A c \in Shown : NoFeed.post.originalPost[c] = 0
  BY DEF NoFeed, NoPost, Shown
<1>5. \A c \in Shown : View(NoFeed.post)[c] = 0
  <2>1. Undefined.localOffset = 0
    BY DEF Undefined, CounterOverlay
  <2>2. \A c \in Shown : Overlays(NoFeed.post)[c] = Undefined
    BY DEF Shown, Overlays, NoFeed, EmptyPostOverlay, NoReactionOverlay
  <2> QED BY <1>4, <2>1, <2>2 DEF View, Overlaid, Get, Defined
<1>6. [c \in Shown |-> Displayed[c]] = [c \in Shown |-> 0]
  BY <1>2, <1>3, <1>5, CurrentMeans DEF CurrentOK, View
<1>7. [c \in Shown |-> Current.post.originalPost[c]] = [c \in Shown |-> 0]
  BY <1>3, <1>4
<1>8. Current.listed = FALSE
  BY <1>3 DEF NoFeed
<1>9. composed = 0 /\ Deletions = {} /\ ReactionChanges = {}
  BY <1>1 DEF Init, Deletions, ReactionChanges
<1> QED BY <1>6, <1>7, <1>8, <1>9 DEF Counters!Init

(* The caches, re-derivations, renders and remounts of a feed implement the *)
(* optimistic counters (overlayTypes.ts): a counter changes only by an      *)
(* answer or when a reply, a deletion or a reaction of the user is done,    *)
(* then by exactly what that changes, and an answer never takes back a      *)
(* local change that it has not reached yet.                                *)
THEOREM FeedCountsOptimistically == Spec => CountersRefine
<1>1. UNCHANGED vars => UNCHANGED Counters!vars
  BY DEF vars, feedVars, storeVars, Counters!vars, Current, Existing, Displayed, Deletions,
         ReactionChanges, ReactionShift, ReactionOf
<1>2. FeedInv /\ CacheInv /\ [Next]_vars /\ (FeedInv /\ CacheInv)'
        => [Counters!Next]_(Counters!vars)
  BY <1>1, StepRefines
<1> QED BY <1>2, InitRefines, CacheInvariant, PTL DEF Spec, CountersRefine, Counters!Spec

(* The user's replies an answer d lists, once the events m are published.   *)
OwnIn(m, d) == {m[i].id : i \in UNION {RepliesIn(m, v) : v \in d.versions \ {0}}}

LEMMA OwnInStays ==
  ASSUME NEW n \in Nat, NEW d \in DataUpTo(n), NEW m, NEW k,
         \A i \in 1..(n - 1) : k[i] = m[i]
  PROVE  OwnIn(m, d) \subseteq OwnIn(k, d)
<1>1. ASSUME NEW v \in d.versions \ {0}, NEW i \in RepliesIn(m, v)
      PROVE  i \in RepliesIn(k, v) /\ k[i].id = m[i].id
  <2>1. v \in Nat /\ \A j \in 1..(v - 1) : k[j] = m[j]
    BY DEF DataUpTo
  <2>2. CountedIn(k, v) = CountedIn(m, v)
    BY <2>1 DEF CountedIn
  <2>3. i \in CountedIn(m, v) /\ k[i] = m[i] /\ m[i].kind = "reply"
    BY <2>1 DEF RepliesIn, CountedIn
  <2> QED BY <2>2, <2>3 DEF RepliesIn
<1> QED BY <1>1 DEF OwnIn

LEMMA OwnShownMeans ==
  OwnShown = OwnIn(made, entry.data) \cup Own(feed, entry.data)
<1>1. OwnAnswered(entry.data) = OwnIn(made, entry.data)
  BY DEF OwnAnswered, OwnIn, Replies, RepliesIn, Counted, CountedIn
<1>2. GetFeedEntry(feed, entry.data).injections = Own(feed, entry.data)
  <2> DEFINE d == entry.data
  <2>1. CASE feed.stored.data = d /\ feed.stored.output
    BY <2>1 DEF GetFeedEntry, Own
  <2>2. CASE feed.cached.data = d /\ ~ (feed.stored.data = d /\ feed.stored.output)
    BY <2>2 DEF GetFeedEntry, Own
  <2>3. CASE feed.cached.data # d /\ ~ (feed.stored.data = d /\ feed.stored.output)
    BY <2>3 DEF GetFeedEntry, Own, Derived
  <2> QED BY <2>1, <2>2, <2>3
<1> QED BY <1>1, <1>2 DEF OwnShown

(* A reply the user composes is shown and counted at once, and stays as     *)
(* long as the query data is the same (prepareOverlayMod, deriveEntry),     *)
(* whatever renders run late, screens close and changes overlap.            *)
THEOREM ComposedReplyStays == Spec => OwnReplyStays
<1> DEFINE Stays ==
      entry.data # NoData =>
        /\ entry'.data = entry.data => OwnShown \subseteq OwnShown'
        /\ composed' # composed /\ Current.listed =>
             /\ composed' \in OwnShown'
             /\ Displayed'.replyCount = Displayed.replyCount + 1
<1>1. ASSUME FeedInv, CacheInv, Next, FeedInv', CacheInv', entry.data # NoData
      PROVE  Stays
  <2>1. Moved /\ latest \in Nat /\ entry.data \in DataUpTo(latest)
    BY <1>1, NextMoved, StoreMeans
  <2>2. OwnIn(made, entry.data) \subseteq OwnIn(made', entry.data)
    BY <1>1, <2>1, MadeStays, OwnInStays
  <2>3. OwnShown = OwnIn(made, entry.data) \cup Own(feed, entry.data)
    BY OwnShownMeans
  <2>4. OwnShown' = OwnIn(made', entry'.data) \cup Own(feed', entry'.data)
    <3>1. (OwnShown = OwnIn(made, entry.data) \cup Own(feed, entry.data))'
      BY OwnShownMeans, PTL
    <3> QED BY <3>1 DEF OwnIn, RepliesIn, CountedIn, Own
  <2>5. composed' # composed => entry' = entry
    BY <1>1 DEF Next, Network, Sharing, Screen, Author, feedVars, Mount, Render, Unmount,
                Compose, ComposeFail, DeleteReply, Synced, SyncFailed, Tap, React, ReactFail,
                RefreshReactions, Publish, storeVars
  <2>6. /\ Current = At(feed, entry.data)
        /\ Displayed.replyCount = View(At(feed, entry.data).post)["replyCount"]
    BY <1>1, CurrentMeans DEF CurrentOK
  <2>7. Displayed'.replyCount = View(At(feed', entry'.data).post)["replyCount"]
    <3>1. CurrentOK'
      BY <1>1, CurrentMeans, PTL
    <3>2. Displayed'.replyCount = View(Current.post)["replyCount"]'
      BY <3>1 DEF CurrentOK
    <3>3. Current' = At(feed', entry'.data)
      BY DEF Current, Existing, At
    <3> QED BY <3>2, <3>3 DEF View, Overlays
  <2> QED BY <2>1, <2>2, <2>3, <2>4, <2>5, <2>6, <2>7 DEF Moved
<1>2. FeedInv /\ CacheInv /\ [Next]_vars /\ (FeedInv /\ CacheInv)' => [Stays]_vars
  BY <1>1
<1> QED BY <1>2, CacheInvariant, PTL DEF Spec, OwnReplyStays
=============================================================================
