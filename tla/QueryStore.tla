----------------------------- MODULE QueryStore -----------------------------
(* One query key: the query client of rs-core, which fans a query out to    *)
(* the servers and keeps their answers, and Harbor's query store, which     *)
(* shares the result between the components that subscribe to the key.      *)
(* What a server answers is the number of the user's published changes it   *)
(* has taken into account; 0 stands for a server that has nothing to show.  *)
(* The build modelled is the web one: a callback of the core runs on the    *)
(* JavaScript thread, inside the step that answers.                         *)
EXTENDS Naturals, FiniteSets

CONSTANTS
  Servers,       \* all servers
  Settings       \* the settings to check, see Setting

\* What is fixed while the application runs: the servers of the identity,
\* the UpdateMode of the key, the fetch modes of its subscribers, and how
\* its screens refresh.  The last two bound the model; the code has no
\* such limits: fan-outs and invalidations, and components subscribed at a
\* time.
Setting(s) ==
  /\ s.servers \subseteq Servers /\ s.start \subseteq 0..1
  /\ s.updateMode \in {"merge", "replace"}
  /\ s.fetchModes \subseteq {"unset", "default", "offline_first", "offline_only"}
  /\ s.strategies \subseteq {"fetch", "lazy", "eager"}
  /\ s.maxFanouts \in Nat /\ s.maxRefs \in Nat

ASSUME QueryAssumption == IsFiniteSet(Servers) /\ \A s \in Settings : Setting(s)

VARIABLES
  setting,   \* the setting this run of the application has
  core,      \* QueryState of rs-core
  tasks,     \* fan-outs with servers still to answer
  live,      \* epoch of the fan-out whose subscriber is open, 0 if none
  entry,     \* QueryRef of the store
  refCount,  \* components subscribed
  held,      \* data objects that users of the store refer to
  latest,    \* changes the user has published
  version,   \* how many of them each server has taken into account
  floor      \* history: version[s] when the core was last invalidated

storeVars == <<setting, core, tasks, live, entry, refCount, latest, version, floor>>

NoData == [id |-> 0, versions |-> {}]

\* The identity of a new ArrayBuffer: one that no object in use has.
NewId ==
  LET used == held \cup {entry.data.id}
  IN CHOOSE n \in 1..(Cardinality(used) + 1) : n \notin used /\ 1..(n - 1) \subseteq used

EMPTY_ENTRY ==
  [data |-> NoData, status |-> "loading", hasPendingRefresh |-> FALSE]

QueryInit ==
  /\ setting \in Settings
  /\ core = [pages |-> [s \in Servers |-> {}], at |-> [s \in Servers |-> 0],
             epoch |-> 0, latestReplace |-> 0]
  /\ tasks = {}
  /\ live = 0
  /\ entry = EMPTY_ENTRY
  /\ refCount = 0
  /\ held = {}
  /\ latest = 1
  /\ version \in [Servers -> setting.start]
  /\ floor = [s \in Servers |-> 0]

----------------------------------------------------------------------------
(* rs-core: QueryState.                                                     *)

\* The pages of a server merge by taking maxima and unions, so that the
\* order of pages and repeated ones make no difference.
Merged(c) == UNION {c.pages[s] : s \in Servers}

(* Slip: a fan-out does not open an epoch of its own.                       *)
NextFanoutSame(c, how) == c

NextFanout(c, how) ==
  [c EXCEPT !.epoch = @ + 1,
            !.latestReplace = IF how = "replace" THEN c.epoch + 1 ELSE @]

(* Slip: the answer to a fan-out from before an invalidation is kept.       *)
UpdateLate(c, s, value, epoch) ==
  [c EXCEPT !.pages[s] = IF setting.updateMode = "merge" THEN @ \cup {value} ELSE {value},
            !.at[s] = epoch]

Update(c, s, value, epoch) ==
  CASE setting.updateMode = "merge" /\ c.latestReplace > epoch -> c
    [] setting.updateMode = "merge" /\ c.latestReplace <= epoch ->
         [c EXCEPT !.pages[s] = @ \cup {value},
                   !.at[s] = IF @ >= epoch THEN @ ELSE epoch]
    [] setting.updateMode = "replace" /\ c.at[s] >= epoch -> c
    [] OTHER -> [c EXCEPT !.pages[s] = {value}, !.at[s] = epoch]

Invalidated(c) ==
  NextFanout([c EXCEPT !.pages = [s \in Servers |-> {}],
                       !.at = [s \in Servers |-> 0]], "replace")

----------------------------------------------------------------------------
(* The observer fetch() hands to the core.  The server counts and the error *)
(* message that the entry keeps for display are left out.                   *)

LocalEmpty(versions, ok) == ok = 0 /\ versions = {0}

OnNext(e, versions, status, ok, pending, id) ==
  [e EXCEPT !.status = status,
            !.data = IF versions = {} \/ (e.data # NoData /\ LocalEmpty(versions, ok))
                     THEN @ ELSE [id |-> id, versions |-> versions],
            !.hasPendingRefresh = @ /\ pending # 0 /\ ok = 0]

(* Slip: a fetch that ends without a result leaves the entry as it is.      *)
OnCompleteIgnored(e) == [e EXCEPT !.hasPendingRefresh = FALSE]

OnComplete(e) ==
  [e EXCEPT !.status = IF @ = "loading" THEN "success" ELSE @, !.hasPendingRefresh = FALSE]

\* LOADING_ENTRY as a patch
Loading(e) == [e EXCEPT !.status = "loading"]

\* fetch() of the store and the subscription to QueryClient::fetch: the new
\* subscriber replaces the one that was open.
Fetch(how, patched, c) ==
  LET cached    == Merged(c)
      willFetch == /\ setting.servers # {}
                   /\ \/ how \in {"unset", "default"}
                      \/ how = "offline_first" /\ cached = {}
      shown     == IF cached = {} THEN patched
                   ELSE OnNext(patched, cached, IF willFetch THEN "loading" ELSE "success", 0,
                               IF willFetch THEN Cardinality(setting.servers) ELSE 0, NewId)
  IN /\ entry' = IF willFetch THEN shown ELSE OnComplete(shown)
     /\ IF willFetch
        THEN /\ core' = NextFanout(c, setting.updateMode)
             /\ live' = c.epoch + 1
             /\ tasks' = tasks \cup {[epoch |-> c.epoch + 1, waiting |-> setting.servers,
                                      successful |-> 0, asked |-> version]}
        ELSE /\ core' = c
             /\ live' = 0
             /\ tasks' = tasks

MayFetch == core.epoch + 2 <= setting.maxFanouts

Subscribe(how) ==
  LET hasData == entry.data # NoData
      recover == ~ hasData /\ entry.status = "error"
      args    == IF recover THEN "default" ELSE how
      patched == IF hasData THEN entry ELSE Loading(entry)
  IN /\ MayFetch /\ refCount < setting.maxRefs
     /\ refCount' = refCount + 1
     /\ IF refCount > 0 /\ ~ recover /\ how # "default"
        THEN UNCHANGED <<core, tasks, live, entry>>
        ELSE Fetch(args, patched, core)
     /\ UNCHANGED <<setting, latest, version, floor>>

(* Slip: any component that leaves disposes the shared fetch.               *)
UnsubscribeDisposing ==
  /\ refCount > 0
  /\ refCount' = refCount - 1
  /\ live' = 0
  /\ UNCHANGED <<setting, core, tasks, entry, latest, version, floor>>

Unsubscribe ==
  /\ refCount > 0
  /\ refCount' = refCount - 1
  /\ live' = IF refCount = 1 THEN 0 ELSE live
  /\ UNCHANGED <<setting, core, tasks, entry, latest, version, floor>>

\* refresh(); without a subscription invalidateQuery() still clears the core.
Refresh(strategy) ==
  LET c       == IF strategy = "fetch" THEN core ELSE Invalidated(core)
      patched == [Loading(entry) EXCEPT !.hasPendingRefresh = TRUE,
                                        !.data = IF strategy = "eager" THEN NoData ELSE @]
  IN /\ MayFetch
     /\ floor' = IF strategy = "fetch" THEN floor ELSE version
     /\ \/ refCount > 0 /\ Fetch("default", patched, c)
        \/ /\ refCount = 0 /\ strategy # "fetch"
           /\ core' = c
           /\ UNCHANGED <<tasks, live, entry>>
     /\ UNCHANGED <<setting, refCount, latest, version>>

Extend(how) ==
  /\ MayFetch /\ refCount > 0
  /\ Fetch(how, Loading(entry), core)
  /\ UNCHANGED <<setting, refCount, latest, version, floor>>

\* get_server_response: server s answers fan-out t, or fails or times out.
Answer(t, s, succeeds, value) ==
  LET c    == IF succeeds THEN Update(core, s, value, t.epoch) ELSE core
      left == [t EXCEPT !.waiting = @ \ {s}, !.successful = IF succeeds THEN @ + 1 ELSE @]
      next == OnNext(entry, Merged(c), IF Merged(c) = {} THEN "error" ELSE "success",
                     left.successful, 0, NewId)
  IN /\ s \in t.waiting
     /\ core' = c
     /\ tasks' = (tasks \ {t}) \cup (IF left.waiting = {} THEN {} ELSE {left})
     /\ entry' = IF left.waiting = {} /\ t.epoch = live THEN OnComplete(next) ELSE entry
     /\ UNCHANGED <<setting, live, refCount, latest, version, floor>>

\* The server read its tables at some moment between question and answer.
Answers(s) ==
  \E t \in tasks :
    \/ Answer(t, s, FALSE, 0)
    \/ \E value \in t.asked[s]..version[s] : Answer(t, s, TRUE, value)

\* A server takes one more of the published changes into account.
Serve(s) ==
  /\ version[s] < latest
  /\ version' = [version EXCEPT ![s] = @ + 1]
  /\ UNCHANGED <<setting, core, tasks, live, entry, refCount, latest, floor>>

----------------------------------------------------------------------------
(* Properties.                                                              *)

Data == [id : Nat, versions : SUBSET (0..latest)]

Task == [epoch : 1..core.epoch, waiting : SUBSET Servers,
         successful : 0..Cardinality(Servers), asked : [Servers -> 0..latest]]

QueryTypeOK ==
  /\ setting \in Settings
  /\ core \in [pages : [Servers -> SUBSET (0..latest)], at : [Servers -> Nat],
               epoch : Nat, latestReplace : Nat]
  /\ tasks \subseteq Task
  /\ live \in 0..core.epoch
  /\ entry \in [data : Data, status : {"loading", "success", "error"},
                hasPendingRefresh : BOOLEAN]
  /\ refCount \in Nat /\ latest \in Nat /\ held \subseteq Nat
  /\ version \in [Servers -> 0..latest] /\ floor \in [Servers -> 0..latest]

\* What the core keeps is never older than its last invalidation
\* (invalidate() opens an epoch so that answers under way are discarded,
\* query/client.rs): in merge mode no page asked for earlier stays, in
\* replace mode none stays once the server has answered the open fan-out.
FreshAfterInvalidate ==
  \A s \in Servers :
    setting.updateMode = "merge" \/ (live # 0 /\ core.at[s] >= live)
      => \A v \in core.pages[s] : v >= floor[s]

\* A subscribed query that says it is loading or refreshing (isLoading and
\* hasPendingRefresh of useQuery.ts) has an open fan-out that will settle it:
\* no sequence of subscribers, refreshes and page loads that dispose each
\* other's fetches leaves a spinner that nothing will stop.
SpinnerHasFetch ==
  refCount > 0 /\ (entry.status = "loading" \/ entry.hasPendingRefresh)
    => \E t \in tasks : t.epoch = live

\* Every server answers or times out (select with Delay in
\* get_server_response), so a subscribed query ends loading and refreshing.
QuerySettles ==
  refCount > 0 ~> \/ refCount = 0
                  \/ entry.status # "loading" /\ ~ entry.hasPendingRefresh
=============================================================================
