# A verification project for Polycentric

Polycentric is a federated social network.  People hold *identities*: documents
that list rotation keys (may change the document) and signing keys (may
publish).  Everything a person does is a signed *event* whose key is (identity,
collection, signer, sequence).  Devices keep events in a local store and
exchange them with any number of servers; nobody is trusted to order them.  This
project models the parts on which that rests, checks them with TLC on small
instances and proves with TLAPS what matters most.

`PROJECT.json` is the machine-readable side: components, runs, the source lines
each definition models, the mutants that show each property can fail, hazards,
findings and theorems.

## Inventory

| Component | State it keeps | Operations | Hard behaviour |
|---|---|---|---|
| Identity chain (`rs-common/src/models/identity.rs`) | none; candidates in, chain out | `resolve_chain`, `justify_succession`, `compare_successors` | events arrive in any order, from forks, from keys about to be revoked |
| Event ingestion (server: `put_events`, `identity/service.rs`, `proofs/*`, `auth.rs`) | events table, ban table, per-process proof cache, Kafka topic | put a batch, authenticate, list with hints, ban and erase, unban | every await is a scheduling point; the cache is shared; two processes; commit before invalidation before Kafka |
| Publishing and sync (`js-core/polycentric-client.ts`, `rs-core/sync.rs`, `api.rs`; server `list_heads`, `list_events`) | core event store in memory, repository on disk, servers' tables | build, sign, commit; push full or from heads; pull full or from heads; restart | flows awaiting between reading a number and using it, lost requests, pages, interrupted saves |
| rs-core client (`client.rs`, stores) | event, content, identity, proof stores; vector clocks | copy events, bundles; `validate_event`; `next_sequence` | memoised chains, late proofs |
| Identity manager (`identity-manager.ts`) | active identity | create, claim, add or remove keys and servers, rotate recovery key, recover | read-modify-write of a document over awaits and devices; roll-back of a claim |
| Server tables (`events/repository.rs`, `tombstone.rs`) | replies, quotes, reposts, reactions and tallies, follows, blocks, profiles, deletes | store an event with its rows in one statement | order of arrival; statements of two requests that overlap |
| Canonical order and Merkle proofs (`rs-common/src/merkle`) | none | order, root, inclusion proof | the order must extend as events arrive |
| Device pairing (Harbor's two hooks, `pairing-session-manager.ts`, `rs-core/pairing.rs`, server `identity/pairing`) | hook states, one session row per identity, claimer rows | open, join, poll, approve, update, claim, give up, expire | two devices and a server, late joins and puts, a login racing an approval |
| Query client (`rs-core/query/client.rs`) and query store (`useQuery.ts`) | answers per server, epochs; entry, subscribers and open fetch per key | fetch from all servers, merge or replace, invalidate; subscribe, refresh, extend | late answers, disposed fetches, time-outs |
| Feed cache and overlays (`feedCache.ts`, `overlayTypes.ts`, `overlayOps.ts`), composer, reactions | stored and derived feed entries, counter overlays, own reactions | derive, pull into the store, inject, alter, react, delete | changes between an answer and its render, answers that count some of the changes |
| Workers (`workers/mod.rs`, `notifications/worker.rs`, `stats/worker.rs`) | counters of addresses, notification rows, offsets | receive, handle, commit, retry, give up | restarts, lost commits, redelivery, failures half-way |
| Push notifications (`push-notifications/src`) | a token per device key | consume, look up tokens, push, clean up; register, unregister | a device registers while its old token is cleaned up |
| Moderation, verifier bot, storage drivers, the rest of Harbor | little | calls of external services | not modelled |

Interaction: the UI calls js-core, which signs and stores an event and mirrors it
into rs-core; rs-core pushes bundles to servers with `put_events` and pulls with
`list_events`; a server authorizes the signer against the identity's chain
(through the proof cache), inserts the row with its cache tables in one
transaction, invalidates its cache and hands the event to Kafka, from which the
workers feed counters and notifications.  Clients and servers run the same
`resolve_chain`.

What makes each part correct:

* identity chain: the chain is a function of the *set* of events; every link is
  justified; no rotation is swallowed; late events only improve the chain;
* ingestion: only events of once-authorized signers are stored, only validated
  heads are cached, a ban ends and stops who asks after it;
* sync: a key is signed once, nothing published is lost, stores only grow, and
  everybody gets everything;
* pairing: only a device that scanned the code of a session and was approved in
  that session gets in, a session given up does not come back, a claim that fails leaves
  no trace, an approval is not
  undone by the login of another device, and who waits is told;
* queries: nothing older than an invalidation is kept, and no screen loads for
  ever;
* server tables: rows and tallies say what the stored events say;
* workers and pushes: nothing is lost but in the ways the loop allows, counters are no
  further off than what was lost or repeated, nobody is told of what one he blocks did,
  a live device keeps its token, nobody is held up for ever;
* feed: a change of the user's own is shown at once and until a server has
  counted it, and no count is negative.

## Modules

| Module | Models | State and actions |
|---|---|---|
| `IdentityChain` | `rs-common/src/models/identity.rs` | operators only: the rules on documents, the order among successors, the loop of `resolve_chain` as a recursive function; `IsResolution` is the reference definition over a set |
| `ChainStore` | a replica's identity events | `stored`, action `Arrive` |
| `IdentityChainProofs`, `ChainStoreProofs` | | theorems about the two modules above |
| `EventIngest` | `put_events`, authorization, proof cache, bans, Kafka | rows, ban, two cache maps per process, a task per request with a `pc` naming the await it stands at, Kafka sends; one action per step between two awaits |
| `EventReplication` | abstract: what event exchange promises | `authored`, `held`; `Author`, `Receive` |
| `EventSync` | publishing, push, pull, restart | core, disk, servers, flows, pushes, pulls; implements `EventReplication` |
| `EventIngestProofs`, `EventSyncProofs`, `PairingProofs`, `FeedProofs`, `CacheTablesProofs`, `WorkersProofs` | | theorems about the specifications they are named after; `WorkersProofs` rests on the lemmas of `CacheTablesProofs` |
| `PairingServer` | the pairing service and its two tables | `row`, `joined`; one operator per transaction |
| `Pairing` | both pairing hooks, the session manager, `publish` and `claim` of the identity manager; composes `PairingServer` and `IdentityChain` | `known` and `served` events, `hooks`, `claimers`, `active`, `edit`; one action per stretch between two calls to the server |
| `QueryStore` | one query key: `QueryState` and fan-outs of rs-core, the entry and subscription of Harbor's store | `core`, `tasks`, `live`, `entry`, `refCount`; `Subscribe`, `Unsubscribe`, `Refresh`, `Extend`, `Answers` |
| `FeedOverlay` | counter and reaction overlays | operators only |
| `OptimisticCounters` | abstract: what overlays promise | `base`, `shown`, `known`, and what the user has under way: `replies`, `deletions`, `reactions`; `Reply`, `Begin`, `EndDeletion`, `EndReaction`, `Receive` |
| `Feed` | feed cache, screen, composer, deletion, reactions; composes `QueryStore` and `FeedOverlay` and implements `OptimisticCounters` | `feed`, `seen`, `made`, `mine`, `flows`, `syncing` |
| `CacheTables` | `add_event` and the cache tables of a server | `events`, `rows`, `reaction_tally`, `statements` under way; `Start`, `add_event`, `Abandon` |
| `Workers` | Kafka topics, the consumer loop, both workers, the push service; composes `CacheTables` | per consumer `queue`, `position`, `committed`, `attempts`, `job`; `counts`, `notified`, `push_token`; one action per call of a handler |
| `MCChainStore`, `MCEventIngest`, `MCEventSync`, `MCPairing`, `MCFeed`, `MCWorkers` | | instances for TLC |

Definitions named "Slip" in a comment are the mutated forms of the definition
that follows them; no specification uses them.

### Identity chain

A document keeps the fields the rules read.  Public keys and content hashes are
numbers up to `MaxRank`, which gives them the byte order the code compares by.
Signature and digest checks (`preprocess_candidate`) are the field `intact`.
`max_by` keeps the last of several maximal elements, as Rust's does: that is
where a dependence on the order of arrival could come from.  An event store and
the events table keep the first event under a key, which `ChainStore` does too.

### Event ingestion

A request is a record with the program counter of its task.  A put walks
`event` (ban look-up, once per request), `authorize` (cache), `load` (database),
`warm` (cache insert), for a revoked signer `canonical` and `warmCanonical`,
then `insert`, `invalidateCanonical` and `invalidateIdentity`; bans walk
`erase`, `eraseMore`, `dropIdentity`, `dropCanonical`.  A database transaction is
one step.  Identity events are stored without authorization, as in the code:
`resolve_chain` sorts out which of them count.  `rank` is an event's place in the
canonical order, which the code computes from clocks and signatures.  `heads` is a
history variable, and so is `barred`, the puts that arrive under a ban or have not asked
for it when it comes.  A batch of an erasure is what is there (the code takes at most
50 000 rows in a transaction); puts may add rows between two of them.  Left out: blobs
and content pruning, rate limits, the tables derived from events.

### Publishing and sync

A device has a core (memory) and a disk; a flow stands between `buildEvent`,
`save` and the copy into the core.  A push first asks for heads, then bundles
under the core's lock, then the server handles the batch event by event; the
connection can die anywhere.  A pull asks every server with the heads on disk,
copies each answer into the core, merges, and saves event by event.  A server that fails
ends the whole pull, with what the others answered; only if it is the last of several to
report does the pull go on with their answers, since the query client has then emitted
them before the error (`LoseReply`).  The runs have one server, where a failure always
ends the pull; the theorems allow any number.  One
collection, and an identity document that authorizes every device, so that all
events validate.  A device runs one pull, and one push per server, at a time.
Contents and blobs are left out.

### Device pairing

A session is numbered in the order of the initial timestamps, and the number
stands for its digest.  The issuer's hook exists once per session (each opening
of the screen creates one); closing the screen sets `canceled` and a flow under
way goes on until it looks.  `pc` names the call a flow waits for: `put` and `load`
are the two halves of `put_pairing_session` (the transaction, then
`load_session_state` after the commit), `pull` and `push` the two syncs.  A
claimer joins in four steps (`get`, `lookup`, `add`, `listed`: the RPC looks the session
up, inserts the row and lists the claimers without a transaction, so that a newer session
may clear the row before the claimer looks for it) and claims in three (`list`, `pull`,
`push`).  `known` is what a device's core holds; `Latest` runs `resolve_chain` on it.
`approved` and `scanned` are history.  The settings screen of the issuer may change
servers and keys meanwhile (`edit`).  One server; the local part of `publish` is one
step (two flows that overlap inside it are what `sync_flows` is about); pages of
`list_events` are large enough; the device's floors for session numbers
(`pairing_store.rs`), which only a server that answers with older states meets, are
left out.  The identity has been paired before, so that its row is there for a put to lock
(see Limits for the other case).

### Queries and the feed

What a server answers is abstracted to the number of the user's published changes it has
taken into account; 0 is a server that does not know the post yet.  Pages merge by maxima
and unions, so a set of such numbers stands for the merged answer, and `MergedPost`
derives the counters from it.  The build modelled is the web one, where a callback of the
core runs inside the step that answers; the native build queues callbacks.  A query's data
is compared by identity, as `ArrayBuffer`s are (`id`). React runs the effects of a render
before other callbacks see the store, so `Mount` and `Render` are single steps; between a
store change and the render other callbacks may run, which is where the cache is
delicate.  `OptimisticCounters` ties every move of a counter to what the user did: it
knows his deletions and reactions under way and what each is to change, and a counter
moves by exactly that and only when one of them ends.  The commits of one reaction flow
are one step, `ReactFail` the case that one of them throws.  Left out: reposts, page
information, where an injected post is placed, texts of errors, eager emission.

### Server tables, workers and pushes

PostgreSQL runs the big statement of `add_event` at the level *read committed*: what it
selects it selects in the snapshot taken when it starts, what it updates or deletes it
takes as it is when its turn comes.  A statement is therefore two steps, `Start` keeping
the snapshot and `add_event` doing the rest with the commit; a row is in a snapshot when
its event is.  `seen` keeps the snapshots as history.  The unique key makes the second
of two puts of one event fail, and a put that starts after the event is stored is left
out because it can do nothing else.

A queue is what a consumer acts on of its topic.  `position` is what the consumer has
received, `committed` what was committed; a commit is asynchronous and may be lost.  A
restart, or another instance that takes the group over, begins at the committed offset;
with none it begins at the end (`auto.offset.reset` is `latest` by default, `config.rs`),
so a message that was under way then is never handled.  Any call of a handler may fail
(`Failure`), the last one also after it had its effect (`applied`: the answer is lost, and
the retry counts or sends again), after which the message is retried up to `MaxRetries`
times.  A failed seek is logged by the code and the message is passed by (`BackoffLost`).
Messages given up, passed by or skipped by a restart are recorded in `missed`; `dealt` is
how far the statistics worker has got at any time and `slips` how often it passed a
message uncounted or counted one again.  The two workers are one process or each restarts
alone, the push service is another.  The target of a notification, texts and the picture
in a push are left out, and messages that concern nobody, which are committed
unread.  Topics have one partition; the code spreads events over several by key, which are
as many queues with consumers of their own.  An instance that goes on with a message while
another has taken over its group is left out.

## Runs

| Run | Checks | Bounds |
|---|---|---|
| `chain_store` | the chain is order independent, equals the reference, keeps rotations, only improves | eight events: genesis, key change, forks by two rotation keys and a signing key, equivocation, recovery, forgery; all arrival orders |
| `ingest_concurrent` | cached documents were heads, stored events were authorized, a ban stops who asks after it | two requests with batches of up to two events, lost acknowledgements, aborted erasures, crashes, an identity event by a key that may not rotate |
| `ingest_ban` | a ban ends | two requests, Kafka, crashes; fair tasks |
| `ingest_race` | *violated*: see Findings | smallest that shows it |
| `sync_safety` | key uniqueness, own events kept, servers hold prefixes, refinement of `EventReplication` | two devices, one server, two events, one restart, full and partial syncs, lost and refused |
| `sync_converge` | every event reaches everyone, as long as the devices keep syncing | two devices, one server, two events, partial syncs |
| `sync_page`, `sync_flows` | *violated*: see Findings | smallest that shows it |
| `pairing` | who gets in, sessions given up do not come back, roll-back of a claim, approvals kept and published first, logins change nothing, the waiting claimer is told | five settings: one claimer with two failed calls, either role, expiry and going back; one with changes of the settings screen; one with a session given up for another; two claimers and two sessions, with a failure or with either role; chains of up to five events |
| `feed` | freshness after an invalidation, spinners, counters move by what the user did (`OptimisticCounters`), own replies stay, non-negative counts, queries settle | six settings: two components sharing a key of two servers in either update mode, three fan-outs; a viewed feed whose user replies or reacts, one or two servers, up to two changes and two overlapping taps |
| `tables` | *violated*: see Findings | one statement at a time; a post, a reply, a repost, its deletion, two profile updates in any order |
| `workers` | rows and tallies follow the events, no notification lost but in three ways, blocks respected, counters of addresses within their margin, tokens of live devices, consumers catch up | eleven settings of one to five events (post, reply, quote, repost, reactions, follow, block, profiles, verification, addresses, and deletions of them), two statements at a time, every order; in six of them the broker and one retry, in four of these one restart; one with two devices of two tokens |

Why the bounds mean something: two requests are what a race between a fill and an
invalidation takes, and a third adds only requests that see the same shared
state; the documents of the chain instance cover every reason of succession and
every tie the comparison breaks; two devices with two events already let a push
be built from heads another device made stale, and leave room for a stream whose
first event is missing.  The bounds are `MaxRank`, `MaxBatch`, `MaxEvents`,
`MaxRestarts` and `PageSize` (200 in the code; the runs use a page that is just
large enough, or one that is not); in `Pairing` and `Feed` they are fields of a
setting that `Init` chooses (`sessions`, `failures`, `length`; `maxFanouts`, `maxRefs`,
`maxChanges`, `maxFlows`), so that one run covers several small instances.  Two
claimers whose keys lie on both sides of the issuer's make both outcomes of
`compare_signers` happen; three fan-outs are an open one, a refresh that replaces it
and an answer to the one before.  In `Workers` the bounds are the events put, `MaxPuts`,
`MaxRetries` (5 in the code) and the restarts of a setting: two statements are what a
snapshot that misses a row takes, and one retry lets a message be handled after a
failure or be given up.  `ingest_concurrent` uses symmetry of the requests, which no
definition tells apart, and checks no liveness.

`CHECK_DEADLOCK FALSE` is set where the instance may stop: `chain_store` ends when every
event has arrived, `pairing`, `feed`, `tables` and `workers` when users, servers and
consumers have nothing more to do.

### Fairness

`EventIngest!FairSpec` gives weak fairness to the steps of each request: the
runtime polls a task whose await is ready, and timeouts turn a hanging database
call into an error.  Clients are not assumed to send anything.
`EventSync!FairSpec` gives weak fairness to the steps of what was started: a publishing
flow, a push and a pull go on and end, each device and server on its own.  It does not
make anybody start a sync.  There is no timer in the code: `client.sync` runs when the
application starts (`PolycentricProvider.tsx:177`), when the identity is switched (`:299`)
and after actions of the user.  `Converges` therefore has a premise, `KeepSyncing`: each
device starts a push to each server and a pull again and again; a user who stops using
the application is promised nothing.  The violation of `sync_page` holds with that
premise, so it is a matter of pages and not of syncing too seldom.  Restarts, losses and
refusals are bounded or absent in the runs that check convergence: with endless failures
nothing converges, which would say nothing about the code.
`Pairing!FairSpec` assumes only that a waiting claimer's poll, which repeats every two
seconds, succeeds some time while it can; `Feed!FairSpec` that each server asked
answers, fails or times out (the core races every request against a delay).

`Workers!Spec` gives weak fairness to receiving and handling of each consumer, whose loop
never ends and whose calls return; none to success: a call may fail every time, and then
the limit of retries is what lets the consumer go on.

### Findings

Each is a run TLC refutes, with the sentence of the repository it contradicts in
`PROJECT.json`.

* `ingest_race`: a document loaded before a concurrent put is cached after that
  put's invalidation, and stays.  (With two processes the same property fails
  without a race: invalidation reaches only the process that served the put.)
* `sync_page`: a pull of more than a page keeps the newest events only, and the
  heads it has then hide the rest from every later partial pull.  (An
  application closed while it saves a page, newest event first, or a server that
  refuses one event of a batch, leaves the same kind of gap.)
* `sync_flows`: two flows of one device sign two events under one key.
* `tables`: the files of `entity/src` call the tables of replies, reposts and profiles "a
  row for each *not-deleted*" reply and repost, and for the "latest, *not-deleted*" profile
  update, and say they can be recreated from the events.  A reply stored before its post
  never gets a row, a deleted repost keeps its row, and an older profile update stored
  after a newer one replaces it.  The run reaches a state with all three.  (Quotes and
  reactions share the first, follows and others the like for a deletion stored before its
  target.)  `CacheFollowsEvents` states what does hold.

### Limits met while modelling

These are behaviours of the code met on the way, around which properties are stated.
Where a sentence of the repository is about one, it is quoted.

* Pairing.  `addServer` keeps the document it read before `GetInfo` answers: an
  approval published meanwhile is lost, and the hook still says done (hence
  `PairingAlone`).  The login of a claimer with a rotation key counts as a rotation
  and may win over another approval.  The document a new session carries may be
  ahead of the push an earlier session waits for: its claimer sees the approval and
  is refused (the exception in `ApprovalPublishedFirst`).  A push that fails is only
  logged: the issuer says done and the claimer ends in an error.  A claimer whose
  session was replaced polls for ever.  One failed poll ends the issuer's hook.  Of an
  identity that was never paired there is no row to lock: two puts that both find none
  (`put_pairing_session.rs:51-73`) are both applied, and the older session may stay; the
  model begins with a row.
* Overlays.  A counter keeps one number, so like, unlike, like with an answer to the
  first change in between stays one too high; a deletion is subtracted after the push,
  and stays subtracted if the answer already counted it.
* Bans.  A put that asked for the ban before it was set commits after the erasure, and
  the banned identity has a row again (`NoInsertWhileBanned` is about those that ask
  after it).
* Revocation bounds.  The comment at `put_events.rs:170-175` also admits events "by a key
  whose revocation bound still vouches for this signature", and the protocol
  (`docs/content/protocol/overview.md:36-37`) has the bounds "so events it signed before
  revocation remain verifiable".  The signature is looked for among the canonical rows
  stored already (`service.rs:293-321`), so of a revoked key only events that are in the
  table pass, and putting them adds nothing: a server that did not get an event before it
  learnt of the revocation does not take it any more (unless its cache is stale).
  `EventIngest` follows the code, `canonical` and `warmCanonical` are that way; no property
  says that only the head admits.
* Server tables.  Beyond `tables`: a deletion stored before what it deletes, or before a
  reply to it, leaves rows that a server with the other order does not have, and two
  profile updates put at once leave two rows (hence the conditions of
  `CacheFollowsEvents`).  A deletion by someone else removes nothing, but it has a row in
  `content_delete`, and later replies and reactions to its target get none.
* Workers.  `workers/mod.rs` says of a transient failure "re-deliver and retry" (line 69)
  and of the seek "so the next poll re-delivers this message" (line 186); a seek that
  fails is only logged, and the message is lost.  So is one that was under way at a restart
  before the group's first commit.  A message handled again after a restart or a lost
  answer counts a reaction twice and writes a second notification row; a deletion handled
  before its reaction, or a second deletion of it, leaves the counter of an address wrong.
  The counters are kept as estimates (`attributed_to_reaction_summary.rs:13-15`);
  `CountsStanding` says how far off they may be.  A send that fails is only logged.  If no
  server answers with the recipient's keys the push is committed unsent.  The notification
  worker reads blocks from a copy of the database that may lag, which is not modelled.
* Composer.  The reply is injected before `commitEvent`; if that throws the reply is
  shown and counted although nothing was published.
* Reactions.  Two taps before the first commit both replace the same old reaction.
* Queries.  In replace mode an answer asked for before an invalidation may still be
  stored, until the open fan-out is answered.

## Proofs

Every proof is checked by `tlapm` to the last leaf and holds for every value of
the constants that the named assumptions of the modules allow.  TLC evaluates
those assumptions in each run, and checked each statement on the instances above
before it was proved.

| Theorem | Says | Rests on |
|---|---|---|
| `ResolveDependsOnSet`, `ResolveIsResolution` | any two enumerations of the same identity events give the same chain, and it is the reference chain `IsResolution` | the order among the valid successors of a head is total, so that "the last maximal element" is the only one; the loop ends within as many turns as there are events |
| `StoreTyped`, `StoreOrderIndependent`, `StoreResolves`, `RotationsStand`, `ChainsOnlyImprove` | all safety properties of the run `chain_store`, for any number of events, keys and documents | the theorems above |
| `IngestTyped`, `CacheHoldsHeads`, `StoredEventsWereAuthorized`, `BanStopsInserts` | see the run `ingest_concurrent`, for any number of processes, requests, documents and batch sizes | `EventIngestProofs!IInv`, and `BanOK` for the ban |
| `SyncTyped`, `NoKeyReused`, `PublishedStaysOnDisk`, `SyncReplicates` | see the run `sync_safety`, for any number of devices, servers, events and restarts | `EventSyncProofs!IInv`, one publishing flow per device |
| `TheServerHoldsPrefixes` | the prefixes of the run `sync_safety`, for any number of devices and events | the same, one server; `EventSyncProofs!PrefixInv` |
| `PairingTyped`, `OnlyTheApprovedPair`, `ClaimsAreAtomic`, `AnswersStand` | see the run `pairing`, for any number of devices, sessions, edits and failures | `PairingProofs!PairInv`, and `StandInv` for the sessions |
| `LoginsKeepIdentity`, `ApprovalsAreKept`, `ApprovalsArePublishedFirst` | the action property and the two invariants about approvals of the run `pairing`, for any number of devices and sessions and chains of any length | `PairInv`, `LineInv`; `AloneInv`; `ScreensOK` and `FirstInv` |
| `FeedTyped`, `KeptIsFresh`, `SpinnersHaveFetches`, `CountersNonNegative` | see the run `feed`, for any number of servers, subscribers, fan-outs, changes and reactions | `FeedProofs!FeedInv` |
| `FeedCountsOptimistically`, `ComposedReplyStays` | the refinement of `OptimisticCounters`, every change by its exact amount, and the action property `OwnReplyStays` | `FeedInv` and `CacheInv` |
| `TalliesMatch`, `RowsAreExact`, `CachesFollowEvents` | the cache tables say what the stored events say | `CacheTablesProofs`, `CollectionsAssumption` |
| `TypesHold`, `BlockedStayQuiet`, `NotificationsNotLost`, `CountsAreBounded`, `LiveTokensAreKept` | see the run `workers`, for any number of devices, tokens, messages, failures and restarts | one inductive invariant per worker in `WorkersProofs` |

*Identity chain.*  The rules compare keys and hashes; two valid successors of a
head of which neither precedes the other are shown to be the same event
(`SuccessorsAreOrdered`).  A non-empty finite set then has one greatest element
(`GreatestElement`, from well-foundedness of the naturals), and each turn of the
loop chooses it whatever the enumeration.  What the loop computes is an induction
over its turns, done on the set of turns at which the claim fails: it has no least
element.  Each turn that does not stop uses an event with a new sequence number,
so the turns `resolve_chain` makes are enough to reach the end.  An arrival adds one
event to the set; at the first place where the two chains differ the new event is
there and precedes what was, which is `ChainsOnlyImprove`.

*Event ingestion.*  That rows were authorized is not inductive: an insert relies
on a decision made several awaits before, from a document read before that.
`IInv` therefore also says of each request record (`RequestOK`) which documents
and rows it may carry - only documents that were heads, only authorized rows -
that it asked for the ban before it went on, and that it stands at the insert of
a content event only after a positive decision.  `heads` only grows, so every
claim about "was" survives the other requests' steps.  There is one lemma per
step of a request.
That a ban stops inserts is about which requests the ban caught: `barred` is set by the
ban itself and by a put that arrives under it, never by the put's own look-up.  `BanOK`
says that a barred put has not been cleared while the ban stands, which holds because the
look-up that clears it reads `banned`; an insert needs the clearance.  That the cache
agrees with the rows is not a theorem: `ingest_race` refutes it.

*Sync.*  That keys are unique is not inductive either: it depends on the number a
flow took from the core, which another device's pushes and the device's own
restarts change meanwhile.  `IInv` adds that stores, bundles and pages hold
authored events only (nothing else can come back from a server), that a device's
own events are on its disk, and in its core except for the one about to be
copied, and that the event a flow is about to save has a fresh key.  With one
flow (`SingleFlow`, a hypothesis of each theorem) the core is then complete when
a number is taken, so the number is new.  The hypothesis is needed: `sync_flows`
is the counterexample with two.  The refinement follows step by step: `Save` is
`Author`, `Put` and `SavePulled` are `Receive` or change nothing, and no other
step changes a disk, a server or `authored`.
That the only server holds prefixes needs what is on its way (`PrefixInv`): what a device
has of others came from the server (`ForeignOK`); the event a flow holds is the last of
its device (`NewestOK`), so nothing published later is earlier than what is stored or
bundled; and of the device's own events before a bundled one, or before a head it was
told, each is bundled too, stored or refused (`Ahead`).  `First` then sends the earliest.

*Pairing.*  `PairInv` has a part for each piece of state that carries a document or
a key from one await to the next: every identity event anywhere is by the issuer or
by an approved claimer and names approved keys only (`CoreOK`), so do the session row
(`RowOK`), the document a hook is about to put and the key it is about to add
(`HooksOK`), and the edit under way (`EditOK`).  `ClaimersOK` says which of a
claimer's stages go with which call, with the active identity and with a login of its
own.  That the latest document of any set of events is one of those events, which
every publication needs, rests on `ResolveIsResolution`.  `StandInv` follows the row: it
changes only to a newer session or a later state, and a screen shows a session only after
the row was its own.

What the identity says is a matter of chains that several devices build on different
sets of events.  While the issuer holds the only rotation key, its events succeed as
rotations and all others as republications, and a rotation precedes a republication.
`ChainsAgree` compares the chain of a set of events with that of a larger one, position
by position: they say the same at every number and have the same events of the issuer,
if the issuer's additional events are beyond the smaller chain.  From it follow that
logins change nothing (`LoginsChangeNothing`) and that what the issuer publishes on top
of its chain is on the chain (`IssuerExtends`).  Both need that the issuer's events are
on the chain already, on the issuer and on the server; that is `LineInv`.  Its last part
is the subtle one: an event that grants a rotation key has a number that none of the
issuer's events on the server has, so the server takes it at the issuer's next push and
is never left with only the events that follow it.  With `PairingAlone`, which every
state of a behaviour has or none, the issuer's document then has every key a hook has
added and is never behind the server (`AloneInv`), which gives `ApprovalKept`.  Without
failures, `FirstInv` follows an approval from the push to the session row and to the
claimer: a document names a key only after the server does, or after an approval in
another session; `ScreensOK`, that screens open one after the other, makes that an
earlier one.

*Queries.*  That what is kept is fresh depends on answers that are still under way.
`FeedInv` bounds every epoch by the one the core is in, gives every fan-out the versions
it was asked at, and says that a fan-out of an epoch at or after the last replacement was
asked no earlier than the last invalidation (`Young` for merge mode, `YoungSince` for
replace mode, where only the open fan-out is bound).

*Feed.*  A counter with its overlay never falls below zero, because the caps of
`alterReplyCount`, `reactionCounter` and `summaryUpdate` are taken against the count the
overlay was laid over; the overlay remembers that count, and `PostFits` says it is the
one the post shows.  The refinement needs what memoisation must keep: `CacheOK` says that
the stored and the derived entry each carry the counts of their own data (`Follows`: an
entry of an answer that has the post lists it, with that answer's counts), that the
derived entry of the current data shows what the stored one shows and has its replies,
and that the last render's data is what the selector derives for.  A new answer is a new
object (`NewId`), which no entry refers to, so what was derived is never mistaken for it.
Each operation of the feed cache is then a lemma that says which of three things happens
to the counters: nothing (`Quiet`), an answer (`Heard`), or a change by a given amount,
capped at zero, which shows if the post is listed.  `NextEffect` joins them with the
user's actions: an amount moves the counters only in the step that makes the reply or
ends the deletion or reaction it belongs to.  An overlay lost by the cache is not a step
of the abstract specification, nor is one applied twice.

*Server tables and workers.*  Statements of several events overlap, so a row may be made
by a statement that read before a deletion was stored.  `RowsExact` determines every row
from the stored events and what each statement read, whatever the order they ended in;
the tallies and the conditions of `CacheFollowsEvents` follow from it.
`CollectionsAssumption` (an event's kind is fixed by its collection) is what the code's
dispatch on collections gives.  For notifications an invariant ties the committed offset, the
position and the job under way to what has been written: up to the position everything
due and not in `missed` is in the table, of the job under way what its program counter has
passed.  For the counters (`StatsInv`) each counter is compared with the reactions that
stand among the first `dealt` messages, wherever a restart has put the position: a message
counted in turn moves both alike, one out of turn, passed over or counted again moves them
apart by one and is in `slips` or `OutOfTurn`.  Each event is sent once (`SentOnce`), so a
deletion and its reaction are two places of the queue.  The
push service reads tokens, posts, and removes what was reported dead, while devices
register: what is left to remove was dead when it was reported, and dead tokens stay
dead, so a removal that names its token cannot meet a live one.

Only model-checked: liveness (`BanCompletes`, `Converges`, `PairingSettles`,
`QuerySettles`, `ConsumersCatchUp`), which needs fairness, out of the prover's reach.
Every other property of the passing runs is stated by a theorem.

## Not modelled

Cryptography (signatures and digests verify or do not), encodings, blobs and
contents, search, ranking of feeds, rate limits, the rest of the user interface, the
services that only call external systems.  The database is one copy: the
read-only replica some handlers use is not modelled.  Of the identity manager,
recovery by backup and the rotation of the recovery key.  Most of the repository by
lines is generated code (protocol buffers, bindings, emoji tables) and presentation,
which keep no state of their own.

## Plan

1. `ClientStore`: `validate_event`, memoised chains, proofs, vector clocks and
   `next_sequence` under forks; composes `EventSync` with `ChainStore`.
2. `CanonicalOrder`: the order of `merkle/leaves.rs` and `vector_clock.rs` as a
   pure algorithm against a reference; inclusion proofs.
3. Recovery by backup in `Pairing`; the erasure of an identity in `CacheTables`; a
   read-only database that lags.
4. Proofs of what 1 to 3 add.
