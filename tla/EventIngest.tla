---------------------------- MODULE EventIngest ----------------------------
(***************************************************************************)
(* How a server admits events: put_events with its signer authorization,   *)
(* the proof cache every request of a process shares, the ban that erases  *)
(* an identity, and the hand-over to Kafka                                 *)
(* (services/server/src/service: events/rpc/put_events.rs,                 *)
(* identity/service.rs, proofs/*, auth.rs, identity/rpc/set_ban_status.rs).*)
(*                                                                         *)
(* Several processes serve one database.  A request is a task: the model   *)
(* interleaves requests at every await, a database statement or            *)
(* transaction and a cache access being one step each.  One identity and   *)
(* one content collection are modelled; the maps of the cache are keyed by *)
(* identity and collection, so entries do not interact.                    *)
(***************************************************************************)
EXTENDS IdentityChain

CONSTANTS
  Procs,           \* server processes (the chart deploys two)
  Requests,        \* requests a process can be serving at a time
  IdentityEvents,  \* identity events clients may put
  ContentEvents,   \* events clients may put into the content collection
  MaxBatch,        \* bound: events in one PutEventsRequest
  HalfFailures,    \* whether a commit may succeed and yet report an error,
                   \* and an erasure give up between two batches
  BrokerUp         \* whether the Kafka broker can be reached

(* A content event.  `rank' is its place in the canonical order of the     *)
(* collection; no two events share one, so it also stands for the          *)
(* signature.                                                              *)
ContentEvent == [signer : Keys, sequence : Nat, rank : Nat]

ASSUME EventsAssumption ==
  /\ IdentityEvents \subseteq Candidate
  /\ ContentEvents \subseteq ContentEvent
  /\ IdentityEvents \cap ContentEvents = {}
  /\ \A e, f \in ContentEvents : e.rank = f.rank => e = f

ASSUME BatchAssumption == MaxBatch \in Nat \ {0} /\ {HalfFailures, BrokerUp} \subseteq BOOLEAN

Events == IdentityEvents \cup ContentEvents

(* What a put request carries.                                             *)
Batches == UNION {[1..n -> Events] : n \in 1..MaxBatch}

VARIABLES
  identityRows,    \* rows of the IDENTITY collection in the events table
  contentRows,     \* rows of the content collection
  banned,          \* the identity has a row in the ban table
  identityCache,   \* per process: ProofCache.identity, {} or {document}
  canonicalCache,  \* per process: ProofCache.canonical, {} or {rows}
  request,         \* per request: where its task is
  publishing,      \* spawned Kafka sends, <<process, event>>
  kafka,           \* events in the `events' topic
  heads,           \* history: every document that was the validated head
  barred           \* history: puts that had not asked when the ban came

vars == <<identityRows, contentRows, banned, identityCache, canonicalCache,
          request, publishing, kafka, heads, barred>>

-----------------------------------------------------------------------------
(* The database.                                                           *)

NoDoc == [hash |-> 0]

(* The document at the head of the chain the rows resolve to, or NoDoc.    *)
validated_chain_head(rows) ==
  LET chain == resolve_chain(SetToSeq(rows))
  IN IF chain = <<>> THEN NoDoc ELSE Last(chain).document

HeadDoc == validated_chain_head(identityRows)

(* The history variable follows the head.                                  *)
RecordHead ==
  heads' = heads \cup ({validated_chain_head(identityRows')} \ {NoDoc})

(* The unique key of the events table.                                     *)
HoldsKeyOf(e) ==
  \E f \in IF e \in IdentityEvents THEN identityRows ELSE contentRows :
    f.signer = e.signer /\ f.sequence = e.sequence

(* The first n rows in canonical order.                                    *)
Prefix(rows, n) ==
  {e \in rows : Cardinality({f \in rows : f.rank <= e.rank}) <= n}

-----------------------------------------------------------------------------
(* Requests.                                                               *)

Idle ==
  [kind |-> "none", proc |-> "none", pc |-> "idle", batch |-> <<>>,
   clear |-> FALSE, docs |-> {}, rows |-> {}]

Init ==
  /\ identityRows = {} /\ contentRows = {} /\ banned = FALSE
  /\ identityCache = [p \in Procs |-> {}]
  /\ canonicalCache = [p \in Procs |-> {}]
  /\ request = [r \in Requests |-> Idle]
  /\ publishing = {} /\ kafka = {} /\ heads = {HeadDoc} \ {NoDoc} /\ barred = {}

Begin(r, kind, p, pc, batch) ==
  /\ request[r] = Idle
  /\ request' = [request EXCEPT ![r] =
       [Idle EXCEPT !.kind = kind, !.proc = p, !.pc = pc, !.batch = batch]]

At(r, pc) == request[r].pc = pc
Event(r) == Head(request[r].batch)

(* r goes on to pc; nothing else of it changes.                            *)
GoTo(r, pc) == request' = [request EXCEPT ![r].pc = pc]

(* The request is done with its current event: the next one, or the end.   *)
After(q) ==
  IF Len(q.batch) <= 1 THEN Idle
  ELSE [q EXCEPT !.batch = Tail(q.batch), !.pc = "event", !.docs = {}, !.rows = {}]

NextEvent(r) == request' = [request EXCEPT ![r] = After(request[r])]

ban == <<banned, barred>>
db == <<identityRows, contentRows, heads, ban>>
caches == <<identityCache, canonicalCache>>
topic == <<publishing, kafka>>

(* The send spawned for the event just committed; with no broker every     *)
(* send fails at once (its timeout is zero).                               *)
Sends(r) == IF BrokerUp THEN {<<request[r].proc, Event(r)>>} ELSE {}

(* A request arrives: put_events, a bearer token to verify                 *)
(* (auth_middleware), or a listing that sends identity events as hints     *)
(* (list_identity_events, which reads the rows whether or not a document   *)
(* is cached).                                                             *)
StartPut(r, p, batch) ==
  /\ Begin(r, "put", p, "event", batch)
  /\ barred' = IF banned THEN barred \cup {r} ELSE barred
  /\ UNCHANGED <<identityRows, contentRows, heads, banned, caches, topic>>

StartAuth(r, p) ==
  /\ Begin(r, "auth", p, "authorize", <<>>)
  /\ UNCHANGED <<db, caches, topic>>

StartList(r, p) ==
  /\ Begin(r, "list", p, "load", <<>>)
  /\ UNCHANGED <<db, caches, topic>>

(* Slip: the answer of the ban table is not looked at.                     *)
CheckBanBlind(r) ==
  /\ At(r, "event")
  /\ request' = [request EXCEPT ![r].clear = TRUE,
       ![r].pc = IF Event(r) \in IdentityEvents THEN "insert" ELSE "authorize"]
  /\ UNCHANGED <<db, caches, topic>>

(* The ban table is read for the first event of a request only; its answer *)
(* is kept in banned_cache for the rest of the batch.                      *)
CheckBan(r) ==
  /\ At(r, "event")
  /\ request' = [request EXCEPT ![r] =
       IF banned /\ ~ @.clear THEN Idle
       ELSE [@ EXCEPT !.clear = TRUE,
                      !.pc = IF Event(r) \in IdentityEvents THEN "insert"
                             ELSE "authorize"]]
  /\ UNCHANGED <<db, caches, topic>>

-----------------------------------------------------------------------------
(* authorize_event_signer and cached_identity_content.                     *)

(* What the document decides.  A put goes on to the insert, is denied, or  *)
(* has to look for the event within the revocation bound.                  *)
Judge(r, doc) ==
  LET kind == request[r].kind
      e == Event(r)
  IN \/ /\ kind = "auth"
        /\ request' = [request EXCEPT ![r] = Idle]
     \/ /\ kind = "list"
        /\ GoTo(r, "attach")
     \/ /\ kind = "put" /\ authorizes_signer(doc, e.signer)
        /\ GoTo(r, "insert")
     \/ /\ kind = "put" /\ ~ authorizes_signer(doc, e.signer)
        /\ revocation_targets(doc, e.signer) = {}
        /\ NextEvent(r)
     \/ /\ kind = "put" /\ ~ authorizes_signer(doc, e.signer)
        /\ revocation_targets(doc, e.signer) # {}
        /\ request' = [request EXCEPT ![r].pc = "canonical", ![r].docs = {doc}]

AuthorizeCached(r) ==
  /\ At(r, "authorize")
  /\ \E doc \in identityCache[request[r].proc] : Judge(r, doc)
  /\ UNCHANGED <<db, caches, topic>>

AuthorizeMiss(r) ==
  /\ At(r, "authorize")
  /\ identityCache[request[r].proc] = {}
  /\ GoTo(r, "load")
  /\ UNCHANGED <<db, caches, topic>>

(* Slip: an identity whose chain is not known yet is not checked.          *)
LoadNothingPermissive(r) ==
  /\ At(r, "load")
  /\ HeadDoc = NoDoc
  /\ IF request[r].kind = "put" THEN GoTo(r, "insert") ELSE NextEvent(r)
  /\ UNCHANGED <<db, caches, topic>>

(* No valid chain: the event, token or listing does without a document.    *)
LoadNothing(r) ==
  /\ At(r, "load")
  /\ HeadDoc = NoDoc
  /\ NextEvent(r)
  /\ UNCHANGED <<db, caches, topic>>

(* Slip: the identity event with the highest sequence, not validated.      *)
LoadLatestRow(r) ==
  /\ At(r, "load")
  /\ \E row \in identityRows :
       /\ \A other \in identityRows : other.sequence <= row.sequence
       /\ request' = [request EXCEPT ![r].pc = "warm", ![r].docs = {row.document}]
  /\ UNCHANGED <<db, caches, topic>>

LoadDocument(r) ==
  /\ At(r, "load")
  /\ HeadDoc # NoDoc
  /\ request' = [request EXCEPT ![r].pc = "warm", ![r].docs = {HeadDoc}]
  /\ UNCHANGED <<db, caches, topic>>

(* warm_identity_content: by now the rows may have changed.                *)
WarmIdentity(r) ==
  /\ At(r, "warm")
  /\ identityCache' = [identityCache EXCEPT ![request[r].proc] = request[r].docs]
  /\ \E doc \in request[r].docs : Judge(r, doc)
  /\ UNCHANGED <<db, canonicalCache, topic>>

(* attach_proofs of a listing reads the cache once more; events of a       *)
(* revoked signer need the canonical signatures for their proof.           *)
Attach(r) ==
  /\ At(r, "attach")
  /\ \/ request' = [request EXCEPT ![r] = Idle]
     \/ /\ \E doc \in identityCache[request[r].proc] : doc.revocation_bounds # {}
        /\ GoTo(r, "canonical")
  /\ UNCHANGED <<db, caches, topic>>

(* Whether the rows, in canonical order, hold e within the bound.          *)
WithinBound(doc, e, rows) ==
  \E b \in revocation_targets(doc, e.signer) :
    /\ Cardinality(rows) >= b.leaf_count
    /\ e \in Prefix(rows, b.leaf_count)

JudgeBound(r, rows) ==
  \/ /\ request[r].kind = "list"
     /\ request' = [request EXCEPT ![r] = Idle]
  \/ /\ request[r].kind = "put"
     /\ \E doc \in request[r].docs :
          IF WithinBound(doc, Event(r), rows)
          THEN GoTo(r, "insert")
          ELSE NextEvent(r)

CanonicalCached(r) ==
  /\ At(r, "canonical")
  /\ \E rows \in canonicalCache[request[r].proc] : JudgeBound(r, rows)
  /\ UNCHANGED <<db, caches, topic>>

LoadCanonical(r) ==
  /\ At(r, "canonical")
  /\ canonicalCache[request[r].proc] = {}
  /\ request' = [request EXCEPT ![r].pc = "warmCanonical", ![r].rows = contentRows]
  /\ UNCHANGED <<db, caches, topic>>

WarmCanonical(r) ==
  /\ At(r, "warmCanonical")
  /\ canonicalCache' =
       [canonicalCache EXCEPT ![request[r].proc] = {request[r].rows}]
  /\ JudgeBound(r, request[r].rows)
  /\ UNCHANGED <<db, identityCache, topic>>

-----------------------------------------------------------------------------
(* Persisting the event.                                                   *)

(* add_event finds the key occupied: rolled back and answered as success.  *)
InsertDuplicate(r) ==
  /\ At(r, "insert")
  /\ HoldsKeyOf(Event(r))
  /\ NextEvent(r)
  /\ UNCHANGED <<db, caches, topic>>

(* The row of the current event becomes visible.                           *)
AddRow(r) ==
  /\ At(r, "insert")
  /\ ~ HoldsKeyOf(Event(r))
  /\ IF Event(r) \in IdentityEvents
     THEN /\ identityRows' = identityRows \cup {Event(r)}
          /\ RecordHead
          /\ UNCHANGED contentRows
     ELSE /\ contentRows' = contentRows \cup {Event(r)}
          /\ UNCHANGED <<identityRows, heads>>

(* add_event and commit.                                                   *)
Commit(r) ==
  /\ AddRow(r)
  /\ GoTo(r, "invalidateCanonical")
  /\ UNCHANGED <<ban, caches, topic>>

(* The connection is lost after the database committed: the early return   *)
(* reports an error and skips invalidation and Kafka.                      *)
CommitUnacknowledged(r) ==
  /\ HalfFailures
  /\ AddRow(r)
  /\ NextEvent(r)
  /\ UNCHANGED <<ban, caches, topic>>

(* A database error before the commit fails the event, not the batch; it   *)
(* ends a request of another kind.                                         *)
Fail(r) ==
  /\ request[r].pc \in {"event", "load", "canonical", "insert"}
  /\ NextEvent(r)
  /\ UNCHANGED <<db, caches, topic>>

(* Only then are the entries of this process dropped.                      *)
InvalidateCanonical(r) ==
  /\ At(r, "invalidateCanonical")
  /\ IF Event(r) \in IdentityEvents
     THEN GoTo(r, "invalidateIdentity") /\ UNCHANGED <<canonicalCache, publishing>>
     ELSE /\ canonicalCache' = [canonicalCache EXCEPT ![request[r].proc] = {}]
          /\ publishing' = publishing \cup Sends(r)
          /\ NextEvent(r)
  /\ UNCHANGED <<db, identityCache, kafka>>

InvalidateIdentity(r) ==
  /\ At(r, "invalidateIdentity")
  /\ identityCache' = [identityCache EXCEPT ![request[r].proc] = {}]
  /\ publishing' = publishing \cup Sends(r)
  /\ NextEvent(r)
  /\ UNCHANGED <<db, canonicalCache, kafka>>

(* The spawned send; a failure is logged and the record dropped.           *)
Publish(send) ==
  /\ send \in publishing
  /\ publishing' = publishing \ {send}
  /\ kafka' = kafka \cup {send[2]}
  /\ UNCHANGED <<db, caches, request>>

PublishFails(send) ==
  /\ send \in publishing
  /\ publishing' = publishing \ {send}
  /\ UNCHANGED <<db, caches, request, kafka>>

-----------------------------------------------------------------------------
(* set_ban_status and erase_identity.                                      *)

Ban(r, p) ==
  /\ Begin(r, "ban", p, "erase", <<>>)
  /\ banned' = TRUE
  /\ barred' = barred \cup {q \in Requests : request[q].kind = "put" /\ ~ request[q].clear}
  /\ UNCHANGED <<identityRows, contentRows, heads, caches, topic>>

Unban(r, p) ==
  /\ request[r] = Idle
  /\ banned' = FALSE /\ barred' = {}
  /\ UNCHANGED <<identityRows, contentRows, heads, caches, request, topic>>

(* The first batch erases what there is: fewer rows than one transaction   *)
(* takes (50 000).                                                         *)
EraseBatch(r) ==
  /\ At(r, "erase")
  /\ identityRows \cup contentRows # {}
  /\ identityRows' = {} /\ contentRows' = {}
  /\ RecordHead
  /\ GoTo(r, "eraseMore")
  /\ UNCHANGED <<ban, caches, topic>>

(* The next ones erase the rows put meanwhile that have an id above the    *)
(* last one erased; ids are given out before the commit, so any of these   *)
(* rows may have a lower one and be missed.                                *)
EraseMore(r) ==
  /\ At(r, "eraseMore")
  /\ \E missed \in SUBSET (identityRows \cup contentRows) :
       /\ missed # identityRows \cup contentRows
       /\ identityRows' = identityRows \cap missed
       /\ contentRows' = contentRows \cap missed
  /\ RecordHead
  /\ UNCHANGED <<ban, caches, request, topic>>

(* The batch that finds no row, or only missed ones, ends the loop.        *)
EraseEnds(r) ==
  /\ \/ At(r, "erase") /\ identityRows \cup contentRows = {}
     \/ At(r, "eraseMore")
  /\ GoTo(r, "dropIdentity")
  /\ UNCHANGED <<db, caches, topic>>

(* retry_deadlocks gives up, or the database fails: an error is returned   *)
(* and the cache left alone.                                               *)
EraseFails(r) ==
  /\ HalfFailures
  /\ request[r].pc \in {"erase", "eraseMore"}
  /\ request' = [request EXCEPT ![r] = Idle]
  /\ UNCHANGED <<db, caches, topic>>

DropIdentity(r) ==
  /\ At(r, "dropIdentity")
  /\ identityCache' = [identityCache EXCEPT ![request[r].proc] = {}]
  /\ GoTo(r, "dropCanonical")
  /\ UNCHANGED <<db, canonicalCache, topic>>

DropCanonical(r) ==
  /\ At(r, "dropCanonical")
  /\ canonicalCache' = [canonicalCache EXCEPT ![request[r].proc] = {}]
  /\ request' = [request EXCEPT ![r] = Idle]
  /\ UNCHANGED <<db, identityCache, topic>>

-----------------------------------------------------------------------------

(* A process dies: its cache, its tasks and its unsent records are gone.   *)
Crash(p) ==
  /\ identityCache' = [identityCache EXCEPT ![p] = {}]
  /\ canonicalCache' = [canonicalCache EXCEPT ![p] = {}]
  /\ request' = [r \in Requests |-> IF request[r].proc = p THEN Idle ELSE request[r]]
  /\ publishing' = {send \in publishing : send[1] # p}
  /\ UNCHANGED <<db, kafka>>

(* The awaits of a task.                                                   *)
Step(r) ==
  \/ CheckBan(r) \/ AuthorizeCached(r) \/ AuthorizeMiss(r)
  \/ LoadNothing(r) \/ LoadDocument(r) \/ WarmIdentity(r) \/ Attach(r)
  \/ CanonicalCached(r) \/ LoadCanonical(r) \/ WarmCanonical(r)
  \/ InsertDuplicate(r) \/ Commit(r) \/ CommitUnacknowledged(r)
  \/ InvalidateCanonical(r) \/ InvalidateIdentity(r)
  \/ EraseBatch(r) \/ EraseMore(r) \/ EraseEnds(r) \/ EraseFails(r)
  \/ DropIdentity(r) \/ DropCanonical(r)

Start(r, p) ==
  \/ \E batch \in Batches : StartPut(r, p, batch)
  \/ StartAuth(r, p) \/ StartList(r, p) \/ Ban(r, p) \/ Unban(r, p)

Next ==
  \/ \E r \in Requests : Step(r) \/ Fail(r)
  \/ \E r \in Requests, p \in Procs : Start(r, p)
  \/ \E send \in publishing : Publish(send) \/ PublishFails(send)
  \/ \E p \in Procs : Crash(p)

Spec == Init /\ [][Next]_vars

(* The runtime polls every task whose await is ready.                      *)
FairSpec == Spec /\ \A r \in Requests : WF_vars(Step(r))

-----------------------------------------------------------------------------
(* Properties.                                                             *)

(* The documents any set of rows can have at the head of its chain.        *)
Heads == {validated_chain_head(S) : S \in SUBSET IdentityEvents}

Kinds == {"none", "put", "auth", "list", "ban"}

Points == {"idle", "event", "authorize", "load", "warm", "attach",
           "canonical", "warmCanonical", "insert", "invalidateCanonical",
           "invalidateIdentity", "erase", "eraseMore", "dropIdentity",
           "dropCanonical"}

RequestRecord ==
  [kind : Kinds, proc : Procs \cup {"none"}, pc : Points,
   batch : Batches \cup {<<>>}, clear : BOOLEAN,
   docs : SUBSET Heads, rows : SUBSET ContentEvents]

(* Rows, caches and tasks have their types; a task is served by a process  *)
(* unless it is idle, and carries an event wherever it handles one.        *)
TypeOK ==
  /\ identityRows \subseteq IdentityEvents
  /\ contentRows \subseteq ContentEvents
  /\ banned \in BOOLEAN
  /\ identityCache \in [Procs -> SUBSET Heads]
  /\ canonicalCache \in [Procs -> SUBSET SUBSET ContentEvents]
  /\ request \in [Requests -> RequestRecord]
  /\ publishing \subseteq Procs \X Events
  /\ kafka \subseteq Events
  /\ heads \subseteq Heads /\ barred \subseteq Requests

(* A cached document was, at some moment, the head of the validated chain: *)
(* an unauthorized identity event put by anyone never reaches the cache,   *)
(* which authenticates requests and authorizes writes.                     *)
CacheWasHead == \A p \in Procs : identityCache[p] \subseteq heads

(* Every stored content event was signed by a key that a document once at  *)
(* the head of the chain authorizes - whatever requests, invalidations,    *)
(* bans and crashes it raced.  An event the server did not hold when its   *)
(* key was revoked is refused, also within the revocation bound, which is  *)
(* looked up among the stored signatures.                                  *)
StoredWasAuthorized ==
  \A e \in contentRows : \E doc \in heads : authorizes_signer(doc, e.signer)

(* A put that arrives while the identity is banned, or that had not asked  *)
(* yet when it was banned, adds no row unless the ban is lifted: the one   *)
(* who adds a row is always another.                                       *)
NoInsertWhileBanned ==
  [][\A e \in (identityRows' \ identityRows) \cup (contentRows' \ contentRows) :
       \E r \in Requests \ barred :
         request'[r] # request[r] /\ request[r].batch # <<>> /\ Event(r) = e]_vars

Quiet == \A r \in Requests : request[r] = Idle

(* With no request under way, what is cached is what the rows say: the     *)
(* latest valid identity document and the canonical signatures.            *)
Coherent ==
  Quiet => \A p \in Procs : /\ identityCache[p] \subseteq {HeadDoc}
                            /\ canonicalCache[p] \subseteq {contentRows}

(* A ban completes unless it is lifted meanwhile: the erase loop cannot be *)
(* kept busy for ever by puts.                                             *)
BanCompletes ==
  \A r \in Requests :
    request[r].kind = "ban" ~> (request[r] = Idle \/ ~ banned)
=============================================================================
