------------------------- MODULE EventIngestProofs --------------------------
(***************************************************************************)
(* Proofs about EventIngest, for any number of processes, requests, keys,  *)
(* documents and events.                                                   *)
(***************************************************************************)
EXTENDS EventIngest, SequenceTheorems, TLAPS

(* A document of H authorizes the signer of e.  H stands for heads.        *)
WasAuthorized(e, H) == \E doc \in H : authorizes_signer(doc, e.signer)

(* The points at which a request handles an event of its batch.            *)
Handling == {"event", "insert", "invalidateCanonical", "invalidateIdentity"}

(* What holds of the record q of a request wherever its task stands: it is *)
(* served by a process, handles events only if it is a put, has a          *)
(* non-empty batch then, carries documents that were heads and rows that   *)
(* were authorized, has asked for the ban before anything else, and is at  *)
(* the insert of a content event only if that was authorized.              *)
RequestOK(q, H) ==
  /\ q \in RequestRecord
  /\ q.pc # "idle" => q.proc \in Procs
  /\ q.pc \in Handling => q.kind = "put"
  /\ IF q.kind = "put" THEN q.batch \in Batches ELSE q.batch = <<>>
  /\ q.kind = "put" /\ q.pc # "event" => q.clear
  /\ q.docs \subseteq H
  /\ \A e \in q.rows : WasAuthorized(e, H)
  /\ q.pc = "insert" /\ Head(q.batch) \notin IdentityEvents =>
       WasAuthorized(Head(q.batch), H)

RequestsOK ==
  /\ request \in [Requests -> RequestRecord]
  /\ \A r \in Requests : RequestOK(request[r], heads)

(* The caches hold documents that were heads and rows that were            *)
(* authorized.                                                             *)
CachesOK ==
  /\ identityCache \in [Procs -> SUBSET Heads]
  /\ canonicalCache \in [Procs -> SUBSET SUBSET ContentEvents]
  /\ \A p \in Procs : identityCache[p] \subseteq heads
  /\ \A p \in Procs : \A rows \in canonicalCache[p] :
       \A e \in rows : WasAuthorized(e, heads)

(* The rows, and the history that follows them.                            *)
RowsOK ==
  /\ identityRows \subseteq IdentityEvents
  /\ contentRows \subseteq ContentEvents
  /\ banned \in BOOLEAN
  /\ heads \subseteq Heads
  /\ HeadDoc # NoDoc => HeadDoc \in heads
  /\ \A e \in contentRows : WasAuthorized(e, heads)

TopicOK == publishing \subseteq Procs \X Events /\ kafka \subseteq Events

(* The inductive invariant.                                                *)
IInv == RowsOK /\ CachesOK /\ RequestsOK /\ TopicOK

USE DEF db, ban

-----------------------------------------------------------------------------
(* Facts about batches and records.                                        *)

(* The events of a batch, and what is left of it after the first.          *)
LEMMA BatchFacts ==
  ASSUME NEW b \in Batches
  PROVE /\ b \in Seq(Events) /\ Len(b) > 0
        /\ Head(b) \in Events
        /\ Len(b) > 1 => Tail(b) \in Batches
<1>1. PICK n \in 1..MaxBatch : b \in [1..n -> Events]
  BY DEF Batches
<1>2. n \in Nat /\ n >= 1 /\ n <= MaxBatch /\ MaxBatch \in Nat
  BY BatchAssumption, <1>1
<1>3. b \in Seq(Events) /\ Len(b) = n
  BY <1>1, <1>2
<1>4. Head(b) \in Events
  BY <1>1, <1>2, <1>3
<1>5. ASSUME Len(b) > 1 PROVE Tail(b) \in Batches
  <2>1. n - 1 \in 1..MaxBatch
    BY <1>2, <1>3, <1>5
  <2>2. Tail(b) \in [1..(n - 1) -> Events]
    <3>1. Tail(b) \in Seq(Events) /\ Len(Tail(b)) = n - 1
      BY <1>3, <1>5
    <3> QED BY <3>1, LenProperties
  <2> QED BY <2>1, <2>2 DEF Batches
<1> QED BY <1>2, <1>3, <1>4, <1>5

(* Idle is a good record.                                                  *)
LEMMA IdleOK == \A H : RequestOK(Idle, H)
<1>1. Idle \in RequestRecord
  BY DEF Idle, RequestRecord, Kinds, Points
<1> QED BY <1>1 DEF RequestOK, Idle, Handling

(* Moving on to a point where no event is handled and nothing about the    *)
(* events carried is claimed keeps a record good.                          *)
LEMMA GoToOK ==
  ASSUME NEW q, NEW H, RequestOK(q, H), NEW pc \in Points, q.pc # "idle",
         pc \in Handling => q.kind = "put",
         q.kind = "put" /\ pc # "event" => q.clear,
         pc = "insert" /\ Head(q.batch) \notin IdentityEvents =>
           WasAuthorized(Head(q.batch), H)
  PROVE RequestOK([q EXCEPT !.pc = pc], H)
<1> DEFINE n == [q EXCEPT !.pc = pc]
<1>1. q \in RequestRecord
  BY DEF RequestOK
<1>2. n \in RequestRecord
  BY <1>1 DEF RequestRecord
<1>3. /\ n.pc = pc /\ n.kind = q.kind /\ n.proc = q.proc /\ n.batch = q.batch
      /\ n.clear = q.clear /\ n.docs = q.docs /\ n.rows = q.rows
  BY <1>1 DEF RequestRecord
<1>4. RequestOK(n, H)
  <2> HIDE DEF n
  <2> QED BY <1>2, <1>3 DEF RequestOK
<1> QED BY <1>4

(* A record stays good as the history grows.                               *)
LEMMA GrowOK ==
  ASSUME NEW q, NEW H, NEW G, H \subseteq G, RequestOK(q, H)
  PROVE RequestOK(q, G)
<1>1. \A e : WasAuthorized(e, H) => WasAuthorized(e, G)
  BY DEF WasAuthorized
<1> QED BY <1>1 DEF RequestOK

(* Going on to the next event of a batch.                                  *)
LEMMA AfterOK ==
  ASSUME NEW q, NEW H, RequestOK(q, H), q.pc # "idle"
  PROVE RequestOK(After(q), H)
<1>1. CASE Len(q.batch) <= 1
  BY <1>1, IdleOK DEF After
<1>2. CASE ~ (Len(q.batch) <= 1)
  <2>1. q.kind = "put"
    <3>1. CASE q.kind # "put"
      <4>1. q.batch = <<>>
        BY <3>1 DEF RequestOK
      <4> QED BY <4>1, <1>2
    <3> QED BY <3>1
  <2>2. q \in RequestRecord /\ q.batch \in Batches /\ q.proc \in Procs
    BY <2>1 DEF RequestOK
  <2>3. Tail(q.batch) \in Batches
    BY <2>2, <1>2, BatchFacts
  <2> DEFINE n == [q EXCEPT !.batch = Tail(q.batch), !.pc = "event", !.docs = {}, !.rows = {}]
  <2>4. n \in RequestRecord
    BY <2>2, <2>3 DEF RequestRecord, Points
  <2>5. /\ n.pc = "event" /\ n.kind = "put" /\ n.proc = q.proc /\ n.batch = Tail(q.batch)
        /\ n.docs = {} /\ n.rows = {}
    BY <2>1, <2>2 DEF RequestRecord
  <2>6. RequestOK(n, H)
    <3> HIDE DEF n
    <3> QED BY <2>2, <2>3, <2>4, <2>5 DEF RequestOK
  <2> QED BY <1>2, <2>6 DEF After
<1> QED BY <1>1, <1>2

-----------------------------------------------------------------------------
(* Steps that change nothing but one request.                              *)

(* The task of r moves on to a good record.                                *)
Moves(r) == \E q : request' = [request EXCEPT ![r] = q] /\ RequestOK(q, heads)

(* Such a step keeps the invariant if what else it changes stays good.     *)
LEMMA TaskStep ==
  ASSUME IInv, NEW r \in Requests, Moves(r), heads \subseteq heads',
         RowsOK', CachesOK', TopicOK'
  PROVE IInv'
<1>1. PICK q : request' = [request EXCEPT ![r] = q] /\ RequestOK(q, heads)
  BY DEF Moves
<1>2. q \in RequestRecord /\ RequestOK(q, heads')
  BY <1>1, GrowOK DEF RequestOK
<1>3. request' \in [Requests -> RequestRecord]
  BY <1>1, <1>2 DEF IInv, RequestsOK
<1>4. ASSUME NEW t \in Requests PROVE RequestOK(request'[t], heads')
  <2>1. RequestOK(request[t], heads')
    BY GrowOK DEF IInv, RequestsOK
  <2>2. request'[t] = IF t = r THEN q ELSE request[t]
    BY <1>1 DEF IInv, RequestsOK
  <2> QED BY <1>2, <2>1, <2>2
<1>5. RequestsOK'
  BY <1>3, <1>4 DEF RequestsOK
<1> QED BY <1>5 DEF IInv

(* What a step leaves alone stays good.                                    *)
LEMMA RowsKept ==
  ASSUME RowsOK, UNCHANGED <<identityRows, contentRows, heads, banned>>
  PROVE RowsOK' /\ heads' = heads
BY DEF RowsOK, HeadDoc

(* Caches nobody touched stay good while the history grows.                *)
LEMMA CachesKept ==
  ASSUME CachesOK, UNCHANGED caches, heads \subseteq heads'
  PROVE CachesOK'
<1>1. \A e : WasAuthorized(e, heads) => WasAuthorized(e, heads')
  BY DEF WasAuthorized
<1>2. heads \in SUBSET heads'
  OBVIOUS
<1> QED BY <1>1, <1>2 DEF CachesOK, caches

(* A step that changes one request only.                                   *)
LEMMA TaskOnly ==
  ASSUME IInv, NEW r \in Requests, Moves(r),
         UNCHANGED <<identityRows, contentRows, heads, banned, caches, topic>>
  PROVE IInv'
<1>1. RowsOK' /\ heads' = heads
  BY RowsKept DEF IInv
<1>2. CachesOK'
  BY <1>1, CachesKept DEF IInv
<1>3. TopicOK'
  BY DEF IInv, TopicOK, topic
<1> QED BY <1>1, <1>2, <1>3, TaskStep

(* The ways a task moves on: the end of the request.                       *)
LEMMA EndMoves ==
  ASSUME NEW r \in Requests, request' = [request EXCEPT ![r] = Idle]
  PROVE Moves(r)
BY IdleOK DEF Moves

(* The next event of the batch.                                            *)
LEMMA NextMoves ==
  ASSUME IInv, NEW r \in Requests, request[r].pc # "idle", NextEvent(r)
  PROVE Moves(r)
<1>1. RequestOK(request[r], heads) /\ request \in [Requests -> RequestRecord]
  BY DEF IInv, RequestsOK
<1>2. request' = [request EXCEPT ![r] = After(request[r])]
  BY DEF NextEvent
<1> QED BY <1>1, <1>2, AfterOK DEF Moves

(* Another point, with nothing else changed.                               *)
LEMMA GoToMoves ==
  ASSUME IInv, NEW r \in Requests, NEW pc \in Points, request[r].pc # "idle", GoTo(r, pc),
         pc \in Handling => request[r].kind = "put",
         request[r].kind = "put" /\ pc # "event" => request[r].clear,
         pc = "insert" /\ Event(r) \notin IdentityEvents => WasAuthorized(Event(r), heads)
  PROVE Moves(r)
<1>1. RequestOK(request[r], heads) /\ request \in [Requests -> RequestRecord]
  BY DEF IInv, RequestsOK
<1>2. request' = [request EXCEPT ![r] = [request[r] EXCEPT !.pc = pc]]
  BY <1>1 DEF GoTo
<1>3. RequestOK([request[r] EXCEPT !.pc = pc], heads)
  BY <1>1, GoToOK DEF Event
<1> QED BY <1>2, <1>3 DEF Moves

(* A new request.                                                          *)
LEMMA BeginMoves ==
  ASSUME IInv, NEW r \in Requests, NEW kind \in Kinds, NEW p \in Procs, NEW pc \in Points,
         NEW batch \in Batches \cup {<<>>}, Begin(r, kind, p, pc, batch),
         IF kind = "put" THEN batch \in Batches /\ pc = "event"
         ELSE batch = <<>> /\ pc \notin Handling
  PROVE Moves(r)
<1> DEFINE n == [Idle EXCEPT !.kind = kind, !.proc = p, !.pc = pc, !.batch = batch]
<1>1. Idle \in RequestRecord /\ Idle.docs = {} /\ Idle.rows = {}
  BY IdleOK DEF RequestOK, Idle
<1>2. n \in RequestRecord
  BY <1>1 DEF RequestRecord
<1>3. /\ n.pc = pc /\ n.kind = kind /\ n.proc = p /\ n.batch = batch
      /\ n.docs = {} /\ n.rows = {}
  BY <1>1 DEF RequestRecord
<1>4. RequestOK(n, heads)
  <2> HIDE DEF n
  <2> QED BY <1>2, <1>3 DEF RequestOK, Handling
<1> QED BY <1>4 DEF Moves, Begin

(* A request that has to look the event up within a revocation bound.      *)
LEMMA BoundMoves ==
  ASSUME IInv, NEW r \in Requests, NEW doc \in heads,
         request[r].pc \in {"authorize", "warm"},
         request' = [request EXCEPT ![r].pc = "canonical", ![r].docs = {doc}]
  PROVE Moves(r)
<1>1. RequestOK(request[r], heads) /\ request \in [Requests -> RequestRecord]
  BY DEF IInv, RequestsOK
<1>2. doc \in Heads
  BY DEF IInv, RowsOK
<1> DEFINE q == request[r]
<1> DEFINE n == [q EXCEPT !.pc = "canonical", !.docs = {doc}]
<1>3. request' = [request EXCEPT ![r] = n]
  BY <1>1
<1>4. n \in RequestRecord
  BY <1>1, <1>2 DEF RequestRecord, Points
<1>5. /\ n.pc = "canonical" /\ n.kind = q.kind /\ n.proc = q.proc /\ n.batch = q.batch
      /\ n.clear = q.clear /\ n.docs = {doc} /\ n.rows = q.rows
  BY <1>1 DEF RequestRecord
<1>6. RequestOK(n, heads)
  <2> HIDE DEF n
  <2> QED BY <1>1, <1>4, <1>5 DEF RequestOK, Handling
<1> QED BY <1>3, <1>6 DEF Moves

(* A document that was a head decides.                                     *)
LEMMA JudgeMoves ==
  ASSUME IInv, NEW r \in Requests, NEW doc \in heads,
         request[r].pc \in {"authorize", "warm"}, Judge(r, doc)
  PROVE Moves(r)
<1>1. RequestOK(request[r], heads)
  BY DEF IInv, RequestsOK
<1>2. request[r].kind = "put" => request[r].clear
  BY <1>1 DEF RequestOK
<1>3. CASE request' = [request EXCEPT ![r] = Idle]
  BY <1>3, EndMoves
<1>4. CASE request[r].kind = "list" /\ GoTo(r, "attach")
  BY <1>2, <1>4, GoToMoves DEF Points, Handling
<1>5. CASE request[r].kind = "put" /\ authorizes_signer(doc, Event(r).signer) /\ GoTo(r, "insert")
  <2>1. WasAuthorized(Event(r), heads)
    BY <1>5 DEF WasAuthorized
  <2> QED BY <1>2, <1>5, <2>1, GoToMoves DEF Points
<1>6. CASE NextEvent(r)
  BY <1>6, NextMoves
<1>7. CASE request' = [request EXCEPT ![r].pc = "canonical", ![r].docs = {doc}]
  BY <1>7, BoundMoves
<1> QED BY <1>3, <1>4, <1>5, <1>6, <1>7 DEF Judge

(* Rows that were authorized decide: the bound lets through only what is   *)
(* among them.                                                             *)
LEMMA JudgeBoundMoves ==
  ASSUME IInv, NEW r \in Requests, NEW rows,
         \A e \in rows : WasAuthorized(e, heads),
         request[r].pc \in {"canonical", "warmCanonical"}, JudgeBound(r, rows)
  PROVE Moves(r)
<1>1. RequestOK(request[r], heads)
  BY DEF IInv, RequestsOK
<1>2. request[r].kind = "put" => request[r].clear
  BY <1>1 DEF RequestOK
<1>3. CASE request' = [request EXCEPT ![r] = Idle]
  BY <1>3, EndMoves
<1>4. CASE /\ request[r].kind = "put"
           /\ \E doc \in request[r].docs : WithinBound(doc, Event(r), rows)
           /\ GoTo(r, "insert")
  <2>1. Event(r) \in rows
    BY <1>4 DEF WithinBound, Prefix
  <2>2. WasAuthorized(Event(r), heads)
    BY <2>1
  <2> QED BY <1>2, <1>4, <2>2, GoToMoves DEF Points
<1>5. CASE NextEvent(r)
  BY <1>5, NextMoves
<1> QED BY <1>3, <1>4, <1>5 DEF JudgeBound

-----------------------------------------------------------------------------
(* Steps that change a cache or the rows.                                  *)

(* A document that was a head may be cached.                               *)
LEMMA IdentityCacheSet ==
  ASSUME IInv, NEW p \in Procs, NEW D \in SUBSET heads, UNCHANGED <<canonicalCache, heads>>,
         identityCache' = [identityCache EXCEPT ![p] = D]
  PROVE CachesOK'
<1>1. D \in SUBSET Heads
  BY DEF IInv, RowsOK
<1>2. identityCache' \in [Procs -> SUBSET Heads]
  BY <1>1 DEF IInv, CachesOK
<1>3. \A t \in Procs : identityCache'[t] \subseteq heads
  BY DEF IInv, CachesOK
<1> QED BY <1>2, <1>3 DEF IInv, CachesOK

(* So may a set of rows that were authorized, or nothing.                  *)
LEMMA CanonicalCacheSet ==
  ASSUME IInv, NEW p \in Procs, NEW R \in SUBSET SUBSET ContentEvents,
         \A rows \in R : \A e \in rows : WasAuthorized(e, heads),
         UNCHANGED <<identityCache, heads>>,
         canonicalCache' = [canonicalCache EXCEPT ![p] = R]
  PROVE CachesOK'
<1>1. canonicalCache' \in [Procs -> SUBSET SUBSET ContentEvents]
  BY DEF IInv, CachesOK
<1>2. \A t \in Procs : canonicalCache'[t] = IF t = p THEN R ELSE canonicalCache[t]
  BY DEF IInv, CachesOK
<1>3. \A t \in Procs : \A rows \in canonicalCache'[t] : \A e \in rows : WasAuthorized(e, heads)
  BY <1>2 DEF IInv, CachesOK
<1> QED BY <1>1, <1>3 DEF IInv, CachesOK

(* Dropping the entry of a process.                                        *)
LEMMA CanonicalCacheEmptied ==
  ASSUME IInv, NEW p \in Procs, UNCHANGED <<identityCache, heads>>,
         canonicalCache' = [canonicalCache EXCEPT ![p] = {}]
  PROVE CachesOK'
<1> DEFINE R == {}
<1>1. R \in SUBSET SUBSET ContentEvents /\ \A rows \in R : \A e \in rows : WasAuthorized(e, heads)
  OBVIOUS
<1>2. canonicalCache' = [canonicalCache EXCEPT ![p] = R]
  OBVIOUS
<1> HIDE DEF R
<1> QED BY <1>1, <1>2, CanonicalCacheSet

(* RecordHead keeps the history in step with the rows.                     *)
LEMMA RowsChange ==
  ASSUME IInv, identityRows' \subseteq IdentityEvents, RecordHead,
         contentRows' \subseteq ContentEvents,
         \A e \in contentRows' : WasAuthorized(e, heads), banned' = banned
  PROVE RowsOK' /\ heads \subseteq heads'
<1>1. heads \subseteq heads'
  BY DEF RecordHead
<1>2. validated_chain_head(identityRows') \in Heads
  BY DEF Heads
<1>3. heads' \subseteq Heads
  BY <1>2 DEF RecordHead, IInv, RowsOK
<1>4. HeadDoc' # NoDoc => HeadDoc' \in heads'
  BY DEF RecordHead, HeadDoc
<1>5. \A e \in contentRows' : WasAuthorized(e, heads')
  BY <1>1 DEF WasAuthorized
<1> QED BY <1>1, <1>3, <1>4, <1>5 DEF RowsOK, IInv

(* The row of an authorized event, or of an identity event, is added.      *)
LEMMA RowAdded ==
  ASSUME IInv, NEW r \in Requests, AddRow(r), banned' = banned
  PROVE RowsOK' /\ heads \subseteq heads'
<1>1. RequestOK(request[r], heads) /\ request[r].pc = "insert"
  BY DEF IInv, RequestsOK, AddRow, At
<1>2. request[r].batch \in Batches
  BY <1>1 DEF RequestOK, Handling
<1>3. Event(r) \in Events
  BY <1>2, BatchFacts DEF Event
<1>4. CASE Event(r) \in IdentityEvents
  <2>1. identityRows' \subseteq IdentityEvents /\ RecordHead /\ contentRows' = contentRows
    BY <1>4 DEF AddRow, IInv, RowsOK
  <2> QED BY <2>1, RowsChange DEF IInv, RowsOK
<1>5. CASE Event(r) \notin IdentityEvents
  <2>1. Event(r) \in ContentEvents /\ WasAuthorized(Event(r), heads)
    BY <1>1, <1>3, <1>5 DEF Events, RequestOK, Event
  <2>2. /\ contentRows' = contentRows \cup {Event(r)}
        /\ identityRows' = identityRows /\ heads' = heads
    BY <1>5 DEF AddRow
  <2>3. \A e \in contentRows' : WasAuthorized(e, heads')
    BY <2>1, <2>2 DEF IInv, RowsOK
  <2>4. HeadDoc' = HeadDoc
    BY <2>2 DEF HeadDoc
  <2>5. contentRows' \subseteq ContentEvents
    BY <2>1, <2>2 DEF IInv, RowsOK
  <2> QED BY <2>2, <2>3, <2>4, <2>5 DEF IInv, RowsOK
<1> QED BY <1>4, <1>5

-----------------------------------------------------------------------------
(* Every action keeps the invariant.                                       *)

(* Arrival of a request.                                                   *)
LEMMA StartInv ==
  ASSUME IInv, NEW r \in Requests, NEW p \in Procs, Start(r, p)
  PROVE IInv'
<1>1. ASSUME NEW batch \in Batches, StartPut(r, p, batch) PROVE IInv'
  <2>1. Moves(r)
    BY <1>1, BeginMoves DEF StartPut, Kinds, Points
  <2> QED BY <1>1, <2>1, TaskOnly DEF StartPut
<1>2. CASE StartAuth(r, p)
  <2>1. Moves(r)
    BY <1>2, BeginMoves DEF StartAuth, Kinds, Points, Handling
  <2> QED BY <1>2, <2>1, TaskOnly DEF StartAuth
<1>3. CASE StartList(r, p)
  <2>1. Moves(r)
    BY <1>3, BeginMoves DEF StartList, Kinds, Points, Handling
  <2> QED BY <1>3, <2>1, TaskOnly DEF StartList
<1>4. CASE Ban(r, p)
  <2>1. Moves(r)
    BY <1>4, BeginMoves DEF Ban, Kinds, Points, Handling
  <2>2. /\ identityRows' = identityRows /\ contentRows' = contentRows
        /\ heads' = heads /\ banned' = TRUE
    BY <1>4 DEF Ban
  <2>3. RowsOK'
    BY <2>2 DEF IInv, RowsOK, HeadDoc
  <2>4. CachesOK'
    BY <1>4, <2>2, CachesKept DEF IInv, Ban
  <2>5. TopicOK'
    BY <1>4 DEF IInv, TopicOK, topic, Ban
  <2> QED BY <2>1, <2>2, <2>3, <2>4, <2>5, TaskStep
<1>5. CASE Unban(r, p)
  <2>1. /\ identityRows' = identityRows /\ contentRows' = contentRows
        /\ heads' = heads /\ banned' = FALSE /\ request' = request
    BY <1>5 DEF Unban
  <2>2. RowsOK'
    BY <2>1 DEF IInv, RowsOK, HeadDoc
  <2>3. CachesOK'
    BY <1>5, <2>1, CachesKept DEF IInv, Unban
  <2>4. TopicOK'
    BY <1>5 DEF IInv, TopicOK, topic, Unban
  <2>5. RequestsOK'
    BY <2>1 DEF IInv, RequestsOK
  <2> QED BY <2>2, <2>3, <2>4, <2>5 DEF IInv
<1> QED BY <1>1, <1>2, <1>3, <1>4, <1>5 DEF Start

(* The ban look-up and the authorization of a signer.                      *)
LEMMA AuthorizeInv ==
  ASSUME IInv, NEW r \in Requests,
         \/ CheckBan(r) \/ AuthorizeCached(r) \/ AuthorizeMiss(r)
         \/ LoadNothing(r) \/ LoadDocument(r) \/ WarmIdentity(r) \/ Attach(r)
  PROVE IInv'
<1> DEFINE q == request[r]
<1>1. /\ RequestOK(q, heads) /\ q \in RequestRecord
      /\ request \in [Requests -> RequestRecord]
  BY DEF IInv, RequestsOK, RequestOK
<1>2. q.pc # "idle" => q.proc \in Procs
  BY <1>1 DEF RequestOK
<1>3. CASE CheckBan(r)
  <2>1. q.pc = "event" /\ q.kind = "put" /\ q.batch \in Batches
    BY <1>1, <1>3 DEF CheckBan, At, RequestOK, Handling
  <2>2. CASE banned /\ ~ q.clear
    <3>1. request' = [request EXCEPT ![r] = Idle]
      BY <1>3, <2>2 DEF CheckBan
    <3> QED BY <1>3, <3>1, EndMoves, TaskOnly DEF CheckBan
  <2>3. CASE ~ (banned /\ ~ q.clear)
    <3> DEFINE pc == IF Event(r) \in IdentityEvents THEN "insert" ELSE "authorize"
    <3> DEFINE n == [q EXCEPT !.clear = TRUE, !.pc = pc]
    <3>1. request' = [request EXCEPT ![r] = n]
      BY <1>1, <1>3, <2>3 DEF CheckBan
    <3>2. n \in RequestRecord
      BY <1>1 DEF RequestRecord, Points
    <3>3. /\ n.pc = pc /\ n.kind = "put" /\ n.proc = q.proc /\ n.batch = q.batch
          /\ n.docs = q.docs /\ n.rows = q.rows
      BY <1>1, <2>1 DEF RequestRecord
    <3>4. n.clear = TRUE
      BY <1>1 DEF RequestRecord
    <3>5. RequestOK(n, heads)
      <4>1. pc = "insert" => Head(q.batch) \in IdentityEvents
        BY DEF Event
      <4>2. pc # "idle"
        OBVIOUS
      <4> HIDE DEF n, pc
      <4> QED BY <1>1, <1>2, <2>1, <3>2, <3>3, <3>4, <4>1, <4>2 DEF RequestOK
    <3> QED BY <1>3, <3>1, <3>5, TaskOnly DEF CheckBan, Moves
  <2> QED BY <2>2, <2>3
<1>4. CASE AuthorizeCached(r)
  <2>1. q.pc = "authorize"
    BY <1>4 DEF AuthorizeCached, At
  <2>2. PICK doc \in identityCache[q.proc] : Judge(r, doc)
    BY <1>4 DEF AuthorizeCached
  <2>3. doc \in heads
    BY <1>2, <2>1, <2>2 DEF IInv, CachesOK
  <2> QED BY <1>4, <2>1, <2>2, <2>3, JudgeMoves, TaskOnly DEF AuthorizeCached
<1>5. CASE AuthorizeMiss(r)
  <2>1. q.pc = "authorize"
    BY <1>5 DEF AuthorizeMiss, At
  <2>2. Moves(r)
    BY <1>1, <1>5, <2>1, GoToMoves DEF AuthorizeMiss, Points, Handling, RequestOK
  <2> QED BY <1>5, <2>2, TaskOnly DEF AuthorizeMiss
<1>6. CASE LoadNothing(r)
  <2>1. q.pc # "idle"
    BY <1>6 DEF LoadNothing, At
  <2> QED BY <1>6, <2>1, NextMoves, TaskOnly DEF LoadNothing
<1>7. CASE LoadDocument(r)
  <2>1. q.pc = "load"
    BY <1>7 DEF LoadDocument, At
  <2>2. HeadDoc \in heads /\ HeadDoc \in Heads
    BY <1>7 DEF LoadDocument, IInv, RowsOK
  <2> DEFINE n == [q EXCEPT !.pc = "warm", !.docs = {HeadDoc}]
  <2>3. request' = [request EXCEPT ![r] = n]
    BY <1>1, <1>7 DEF LoadDocument
  <2>4. n \in RequestRecord
    BY <1>1, <2>2 DEF RequestRecord, Points
  <2>5. /\ n.pc = "warm" /\ n.kind = q.kind /\ n.proc = q.proc /\ n.batch = q.batch
        /\ n.clear = q.clear /\ n.docs = {HeadDoc} /\ n.rows = q.rows
    BY <1>1 DEF RequestRecord
  <2>6. RequestOK(n, heads)
    <3> HIDE DEF n
    <3> QED BY <1>1, <2>1, <2>2, <2>4, <2>5 DEF RequestOK, Handling
  <2> QED BY <1>7, <2>3, <2>6, TaskOnly DEF LoadDocument, Moves
<1>8. CASE WarmIdentity(r)
  <2>1. q.pc = "warm" /\ q.proc \in Procs /\ q.docs \in SUBSET heads
    BY <1>1, <1>2, <1>8 DEF WarmIdentity, At, RequestOK
  <2>2. PICK doc \in q.docs : Judge(r, doc)
    BY <1>8 DEF WarmIdentity
  <2>3. Moves(r)
    BY <2>1, <2>2, JudgeMoves
  <2>4. RowsOK' /\ heads' = heads
    BY <1>8, RowsKept DEF IInv, WarmIdentity
  <2>5. CachesOK'
    BY <1>8, <2>1, <2>4, IdentityCacheSet DEF WarmIdentity
  <2>6. TopicOK'
    BY <1>8 DEF IInv, TopicOK, topic, WarmIdentity
  <2> QED BY <2>3, <2>4, <2>5, <2>6, TaskStep
<1>9. CASE Attach(r)
  <2>1. q.pc = "attach"
    BY <1>9 DEF Attach, At
  <2>2. q.kind = "put" => q.clear
    BY <1>1, <2>1 DEF RequestOK
  <2>3. CASE request' = [request EXCEPT ![r] = Idle]
    BY <1>9, <2>3, EndMoves, TaskOnly DEF Attach
  <2>4. CASE GoTo(r, "canonical")
    <3>1. Moves(r)
      BY <2>1, <2>2, <2>4, GoToMoves DEF Points, Handling
    <3> QED BY <1>9, <3>1, TaskOnly DEF Attach
  <2> QED BY <1>9, <2>3, <2>4 DEF Attach
<1> QED BY <1>3, <1>4, <1>5, <1>6, <1>7, <1>8, <1>9

(* The look-up within a revocation bound.                                  *)
LEMMA BoundInv ==
  ASSUME IInv, NEW r \in Requests,
         CanonicalCached(r) \/ LoadCanonical(r) \/ WarmCanonical(r)
  PROVE IInv'
<1> DEFINE q == request[r]
<1>1. /\ RequestOK(q, heads) /\ q \in RequestRecord
      /\ request \in [Requests -> RequestRecord]
  BY DEF IInv, RequestsOK, RequestOK
<1>2. q.pc # "idle" => q.proc \in Procs
  BY <1>1 DEF RequestOK
<1>3. CASE CanonicalCached(r)
  <2>1. q.pc = "canonical"
    BY <1>3 DEF CanonicalCached, At
  <2>2. PICK rows \in canonicalCache[q.proc] : JudgeBound(r, rows)
    BY <1>3 DEF CanonicalCached
  <2>3. \A e \in rows : WasAuthorized(e, heads)
    BY <1>2, <2>1, <2>2 DEF IInv, CachesOK
  <2> QED BY <1>3, <2>1, <2>2, <2>3, JudgeBoundMoves, TaskOnly DEF CanonicalCached
<1>4. CASE LoadCanonical(r)
  <2>1. q.pc = "canonical"
    BY <1>4 DEF LoadCanonical, At
  <2>2. contentRows \subseteq ContentEvents /\ \A e \in contentRows : WasAuthorized(e, heads)
    BY DEF IInv, RowsOK
  <2> DEFINE n == [q EXCEPT !.pc = "warmCanonical", !.rows = contentRows]
  <2>3. request' = [request EXCEPT ![r] = n]
    BY <1>1, <1>4 DEF LoadCanonical
  <2>4. n \in RequestRecord
    BY <1>1, <2>2 DEF RequestRecord, Points
  <2>5. /\ n.pc = "warmCanonical" /\ n.kind = q.kind /\ n.proc = q.proc /\ n.batch = q.batch
        /\ n.clear = q.clear /\ n.docs = q.docs /\ n.rows = contentRows
    BY <1>1 DEF RequestRecord
  <2>6. RequestOK(n, heads)
    <3> HIDE DEF n
    <3> QED BY <1>1, <2>1, <2>2, <2>4, <2>5 DEF RequestOK, Handling
  <2> QED BY <1>4, <2>3, <2>6, TaskOnly DEF LoadCanonical, Moves
<1>5. CASE WarmCanonical(r)
  <2>1. /\ q.pc = "warmCanonical" /\ q.proc \in Procs
        /\ q.rows \in SUBSET ContentEvents
        /\ \A e \in q.rows : WasAuthorized(e, heads)
    BY <1>1, <1>2, <1>5 DEF WarmCanonical, At, RequestOK, RequestRecord
  <2>2. Moves(r)
    BY <1>5, <2>1, JudgeBoundMoves DEF WarmCanonical
  <2>3. RowsOK' /\ heads' = heads
    BY <1>5, RowsKept DEF IInv, WarmCanonical
  <2>4. CachesOK'
    <3> DEFINE R == {q.rows}
    <3>1. R \in SUBSET SUBSET ContentEvents /\ \A rows \in R : \A e \in rows : WasAuthorized(e, heads)
      BY <2>1
    <3>2. /\ canonicalCache' = [canonicalCache EXCEPT ![q.proc] = R]
          /\ UNCHANGED <<identityCache, heads>>
      BY <1>5, <2>3 DEF WarmCanonical
    <3> HIDE DEF R
    <3> QED BY <2>1, <3>1, <3>2, CanonicalCacheSet
  <2>5. TopicOK'
    BY <1>5 DEF IInv, TopicOK, topic, WarmCanonical
  <2> QED BY <2>2, <2>3, <2>4, <2>5, TaskStep
<1> QED BY <1>3, <1>4, <1>5

(* The insert, the invalidations after it, and failures.                   *)
LEMMA PersistInv ==
  ASSUME IInv, NEW r \in Requests,
         \/ InsertDuplicate(r) \/ Commit(r) \/ CommitUnacknowledged(r) \/ Fail(r)
         \/ InvalidateCanonical(r) \/ InvalidateIdentity(r)
  PROVE IInv'
<1> DEFINE q == request[r]
<1>1. RequestOK(q, heads)
  BY DEF IInv, RequestsOK
<1>2. q.pc \in Handling => q.kind = "put" /\ q.proc \in Procs /\ Event(r) \in Events
  BY <1>1, BatchFacts DEF RequestOK, Handling, Event
<1>3. q.kind = "put" /\ q.pc # "event" => q.clear
  BY <1>1 DEF RequestOK
<1>4. CASE InsertDuplicate(r)
  <2>1. q.pc # "idle"
    BY <1>4 DEF InsertDuplicate, At
  <2> QED BY <1>4, <2>1, NextMoves, TaskOnly DEF InsertDuplicate
<1>5. CASE Commit(r)
  <2>1. q.pc = "insert"
    BY <1>5 DEF Commit, AddRow, At
  <2>2. Moves(r)
    BY <1>2, <1>3, <1>5, <2>1, GoToMoves DEF Commit, Points, Handling
  <2>3. RowsOK' /\ heads \subseteq heads'
    BY <1>5, RowAdded DEF Commit
  <2>4. CachesOK'
    BY <1>5, <2>3, CachesKept DEF Commit, IInv
  <2>5. TopicOK'
    BY <1>5 DEF IInv, TopicOK, topic, Commit
  <2> QED BY <2>2, <2>3, <2>4, <2>5, TaskStep
<1>6. CASE CommitUnacknowledged(r)
  <2>1. q.pc # "idle"
    BY <1>6 DEF CommitUnacknowledged, AddRow, At
  <2>2. Moves(r)
    BY <1>6, <2>1, NextMoves DEF CommitUnacknowledged
  <2>3. RowsOK' /\ heads \subseteq heads'
    BY <1>6, RowAdded DEF CommitUnacknowledged
  <2>4. CachesOK'
    BY <1>6, <2>3, CachesKept DEF CommitUnacknowledged, IInv
  <2>5. TopicOK'
    BY <1>6 DEF IInv, TopicOK, topic, CommitUnacknowledged
  <2> QED BY <2>2, <2>3, <2>4, <2>5, TaskStep
<1>7. CASE Fail(r)
  <2>1. q.pc # "idle"
    BY <1>7 DEF Fail
  <2> QED BY <1>7, <2>1, NextMoves, TaskOnly DEF Fail
<1>8. CASE InvalidateCanonical(r)
  <2>1. q.pc = "invalidateCanonical"
    BY <1>8 DEF InvalidateCanonical, At
  <2>2. RowsOK' /\ heads' = heads
    BY <1>8, RowsKept DEF IInv, InvalidateCanonical
  <2>3. CASE Event(r) \in IdentityEvents
    <3>1. GoTo(r, "invalidateIdentity") /\ UNCHANGED <<caches, topic>>
      BY <1>8, <2>3 DEF InvalidateCanonical, caches, topic
    <3>2. Moves(r)
      BY <1>2, <1>3, <2>1, <3>1, GoToMoves DEF Points, Handling
    <3> QED BY <1>8, <3>1, <3>2, TaskOnly DEF InvalidateCanonical
  <2>4. CASE Event(r) \notin IdentityEvents
    <3>1. /\ canonicalCache' = [canonicalCache EXCEPT ![q.proc] = {}]
          /\ publishing' = publishing \cup Sends(r) /\ kafka' = kafka
          /\ identityCache' = identityCache /\ NextEvent(r)
      BY <1>8, <2>4 DEF InvalidateCanonical
    <3>2. Moves(r)
      BY <2>1, <3>1, NextMoves
    <3>3. CachesOK'
      <4>1. q.proc \in Procs /\ UNCHANGED <<identityCache, heads>>
        BY <1>2, <2>1, <2>2, <3>1 DEF Handling
      <4> QED BY <3>1, <4>1, CanonicalCacheEmptied
    <3>4. TopicOK'
      BY <1>2, <2>1, <3>1 DEF Sends, TopicOK, IInv, Handling
    <3> QED BY <2>2, <3>2, <3>3, <3>4, TaskStep
  <2> QED BY <2>3, <2>4
<1>9. CASE InvalidateIdentity(r)
  <2>1. q.pc = "invalidateIdentity"
    BY <1>9 DEF InvalidateIdentity, At
  <2>2. RowsOK' /\ heads' = heads
    BY <1>9, RowsKept DEF IInv, InvalidateIdentity
  <2>3. Moves(r)
    BY <1>9, <2>1, NextMoves DEF InvalidateIdentity
  <2>4. CachesOK'
    <3>1. /\ identityCache' = [identityCache EXCEPT ![q.proc] = {}]
          /\ UNCHANGED <<canonicalCache, heads>> /\ q.proc \in Procs
      BY <1>2, <1>9, <2>1, <2>2 DEF InvalidateIdentity, Handling
    <3>2. {} \in SUBSET heads
      OBVIOUS
    <3> QED BY <3>1, <3>2, IdentityCacheSet
  <2>5. TopicOK'
    BY <1>2, <1>9, <2>1 DEF InvalidateIdentity, Sends, TopicOK, IInv, Handling
  <2> QED BY <2>2, <2>3, <2>4, <2>5, TaskStep
<1> QED BY <1>4, <1>5, <1>6, <1>7, <1>8, <1>9

(* The erasure of a ban.                                                   *)
LEMMA EraseInv ==
  ASSUME IInv, NEW r \in Requests,
         \/ EraseBatch(r) \/ EraseMore(r) \/ EraseEnds(r) \/ EraseFails(r)
         \/ DropIdentity(r) \/ DropCanonical(r)
  PROVE IInv'
<1> DEFINE q == request[r]
<1>1. RequestOK(q, heads)
  BY DEF IInv, RequestsOK
<1>2. q.pc # "idle" => q.proc \in Procs
  BY <1>1 DEF RequestOK
<1>3. q.kind = "put" /\ q.pc # "event" => q.clear
  BY <1>1 DEF RequestOK
<1>4. CASE EraseBatch(r)
  <2>1. Moves(r)
    BY <1>3, <1>4, GoToMoves DEF EraseBatch, At, Points, Handling
  <2>2. RowsOK' /\ heads \subseteq heads'
    BY <1>4, RowsChange DEF EraseBatch
  <2>3. CachesOK'
    BY <1>4, <2>2, CachesKept DEF EraseBatch, IInv
  <2>4. TopicOK'
    BY <1>4 DEF IInv, TopicOK, topic, EraseBatch
  <2> QED BY <2>1, <2>2, <2>3, <2>4, TaskStep
<1>5. CASE EraseMore(r)
  <2>1. identityRows' \subseteq identityRows /\ contentRows' \subseteq contentRows
    BY <1>5 DEF EraseMore
  <2>2. RowsOK' /\ heads \subseteq heads'
    BY <1>5, <2>1, RowsChange DEF EraseMore, IInv, RowsOK
  <2>3. CachesOK'
    BY <1>5, <2>2, CachesKept DEF EraseMore, IInv
  <2>4. TopicOK'
    BY <1>5 DEF IInv, TopicOK, topic, EraseMore
  <2>5. request' = request
    BY <1>5 DEF EraseMore
  <2>6. RequestsOK'
    BY <2>2, <2>5, GrowOK DEF IInv, RequestsOK
  <2> QED BY <2>2, <2>3, <2>4, <2>6 DEF IInv
<1>6. CASE EraseEnds(r)
  <2>1. Moves(r)
    BY <1>3, <1>6, GoToMoves DEF EraseEnds, At, Points, Handling
  <2> QED BY <1>6, <2>1, TaskOnly DEF EraseEnds
<1>7. CASE EraseFails(r)
  BY <1>7, EndMoves, TaskOnly DEF EraseFails
<1>8. CASE DropIdentity(r)
  <2>1. q.pc = "dropIdentity"
    BY <1>8 DEF DropIdentity, At
  <2>2. Moves(r)
    BY <1>3, <1>8, <2>1, GoToMoves DEF DropIdentity, Points, Handling
  <2>3. RowsOK' /\ heads' = heads
    BY <1>8, RowsKept DEF IInv, DropIdentity
  <2>4. CachesOK'
    BY <1>2, <1>8, <2>1, <2>3, IdentityCacheSet DEF DropIdentity
  <2>5. TopicOK'
    BY <1>8 DEF IInv, TopicOK, topic, DropIdentity
  <2> QED BY <2>2, <2>3, <2>4, <2>5, TaskStep
<1>9. CASE DropCanonical(r)
  <2>1. q.pc = "dropCanonical"
    BY <1>9 DEF DropCanonical, At
  <2>2. Moves(r)
    BY <1>9, EndMoves DEF DropCanonical
  <2>3. RowsOK' /\ heads' = heads
    BY <1>9, RowsKept DEF IInv, DropCanonical
  <2>4. CachesOK'
    <3>1. /\ canonicalCache' = [canonicalCache EXCEPT ![q.proc] = {}]
          /\ UNCHANGED <<identityCache, heads>> /\ q.proc \in Procs
      BY <1>2, <1>9, <2>1, <2>3 DEF DropCanonical
    <3> QED BY <3>1, CanonicalCacheEmptied
  <2>5. TopicOK'
    BY <1>9 DEF IInv, TopicOK, topic, DropCanonical
  <2> QED BY <2>2, <2>3, <2>4, <2>5, TaskStep
<1> QED BY <1>4, <1>5, <1>6, <1>7, <1>8, <1>9

(* A process that dies, and the Kafka sends.                               *)
LEMMA RestInv ==
  ASSUME IInv,
         \/ \E send \in publishing : Publish(send) \/ PublishFails(send)
         \/ \E p \in Procs : Crash(p)
         \/ UNCHANGED vars
  PROVE IInv'
<1>1. ASSUME NEW send \in publishing, Publish(send) \/ PublishFails(send) PROVE IInv'
  <2>1. UNCHANGED <<db, caches, request>>
    BY <1>1 DEF Publish, PublishFails
  <2>2. RowsOK' /\ heads' = heads
    BY <2>1, RowsKept DEF IInv
  <2>3. CachesOK'
    BY <2>1, <2>2, CachesKept DEF IInv
  <2>4. RequestsOK'
    BY <2>1, <2>2 DEF IInv, RequestsOK
  <2>5. send[2] \in Events
    BY DEF IInv, TopicOK
  <2>6. publishing' \subseteq publishing /\ kafka' \subseteq kafka \cup {send[2]}
    BY <1>1 DEF Publish, PublishFails
  <2>7. TopicOK'
    BY <2>5, <2>6 DEF IInv, TopicOK
  <2> QED BY <2>2, <2>3, <2>4, <2>7 DEF IInv
<1>2. ASSUME NEW p \in Procs, Crash(p) PROVE IInv'
  <2>1. RowsOK' /\ heads' = heads
    BY <1>2, RowsKept DEF IInv, Crash
  <2>2. /\ identityCache' = [identityCache EXCEPT ![p] = {}]
        /\ canonicalCache' = [canonicalCache EXCEPT ![p] = {}]
    BY <1>2 DEF Crash
  <2>3. /\ identityCache' \in [Procs -> SUBSET Heads]
        /\ canonicalCache' \in [Procs -> SUBSET SUBSET ContentEvents]
    BY <2>2 DEF IInv, CachesOK
  <2>4. \A t \in Procs : /\ identityCache'[t] \subseteq identityCache[t]
                         /\ canonicalCache'[t] \subseteq canonicalCache[t]
    BY <2>2 DEF IInv, CachesOK
  <2>5. CachesOK'
    BY <2>1, <2>3, <2>4 DEF IInv, CachesOK
  <2>6. RequestsOK'
    <3>1. RequestOK(Idle, heads) /\ Idle \in RequestRecord
      BY IdleOK DEF RequestOK
    <3>2. request' = [r \in Requests |-> IF request[r].proc = p THEN Idle ELSE request[r]]
      BY <1>2 DEF Crash
    <3> QED BY <2>1, <3>1, <3>2 DEF IInv, RequestsOK
  <2>7. TopicOK'
    BY <1>2 DEF IInv, TopicOK, Crash
  <2> QED BY <2>1, <2>5, <2>6, <2>7 DEF IInv
<1>3. CASE UNCHANGED vars
  <2>1. UNCHANGED <<db, caches, topic, request>>
    BY <1>3 DEF vars, db, caches, topic
  <2>2. RowsOK' /\ heads' = heads
    BY <2>1, RowsKept DEF IInv
  <2>3. CachesOK'
    BY <2>1, <2>2, CachesKept DEF IInv
  <2> QED BY <2>1, <2>2, <2>3 DEF IInv, RequestsOK, TopicOK, topic
<1> QED BY <1>1, <1>2, <1>3

-----------------------------------------------------------------------------
(* The theorems.                                                           *)

(* The invariant holds in the initial state.                               *)
LEMMA InitInv == Init => IInv
<1> SUFFICES ASSUME Init PROVE IInv
  OBVIOUS
<1>1. /\ identityRows = {} /\ contentRows = {} /\ banned = FALSE
      /\ identityCache = [p \in Procs |-> {}] /\ canonicalCache = [p \in Procs |-> {}]
      /\ request = [r \in Requests |-> Idle]
      /\ publishing = {} /\ kafka = {} /\ heads = {HeadDoc} \ {NoDoc}
  BY DEF Init
<1>2. HeadDoc \in Heads
  BY <1>1 DEF HeadDoc, Heads
<1>3. RowsOK
  BY <1>1, <1>2 DEF RowsOK
<1>4. CachesOK
  BY <1>1 DEF CachesOK
<1>5. RequestsOK
  <2>1. RequestOK(Idle, heads) /\ Idle \in RequestRecord
    BY IdleOK DEF RequestOK
  <2> QED BY <1>1, <2>1 DEF RequestsOK
<1>6. TopicOK
  BY <1>1 DEF TopicOK
<1> QED BY <1>3, <1>4, <1>5, <1>6 DEF IInv

(* Every step keeps it.                                                    *)
LEMMA NextInv == IInv /\ [Next]_vars => IInv'
<1> SUFFICES ASSUME IInv, [Next]_vars PROVE IInv'
  OBVIOUS
<1>1. ASSUME NEW r \in Requests, Step(r) \/ Fail(r) PROVE IInv'
  BY <1>1, AuthorizeInv, BoundInv, PersistInv, EraseInv DEF Step
<1>2. ASSUME NEW r \in Requests, NEW p \in Procs, Start(r, p) PROVE IInv'
  BY <1>2, StartInv
<1> QED BY <1>1, <1>2, RestInv DEF Next

(* Rows, caches, tasks and the topic satisfy the inductive invariant in    *)
(* every state, through crashes, lost acknowledgements and erasures.       *)
THEOREM IngestInvariant == Spec => []IInv
BY InitInv, NextInv, PTL DEF Spec

(* cached_identity_content and warm_identity_cache put only documents into *)
(* the proof cache that were at the head of the validated chain, however   *)
(* the requests of any number of processes interleave.                     *)
THEOREM CacheHoldsHeads == Spec => []CacheWasHead
<1>1. IInv => CacheWasHead
  BY DEF IInv, CachesOK, CacheWasHead
<1> QED BY <1>1, IngestInvariant, PTL

(* put_events stores no content event whose signer was never authorized by *)
(* a document at the head of the validated chain.                          *)
THEOREM StoredEventsWereAuthorized == Spec => []StoredWasAuthorized
<1>1. IInv => StoredWasAuthorized
  BY DEF IInv, RowsOK, WasAuthorized, StoredWasAuthorized
<1> QED BY <1>1, IngestInvariant, PTL

-----------------------------------------------------------------------------
(* The ban.                                                                *)

(* The puts that are barred have not been cleared, and there are some only *)
(* while the ban lasts.                                                    *)
BanOK ==
  /\ barred \subseteq Requests
  /\ barred # {} => banned
  /\ \A q \in barred : request[q].kind = "put" => ~ request[q].clear

(* The one request of a step that begins none stays of its kind, if it     *)
(* does not end, and is cleared only without a ban.                        *)
Stays(q, n) == n.kind = "put" => q.kind = "put" /\ (n.clear => q.clear \/ ~ banned)
Tame(r) == \E n : request' = [request EXCEPT ![r] = n] /\ Stays(request[r], n)

(* The ways a task moves on.                                               *)
LEMMA TameMoves ==
  ASSUME IInv, NEW r \in Requests
  PROVE /\ request' = [request EXCEPT ![r] = Idle] => Tame(r)
        /\ NextEvent(r) => Tame(r)
        /\ \A pc : GoTo(r, pc) => Tame(r)
        /\ \A pc, docs : request' = [request EXCEPT ![r].pc = pc, ![r].docs = docs] => Tame(r)
        /\ \A pc, rows : request' = [request EXCEPT ![r].pc = pc, ![r].rows = rows] => Tame(r)
        /\ UNCHANGED request => Tame(r)
        /\ CheckBan(r) => Tame(r)
<1> DEFINE q == request[r]
<1>1. q \in RequestRecord /\ request \in [Requests -> RequestRecord]
  BY DEF IInv, RequestsOK
<1>2. Stays(q, Idle) /\ Stays(q, q)
  BY DEF Stays, Idle
<1>3. Stays(q, After(q))
  <2>1. After(q) = Idle \/ (After(q).kind = q.kind /\ After(q).clear = q.clear)
    BY <1>1 DEF After, RequestRecord
  <2> QED BY <1>2, <2>1 DEF Stays
<1>4. ASSUME NEW pc, GoTo(r, pc) PROVE Tame(r)
  <2> DEFINE n == [q EXCEPT !.pc = pc]
  <2>1. request' = [request EXCEPT ![r] = n]
    BY <1>1, <1>4 DEF GoTo
  <2>2. n.kind = q.kind /\ n.clear = q.clear
    BY <1>1 DEF RequestRecord
  <2>3. Stays(q, n)
    BY <2>2 DEF Stays
  <2> QED BY <2>1, <2>3 DEF Tame
<1>5. ASSUME NEW pc, NEW docs, request' = [request EXCEPT ![r].pc = pc, ![r].docs = docs]
      PROVE Tame(r)
  <2> DEFINE n == [q EXCEPT !.pc = pc, !.docs = docs]
  <2>1. request' = [request EXCEPT ![r] = n]
    BY <1>1, <1>5
  <2>2. n.kind = q.kind /\ n.clear = q.clear
    BY <1>1 DEF RequestRecord
  <2>3. Stays(q, n)
    BY <2>2 DEF Stays
  <2> QED BY <2>1, <2>3 DEF Tame
<1>6. ASSUME NEW pc, NEW rows, request' = [request EXCEPT ![r].pc = pc, ![r].rows = rows]
      PROVE Tame(r)
  <2> DEFINE n == [q EXCEPT !.pc = pc, !.rows = rows]
  <2>1. request' = [request EXCEPT ![r] = n]
    BY <1>1, <1>6
  <2>2. n.kind = q.kind /\ n.clear = q.clear
    BY <1>1 DEF RequestRecord
  <2>3. Stays(q, n)
    BY <2>2 DEF Stays
  <2> QED BY <2>1, <2>3 DEF Tame
<1>7. ASSUME CheckBan(r) PROVE Tame(r)
  <2> DEFINE pc == IF Event(r) \in IdentityEvents THEN "insert" ELSE "authorize"
             n == [q EXCEPT !.clear = TRUE, !.pc = pc]
  <2>1. request' = [request EXCEPT ![r] = IF banned /\ ~ q.clear THEN Idle ELSE n]
    BY <1>7 DEF CheckBan
  <2>2. n.kind = q.kind
    BY <1>1 DEF RequestRecord
  <2>3. ~ (banned /\ ~ q.clear) => Stays(q, n)
    BY <2>2 DEF Stays
  <2> HIDE DEF n
  <2> QED BY <1>2, <2>1, <2>3 DEF Tame
<1>8. UNCHANGED request => Tame(r)
  <2>1. request = [request EXCEPT ![r] = q]
    BY <1>1
  <2> QED BY <1>2, <2>1 DEF Tame
<1>9. NextEvent(r) => Tame(r)
  BY <1>3 DEF NextEvent, Tame
<1> QED BY <1>2, <1>4, <1>5, <1>6, <1>7, <1>8, <1>9 DEF Tame

(* All steps of a request, and what fails.                                 *)
LEMMA TameSteps ==
  ASSUME IInv, NEW r \in Requests, Step(r) \/ Fail(r)
  PROVE Tame(r) /\ UNCHANGED ban
<1>1. ASSUME NEW doc, Judge(r, doc) PROVE Tame(r)
  BY <1>1, TameMoves DEF Judge
<1>2. ASSUME NEW rows, JudgeBound(r, rows) PROVE Tame(r)
  BY <1>2, TameMoves DEF JudgeBound
<1>3. UNCHANGED ban
  BY DEF Step, Fail, CheckBan, AuthorizeCached, AuthorizeMiss, LoadNothing, LoadDocument,
     WarmIdentity, Attach, CanonicalCached, LoadCanonical, WarmCanonical, InsertDuplicate,
     Commit, CommitUnacknowledged, InvalidateCanonical, InvalidateIdentity, EraseBatch,
     EraseMore, EraseEnds, EraseFails, DropIdentity, DropCanonical, db
<1>4. ASSUME \/ AuthorizeCached(r) \/ WarmIdentity(r) \/ CanonicalCached(r) \/ WarmCanonical(r)
      PROVE Tame(r)
  BY <1>1, <1>2, <1>4 DEF AuthorizeCached, WarmIdentity, CanonicalCached, WarmCanonical
<1>5. ASSUME \/ AuthorizeMiss(r) \/ LoadNothing(r) \/ LoadDocument(r) \/ Attach(r)
             \/ LoadCanonical(r) \/ InsertDuplicate(r) \/ Commit(r) \/ CommitUnacknowledged(r)
             \/ Fail(r) \/ CheckBan(r)
      PROVE Tame(r)
  BY <1>5, TameMoves DEF AuthorizeMiss, LoadNothing, LoadDocument, Attach, LoadCanonical,
     InsertDuplicate, Commit, CommitUnacknowledged, Fail
<1>6. ASSUME \/ InvalidateCanonical(r) \/ InvalidateIdentity(r) \/ EraseBatch(r) \/ EraseMore(r)
             \/ EraseEnds(r) \/ EraseFails(r) \/ DropIdentity(r) \/ DropCanonical(r)
      PROVE Tame(r)
  BY <1>6, TameMoves DEF InvalidateCanonical, InvalidateIdentity, EraseBatch, EraseMore,
     EraseEnds, EraseFails, DropIdentity, DropCanonical
<1> QED BY <1>3, <1>4, <1>5, <1>6 DEF Step

(* Whatever a step does to other requests, those barred are not cleared.   *)
LEMMA BanStep ==
  ASSUME IInv, BanOK, [Next]_vars
  PROVE BanOK'
<1>1. request \in [Requests -> RequestRecord]
  BY DEF IInv, RequestsOK
<1>2. ASSUME NEW r \in Requests, Step(r) \/ Fail(r) PROVE BanOK'
  <2>1. PICK n : request' = [request EXCEPT ![r] = n] /\ Stays(request[r], n)
    BY <1>2, TameSteps DEF Tame
  <2>2. UNCHANGED <<banned, barred>>
    BY <1>2, TameSteps DEF ban
  <2> QED BY <1>1, <2>1, <2>2 DEF BanOK, Stays
<1>3. ASSUME NEW r \in Requests, NEW p \in Procs, NEW kind, NEW pc, NEW batch,
             Begin(r, kind, p, pc, batch)
      PROVE \A q \in Requests : request'[q].clear => request'[q] = request[q]
  <2>1. Idle.clear = FALSE /\ Idle \in RequestRecord
    BY IdleOK DEF Idle, RequestOK
  <2>2. [Idle EXCEPT !.kind = kind, !.proc = p, !.pc = pc, !.batch = batch].clear = FALSE
    BY <2>1 DEF RequestRecord
  <2> QED BY <1>1, <1>3, <2>2 DEF Begin
<1>4. ASSUME NEW r \in Requests, NEW p \in Procs, Start(r, p) PROVE BanOK'
  <2>1. CASE Unban(r, p)
    BY <2>1 DEF Unban, BanOK
  <2>2. CASE StartAuth(r, p) \/ StartList(r, p)
    <3>1. \A q \in Requests : request'[q].clear => request'[q] = request[q]
      BY <1>3, <2>2 DEF StartAuth, StartList
    <3> QED BY <2>2, <3>1 DEF StartAuth, StartList, BanOK, db, ban
  <2>3. CASE Ban(r, p)
    <3>1. \A q \in Requests : request'[q].clear => request'[q] = request[q]
      BY <1>3, <2>3 DEF Ban
    <3> QED BY <2>3, <3>1 DEF Ban, BanOK
  <2>4. ASSUME NEW batch, StartPut(r, p, batch) PROVE BanOK'
    <3>1. /\ \A q \in Requests : request'[q].clear => request'[q] = request[q]
          /\ request[r] = Idle
      BY <1>3, <2>4 DEF StartPut, Begin
    <3>2. Idle.clear = FALSE
      BY DEF Idle
    <3> QED BY <2>4, <3>1, <3>2 DEF StartPut, BanOK
  <2> QED BY <1>4, <2>1, <2>2, <2>3, <2>4 DEF Start
<1>5. ASSUME NEW p \in Procs, Crash(p) PROVE BanOK'
  <2>1. /\ request' = [r \in Requests |-> IF request[r].proc = p THEN Idle ELSE request[r]]
        /\ UNCHANGED <<banned, barred>>
    BY <1>5 DEF Crash, db, ban
  <2>2. Idle.kind # "put"
    BY DEF Idle
  <2> QED BY <2>1, <2>2 DEF BanOK
<1>6. ASSUME \/ \E send \in publishing : Publish(send) \/ PublishFails(send)
             \/ UNCHANGED vars
      PROVE BanOK'
  BY <1>6 DEF Publish, PublishFails, db, ban, vars, BanOK
<1> QED BY <1>2, <1>4, <1>5, <1>6 DEF Next

(* So it is at all times.                                                  *)
LEMMA BanInvariant == Spec => []BanOK
<1>1. Init => BanOK
  BY DEF Init, BanOK
<1>2. IInv /\ BanOK /\ [Next]_vars => BanOK'
  BY BanStep
<1> QED BY <1>1, <1>2, IngestInvariant, PTL DEF Spec

(* Rows, caches and tasks of any number of processes and requests keep     *)
(* their types; a request never handles an event it does not have.         *)
THEOREM IngestTyped == Spec => []TypeOK
<1>1. IInv /\ BanOK => TypeOK
  BY DEF IInv, RowsOK, CachesOK, RequestsOK, TopicOK, BanOK, TypeOK
<1> QED BY <1>1, IngestInvariant, BanInvariant, PTL

(* A ban stops every put that has not asked for it yet (process_event):    *)
(* while it lasts, rows are added only by others.                          *)
THEOREM BanStopsInserts == Spec => NoInsertWhileBanned
<1>1. ASSUME IInv, BanOK, NEW r \in Requests, AddRow(r),
             GoTo(r, "invalidateCanonical") \/ NextEvent(r),
             NEW e \in (identityRows' \ identityRows) \cup (contentRows' \ contentRows)
      PROVE  /\ r \notin barred /\ request'[r] # request[r] /\ request[r].batch # <<>>
             /\ Event(r) = e
  <2>1. /\ RequestOK(request[r], heads) /\ request[r].pc = "insert"
        /\ request \in [Requests -> RequestRecord]
    BY <1>1 DEF AddRow, At, IInv, RequestsOK
  <2>2. request[r].kind = "put" /\ request[r].clear /\ request[r].batch \in Batches
    BY <2>1 DEF RequestOK, Handling
  <2>3. request[r].batch # <<>>
    <3>1. Len(request[r].batch) >= 1
      BY <2>2, BatchFacts
    <3> QED BY <3>1
  <2>4. After(request[r]).pc # "insert"
    BY <2>1 DEF After, Idle, RequestOK, RequestRecord
  <2>5. request'[r].pc # "insert"
    BY <1>1, <2>1, <2>4 DEF GoTo, NextEvent, RequestRecord
  <2>6. Event(r) = e
    BY <1>1 DEF AddRow
  <2> QED BY <1>1, <2>1, <2>2, <2>3, <2>5, <2>6 DEF BanOK
<1>2. ASSUME [Next]_vars
      PROVE  \/ identityRows' \subseteq identityRows /\ contentRows' \subseteq contentRows
             \/ \E r \in Requests : AddRow(r) /\ (GoTo(r, "invalidateCanonical") \/ NextEvent(r))
  <2>1. ASSUME NEW r \in Requests, Commit(r) \/ CommitUnacknowledged(r)
        PROVE  AddRow(r) /\ (GoTo(r, "invalidateCanonical") \/ NextEvent(r))
    BY <2>1 DEF Commit, CommitUnacknowledged
  <2>2. ASSUME NEW r \in Requests, Step(r) \/ Fail(r), ~ Commit(r), ~ CommitUnacknowledged(r)
        PROVE  identityRows' \subseteq identityRows /\ contentRows' \subseteq contentRows
    BY <2>2 DEF Step, Fail, CheckBan, AuthorizeCached, AuthorizeMiss, LoadNothing,
       LoadDocument, WarmIdentity, Attach, CanonicalCached, LoadCanonical, WarmCanonical,
       InsertDuplicate, InvalidateCanonical, InvalidateIdentity, EraseBatch, EraseMore,
       EraseEnds, EraseFails, DropIdentity, DropCanonical, db
  <2>3. ASSUME NEW r \in Requests, NEW p \in Procs, Start(r, p)
        PROVE identityRows' = identityRows /\ contentRows' = contentRows
    BY <2>3 DEF Start, StartPut, StartAuth, StartList, Ban, Unban, db
  <2>4. ASSUME \/ \E send \in publishing : Publish(send) \/ PublishFails(send)
               \/ \E p \in Procs : Crash(p)
               \/ UNCHANGED vars
        PROVE identityRows' = identityRows /\ contentRows' = contentRows
    BY <2>4 DEF Publish, PublishFails, Crash, db, vars
  <2> QED BY <1>2, <2>1, <2>2, <2>3, <2>4 DEF Next
<1>3. ASSUME IInv, BanOK, [Next]_vars,
             NEW e \in (identityRows' \ identityRows) \cup (contentRows' \ contentRows)
      PROVE  \E r \in Requests \ barred :
               request'[r] # request[r] /\ request[r].batch # <<>> /\ Event(r) = e
  <2>1. PICK r \in Requests : AddRow(r) /\ (GoTo(r, "invalidateCanonical") \/ NextEvent(r))
    BY <1>2, <1>3
  <2> QED BY <1>1, <1>3, <2>1
<1>4. IInv /\ BanOK /\ [Next]_vars =>
        [\A e \in (identityRows' \ identityRows) \cup (contentRows' \ contentRows) :
           \E r \in Requests \ barred :
             request'[r] # request[r] /\ request[r].batch # <<>> /\ Event(r) = e]_vars
  BY <1>3
<1> QED BY <1>4, IngestInvariant, BanInvariant, PTL DEF Spec, NoInsertWhileBanned
=============================================================================
