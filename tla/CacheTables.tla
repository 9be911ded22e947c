---------------------------- MODULE CacheTables ----------------------------
(* The events table of a server and the tables kept beside it for reading: *)
(* replies, quotes, reposts, reactions with their tally, follows, blocks   *)
(* and profiles (events/repository.rs).  One event is stored by one SQL    *)
(* statement that inserts the event, its content and what the tables make  *)
(* of it.  A statement reads the database as it was when it started, its   *)
(* snapshot, and changes rows as they are when it ends; two statements of  *)
(* two requests overlap.                                                   *)
(*                                                                         *)
(* The identity's authorisation of a signer is EventIngest's; here every   *)
(* event put is one its signer may put.                                    *)
EXTENDS Integers, FiniteSets

CONSTANTS
  Events,   \* the events clients may put
  MaxPuts,  \* requests served at the same time
  NoKey

Kinds ==
  {"post", "repost", "reaction", "follow", "block", "profile", "delete",
   "url_reaction", "verification_target", "verification_verify"}

\* An event key names the event, its author and its collection.  A post may
\* name the post it replies to and one it quotes; ref is the event another
\* event is about, to the identities it names.
ASSUME EventsAssumption ==
  /\ \A e \in Events :
       /\ DOMAIN e = {"key", "kind", "reply", "quote", "ref", "to", "positive"}
       /\ DOMAIN e.key = {"identity", "collection", "sequence"}
       /\ e.kind \in Kinds /\ e.positive \in BOOLEAN /\ e.key # NoKey
  /\ \A e, f \in Events : e.key = f.key => e = f
  /\ MaxPuts \in Nat

\* The server accepts any content in any collection; Harbor puts each kind in
\* its own and replies to, quotes and reacts to what is in the feed.
ASSUME CollectionsAssumption ==
  \A e \in Events :
    /\ e.kind = "post" => /\ e.key.collection = "feed"
                          /\ \A k \in {e.reply, e.quote} \ {NoKey} : k.collection = "feed"
    /\ e.kind = "reaction" => e.key.collection = "interactions" /\ e.ref.collection = "feed"
    /\ e.kind \in {"follow", "block"} => e.key.collection = "social_graph" /\ e.ref = NoKey

VARIABLES
  events,         \* events table
  rows,           \* <<table, event>>: the row of an event in a cache table
  reaction_tally, \* counts of the posts that have a row
  statements,     \* under way: the event and the snapshot
  seen            \* what the snapshot of a stored event's statement held

tableVars == <<events, rows, reaction_tally, statements, seen>>

Author(e) == e.key.identity

-----------------------------------------------------------------------------
(* What a statement reads.                                                 *)

select_event_id(db, key) == {e \in db : e.key = key}

\* content_delete has a row for every stored delete, whoever put it.
Tombstoned(db, key) == \E d \in db : d.kind = "delete" /\ d.ref = key

select_not_deleted_event_id(db, key) ==
  {e \in select_event_id(db, key) : ~ Tombstoned(db, key)}

event_is_authorised(e) ==
  /\ e.kind \notin {"verification_target", "verification_verify"}
  /\ e.kind = "delete" => e.ref.identity = Author(e)

-----------------------------------------------------------------------------
(* What it changes.                                                        *)

\* The rows an event gets.  Those that point at a post need it in the
\* snapshot and not deleted.
Points(e, db) ==
  [reply    |-> e.kind = "post" /\ select_not_deleted_event_id(db, e.reply) # {},
   quote    |-> e.kind = "post" /\ select_not_deleted_event_id(db, e.quote) # {},
   repost   |-> e.kind = "repost" /\ select_not_deleted_event_id(db, e.ref) # {},
   reaction |-> e.kind = "reaction" /\ select_not_deleted_event_id(db, e.ref) # {},
   follow   |-> e.kind = "follow",
   block    |-> e.kind = "block",
   profile  |-> e.kind = "profile"]

Inserted(e, db) == {<<t, e>> : t \in {u \in DOMAIN Points(e, db) : Points(e, db)[u]}}

\* The post a row points at.
Post(row) ==
  CASE row[1] = "reply" -> row[2].reply
    [] row[1] = "quote" -> row[2].quote
    [] OTHER -> row[2].ref

Deletes(e) == e.kind = "delete" /\ event_is_authorised(e)

(* Slip: the replies and quotes of the post, not the post's own.          *)
delete_query_around(e, row) ==
  IF e.ref.collection = "feed"
    THEN row[1] \in {"quote", "reply", "reaction"} /\ Post(row) = e.ref
    ELSE row[2].key = e.ref

\* A deletion takes with it the rows its target has, and for a post the
\* rows that point at it, by the collection of the target.  Reposts have no
\* case.  A new profile replaces the ones before it.
delete_query(e, row) ==
  LET target == row[2].key = e.ref IN
  CASE e.ref.collection = "feed" ->
         \/ row[1] \in {"quote", "reply"} /\ (target \/ Post(row) = e.ref)
         \/ row[1] = "reaction" /\ Post(row) = e.ref
    [] e.ref.collection = "profile" -> row[1] = "profile" /\ target
    [] e.ref.collection = "social_graph" -> row[1] \in {"follow", "block"} /\ target
    [] e.ref.collection = "interactions" -> row[1] = "reaction" /\ target
    [] OTHER -> FALSE

profile_update_query(e, row) == row[1] = "profile" /\ Author(row[2]) = Author(e)

\* Rows are found in the snapshot; one that is gone by now stays gone.
Removed(e, db) ==
  {row \in rows : row[2] \in db /\
     \/ Deletes(e) /\ select_event_id(db, e.ref) # {} /\ delete_query(e, row)
     \/ e.kind = "profile" /\ profile_update_query(e, row)}

(* Slip: the reaction in the snapshot, without asking if it had a row.    *)
UncountedEvent(e, db) ==
  {<<"reaction", f>> : f \in {g \in db : Deletes(e) /\ g.kind = "reaction" /\ g.key = e.ref}}

\* A deletion of a reaction, and only that, takes it out of the tally.
Uncounted(e, db) ==
  {row \in Removed(e, db) : row[1] = "reaction" /\ row[2].key = e.ref}

Tallied(e, db) ==
  (DOMAIN reaction_tally \cup {p \in {e} : p.kind = "post"})
    \ {p \in db : Deletes(e) /\ e.ref.collection = "feed" /\ p.key = e.ref}

\* The change of a post's tally, by the sign of the reaction.
Counted(e, db, post, sign) ==
  LET On(set) == {row \in set : /\ row[1] = "reaction" /\ Post(row) = post.key
                                /\ row[2].positive = sign}
  IN Cardinality(On(Inserted(e, db))) - Cardinality(On(Uncounted(e, db)))

Tally(e, db) ==
  [p \in Tallied(e, db) |->
     [sign \in BOOLEAN |->
        IF p = e THEN 0 ELSE reaction_tally[p][sign] + Counted(e, db, p, sign)]]

-----------------------------------------------------------------------------
(* put_events, from the start of the statement to the end of the request.  *)

InitTables ==
  /\ events = {} /\ rows = {} /\ statements = {}
  /\ reaction_tally = [p \in {} |-> 0]
  /\ seen = [e \in {} |-> {}]

\* The put of an event that is stored is refused by its unique key, whenever
\* it starts: only those that start before are followed.
Start(e) ==
  /\ Cardinality(statements) < MaxPuts /\ e \notin events
  /\ statements' = statements \cup {[event |-> e, db |-> events]}
  /\ UNCHANGED <<events, rows, reaction_tally, seen>>

add_event(s) ==
  LET e == s.event IN
  /\ s \in statements /\ e \notin events
  /\ events' = events \cup {e}
  /\ seen' = [f \in events' |-> IF f = e THEN s.db ELSE seen[f]]
  /\ IF event_is_authorised(e)
       THEN /\ rows' = (rows \ Removed(e, s.db)) \cup Inserted(e, s.db)
            /\ reaction_tally' = Tally(e, s.db)
       ELSE UNCHANGED <<rows, reaction_tally>>
  /\ statements' = statements \ {s}

\* The event is stored by now, which the unique key reports, or the
\* statement fails (a deadlock, a lost connection): nothing changes.
Abandon(s) ==
  /\ s \in statements
  /\ statements' = statements \ {s}
  /\ UNCHANGED <<events, rows, reaction_tally, seen>>

-----------------------------------------------------------------------------
(* Properties.                                                             *)

Tables == {"reply", "quote", "repost", "reaction", "follow", "block", "profile"}

TablesOK ==
  /\ events \subseteq Events
  /\ rows \subseteq Tables \X events
  /\ DOMAIN reaction_tally \subseteq events
  /\ \A p \in DOMAIN reaction_tally : reaction_tally[p] \in [BOOLEAN -> Int]
  /\ statements \subseteq [event : Events, db : SUBSET Events]
  /\ seen \in [events -> SUBSET events]

(* The tally of a post counts its rows in the reaction table, whatever the *)
(* order in which reactions and deletions arrive and however their         *)
(* statements overlap, also when one is put twice.                         *)
TallyMatches ==
  \A p \in DOMAIN reaction_tally, sign \in BOOLEAN :
    reaction_tally[p][sign] =
      Cardinality({row \in rows : /\ row[1] = "reaction" /\ Post(row) = p.key
                                  /\ row[2].positive = sign})

Deleted(e) == \E d \in events : Deletes(d) /\ d.ref = e.key

\* The keys an event names.
Names(e) == {e.reply, e.quote, e.ref} \ {NoKey}

\* No event was stored before one it names, and no one deleted what is not
\* his own.
Causal ==
  \A e \in events :
    /\ \A k \in Names(e) : select_event_id(seen[e], k) # {}
    /\ e.kind = "delete" => Deletes(e)

Overlapped(e, f) == e \notin seen[f] /\ f \notin seen[e]

\* An identity has one profile row, that of the update stored last, as long
\* as its updates are not put at the same time.
OneProfile ==
  LET updates(i) == {e \in events : e.kind = "profile" /\ Author(e) = i} IN
  \A e, f \in events :
    /\ <<"profile", e>> \in rows /\ f \in updates(Author(e)) \ {e}
    /\ \A g, h \in updates(Author(e)) : g # h => ~ Overlapped(g, h)
    => e \notin seen[f]

(* What the cache tables hold, if events arrive after those they name: a   *)
(* row for an event that stands and whose post stands, none for a deleted  *)
(* one, and for one whose post is deleted only if the two were put at the  *)
(* same time; for an identity one profile, the one stored last.  This is   *)
(* less than their documentation says, see TablesAsDocumented.             *)
CacheFollowsEvents ==
  /\ OneProfile
  /\ Causal =>
      \A t \in {"reply", "quote", "reaction", "follow", "block"} : \A e \in events :
        LET post == select_event_id(events, Post(<<t, e>>))
            due  == <<t, e>> \in Inserted(e, {})
                      \/ \E p \in post : <<t, e>> \in Inserted(e, {p}) /\ ~ Deleted(p)
        IN /\ due /\ ~ Deleted(e) => <<t, e>> \in rows
           /\ <<t, e>> \in rows => ~ Deleted(e)
           /\ <<t, e>> \in rows /\ (\E p \in post : Deleted(p)) =>
                \E d \in events : Deletes(d) /\ d.ref = Post(<<t, e>>) /\ Overlapped(d, e)

DocumentedReplies ==
  \A e \in events : \A p \in select_event_id(events, e.reply) :
    e.kind = "post" /\ ~ Deleted(e) /\ ~ Deleted(p) => <<"reply", e>> \in rows

DocumentedReposts == \A e \in events : <<"repost", e>> \in rows => ~ Deleted(e)

DocumentedProfiles ==
  \A e, f \in events :
    /\ <<"profile", e>> \in rows
    /\ f.kind = "profile" /\ Author(f) = Author(e) /\ ~ Deleted(f)
    => f.key.sequence <= e.key.sequence

(* At least one of three tables is what its documentation calls it, "a row *)
(* for each not-deleted post that reply to another post" (here only if     *)
(* that post is stored and stands), a row for each "not-deleted repost",   *)
(* "the latest, not-deleted profile update": none is.  A reply stored      *)
(* before its post gets no row, a repost keeps it when it is deleted, an   *)
(* update that arrives late replaces a newer one.                          *)
TablesAsDocumented == DocumentedReplies \/ DocumentedReposts \/ DocumentedProfiles
=============================================================================
