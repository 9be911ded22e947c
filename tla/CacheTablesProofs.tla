------------------------- MODULE CacheTablesProofs -------------------------
(* What one statement does to the cache tables, for any number of events   *)
(* and of statements under way: the lemmas the theorems of WorkersProofs   *)
(* about the tables rest on.                                               *)
EXTENDS CacheTables, FiniteSetTheorems, TLAPS

\* A step of put_events, or none.
TableStep ==
  \/ \E e \in Events : Start(e)
  \/ \E s \in statements : add_event(s) \/ Abandon(s)
  \/ UNCHANGED tableVars

\* A statement's snapshot is a part of what is stored by now.
Snapshots ==
  /\ events \subseteq Events
  /\ rows \subseteq Tables \X events
  /\ statements \subseteq [event : Events, db : SUBSET events]
  /\ seen \in [events -> SUBSET events]

\* The rows an event gets are rows of the tables.
LEMMA InsertedRows ==
  ASSUME NEW e, NEW db
  PROVE  Inserted(e, db) \subseteq Tables \X {e}
<1>1. DOMAIN Points(e, db) = Tables
  BY DEF Points, Tables
<1> QED
  BY <1>1 DEF Inserted

\* Which those are.
LEMMA InsertedMeans ==
  ASSUME NEW e, NEW db, NEW t
  PROVE  <<t, e>> \in Inserted(e, db) <=> t \in Tables /\ Points(e, db)[t]
<1>1. DOMAIN Points(e, db) = Tables
  BY DEF Points, Tables
<1> QED
  BY <1>1 DEF Inserted

\* The tables one by one.
LEMMA PointsMeans ==
  ASSUME NEW e, NEW db
  PROVE  /\ Points(e, db)["reply"] <=>
              e.kind = "post" /\ select_not_deleted_event_id(db, e.reply) # {}
         /\ Points(e, db)["quote"] <=>
              e.kind = "post" /\ select_not_deleted_event_id(db, e.quote) # {}
         /\ Points(e, db)["reaction"] <=>
              e.kind = "reaction" /\ select_not_deleted_event_id(db, e.ref) # {}
         /\ Points(e, db)["follow"] <=> e.kind = "follow"
         /\ Points(e, db)["block"] <=> e.kind = "block"
         /\ Points(e, db)["profile"] <=> e.kind = "profile"
  BY DEF Points

\* At the start nothing is stored.
LEMMA SnapshotsInit == InitTables => Snapshots
  BY DEF InitTables, Snapshots

\* add_event and the two ways around it keep what is stored.
LEMMA SnapshotsStep ==
  ASSUME Snapshots, TableStep
  PROVE  Snapshots' /\ events \subseteq events' /\ \A e \in events : seen'[e] = seen[e]
<1> USE DEF Snapshots
<1>1. ASSUME NEW e \in Events, Start(e)
      PROVE  Snapshots' /\ events \subseteq events' /\ \A f \in events : seen'[f] = seen[f]
  BY <1>1 DEF Start
<1>2. ASSUME NEW s \in statements, add_event(s)
      PROVE  Snapshots' /\ events \subseteq events' /\ \A f \in events : seen'[f] = seen[f]
  <2>1. s.event \in Events /\ s.db \subseteq events
    OBVIOUS
  <2>2. /\ s.event \notin events /\ events' = events \cup {s.event}
        /\ seen' = [f \in events' |-> IF f = s.event THEN s.db ELSE seen[f]]
        /\ statements' = statements \ {s}
    BY <1>2 DEF add_event
  <2>3. rows' \subseteq rows \cup Inserted(s.event, s.db)
    BY <1>2 DEF add_event
  <2>4. rows' \subseteq Tables \X events'
    BY <2>2, <2>3, InsertedRows
  <2>5. seen' \in [events' -> SUBSET events']
    BY <2>1, <2>2
  <2>6. statements' \subseteq [event : Events, db : SUBSET events']
    BY <2>2
  <2> QED
    BY <2>1, <2>2, <2>4, <2>5, <2>6
<1>3. ASSUME NEW s \in statements, Abandon(s)
      PROVE  Snapshots' /\ events \subseteq events' /\ \A f \in events : seen'[f] = seen[f]
  BY <1>3 DEF Abandon
<1>4. CASE UNCHANGED tableVars
  BY <1>4 DEF tableVars
<1> QED
  BY <1>1, <1>2, <1>3, <1>4 DEF TableStep

-----------------------------------------------------------------------------
(* Which rows there are.                                                   *)

\* Whether storing e with that snapshot takes a row away.
Takes(e, db, row) ==
  row[2] \in db /\
    \/ Deletes(e) /\ select_event_id(db, e.ref) # {} /\ delete_query(e, row)
    \/ e.kind = "profile" /\ profile_update_query(e, row)

\* The cache tables are determined by the stored events and what each of
\* their statements saw: the row of an event is there if its statement made
\* it and no later one took it away, whatever the order they ended in.
RowsExact ==
  \A t \in Tables : \A e \in events :
    <<t, e>> \in rows <=>
      /\ event_is_authorised(e) /\ <<t, e>> \in Inserted(e, seen[e])
      /\ ~ \E f \in events : event_is_authorised(f) /\ Takes(f, seen[f], <<t, e>>)

\* No event, no row.
LEMMA RowsInit == InitTables => RowsExact
  BY DEF InitTables, RowsExact

\* A new statement takes rows of its snapshot and adds its own, which no
\* statement before it can have seen.
LEMMA RowsStep ==
  ASSUME Snapshots, RowsExact, TableStep
  PROVE  RowsExact'
<1>1. CASE UNCHANGED <<events, rows, seen>>
  BY <1>1 DEF RowsExact
<1>2. ASSUME NEW s \in statements, add_event(s)
      PROVE  RowsExact'
  <2> DEFINE e == s.event
  <2>1. e \in Events /\ s.db \subseteq events
    BY DEF Snapshots
  <2>2. /\ e \notin events /\ events' = events \cup {e}
        /\ seen' = [f \in events' |-> IF f = e THEN s.db ELSE seen[f]]
    BY <1>2 DEF add_event
  <2>3. seen'[e] = s.db /\ \A f \in events : seen'[f] = seen[f] /\ seen[f] \subseteq events
    BY <2>2 DEF Snapshots
  <2>4. rows' = IF event_is_authorised(e) THEN (rows \ Removed(e, s.db)) \cup Inserted(e, s.db)
                                          ELSE rows
    BY <1>2 DEF add_event
  <2>5. \A row \in rows : row \in Removed(e, s.db) <=> Takes(e, s.db, row)
    BY DEF Removed, Takes
  <2>6. ASSUME NEW t \in Tables, NEW f \in events
        PROVE  <<t, f>> \in rows' <=>
                 /\ event_is_authorised(f) /\ <<t, f>> \in Inserted(f, seen'[f])
                 /\ ~ \E g \in events' : event_is_authorised(g) /\ Takes(g, seen'[g], <<t, f>>)
    <3>1. <<t, f>> \notin Inserted(e, s.db)
      BY <2>2, InsertedRows
    <3>2. <<t, f>> \in rows' <=>
            <<t, f>> \in rows /\ ~ (event_is_authorised(e) /\ Takes(e, s.db, <<t, f>>))
      BY <2>4, <2>5, <3>1
    <3>3. (\E g \in events' : event_is_authorised(g) /\ Takes(g, seen'[g], <<t, f>>)) <=>
            \/ \E g \in events : event_is_authorised(g) /\ Takes(g, seen[g], <<t, f>>)
            \/ event_is_authorised(e) /\ Takes(e, s.db, <<t, f>>)
      BY <2>2, <2>3
    <3> QED
      BY <2>3, <3>2, <3>3 DEF RowsExact
  <2>7. ASSUME NEW t \in Tables
        PROVE  <<t, e>> \in rows' <=>
                 /\ event_is_authorised(e) /\ <<t, e>> \in Inserted(e, seen'[e])
                 /\ ~ \E g \in events' : event_is_authorised(g) /\ Takes(g, seen'[g], <<t, e>>)
    <3>1. <<t, e>> \notin rows
      BY <2>2 DEF Snapshots
    <3>2. \A g \in events' : e \notin seen'[g]
      BY <2>1, <2>2, <2>3
    <3>3. \A g \in events' : ~ Takes(g, seen'[g], <<t, e>>)
      BY <3>2 DEF Takes
    <3> QED
      BY <2>3, <2>4, <3>1, <3>3
  <2>8. \A t \in Tables : \A f \in events' : <<t, f>> \in rows' <=>
          /\ event_is_authorised(f) /\ <<t, f>> \in Inserted(f, seen'[f])
          /\ ~ \E g \in events' : event_is_authorised(g) /\ Takes(g, seen'[g], <<t, f>>)
    BY <2>2, <2>6, <2>7
  <2> QED
    BY <2>8 DEF RowsExact
<1> QED
  BY <1>1, <1>2 DEF TableStep, Start, Abandon, tableVars

-----------------------------------------------------------------------------
(* The tally.                                                              *)

\* The rows of the reaction table that point at a post, by sign.
Reactions(set, post, sign) ==
  {row \in set : row[1] = "reaction" /\ Post(row) = post.key /\ row[2].positive = sign}

TallyTyped ==
  /\ IsFiniteSet(rows)
  /\ DOMAIN reaction_tally \subseteq events
  /\ \A p \in DOMAIN reaction_tally : reaction_tally[p] \in [BOOLEAN -> Int]

\* A row in the reaction table points at an event its statement saw.
LEMMA ReactionsPoint ==
  ASSUME Snapshots, RowsExact, NEW row \in rows, row[1] = "reaction"
  PROVE  \E p \in events : p.key = Post(row)
<1>1. PICK t \in Tables, e \in events : row = <<t, e>>
  BY DEF Snapshots
<1>2. t = "reaction"
  BY <1>1
<1>3. <<t, e>> \in Inserted(e, seen[e])
  BY <1>1 DEF RowsExact
<1>4. select_not_deleted_event_id(seen[e], e.ref) # {}
  BY <1>2, <1>3, InsertedMeans, PointsMeans
<1>5. PICK p \in seen[e] : p.key = e.ref
  BY <1>4 DEF select_not_deleted_event_id, select_event_id
<1>6. Post(row) = e.ref
  BY <1>1, <1>2 DEF Post
<1> QED
  BY <1>5, <1>6 DEF Snapshots

\* A statement adds one reaction row at most.
LEMMA OneInserted ==
  ASSUME NEW e, NEW db, NEW post, NEW sign
  PROVE  \/ Reactions(Inserted(e, db), post, sign) = {}
         \/ Reactions(Inserted(e, db), post, sign) = {<<"reaction", e>>}
<1>1. \A row \in Reactions(Inserted(e, db), post, sign) : row = <<"reaction", e>>
  BY InsertedRows DEF Reactions
<1> QED
  BY <1>1

\* It takes one out of the tally at most: keys are unique.
LEMMA OneUncounted ==
  ASSUME Snapshots, NEW e, NEW db, NEW post, NEW sign
  PROVE  \A r1, r2 \in Reactions(Uncounted(e, db), post, sign) : r1 = r2
<1> SUFFICES ASSUME NEW r1 \in Reactions(Uncounted(e, db), post, sign),
                    NEW r2 \in Reactions(Uncounted(e, db), post, sign)
             PROVE  r1 = r2
  OBVIOUS
<1>1. /\ r1 \in rows /\ r1[1] = "reaction" /\ r1[2].key = e.ref
      /\ r2 \in rows /\ r2[1] = "reaction" /\ r2[2].key = e.ref
  BY DEF Reactions, Uncounted, Removed
<1>2. r1[2] \in Events /\ r2[2] \in Events /\ r1 = <<r1[1], r1[2]>> /\ r2 = <<r2[1], r2[2]>>
  BY <1>1 DEF Snapshots
<1>3. r1[2] = r2[2]
  BY <1>1, <1>2, EventsAssumption
<1> QED
  BY <1>1, <1>2, <1>3

\* Of the reactions to a post that keeps its tally a deletion takes away the
\* ones it takes out of the tally.
LEMMA RemovedAreUncounted ==
  ASSUME Snapshots, NEW s \in statements, NEW p \in Tallied(s.event, s.db), p \in Events,
         NEW sign
  PROVE  Reactions(Removed(s.event, s.db), p, sign) = Reactions(Uncounted(s.event, s.db), p, sign)
<1> DEFINE e == s.event
<1>1. e \in Events /\ s.db \subseteq Events
  BY DEF Snapshots
<1>2. ASSUME NEW row \in Reactions(Removed(e, s.db), p, sign)
      PROVE  row[2].key = e.ref
  <2>1. row[1] = "reaction" /\ Post(row) = p.key
    BY DEF Reactions
  <2>2. Deletes(e) /\ select_event_id(s.db, e.ref) # {} /\ delete_query(e, row)
    BY <2>1 DEF Reactions, Removed, profile_update_query
  <2>3. SUFFICES ASSUME row[2].key # e.ref PROVE FALSE
    OBVIOUS
  <2>4. e.ref.collection = "feed" /\ Post(row) = e.ref
    BY <2>1, <2>2, <2>3 DEF delete_query
  <2>5. PICK q \in s.db : q.key = e.ref
    BY <2>2 DEF select_event_id
  <2>6. p = q
    BY <1>1, <2>1, <2>4, <2>5, EventsAssumption
  <2> QED
    BY <2>2, <2>4, <2>5, <2>6 DEF Tallied
<1> QED
  BY <1>2 DEF Reactions, Uncounted

\* The rows of a post change by those added and those taken out.
LEMMA ReactionsChange ==
  ASSUME NEW S, IsFiniteSet(S), NEW U, U \subseteq S, NEW I, I \cap S = {},
         (\E u : U = {} \/ U = {u}), (\E i : I = {} \/ I = {i})
  PROVE  /\ IsFiniteSet((S \ U) \cup I)
         /\ Cardinality((S \ U) \cup I) = Cardinality(S) + (Cardinality(I) - Cardinality(U))
         /\ Cardinality(I) - Cardinality(U) \in Int /\ Cardinality(S) \in Int
<1>1. Cardinality(S) \in Nat
  BY FS_CardinalityType
<1>2. Cardinality({}) = 0
  BY FS_EmptySet
<1>3. IsFiniteSet(S \ U) /\ Cardinality(S \ U) = Cardinality(S) - Cardinality(U)
        /\ Cardinality(U) \in Nat
  <2>1. CASE U = {}
    <3>1. S \ U = S
      BY <2>1
    <3> QED
      BY <1>1, <1>2, <2>1, <3>1
  <2>2. ASSUME NEW u, U = {u}
        PROVE  /\ IsFiniteSet(S \ U) /\ Cardinality(S \ U) = Cardinality(S) - Cardinality(U)
               /\ Cardinality(U) \in Nat
    <3>1. u \in S
      BY <2>2
    <3>2. IsFiniteSet(S \ {u}) /\ Cardinality(S \ {u}) = Cardinality(S) - 1
      BY <3>1, FS_RemoveElement
    <3>3. Cardinality({u}) = 1
      BY FS_Singleton
    <3> QED
      BY <2>2, <3>2, <3>3
  <2> QED
    BY <2>1, <2>2
<1>4. CASE I = {}
  <2>1. (S \ U) \cup I = S \ U
    BY <1>4
  <2> QED
    BY <1>1, <1>2, <1>3, <1>4, <2>1
<1>5. ASSUME NEW i, I = {i}
      PROVE  /\ IsFiniteSet((S \ U) \cup I)
             /\ Cardinality((S \ U) \cup I) = Cardinality(S) + (Cardinality(I) - Cardinality(U))
             /\ Cardinality(I) - Cardinality(U) \in Int /\ Cardinality(S) \in Int
  <2>1. i \notin S \ U
    BY <1>5
  <2>2. IsFiniteSet((S \ U) \cup {i}) /\ Cardinality((S \ U) \cup {i}) = Cardinality(S \ U) + 1
    BY <1>3, <2>1, FS_AddElement
  <2>3. Cardinality({i}) = 1
    BY FS_Singleton
  <2>4. Cardinality(S \ U) + 1 = Cardinality(S) + (1 - Cardinality(U))
    BY <1>1, <1>3
  <2> QED
    BY <1>1, <1>3, <1>5, <2>2, <2>3, <2>4
<1> QED
  BY <1>4, <1>5

\* No rows, no tally.
LEMMA TallyInit == InitTables => TallyTyped /\ TallyMatches
  BY FS_EmptySet DEF InitTables, TallyTyped, TallyMatches

\* Storing an event changes the tally of each post as it changes its rows.
LEMMA TallyStep ==
  ASSUME Snapshots, RowsExact, TallyTyped, TallyMatches, TableStep
  PROVE  TallyTyped' /\ TallyMatches'
<1>1. CASE UNCHANGED <<events, rows, reaction_tally>>
  BY <1>1 DEF TallyTyped, TallyMatches
<1>2. ASSUME NEW s \in statements, add_event(s)
      PROVE  TallyTyped' /\ TallyMatches'
  <2> DEFINE e == s.event
             Change(p, sign) == Counted(e, s.db, p, sign)
  <2>1. e \in Events /\ e \notin events /\ events' = events \cup {e} /\ events \subseteq Events
    BY <1>2 DEF add_event, Snapshots
  <2>2. CASE ~ event_is_authorised(e)
    <3>1. UNCHANGED <<rows, reaction_tally>>
      BY <1>2, <2>2 DEF add_event
    <3> QED
      BY <2>1, <3>1 DEF TallyTyped, TallyMatches
  <2>3. CASE event_is_authorised(e)
    <3>1. /\ rows' = (rows \ Removed(e, s.db)) \cup Inserted(e, s.db)
          /\ reaction_tally' = Tally(e, s.db)
      BY <1>2, <2>3 DEF add_event
    <3>2. rows \cap Inserted(e, s.db) = {}
      BY <2>1, InsertedRows DEF Snapshots
    <3>3. IsFiniteSet(rows')
      <4>1. IsFiniteSet(Tables)
        <5>1. \A x : IsFiniteSet({x})
          BY FS_Singleton
        <5>2. ASSUME NEW x, NEW y PROVE IsFiniteSet({x, y})
          <6>1. {x, y} = {x} \cup {y}
            OBVIOUS
          <6>2. IsFiniteSet({x} \cup {y})
            BY <5>1, FS_Union
          <6> QED
            BY <6>1, <6>2
        <5>3. IsFiniteSet({"reply", "quote"} \cup {"repost", "reaction"})
          BY <5>2, FS_Union
        <5>4. IsFiniteSet({"follow", "block"} \cup {"profile"})
          BY <5>1, <5>2, FS_Union
        <5>5. Tables = ({"reply", "quote"} \cup {"repost", "reaction"})
                         \cup ({"follow", "block"} \cup {"profile"})
          BY DEF Tables
        <5> QED
          BY <5>3, <5>4, <5>5, FS_Union
      <4>2. IsFiniteSet(Tables \X {e})
        BY <4>1, FS_Singleton, FS_Product
      <4>3. IsFiniteSet(Inserted(e, s.db))
        BY <4>2, InsertedRows, FS_Subset
      <4>4. IsFiniteSet(rows \ Removed(e, s.db))
        BY FS_Subset DEF TallyTyped
      <4> QED
        BY <3>1, <4>3, <4>4, FS_Union
    <3>4. /\ DOMAIN reaction_tally' = Tallied(e, s.db)
          /\ \A p \in DOMAIN reaction_tally' : p \in DOMAIN reaction_tally \/ p = e
      BY <3>1 DEF Tally, Tallied
    <3>5. ASSUME NEW p \in DOMAIN reaction_tally', NEW sign \in BOOLEAN
          PROVE  /\ reaction_tally'[p][sign] \in Int
                 /\ reaction_tally'[p][sign] = Cardinality(Reactions(rows', p, sign))
      <4>1. p \in Tallied(e, s.db) /\ p \in Events
        BY <2>1, <3>4 DEF TallyTyped
      <4>2. Reactions(Removed(e, s.db), p, sign) = Reactions(Uncounted(e, s.db), p, sign)
        BY <4>1, RemovedAreUncounted
      <4>3. Reactions(rows', p, sign) =
              (Reactions(rows, p, sign) \ Reactions(Uncounted(e, s.db), p, sign))
                \cup Reactions(Inserted(e, s.db), p, sign)
        BY <3>1, <4>2 DEF Reactions
      <4>4. CASE p = e
        <5>1. reaction_tally'[p][sign] = 0
          BY <3>1, <4>1, <4>4 DEF Tally
        <5>2. p \in DOMAIN reaction_tally \/ e.kind = "post"
          BY <4>1, <4>4 DEF Tallied
        <5>3. e.kind = "post"
          BY <2>1, <4>4, <5>2 DEF TallyTyped
        <5>4. Reactions(Inserted(e, s.db), p, sign) = {}
          <6>1. <<"reaction", e>> \notin Inserted(e, s.db)
            BY <5>3, InsertedMeans, PointsMeans
          <6>2. <<"reaction", e>> \notin Reactions(Inserted(e, s.db), p, sign)
            BY <6>1 DEF Reactions
          <6> QED
            BY <6>2, OneInserted
        <5>5. Reactions(rows, p, sign) = {}
          <6>1. ASSUME NEW row \in Reactions(rows, p, sign) PROVE FALSE
            <7>1. PICK q \in events : q.key = Post(row)
              BY ReactionsPoint DEF Reactions
            <7>2. q.key = p.key
              BY <7>1 DEF Reactions
            <7> QED
              BY <2>1, <4>4, <7>2, EventsAssumption
          <6> QED
            BY <6>1
        <5>6. Reactions(rows', p, sign) = {}
          BY <4>3, <5>4, <5>5
        <5> QED
          BY <5>1, <5>6, FS_EmptySet
      <4>5. CASE p # e
        <5>1. p \in DOMAIN reaction_tally
          BY <3>4, <4>5
        <5>2. /\ reaction_tally[p][sign] \in Int
              /\ reaction_tally[p][sign] = Cardinality(Reactions(rows, p, sign))
          BY <5>1 DEF TallyTyped, TallyMatches, Reactions
        <5>3. reaction_tally'[p][sign] = reaction_tally[p][sign] + Change(p, sign)
          BY <3>1, <4>1, <4>5 DEF Tally
        <5>4. Change(p, sign) = Cardinality(Reactions(Inserted(e, s.db), p, sign))
                                  - Cardinality(Reactions(Uncounted(e, s.db), p, sign))
          BY DEF Counted, Reactions
        <5>5. IsFiniteSet(Reactions(rows, p, sign))
          BY FS_Subset DEF TallyTyped, Reactions
        <5>6. /\ Reactions(Uncounted(e, s.db), p, sign) \subseteq Reactions(rows, p, sign)
              /\ Reactions(Inserted(e, s.db), p, sign) \cap Reactions(rows, p, sign) = {}
          BY <3>2 DEF Reactions, Uncounted, Removed
        <5> DEFINE S == Reactions(rows, p, sign)
                   I == Reactions(Inserted(e, s.db), p, sign)
                   U == Reactions(Uncounted(e, s.db), p, sign)
        <5>7. \E i : I = {} \/ I = {i}
          <6>1. I = {} \/ I = {<<"reaction", e>>}
            BY OneInserted
          <6> HIDE DEF I
          <6> QED
            BY <6>1
        <5>9. \E u : U = {} \/ U = {u}
          <6>1. \A r1, r2 \in U : r1 = r2
            BY OneUncounted
          <6> HIDE DEF U
          <6>2. ASSUME NEW u \in U PROVE U = {u}
            BY <6>1
          <6> QED
            BY <6>2
        <5> HIDE DEF S, I, U
        <5>8. /\ Cardinality(Reactions(rows', p, sign)) =
                   Cardinality(Reactions(rows, p, sign)) + Change(p, sign)
              /\ Change(p, sign) \in Int
          <6>1. /\ Cardinality((S \ U) \cup I) = Cardinality(S) + (Cardinality(I) - Cardinality(U))
                /\ Cardinality(I) - Cardinality(U) \in Int
            <7>1. IsFiniteSet(S) /\ U \subseteq S /\ I \cap S = {}
              BY <5>5, <5>6 DEF S, I, U
            <7> QED
              BY <5>7, <5>9, <7>1, ReactionsChange
          <6> QED
            BY <4>3, <5>4, <6>1 DEF S, I, U
        <5> QED
          BY <5>2, <5>3, <5>8
      <4> QED
        BY <4>4, <4>5
    <3>6. \A p \in DOMAIN reaction_tally' : reaction_tally'[p] \in [BOOLEAN -> Int]
      <4>1. \A p \in DOMAIN reaction_tally' : DOMAIN reaction_tally'[p] = BOOLEAN
              /\ reaction_tally'[p] = [sign \in BOOLEAN |-> reaction_tally'[p][sign]]
        BY <3>1, <3>4 DEF Tally
      <4> QED
        BY <3>5, <4>1
    <3>7. TallyTyped'
      BY <2>1, <3>3, <3>4, <3>6 DEF TallyTyped
    <3>8. TallyMatches'
      BY <3>5 DEF TallyMatches, Reactions
    <3> QED
      BY <3>7, <3>8
  <2> QED
    BY <2>2, <2>3
<1> QED
  BY <1>1, <1>2 DEF TableStep, Start, Abandon, tableVars

-----------------------------------------------------------------------------
(* What the rows say of the events.                                        *)

\* A later update saw the profile it replaces, and took its row.
LEMMA ProfilesReplaced ==
  ASSUME Snapshots, RowsExact
  PROVE  OneProfile
<1>1. ASSUME NEW e \in events, NEW f \in events, <<"profile", e>> \in rows,
             f.kind = "profile", Author(f) = Author(e), e \in seen[f]
      PROVE  FALSE
  <2>1. event_is_authorised(f)
    BY <1>1 DEF event_is_authorised
  <2>2. Takes(f, seen[f], <<"profile", e>>)
    BY <1>1 DEF Takes, profile_update_query
  <2> QED
    BY <1>1, <2>1, <2>2 DEF RowsExact, Tables
<1> QED
  BY <1>1 DEF OneProfile

\* The cached kinds are authorised, and point at what is in the feed.
LEMMA CachedKinds ==
  ASSUME NEW t \in {"reply", "quote", "reaction", "follow", "block"}, NEW e \in Events,
         NEW db, <<t, e>> \in Inserted(e, db)
  PROVE  /\ event_is_authorised(e)
         /\ t \in {"reply", "quote"} => e.kind = "post" /\ e.key.collection = "feed"
         /\ t = "reaction" => e.kind = "reaction" /\ e.key.collection = "interactions"
         /\ t \in {"follow", "block"} => /\ e.kind = t /\ e.key.collection = "social_graph"
                                         /\ e.ref = NoKey
         /\ t \in {"reply", "quote", "reaction"} =>
              select_not_deleted_event_id(db, Post(<<t, e>>)) # {}
<1>1. /\ t \in {"reply", "quote"} => e.kind = "post"
      /\ t = "reaction" => e.kind = "reaction"
      /\ t \in {"follow", "block"} => e.kind = t
  BY InsertedMeans, PointsMeans
<1>2. t \in {"reply", "quote", "reaction"} => select_not_deleted_event_id(db, Post(<<t, e>>)) # {}
  <2>1. /\ t = "reply" => Post(<<t, e>>) = e.reply
        /\ t = "quote" => Post(<<t, e>>) = e.quote
        /\ t = "reaction" => Post(<<t, e>>) = e.ref
    BY DEF Post
  <2> QED
    BY <2>1, InsertedMeans, PointsMeans
<1>3. event_is_authorised(e)
  BY <1>1 DEF event_is_authorised
<1> QED
  BY <1>1, <1>2, <1>3, CollectionsAssumption

\* The post of a row is one its event names.
LEMMA PostIsNamed ==
  ASSUME NEW t \in {"reply", "quote", "reaction"}, NEW e \in Events, NEW p \in Events,
         p.key = Post(<<t, e>>)
  PROVE  p.key \in Names(e)
<1>1. /\ t = "reply" => Post(<<t, e>>) = e.reply
      /\ t = "quote" => Post(<<t, e>>) = e.quote
      /\ t = "reaction" => Post(<<t, e>>) = e.ref
  BY DEF Post
<1>2. p.key # NoKey
  BY EventsAssumption
<1> QED
  BY <1>1, <1>2 DEF Names

\* If events arrive after those they name, what an event names was seen.
LEMMA NamedIsSeen ==
  ASSUME Snapshots, Causal, NEW e \in events, NEW p \in Events, p.key \in Names(e)
  PROVE  p \in seen[e]
<1>1. PICK q \in seen[e] : q.key = p.key
  BY DEF Causal, select_event_id
<1>2. q \in Events
  BY DEF Snapshots
<1> QED
  BY <1>1, <1>2, EventsAssumption

\* The tables follow from the rows being exact, if events arrive in order.
LEMMA TablesFollow ==
  ASSUME Snapshots, RowsExact
  PROVE  CacheFollowsEvents
<1> DEFINE Cached == {"reply", "quote", "reaction", "follow", "block"}
<1> SUFFICES ASSUME Causal, NEW t \in Cached, NEW e \in events
             PROVE  LET post == select_event_id(events, Post(<<t, e>>))
                        due  == <<t, e>> \in Inserted(e, {})
                                  \/ \E p \in post : <<t, e>> \in Inserted(e, {p}) /\ ~ Deleted(p)
                    IN /\ due /\ ~ Deleted(e) => <<t, e>> \in rows
                       /\ <<t, e>> \in rows => ~ Deleted(e)
                       /\ <<t, e>> \in rows /\ (\E p \in post : Deleted(p)) =>
                            \E d \in events :
                              Deletes(d) /\ d.ref = Post(<<t, e>>) /\ Overlapped(d, e)
  BY ProfilesReplaced DEF CacheFollowsEvents
<1>1. e \in Events /\ t \in Tables /\ events \subseteq Events
        /\ \A f \in events : seen[f] \subseteq events
  BY DEF Snapshots, Tables
<1>2. <<t, e>> \in rows <=>
        /\ event_is_authorised(e) /\ <<t, e>> \in Inserted(e, seen[e])
        /\ ~ \E f \in events : event_is_authorised(f) /\ Takes(f, seen[f], <<t, e>>)
  BY <1>1 DEF RowsExact
<1>3. \A d \in events : Deletes(d) => event_is_authorised(d)
  BY DEF Deletes
<1>4. ASSUME NEW d \in events, Deletes(d), d.ref = e.key, <<t, e>> \in rows
      PROVE  FALSE
  <2>1. e \in seen[d]
    <3>1. e.key \in Names(d)
      BY <1>1, <1>4, EventsAssumption DEF Names
    <3> QED
      BY <1>1, <3>1, NamedIsSeen
  <2>2. select_event_id(seen[d], d.ref) # {}
    BY <1>4, <2>1 DEF select_event_id
  <2>3. delete_query(d, <<t, e>>)
    BY <1>1, <1>2, <1>4, CachedKinds DEF delete_query
  <2>4. Takes(d, seen[d], <<t, e>>)
    BY <1>4, <2>1, <2>2, <2>3 DEF Takes
  <2> QED
    BY <1>2, <1>3, <1>4, <2>4
<1>5. ASSUME NEW f \in events, event_is_authorised(f), Takes(f, seen[f], <<t, e>>)
      PROVE  /\ Deletes(f)
             /\ \/ f.ref = e.key
                \/ f.ref = Post(<<t, e>>) /\ t \in {"reply", "quote", "reaction"}
  BY <1>5 DEF Takes, delete_query, profile_update_query
<1>6. ASSUME <<t, e>> \in Inserted(e, {}), ~ Deleted(e)
      PROVE  <<t, e>> \in rows
  <2>1. t \in {"follow", "block"}
    BY <1>1, <1>6, CachedKinds DEF select_not_deleted_event_id, select_event_id
  <2>2. <<t, e>> \in Inserted(e, seen[e]) /\ event_is_authorised(e)
    <3>1. e.kind = t
      BY <1>1, <1>6, <2>1, CachedKinds
    <3> QED
      BY <1>1, <1>6, <2>1, <3>1, InsertedMeans, PointsMeans, CachedKinds
  <2> QED
    BY <1>2, <1>5, <1>6, <2>1, <2>2 DEF Deleted
<1>7. ASSUME NEW p \in events, p.key = Post(<<t, e>>), <<t, e>> \in Inserted(e, {p}),
             ~ Deleted(p), ~ Deleted(e)
      PROVE  <<t, e>> \in rows
  <2>1. CASE t \in {"follow", "block"}
    <3>1. <<t, e>> \in Inserted(e, {})
      BY <1>1, <1>7, <2>1, InsertedMeans, PointsMeans
    <3> QED
      BY <1>6, <1>7, <3>1
  <2>2. CASE t \in {"reply", "quote", "reaction"}
    <3>1. p \in seen[e]
      BY <1>1, <1>7, <2>2, PostIsNamed, NamedIsSeen
    <3>2. ~ Tombstoned(seen[e], p.key)
      BY <1>1, <1>7 DEF Tombstoned, Causal, Deleted
    <3>3. select_not_deleted_event_id(seen[e], Post(<<t, e>>)) # {}
      BY <1>7, <3>1, <3>2 DEF select_not_deleted_event_id, select_event_id
    <3>4. <<t, e>> \in Inserted(e, seen[e])
      <4>1. /\ t = "reply" => Post(<<t, e>>) = e.reply
            /\ t = "quote" => Post(<<t, e>>) = e.quote
            /\ t = "reaction" => Post(<<t, e>>) = e.ref
        BY DEF Post
      <4>2. /\ t \in {"reply", "quote"} => e.kind = "post"
            /\ t = "reaction" => e.kind = "reaction"
        BY <1>1, <1>7, CachedKinds
      <4> QED
        BY <1>1, <2>2, <3>3, <4>1, <4>2, InsertedMeans, PointsMeans
    <3>5. event_is_authorised(e)
      BY <1>1, <1>7, CachedKinds
    <3> QED
      BY <1>2, <1>5, <1>7, <3>4, <3>5 DEF Deleted
  <2> QED
    BY <2>1, <2>2
<1>8. ASSUME NEW p \in events, p.key = Post(<<t, e>>), <<t, e>> \in rows, Deleted(p)
      PROVE  \E d \in events : Deletes(d) /\ d.ref = Post(<<t, e>>) /\ Overlapped(d, e)
  <2>1. PICK d \in events : Deletes(d) /\ d.ref = p.key
    BY <1>8 DEF Deleted
  <2>2. p.key # NoKey
    BY <1>1, EventsAssumption
  <2>3. t \in {"reply", "quote", "reaction"}
    <3>1. t \in {"follow", "block"} => Post(<<t, e>>) = e.ref
      BY DEF Post
    <3> QED
      BY <1>1, <1>2, <1>8, <2>2, <3>1, CachedKinds
  <2>4. d \notin seen[e]
    <3>1. select_not_deleted_event_id(seen[e], Post(<<t, e>>)) # {}
      BY <1>1, <1>2, <1>8, <2>3, CachedKinds
    <3>2. ~ Tombstoned(seen[e], Post(<<t, e>>))
      BY <3>1 DEF select_not_deleted_event_id
    <3> QED
      BY <1>8, <2>1, <3>2 DEF Tombstoned, Deletes
  <2>5. e \notin seen[d]
    <3> SUFFICES ASSUME e \in seen[d] PROVE FALSE
      OBVIOUS
    <3>1. p \in seen[d]
      <4>1. p.key \in Names(d)
        BY <2>1, <2>2 DEF Names
      <4> QED
        BY <1>1, <4>1, NamedIsSeen
    <3>2. d.ref.collection = "feed"
      <4>1. /\ t = "reply" => Post(<<t, e>>) = e.reply
            /\ t = "quote" => Post(<<t, e>>) = e.quote
            /\ t = "reaction" => Post(<<t, e>>) = e.ref
        BY DEF Post
      <4>2. /\ t \in {"reply", "quote"} => e.kind = "post"
            /\ t = "reaction" => e.kind = "reaction"
        BY <1>1, <1>2, <1>8, CachedKinds
      <4> QED
        BY <1>1, <1>8, <2>1, <2>2, <2>3, <4>1, <4>2, CollectionsAssumption
    <3>3. delete_query(d, <<t, e>>)
      BY <1>8, <2>1, <2>3, <3>2 DEF delete_query
    <3>4. Takes(d, seen[d], <<t, e>>)
      BY <2>1, <3>1, <3>3 DEF Takes, select_event_id
    <3> QED
      BY <1>2, <1>3, <1>8, <2>1, <3>4
  <2> QED
    BY <1>8, <2>1, <2>4, <2>5 DEF Overlapped
<1> QED
  BY <1>4, <1>6, <1>7, <1>8 DEF Deleted, select_event_id
=============================================================================
