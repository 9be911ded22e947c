------------------------------- MODULE Feed -------------------------------
(* A feed of Harbor: the query store of its key, the feed cache that lays  *)
(* the user's own changes over the answers (feedCache.ts), the screen that *)
(* shows it, and the flows that change it: composing a reply to a post P,  *)
(* deleting it, reacting to P.  The feed shows P and the user's replies.   *)
(* React renders a store change synchronously and then runs the effects of *)
(* that render, so a render and its effects are one step; other callbacks  *)
(* may run between the store change and the render.                        *)
EXTENDS QueryStore, FeedOverlay, Sequences

\* Bounds: events the user publishes, and reaction changes under way at a
\* time; and what happens: components share the key, the feed is on view,
\* the user replies or reacts.
ASSUME FeedAssumption ==
  \A s \in Settings : s.maxChanges \in Nat /\ s.maxFlows \in Nat
                      /\ s.habits \subseteq {"share", "view", "reply", "react"}

VARIABLES
  screen,    \* the feed's screen: "gone" or "on"
  seen,      \* query data of its last render
  feed,      \* the feed entry in the store, and the one in derivedFeedCache
  made,      \* events the user published: replies to P, reactions to P, deletes
  composed,  \* replies composed so far
  syncing,   \* flows whose sync is under way: composed replies, or deletions
  mine,      \* useReactions: index in made of the active reaction to P, 0 if none
  flows      \* reaction flows under way

feedVars == <<screen, seen, feed, made, composed, syncing, mine, flows>>
vars == <<storeVars, held, feedVars>>

----------------------------------------------------------------------------
(* What an answer says about P (the servers are outside this module).      *)

NoPost == [replyCount |-> 0, total |-> 0, upvote |-> 0, downvote |-> 0,
           tally |-> [r \in Reactions |-> 0]]

\* The events a server counts that has taken v - 1 of them into account.
Counted(v) == {i \in 1..(v - 1) : \A j \in 1..(v - 1) :
                                     made[j].kind = "delete" => made[j].target # i}

Replies(v) == {i \in Counted(v) : made[i].kind = "reply"}

ReactedWith(v, S) ==
  Cardinality({i \in Counted(v) : made[i].kind = "react" /\ made[i].reaction \in S})

Greatest(n, S) == \A k \in S : k <= n

Highest(S) ==
  IF \E n \in S : Greatest(n, S) THEN CHOOSE n \in S : Greatest(n, S) ELSE 0

\* Answers of several servers merge counter by counter.
MergedPost(d) ==
  LET vs == d.versions \ {0}
      Reacted(S) == Highest({ReactedWith(v, S) : v \in vs})
  IN [replyCount |-> Highest({Cardinality(Replies(v)) : v \in vs}),
      total |-> Reacted(Reactions), upvote |-> Reacted(Positive),
      downvote |-> Reacted(Reactions \ Positive),
      tally |-> [r \in Reactions |-> Reacted({r})]]

Answered(d) == d.versions \ {0} # {}

OwnAnswered(d) == {made[i].id : i \in UNION {Replies(v) : v \in d.versions \ {0}}}

----------------------------------------------------------------------------
(* The feed cache.                                                         *)

NoFeed == [data |-> NoData, output |-> FALSE, listed |-> FALSE,
           post |-> [originalPost |-> NoPost, overlay |-> EmptyPostOverlay],
           injections |-> {}]

\* deriveEntry
Derived(old, d) ==
  [data |-> d, output |-> TRUE, listed |-> old.listed \/ Answered(d),
   post |-> IF Answered(d) THEN UpdatePostEntry(old.post, MergedPost(d)) ELSE old.post,
   injections |-> IF old.data = d THEN old.injections ELSE {}]

GetFeedEntry(f, d) ==
  CASE f.stored.data = d /\ f.stored.output -> f.stored
    [] f.cached.data = d /\ ~ (f.stored.data = d /\ f.stored.output) -> f.cached
    [] OTHER -> Derived(f.stored, d)

\* The selector of the screen, called by the store after each change.
Selected(f) ==
  IF screen = "gone" \/ seen = NoData \/ GetFeedEntry(f, seen) = f.stored THEN f
  ELSE [f EXCEPT !.cached = GetFeedEntry(f, seen)]

\* A render with data d and its effect, pullCachedFeed.
Pulled(f, d) ==
  IF d = NoData THEN f
  ELSE [stored |-> GetFeedEntry(f, d), cached |-> NoFeed]

\* prepareOverlayMod: the entry to modify, and the data it belongs to.
Existing(f) ==
  IF entry.data # NoData /\ f.cached.data = entry.data THEN f.cached ELSE f.stored

QueryData(f) == IF entry.data # NoData THEN entry.data ELSE Existing(f).data

(* Slip: the derived entry stays in the cache after a change.               *)
KeptCache(f) == f.cached

PurgedCache(f) == IF f.cached.data = QueryData(f) THEN NoFeed ELSE f.cached

\* modifyPostOverlay
WithPost(f, post) ==
  IF f.stored = NoFeed \/ ~ Existing(f).listed THEN f
  ELSE Selected([stored |-> [Existing(f) EXCEPT !.post = post, !.output = FALSE],
                 cached |-> PurgedCache(f)])

AlterReplyCount(f, amount) == WithPost(f, ReplyCountAltered(Existing(f).post, amount))

InjectReaction(f, prev, next) == WithPost(f, ReactionInjected(Existing(f).post, prev, next))

\* injectPostToFront, injectPostReply: where the reply goes is left out.
InjectPost(f, id) ==
  IF f.stored = NoFeed THEN f
  ELSE Selected([stored |-> [Existing(f) EXCEPT !.data = QueryData(f), !.output = FALSE,
                                                !.injections = @ \cup {id}],
                 cached |-> PurgedCache(f)])

----------------------------------------------------------------------------
(* The screen.  Navigation is a discrete event: React runs the effects of  *)
(* the first render, pull and subscription, in the same task.              *)

Init ==
  /\ QueryInit
  /\ screen = "gone"
  /\ seen = NoData
  /\ feed = [stored |-> NoFeed, cached |-> NoFeed]
  /\ made = <<>>
  /\ composed = 0
  /\ syncing = {}
  /\ mine = 0
  /\ flows = {}

Mount(how) ==
  /\ screen = "gone"
  /\ screen' = "on"
  /\ seen' = entry.data
  /\ feed' = Pulled(feed, entry.data)
  /\ Subscribe(how)
  /\ UNCHANGED <<made, composed, syncing, mine, flows>>

Render ==
  /\ screen = "on"
  /\ entry.data # seen \/ feed.cached.data = seen
  /\ seen' = entry.data
  /\ feed' = Pulled(feed, entry.data)
  /\ UNCHANGED <<storeVars, screen, made, composed, syncing, mine, flows>>

Unmount ==
  /\ screen = "on"
  /\ screen' = "gone"
  /\ seen' = NoData
  /\ Unsubscribe
  /\ UNCHANGED <<feed, made, composed, syncing, mine, flows>>

----------------------------------------------------------------------------
(* The flows.                                                              *)

\* commitEvent of each of the events
Publish(events) ==
  /\ made' = made \o events
  /\ latest' = latest + Len(events)
  /\ UNCHANGED <<setting, core, tasks, live, entry, refCount, version, floor>>

MayPublish == Len(made) < setting.maxChanges

MayCompose == "reply" \in setting.habits /\ composed < setting.maxChanges

\* handlePost: the reply is shown before it is committed.
Compose ==
  /\ MayPublish /\ MayCompose
  /\ feed' = InjectPost(AlterReplyCount(feed, 1), composed + 1)
  /\ composed' = composed + 1
  /\ Publish(<<[kind |-> "reply", id |-> composed + 1]>>)
  /\ syncing' = syncing \cup {[kind |-> "reply", event |-> Len(made) + 1]}
  /\ UNCHANGED <<screen, seen, mine, flows>>

\* commitEvent throws: what was injected stays.
ComposeFail ==
  /\ MayCompose
  /\ feed' = InjectPost(AlterReplyCount(feed, 1), composed + 1)
  /\ composed' = composed + 1
  /\ UNCHANGED <<storeVars, screen, seen, made, syncing, mine, flows>>

\* deleteAsync, up to the commit of the delete
DeleteReply(i) ==
  /\ MayPublish
  /\ i \in Replies(latest)
  /\ Publish(<<[kind |-> "delete", target |-> i]>>)
  /\ syncing' = syncing \cup {[kind |-> "delete", event |-> i]}
  /\ UNCHANGED <<screen, seen, feed, composed, mine, flows>>

\* The sync ends: invalidateQuery, and for a deletion the count is lowered.
Synced(w) ==
  /\ Refresh("lazy")
  /\ syncing' = syncing \ {w}
  /\ feed' = IF w.kind = "delete" THEN AlterReplyCount(feed, -1) ELSE feed
  /\ UNCHANGED <<screen, seen, made, composed, mine, flows>>

\* The sync of a reply fails, which only logs; deleteAsync throws.
SyncFailed(w) ==
  /\ syncing' = syncing \ {w}
  /\ UNCHANGED <<storeVars, screen, seen, feed, made, composed, mine, flows>>

ReactionOf(i) == IF i = 0 THEN NoReaction ELSE made[i].reaction

\* onEmojiSelect: the active reaction is read here, before any await.
Tap(r) ==
  /\ MayPublish /\ "react" \in setting.habits /\ Cardinality(flows) < setting.maxFlows
  /\ flows' = flows \cup {[was |-> mine, next |-> IF ReactionOf(mine) = r THEN NoReaction ELSE r]}
  /\ UNCHANGED <<storeVars, screen, seen, feed, made, composed, syncing, mine>>

\* commitDeleteLocally of the old reaction, commitReactionLocally of the new
ReactionEvents(f) ==
  (IF f.was = 0 THEN <<>> ELSE <<[kind |-> "delete", target |-> f.was]>>)
    \o (IF f.next = NoReaction THEN <<>> ELSE <<[kind |-> "react", reaction |-> f.next]>>)

\* addReaction, removeReaction, changeReaction, once their commits are done
React(f) ==
  /\ MayPublish
  /\ Publish(ReactionEvents(f))
  /\ mine' = IF f.next = NoReaction THEN 0 ELSE Len(made')
  /\ feed' = InjectReaction(feed, ReactionOf(f.was), f.next)
  /\ flows' = flows \ {f}
  /\ UNCHANGED <<screen, seen, composed, syncing>>

\* A commit throws: only what was committed before it remains.
ReactFail(f) ==
  /\ MayPublish
  /\ \/ UNCHANGED storeVars /\ made' = made
     \/ /\ f.was # 0 /\ f.next # NoReaction
        /\ Publish(<<[kind |-> "delete", target |-> f.was]>>)
  /\ flows' = flows \ {f}
  /\ UNCHANGED <<screen, seen, feed, composed, syncing, mine>>

\* refresh: the newest reaction that is not tombstoned
RefreshReactions ==
  /\ mine' = Highest({i \in Counted(latest) : made[i].kind = "react"})
  /\ mine' # mine
  /\ UNCHANGED <<storeVars, screen, seen, feed, made, composed, syncing, flows>>

----------------------------------------------------------------------------
Network == /\ \E s \in setting.servers : Answers(s) \/ Serve(s)
           /\ UNCHANGED feedVars

\* Components that use the key through useQuery
Sharing ==
  /\ \/ \E how \in setting.fetchModes : "share" \in setting.habits /\ Subscribe(how)
     \/ refCount > (IF screen = "on" THEN 1 ELSE 0) /\ Unsubscribe
     \/ \E strategy \in setting.strategies : Refresh(strategy)
     \/ \E how \in setting.fetchModes : "share" \in setting.habits /\ Extend(how)
  /\ UNCHANGED feedVars

Screen ==
  \/ \E how \in setting.fetchModes : "view" \in setting.habits /\ Mount(how)
  \/ Render
  \/ Unmount

Author ==
  \/ Compose \/ ComposeFail
  \/ \E i \in 1..Len(made) : DeleteReply(i)
  \/ \E w \in syncing : Synced(w) \/ SyncFailed(w)
  \/ \E r \in Reactions : Tap(r)
  \/ \E f \in flows : React(f) \/ ReactFail(f)
  \/ RefreshReactions

Next ==
  /\ Network \/ Sharing \/ Screen \/ Author
  /\ held' = {seen'.id, feed'.stored.data.id, feed'.cached.data.id}

Spec == Init /\ [][Next]_vars

\* Every server answers a fan-out, fails or times out.
FairSpec == Spec /\ \A s \in Servers : WF_vars(Answers(s) /\ UNCHANGED <<feedVars, held>>)

----------------------------------------------------------------------------
(* Properties.                                                             *)

\* The entry that the next change modifies and the next render starts from.
Current == Existing(feed)

Displayed == ApplyPostOverlay(Current.post.originalPost, Current.post.overlay)

TypeOK ==
  /\ QueryTypeOK
  /\ screen \in {"gone", "on"}
  /\ seen.versions \subseteq 0..latest
  /\ Len(made) = latest - 1
  /\ mine \in 0..Len(made)
  /\ composed \in Nat
  /\ flows \subseteq [was : 0..Len(made), next : Choices]
  /\ syncing \subseteq [kind : {"reply", "delete"}, event : 1..Len(made)]

\* No counter of P, nor the tally of a reaction, is ever shown below zero,
\* whatever taps overlap, retries repeat a deletion and answers run behind
\* (the caps of alterReplyCount, reactionCounter and summaryUpdate).
NonNegative ==
  /\ \A c \in {"replyCount", "total", "upvote", "downvote"} : Displayed[c] >= 0
  /\ \A r \in Reactions : Displayed.tally[r] >= 0

Shown == {"replyCount", "total", "upvote", "downvote"}

\* What a change of the reaction does to each of them.
ReactionShift(f) ==
  [c \in Shown |-> IF c = "replyCount" THEN 0
                   ELSE ReactionOffsets(ReactionOf(f.was), f.next)[c]]

Deletions == {w \in syncing : w.kind = "delete"}

ReactionChanges == {[flow |-> f, by |-> ReactionShift(f)] : f \in flows}

Counters == INSTANCE OptimisticCounters WITH
  Counters  <- Shown,
  base      <- [c \in Shown |-> Current.post.originalPost[c]],
  shown     <- [c \in Shown |-> Displayed[c]],
  known     <- Current.listed,
  replies   <- composed,
  deletions <- Deletions,
  reactions <- ReactionChanges

\* Through caches, re-derivations, renders and remounts, the counters of P
\* change only by an answer or when the user's reply, deletion or reaction
\* is done, then by exactly what it changes; no other step moves one, and
\* an answer never takes back a local change it has not reached yet
\* (overlayTypes.ts: "only discard it once the server's value equals or
\* exceeds").
CountersRefine == Counters!Spec

\* The user's replies the feed shows for the data the store holds now.
OwnShown == OwnAnswered(entry.data) \cup GetFeedEntry(feed, entry.data).injections

\* A reply the user composes is shown and counted at once, also when the
\* change before it is not rendered yet, and does not disappear as long as
\* the query data is the same: not by another change, by leaving the
\* screen, or by a render that runs late (prepareOverlayMod, deriveEntry).
OwnReplyStays ==
  [][entry.data # NoData =>
       /\ entry'.data = entry.data => OwnShown \subseteq OwnShown'
       /\ composed' # composed /\ Current.listed =>
            /\ composed' \in OwnShown'
            /\ Displayed'.replyCount = Displayed.replyCount + 1]_vars
===========================================================================
