---------------------------- MODULE FeedOverlay ----------------------------
(* The overlays Harbor lays over a post it got from a server: local changes *)
(* that servers may not have counted yet (overlayTypes.ts, overlayOps.ts).  *)
(* An overlay that the code leaves undefined is one whose offset is 0, the  *)
(* only case in which the code drops it.                                    *)
EXTENDS Integers

CONSTANTS
  Reactions,     \* the reactions a user can choose
  Positive,      \* those that count as upvotes
  NoReaction     \* no reaction at all

ASSUME ReactionAssumption == /\ Positive \subseteq Reactions
                             /\ NoReaction \notin Reactions

Choices == Reactions \cup {NoReaction}

Larger(a, b) == IF a >= b THEN a ELSE b

----------------------------------------------------------------------------
(* CounterOverlay.                                                         *)

CounterOverlay(count, offset) == [original |-> count, localOffset |-> offset]

Undefined == CounterOverlay(0, 0)

Defined(c) == c.localOffset # 0

Get(c) == c.original + c.localOffset

LocalUpdate(c, shift) ==
  IF c.localOffset + shift = 0 THEN Undefined
  ELSE CounterOverlay(c.original, c.localOffset + shift)

(* Slip: any new count of the server replaces the local one.                *)
RemoteUpdateAny(c, count) ==
  IF c.original # count THEN Undefined ELSE c

\* The server counts `count` now.
RemoteUpdate(c, count) ==
  IF (Get(c) - count) * c.localOffset <= 0 THEN Undefined
  ELSE CounterOverlay(count, Get(c) - count)

\* A counter the server gives as `current`, never below zero.
ReactionCounter(current, offset) ==
  IF Larger(0, current + offset) = current THEN Undefined
  ELSE CounterOverlay(current, Larger(0, current + offset) - current)

\* An overlay moved by `amount` as far as the count stays non-negative.
Capped(c, amount) == LocalUpdate(c, Larger(amount, -Get(c)))

----------------------------------------------------------------------------
(* ReactionOverlay: the user's reaction changed from `previous` to `next`.  *)

Sign(condition) == IF condition THEN 1 ELSE 0

ReactionOffsets(previous, next) ==
  [total    |-> Sign(next # NoReaction) - Sign(previous # NoReaction),
   upvote   |-> Sign(next \in Positive) - Sign(previous \in Positive),
   downvote |-> Sign(next \in Reactions \ Positive)
                  - Sign(previous \in Reactions \ Positive)]

TallyOverlay(post, reaction, change) ==
  IF reaction = NoReaction THEN Undefined
  ELSE ReactionCounter(post.tally[reaction], change)

NoReactionOverlay ==
  [previous |-> NoReaction, previousTally |-> Undefined,
   next |-> NoReaction, nextTally |-> Undefined,
   total |-> Undefined, upvote |-> Undefined, downvote |-> Undefined]

Assemble(o) ==
  IF \E f \in {"previousTally", "nextTally", "total", "upvote", "downvote"} : Defined(o[f])
  THEN o ELSE NoReactionOverlay

Create(previous, next, post) ==
  LET offsets == ReactionOffsets(previous, next) IN
  IF previous = next THEN NoReactionOverlay
  ELSE Assemble([previous |-> previous, previousTally |-> TallyOverlay(post, previous, -1),
                 next |-> next, nextTally |-> TallyOverlay(post, next, 1),
                 total |-> ReactionCounter(post.total, offsets.total),
                 upvote |-> ReactionCounter(post.upvote, offsets.upvote),
                 downvote |-> ReactionCounter(post.downvote, offsets.downvote)])

SummaryUpdate(existing, postValue, amount) ==
  IF Defined(existing) THEN Capped(existing, amount)
  ELSE ReactionCounter(postValue, amount)

\* Of a chain of changes the server has seen none, so the reaction it still
\* counts is the first one.
ReactionLocalUpdate(o, prev, next, post) ==
  LET offsets  == ReactionOffsets(prev, next)
      previous == IF prev = o.next THEN o.previous ELSE prev
      removed  == IF previous = next THEN NoReaction ELSE previous
      added    == IF previous = next THEN NoReaction ELSE next
  IN Assemble([previous |-> removed, previousTally |-> TallyOverlay(post, removed, -1),
               next |-> added, nextTally |-> TallyOverlay(post, added, 1),
               total |-> SummaryUpdate(o.total, post.total, offsets.total),
               upvote |-> SummaryUpdate(o.upvote, post.upvote, offsets.upvote),
               downvote |-> SummaryUpdate(o.downvote, post.downvote, offsets.downvote)])

TallyRemoteUpdate(c, reaction, post) ==
  IF reaction = NoReaction THEN c ELSE RemoteUpdate(c, post.tally[reaction])

ReactionRemoteUpdate(o, latest) ==
  Assemble([o EXCEPT !.total = RemoteUpdate(@, latest.total),
                     !.upvote = RemoteUpdate(@, latest.upvote),
                     !.downvote = RemoteUpdate(@, latest.downvote),
                     !.previousTally = TallyRemoteUpdate(@, o.previous, latest),
                     !.nextTally = TallyRemoteUpdate(@, o.next, latest)])

----------------------------------------------------------------------------
(* Posts and their overlays.  A post is its counters; the entry of a post   *)
(* keeps the server's counters and the overlay apart.                       *)

EmptyPostOverlay == [replyCount |-> Undefined, reaction |-> NoReactionOverlay]

UpdatePostOverlay(overlay, latest) ==
  [replyCount |-> RemoteUpdate(overlay.replyCount, latest.replyCount),
   reaction   |-> ReactionRemoteUpdate(overlay.reaction, latest)]

UpdatePostEntry(entry, latest) ==
  [originalPost |-> latest, overlay |-> UpdatePostOverlay(entry.overlay, latest)]

Overlaid(value, c) == IF Defined(c) THEN Get(c) ELSE value

TallyOverlaid(tally, reaction, c) ==
  IF reaction = NoReaction \/ ~ Defined(c) THEN tally
  ELSE [tally EXCEPT ![reaction] = Get(c)]

ApplyPostOverlay(post, overlay) ==
  LET r == overlay.reaction IN
  [replyCount |-> Overlaid(post.replyCount, overlay.replyCount),
   total      |-> Overlaid(post.total, r.total),
   upvote     |-> Overlaid(post.upvote, r.upvote),
   downvote   |-> Overlaid(post.downvote, r.downvote),
   tally      |-> TallyOverlaid(TallyOverlaid(post.tally, r.previous, r.previousTally),
                                r.next, r.nextTally)]

(* Slip: the count is not kept from falling below zero.                     *)
ReplyCountUncapped(entry, amount) ==
  LET base == IF Defined(entry.overlay.replyCount) THEN entry.overlay.replyCount
              ELSE CounterOverlay(entry.originalPost.replyCount, 0)
  IN [entry EXCEPT !.overlay.replyCount = LocalUpdate(base, amount)]

\* alterReplyCount
ReplyCountAltered(entry, amount) ==
  LET base == IF Defined(entry.overlay.replyCount) THEN entry.overlay.replyCount
              ELSE CounterOverlay(entry.originalPost.replyCount, 0)
  IN [entry EXCEPT !.overlay.replyCount = Capped(base, amount)]

\* injectReaction
ReactionInjected(entry, prev, next) ==
  LET old == entry.overlay.reaction IN
  [entry EXCEPT !.overlay.reaction =
     IF old = NoReactionOverlay THEN Create(prev, next, entry.originalPost)
     ELSE ReactionLocalUpdate(old, prev, next, entry.originalPost)]
============================================================================
