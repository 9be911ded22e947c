----------------------------- MODULE MCWorkers -----------------------------
(* Alice posts; Bob reacts, replies, quotes and takes things back.         *)
EXTENDS Workers

CONSTANTS alice, bob, ka, kb

MCKeysOf == [i \in {alice, bob} |-> IF i = alice THEN {ka, kb} ELSE {}]

Key(i, collection, n) == [identity |-> i, collection |-> collection, sequence |-> n]

Event(key, kind) ==
  [key |-> key, kind |-> kind, reply |-> NoKey, quote |-> NoKey, ref |-> NoKey,
   to |-> {}, positive |-> TRUE]

About(key, kind, e) == [Event(key, kind) EXCEPT !.ref = e.key]

APost    == Event(Key(alice, "feed", 1), "post")
Reply    == [Event(Key(bob, "feed", 1), "post") EXCEPT !.reply = APost.key]
Quote    == [Event(Key(bob, "feed", 2), "post") EXCEPT !.quote = APost.key]
Repost   == About(Key(bob, "feed", 3), "repost", APost)
Like     == About(Key(bob, "interactions", 1), "reaction", APost)
Dislike  == [About(Key(alice, "interactions", 1), "reaction", APost) EXCEPT !.positive = FALSE]
Follow   == [Event(Key(bob, "social_graph", 1), "follow") EXCEPT !.to = {alice}]
Block    == [Event(Key(alice, "social_graph", 1), "block") EXCEPT !.to = {bob}]
Profile1 == Event(Key(alice, "profile", 1), "profile")
Profile2 == Event(Key(alice, "profile", 2), "profile")
UrlLike  == Event(Key(bob, "interactions", 2), "url_reaction")

Request  == [Event(Key(alice, "verifications", 2), "verification_target")
               EXCEPT !.ref = Key(alice, "verifications", 1), !.to = {bob}]
Verify   == [Event(Key(bob, "verifications", 1), "verification_verify")
               EXCEPT !.ref = Key(alice, "verifications", 1)]

Unlike     == About(Key(bob, "interactions", 3), "delete", Like)
Unpost     == About(Key(alice, "feed", 2), "delete", APost)
Unreply    == About(Key(bob, "feed", 4), "delete", Reply)
Unrepost   == About(Key(bob, "feed", 5), "delete", Repost)
Unfollow   == About(Key(bob, "social_graph", 2), "delete", Follow)
Unprofile  == About(Key(alice, "profile", 3), "delete", Profile1)
UnurlLike  == About(Key(bob, "interactions", 4), "delete", UrlLike)
Foreign    == About(Key(alice, "interactions", 2), "delete", UrlLike)

MCEvents ==
  {APost, Reply, Quote, Repost, Like, Dislike, Follow, Block, Profile1, Profile2,
   UrlLike, Request, Verify, Unlike, Unpost, Unreply, Unrepost, Unfollow,
   Unprofile, UnurlLike, Foreign}

\* Statements alone; messages, and restarts.
Stored(puts) == [puts |-> puts, tokens |-> {}, broker |-> FALSE, crashes |-> 0]

Consumed(puts, tokens, restarts) ==
  [puts |-> puts, tokens |-> tokens, broker |-> TRUE, crashes |-> restarts]

MCSettings ==
  {Stored({APost, Like, Unlike, Unpost, Dislike}),
   Stored({APost, Reply, Unreply, Unpost}),
   Stored({APost, Quote, Repost, Unpost}),
   Stored({Follow, Unfollow, Block}),
   Stored({Profile1, Profile2, Unprofile}),
   Consumed({UrlLike, UnurlLike}, {}, 1),
   Consumed({UrlLike, Foreign}, {}, 1),
   Consumed({Block, Like}, {}, 1),
   Consumed({Quote, Repost}, {}, 1),
   Consumed({Request, Verify}, {}, 0),
   Consumed({Like}, Tokens, 0)}

\* What comes in an order the tables are not made for.
OutOfOrder == {Stored({APost, Reply, Repost, Unrepost, Profile1, Profile2})}
=============================================================================
