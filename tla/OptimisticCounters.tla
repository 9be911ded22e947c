------------------------- MODULE OptimisticCounters -------------------------
(* What the overlays promise for the counters of a post, without caches,    *)
(* memoisation or rendering: the user sees each change of his own at once,  *)
(* exactly as large as it is, and keeps seeing it until a server's count    *)
(* has reached or passed what is shown ("only discard it once the server's  *)
(* value equals or exceeds our believed value", overlayTypes.ts).           *)
EXTENDS Integers

CONSTANT Counters

VARIABLES
  base,       \* the counts the last answer gave
  shown,      \* the counts on the screen
  known,      \* an answer has listed the post
  replies,    \* replies the user has made
  deletions,  \* deletions of replies under way
  reactions   \* changes of a reaction under way, with what each changes

vars == <<base, shown, known, replies, deletions, reactions>>

Init == /\ base = [c \in Counters |-> 0] /\ shown = base /\ known = FALSE
        /\ replies = 0 /\ deletions = {} /\ reactions = {}

\* Counters change by the given amounts, and none falls below zero.
Shift(by) ==
  shown' = IF known
           THEN [c \in Counters |-> IF shown[c] + by[c] >= 0 THEN shown[c] + by[c] ELSE 0]
           ELSE shown

ReplyCount(n) == [c \in Counters |-> IF c = "replyCount" THEN n ELSE 0]

Reply ==
  /\ replies' = replies + 1
  /\ Shift(ReplyCount(1))
  /\ UNCHANGED <<base, known, deletions, reactions>>

\* The user begins a deletion or a change of his reaction.
Begin ==
  /\ deletions \subseteq deletions' /\ reactions \subseteq reactions'
  /\ UNCHANGED <<base, shown, known, replies>>

\* It is done and shows, or it failed and does not.
EndDeletion(w) ==
  /\ deletions' = deletions \ {w}
  /\ Shift(ReplyCount(-1)) \/ shown' = shown
  /\ UNCHANGED <<base, known, replies, reactions>>

EndReaction(r) ==
  /\ reactions' = reactions \ {r}
  /\ Shift(r.by) \/ shown' = shown
  /\ UNCHANGED <<base, known, replies, deletions>>

\* The count of the server has not reached the one that is shown.
Ahead(s, b, count) == \/ s > b /\ s > count
                      \/ s < b /\ s < count

Receive ==
  /\ base' \in [Counters -> Nat] /\ known' \in {known, TRUE}
  /\ shown' = [c \in Counters |-> IF Ahead(shown[c], base[c], base'[c])
                                  THEN shown[c] ELSE base'[c]]
  /\ UNCHANGED <<replies, deletions, reactions>>

Next ==
  \/ Reply \/ Begin \/ Receive
  \/ \E w \in deletions : EndDeletion(w)
  \/ \E r \in reactions : EndReaction(r)

Spec == Init /\ [][Next]_vars
=============================================================================
