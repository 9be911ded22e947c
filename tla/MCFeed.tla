------------------------------- MODULE MCFeed -------------------------------
(* One instance of Feed: components that share a key of two servers, in     *)
(* either update mode; and a feed whose user replies or reacts.             *)
EXTENDS Feed

CONSTANTS s1, s2

Shared(how) ==
  [servers |-> {s1, s2}, start |-> {0, 1}, updateMode |-> how,
   fetchModes |-> {"unset", "default", "offline_first", "offline_only"},
   strategies |-> {"fetch", "lazy", "eager"}, maxFanouts |-> 3, maxRefs |-> 2,
   maxChanges |-> 0, maxFlows |-> 0, habits |-> {"share"}]

Acting(asked, start, strategies, habit, changes) ==
  [servers |-> asked, start |-> {start}, updateMode |-> "merge", fetchModes |-> {"unset"},
   strategies |-> strategies, maxFanouts |-> 3, maxRefs |-> 1,
   maxChanges |-> changes, maxFlows |-> 2, habits |-> {"view", habit}]

MCSettings ==
  {Shared("merge"), Shared("replace"),
   Acting({s1}, 1, {}, "reply", 2), Acting({s1}, 0, {"lazy"}, "reply", 1),
   Acting({s1, s2}, 1, {}, "reply", 1), Acting({s1}, 1, {"lazy"}, "react", 2)}
=============================================================================
