----------------------------- MODULE MCPairing -----------------------------
(* Small instances of Pairing: an issuer whose key is between those of the  *)
(* two claimers, so that both orders of compare_signers happen.             *)
EXTENDS Pairing

\* The hash of a document is a number made of its fields.
Bits(S) == (IF 1 \in S THEN 1 ELSE 0) + (IF 3 \in S THEN 2 ELSE 0)

MCDocs ==
  {[hash |-> 1 + Bits(R) + 4 * Bits(S) + 16 * servers,
    rotation_keys |-> {2} \cup R, signing_keys |-> S,
    revocation_bounds |-> {}, recovery_key |-> NoKey,
    recovery_signature |-> [by |-> NoKey, for |-> NoKey], rest |-> servers] :
     R \in SUBSET {1, 3}, S \in SUBSET {1, 3}, servers \in 0..1}

MCKeys == {1, 2, 3}
MCClaimers == {1, 3}

Base == [sessions |-> 1, claimers |-> {3}, roles |-> {"signing"}, edits |-> {},
         mishaps |-> {"expiry", "going_back"}, failures |-> 0, length |-> 5]

MCSettings ==
  {\* one claimer, and everything that can go wrong in one session
   [Base EXCEPT !.failures = 2, !.roles = {"rotation", "signing"}],
   \* one claimer, changes in the settings screen meanwhile
   [Base EXCEPT !.edits = {"add_server", "remove_server", "remove_key"}, !.length = 4,
                !.failures = 1, !.roles = {"rotation", "signing"}],
   \* one claimer, a session given up for another
   [Base EXCEPT !.sessions = 2],
   \* two claimers and two sessions
   [Base EXCEPT !.sessions = 2, !.claimers = {1, 3}, !.mishaps = {}, !.failures = 1],
   [Base EXCEPT !.sessions = 2, !.claimers = {1, 3}, !.mishaps = {},
                !.roles = {"rotation", "signing"}]}
============================================================================
