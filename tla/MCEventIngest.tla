--------------------------- MODULE MCEventIngest ---------------------------
(* Key 1 owns the identity, adds key 2 as a signing key and later revokes   *)
(* it, recording that its first event in the collection still counts.  Key  *)
(* 2, which may not rotate, tries to keep itself in.                        *)
EXTENDS EventIngest

Doc(hash, sign, bounds) ==
  [hash |-> hash, rotation_keys |-> {1}, signing_keys |-> sign,
   revocation_bounds |-> bounds, recovery_key |-> NoKey,
   recovery_signature |-> [by |-> NoKey, for |-> NoKey], rest |-> 0]

GenesisDoc == Doc(1, {2}, {})
RevokeDoc  == Doc(2, {}, {[revoked_key |-> 2, signature |-> 2, leaf_count |-> 1]})

StayDoc    == Doc(3, {2}, {})

MCDocs == {GenesisDoc, RevokeDoc, StayDoc}

IdEvent(seq, signer, doc) ==
  [sequence |-> seq, signer |-> signer, document |-> doc, intact |-> TRUE]

MCIdentityEvents == {IdEvent(1, 1, GenesisDoc), IdEvent(2, 1, RevokeDoc)}

ByTwo == [signer |-> 2, sequence |-> 1, rank |-> 1]
ByTwoLate == [signer |-> 2, sequence |-> 2, rank |-> 2]

MCContentEvents == {ByTwo, ByTwoLate}
OneContentEvent == {ByTwo}
RogueIdentityEvents == MCIdentityEvents \cup {IdEvent(3, 2, StayDoc)}
OneIdentityEvent == {IdEvent(1, 1, GenesisDoc)}

Symmetric == Permutations(Requests)
=============================================================================
