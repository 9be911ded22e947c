---------------------------- MODULE MCChainStore ----------------------------
(* Keys 1, 2 and 3 belong to devices, 4 is a recovery key.  Key 1 starts    *)
(* the identity, adds 2 as a rotation key and 3 as a signing key, and the   *)
(* three then disagree on what comes next.                                  *)
EXTENDS ChainStore

Doc(hash, rot, sign, rec, sig, rest) ==
  [hash |-> hash, rotation_keys |-> rot, signing_keys |-> sign,
   revocation_bounds |-> {}, recovery_key |-> rec, recovery_signature |-> sig, rest |-> rest]

Unsigned == [by |-> NoKey, for |-> NoKey]

GenesisDoc == Doc(5, {1}, {}, 4, Unsigned, 0)
SharedDoc  == Doc(2, {1, 2}, {3}, 4, Unsigned, 0)
NoThree    == Doc(3, {1, 2}, {}, 4, Unsigned, 0)   \* 3 removed
NoOne      == Doc(4, {2}, {1, 3}, 4, Unsigned, 0)  \* 1 demoted
Recovered  == Doc(1, {1, 2, 3}, {3}, 4, [by |-> 4, for |-> 3], 0)

MCDocs == {GenesisDoc, SharedDoc, NoThree, NoOne, Recovered}

Event(seq, signer, doc) ==
  [sequence |-> seq, signer |-> signer, document |-> doc, intact |-> TRUE]

MCCandidates ==
  {Event(1, 1, GenesisDoc), Event(2, 1, SharedDoc),
   Event(3, 1, NoThree), Event(3, 2, NoOne), Event(3, 3, SharedDoc),
   Event(3, 1, SharedDoc), Event(4, 3, Recovered),
   [Event(2, 3, NoOne) EXCEPT !.intact = FALSE]}
=============================================================================
