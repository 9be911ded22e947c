--------------------------- MODULE IdentityChain ---------------------------
(***************************************************************************)
(* Resolution of an identity chain from untrusted identity events:        *)
(* packages/rs-common/src/models/identity.rs.  Clients (rs-core) and       *)
(* servers both call it, each on the events it happens to hold and in the  *)
(* order its store yields them, so what it returns must depend on the set  *)
(* of events only.                                                         *)
(*                                                                         *)
(* An identity document is abstracted to the fields the rules read.  A     *)
(* public key is a natural number, which gives it the total order of       *)
(* compare_signers.  `hash' stands for derive_hex_key: distinct documents  *)
(* have distinct hashes.  `rest' stands for the fields the rules only      *)
(* compare (servers, the order of the key lists).  A revocation bound      *)
(* names the last event of a revoked key in the one content collection     *)
(* modelled, and the number of events in that event's tree.                *)
(***************************************************************************)
EXTENDS Naturals, Sequences, FiniteSets, SequencesExt

CONSTANTS
  MaxRank,   \* bound on keys and hashes (32 bytes each in the code)
  Keys,      \* public keys
  Docs,      \* identity documents
  Identity   \* the identity: the hash of its genesis document

NoKey == 0   \* an absent recovery key

(* A recovery signature is the key that made it and the rotation key it    *)
(* vouches for; the identity it also covers is the only one modelled.      *)
Signature == [by : Keys \cup {NoKey}, for : Keys \cup {NoKey}]

Bound == [revoked_key : Keys, signature : Nat, leaf_count : Nat]

Document ==
  [hash : 1..MaxRank, rotation_keys : SUBSET Keys, signing_keys : SUBSET Keys,
   revocation_bounds : SUBSET Bound, recovery_key : Keys \cup {NoKey},
   recovery_signature : Signature, rest : Nat]

ASSUME RankAssumption == MaxRank \in Nat /\ Keys \subseteq 1..MaxRank

ASSUME DocsAssumption ==
  /\ Docs \subseteq Document
  /\ \A d, e \in Docs : d.hash = e.hash => d = e

(* An identity event as received.  `intact' is the outcome of the checks   *)
(* of preprocess_candidate: the key names this identity and the IDENTITY   *)
(* collection, the content is an identity document, signature and digest   *)
(* verify.                                                                 *)
Candidate ==
  [sequence : Nat \ {0}, signer : Keys, document : Docs, intact : BOOLEAN]

-----------------------------------------------------------------------------
(* Rules on documents.                                                     *)

authorizes_rotation(doc, pk) == pk \in doc.rotation_keys

authorizes_signer(doc, pk) == pk \in doc.rotation_keys \cup doc.signing_keys

(* revocation_target_for: the bounds recorded for a revoked signer.  A     *)
(* document carries at most one per key.                                   *)
revocation_targets(doc, pk) ==
  {b \in doc.revocation_bounds : b.revoked_key = pk}

(* The fields of IdentityContent: everything but the recovery signature.   *)
IdentityContent(doc) ==
  <<doc.rotation_keys, doc.signing_keys, doc.revocation_bounds,
    doc.recovery_key, doc.rest>>

is_republish(from, to) ==
  /\ authorizes_signer(from.document, to.signer)
  /\ IdentityContent(from.document) = IdentityContent(to.document)

(* The recovery key of the head vouches for the candidate's signer.        *)
is_recovery(head, candidate) ==
  /\ authorizes_rotation(candidate.document, candidate.signer)
  /\ head.document.recovery_key # NoKey
  /\ candidate.document.recovery_signature =
       [by |-> head.document.recovery_key, for |-> candidate.signer]

(* SuccessionReason, from lowest to highest precedence; None: rejected.    *)
None == 0
Republish == 1
Recovery == 2
Rotation == 3

justify_succession(head, candidate) ==
  IF authorizes_rotation(head.document, candidate.signer) THEN Rotation
  ELSE IF is_republish(head, candidate) THEN Republish
  ELSE IF is_recovery(head, candidate) THEN Recovery
  ELSE None

-----------------------------------------------------------------------------
(* Choosing among the valid candidates: a total order, and the maximum.    *)

(* compare_signers(a, b) is Less.                                          *)
signer_precedes(a, b) == a.signer < b.signer

(* Slips: the reason, or the signer, left out of the comparison.           *)
successor_precedes_no_reason(head, a, b) ==
  \/ a.signer < b.signer
  \/ a.signer = b.signer /\ a.document.hash < b.document.hash

successor_precedes_no_signer(head, a, b) ==
  justify_succession(head, a) < justify_succession(head, b)

(* compare_successors(a, b) is Less, for two candidates with the sequence  *)
(* number after the head's: by reason, then signer, then document hash.    *)
successor_precedes(head, a, b) ==
  LET ra == justify_succession(head, a)
      rb == justify_succession(head, b)
  IN \/ ra < rb
     \/ ra = rb /\ a.signer < b.signer
     \/ ra = rb /\ a.signer = b.signer /\ a.document.hash < b.document.hash

(* Iterator::max_by over the elements of s at the indices I: of several    *)
(* maximal elements the last one.                                          *)
max_by(s, I, precedes(_, _)) ==
  s[CHOOSE i \in I : \A j \in I : /\ ~ precedes(s[i], s[j])
                                  /\ j > i => precedes(s[j], s[i])]

-----------------------------------------------------------------------------
(* resolve_chain: the chain is the sequence of identity events chosen, the *)
(* genesis first; it is empty where the code returns None.                 *)

GenesisIndices(s) ==
  {i \in DOMAIN s : /\ s[i].intact
                    /\ s[i].sequence = 1
                    /\ s[i].document.hash = Identity
                    /\ authorizes_rotation(s[i].document, s[i].signer)}

Genesis(s) ==
  IF GenesisIndices(s) = {} THEN <<>>
  ELSE <<max_by(s, GenesisIndices(s), signer_precedes)>>

SuccessorIndices(s, head) ==
  {i \in DOMAIN s : /\ s[i].intact
                    /\ s[i].sequence = head.sequence + 1
                    /\ justify_succession(head, s[i]) # None}

(* Slip: the arrival order decides, the newest valid candidate wins.       *)
ExtendLatest(s, chain) ==
  IF chain = <<>> \/ SuccessorIndices(s, Last(chain)) = {} THEN chain
  ELSE Append(chain, s[CHOOSE i \in SuccessorIndices(s, Last(chain)) :
                         \A j \in SuccessorIndices(s, Last(chain)) : j <= i])

(* One turn of the loop: append the preferred successor of the head.       *)
Extend(s, chain) ==
  IF chain = <<>> \/ SuccessorIndices(s, Last(chain)) = {} THEN chain
  ELSE LET head == Last(chain)
           precedes(a, b) == successor_precedes(head, a, b)
       IN Append(chain, max_by(s, SuccessorIndices(s, head), precedes))

(* The chain after at most n turns.  No chain is longer than the number of *)
(* candidates, so that many turns reach the loop's break.                  *)
Walk(s) ==
  LET walk[n \in Nat] == IF n = 0 THEN Genesis(s) ELSE Extend(s, walk[n - 1])
  IN walk

resolve_chain(s) == Walk(s)[Cardinality(ToSet(s))]

-----------------------------------------------------------------------------
(* What a resolved chain must be, stated over the set S of candidates      *)
(* without reference to an order of arrival.                               *)

IsGenesisIn(S, c) ==
  /\ c \in S /\ c.intact /\ c.sequence = 1 /\ c.document.hash = Identity
  /\ c.signer \in c.document.rotation_keys

(* The candidates of S that may follow c.                                  *)
Followers(S, c) ==
  {d \in S : /\ d.intact /\ d.sequence = c.sequence + 1
             /\ justify_succession(c, d) # None}

IsResolution(chain, S) ==
  IF chain = <<>> THEN ~ \E c \in S : IsGenesisIn(S, c)
  ELSE /\ IsGenesisIn(S, chain[1])
       /\ \A c \in S : IsGenesisIn(S, c) => c.signer <= chain[1].signer
       /\ \A n \in 2..Len(chain) :
            /\ chain[n] \in Followers(S, chain[n - 1])
            /\ \A c \in Followers(S, chain[n - 1]) \ {chain[n]} :
                 successor_precedes(chain[n - 1], c, chain[n])
       /\ Followers(S, Last(chain)) = {}
=============================================================================
