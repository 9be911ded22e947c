----------------------------- MODULE ChainStore -----------------------------
(***************************************************************************)
(* The identity events one replica holds - a client's event store or a     *)
(* server's events table - as they arrive, in any order, from syncs with   *)
(* other replicas; and the chain resolved from them.  Both stores keep the *)
(* first event they see for an event key and ignore a later one.           *)
(***************************************************************************)
EXTENDS IdentityChain

CONSTANT Candidates   \* the identity events in circulation

ASSUME CandidatesAssumption == Candidates \subseteq Candidate

VARIABLE stored       \* the events held, in order of arrival

Init == stored = <<>>

(* The key of an identity event of this identity.                          *)
SameKey(c, d) == c.sequence = d.sequence /\ c.signer = d.signer

(* Slip: the unique key is not enforced, nor are exact copies.             *)
HoldsNothing(c) == FALSE

(* An event with the key of c is already held: EventStore::insert_at finds *)
(* the entry occupied, the INSERT hits events' unique key.                 *)
HoldsKeyOf(c) == \E i \in DOMAIN stored : SameKey(stored[i], c)

Arrive(c) ==
  /\ ~ HoldsKeyOf(c)
  /\ stored' = Append(stored, c)

Next == \E c \in Candidates : Arrive(c)

Spec == Init /\ [][Next]_stored

Chain == resolve_chain(stored)

-----------------------------------------------------------------------------
(* Properties.                                                             *)

(* The replica holds well-formed events, at most one per event key.        *)
TypeOK ==
  /\ stored \in Seq(Candidates)
  /\ \A i, j \in DOMAIN stored : SameKey(stored[i], stored[j]) => i = j

(* stored, had the events i and i + 1 arrived in each other's place.       *)
Swapped(i) == [stored EXCEPT ![i] = stored[i + 1], ![i + 1] = stored[i]]

(* Exchanging two arrivals leaves the resolved chain as it is: replicas    *)
(* that hold the same events agree on the chain, whatever way the events   *)
(* reached them (a client iterates its store by key, a server's query      *)
(* leaves the order within a sequence number open).                        *)
OrderIndependent ==
  \A i \in 1..(Len(stored) - 1) :
    resolve_chain(Swapped(i)) = resolve_chain(stored)

(* The loop of resolve_chain computes the chain described by IsResolution: *)
(* every link justified and preferred to every rival, and nothing that     *)
(* could still extend the chain.                                           *)
ResolvesReference == IsResolution(Chain, ToSet(stored))

(* A rotation is never swallowed by a signing key that republishes the     *)
(* document, nor by a recovery: where a rotation key of the document at    *)
(* n - 1 has an event at n, the chain's event at n is by a rotation key.   *)
RotationNotSwallowed ==
  LET chain == Chain
  IN \A n \in 1..Len(chain) : \A c \in ToSet(stored) :
       (/\ c.intact
        /\ c.sequence = n + 1
        /\ c.signer \in chain[n].document.rotation_keys)
       => /\ Len(chain) > n
          /\ chain[n + 1].signer \in chain[n].document.rotation_keys

(* Where two chains first differ, the new one holds the preferred event.   *)
Improves(old, new) ==
  \E n \in 1..Len(new) :
    /\ n <= Len(old) + 1
    /\ SubSeq(old, 1, n - 1) = SubSeq(new, 1, n - 1)
    /\ n <= Len(old) =>
         IF n = 1 THEN signer_precedes(old[1], new[1])
         ELSE successor_precedes(old[n - 1], old[n], new[n])

(* A late event may rewrite the end of the chain, but only for the better: *)
(* the chain after the last arrival is the chain before it or improves on  *)
(* it.  A replica never goes back to a chain it has left, so replicas      *)
(* cannot flip-flop while events keep arriving.                            *)
OnlyImproves ==
  stored # <<>> =>
    LET old == resolve_chain(Front(stored))
        new == Chain
    IN new = old \/ Improves(old, new)
=============================================================================
