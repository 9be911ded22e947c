-------------------------- MODULE ChainStoreProofs --------------------------
(***************************************************************************)
(* The chain a replica resolves from the events it holds.                  *)
(***************************************************************************)
EXTENDS ChainStore, IdentityChainProofs

-----------------------------------------------------------------------------
(* The events a replica holds.                                             *)

(* The replica holds at most one event per event key, as insert_at and the *)
(* unique key of the events table enforce.                                 *)
THEOREM StoreTyped == Spec => []TypeOK
<1>1. Init => TypeOK
  BY DEF Init, TypeOK
<1>2. TypeOK /\ [Next]_stored => TypeOK'
  <2> SUFFICES ASSUME TypeOK, [Next]_stored PROVE TypeOK'
    OBVIOUS
  <2>1. CASE UNCHANGED stored
    BY <2>1 DEF TypeOK
  <2>2. ASSUME NEW c \in Candidates, Arrive(c) PROVE TypeOK'
    <3>1. /\ stored \in Seq(Candidates)
          /\ \A i, j \in DOMAIN stored : SameKey(stored[i], stored[j]) => i = j
      BY DEF TypeOK
    <3>2. stored' = Append(stored, c) /\ stored' \in Seq(Candidates)
      BY <2>2, <3>1 DEF Arrive
    <3>3. \A i \in DOMAIN stored : ~ SameKey(stored[i], c)
      BY <2>2 DEF Arrive, HoldsKeyOf
    <3>4. ASSUME NEW i \in DOMAIN stored', NEW j \in DOMAIN stored',
                 SameKey(stored'[i], stored'[j])
          PROVE  i = j
      <4>1. /\ \A k \in DOMAIN stored : stored'[k] = stored[k]
            /\ stored'[Len(stored) + 1] = c
            /\ DOMAIN stored' = DOMAIN stored \cup {Len(stored) + 1}
        BY <3>1, <3>2
      <4> QED BY <3>1, <3>3, <3>4, <4>1 DEF SameKey
    <3> QED BY <3>2, <3>4 DEF TypeOK
  <2> QED BY <2>1, <2>2 DEF Next
<1> QED BY <1>1, <1>2, PTL DEF Spec

(* In every reachable state of a replica, exchanging two arrivals leaves   *)
(* the chain it resolves as it is.                                         *)
THEOREM StoreOrderIndependent == Spec => []OrderIndependent
<1>1. TypeOK => OrderIndependent
  <2> SUFFICES ASSUME TypeOK, NEW i \in 1..(Len(stored) - 1)
               PROVE  resolve_chain(Swapped(i)) = resolve_chain(stored)
    BY DEF OrderIndependent
  <2>1. stored \in Seq(Candidate)
    BY CandidatesAssumption DEF TypeOK
  <2>2. /\ i \in DOMAIN stored /\ i + 1 \in DOMAIN stored
        /\ DOMAIN Swapped(i) = DOMAIN stored /\ Swapped(i) \in Seq(Candidate)
    BY <2>1 DEF Swapped
  <2>3. ToSet(Swapped(i)) = ToSet(stored)
    <3>1. /\ Swapped(i)[i] = stored[i + 1]
          /\ Swapped(i)[i + 1] = stored[i]
          /\ \A k \in DOMAIN stored : k # i /\ k # i + 1 => Swapped(i)[k] = stored[k]
      BY <2>1, <2>2 DEF Swapped
    <3>2. ASSUME NEW k \in DOMAIN stored PROVE stored[k] \in ToSet(Swapped(i))
      BY <2>2, <3>1 DEF ToSet
    <3>3. ASSUME NEW k \in DOMAIN stored PROVE Swapped(i)[k] \in ToSet(stored)
      BY <2>2, <3>1 DEF ToSet
    <3> QED BY <2>2, <3>2, <3>3 DEF ToSet
  <2> QED BY <2>1, <2>2, <2>3, ResolveDependsOnSet
<1> QED BY <1>1, StoreTyped, PTL

-----------------------------------------------------------------------------
(* What is resolved.                                                       *)

(* In every reachable state the loop of resolve_chain has computed the     *)
(* chain that IsResolution describes from the events held.                 *)
THEOREM StoreResolves == Spec => []ResolvesReference
<1>1. TypeOK => ResolvesReference
  <2>1. TypeOK => stored \in Seq(Candidate)
    BY CandidatesAssumption DEF TypeOK
  <2> QED BY <2>1, ResolveIsResolution DEF ResolvesReference, Chain
<1> QED BY <1>1, StoreTyped, PTL

(* A rotation by a key of the head's document beats every republication    *)
(* and recovery, in every reachable state of a replica.                    *)
THEOREM RotationsStand == Spec => []RotationNotSwallowed
<1>1. TypeOK => RotationNotSwallowed
  <2> DEFINE S == ToSet(stored)
             chain == Chain
  <2> SUFFICES ASSUME TypeOK, NEW n \in 1..Len(chain), NEW c \in S,
                      c.intact, c.sequence = n + 1,
                      c.signer \in chain[n].document.rotation_keys
               PROVE  /\ Len(chain) > n
                      /\ chain[n + 1].signer \in chain[n].document.rotation_keys
    BY DEF RotationNotSwallowed
  <2>1. stored \in Seq(Candidate)
    BY CandidatesAssumption DEF TypeOK
  <2>2. \/ chain = <<>>
        \/ Grown(S, chain) /\ Followers(S, Last(chain)) = {}
    BY <2>1, ResolvedChain DEF Chain
  <2>3. chain # <<>>
    <3> HIDE DEF chain
    <3> QED OBVIOUS
  <2> HIDE DEF chain, S
  <2>4. Grown(S, chain) /\ Followers(S, Last(chain)) = {}
    BY <2>2, <2>3
  <2>5. chain \in Seq(S) /\ Len(chain) \in Nat /\ n \in Nat /\ chain[n].sequence = n
    BY <2>4 DEF Grown
  <2>6. justify_succession(chain[n], c) = Rotation
    BY DEF justify_succession, authorizes_rotation
  <2>7. c \in Followers(S, chain[n])
    BY <2>5, <2>6 DEF Followers, Rotation, None
  <2>8. n < Len(chain)
    <3>1. n # Len(chain)
      BY <2>4, <2>7 DEF Last
    <3> QED BY <2>5, <3>1
  <2>9. n + 1 \in 2..Len(chain) /\ (n + 1) - 1 = n
    BY <2>5, <2>8
  <2>10. \/ c = chain[n + 1]
         \/ successor_precedes(chain[n], c, chain[n + 1])
    BY <2>4, <2>7, <2>9 DEF Grown
  <2>11. justify_succession(chain[n], chain[n + 1]) = Rotation
    <3>1. justify_succession(chain[n], chain[n + 1]) \in 0..3
      BY ReasonRange
    <3> QED BY <2>6, <2>10, <3>1 DEF successor_precedes, Rotation
  <2>12. authorizes_rotation(chain[n].document, chain[n + 1].signer)
    BY <2>11 DEF justify_succession, Rotation, Republish, Recovery, None
  <2> QED BY <2>5, <2>8, <2>12 DEF authorizes_rotation
<1> QED BY <1>1, StoreTyped, PTL

(* What may follow an event only grows with the events held.               *)
LEMMA MoreFollow ==
  ASSUME NEW S, NEW T, S \subseteq T, NEW c
  PROVE  Followers(S, c) \subseteq Followers(T, c)
BY DEF Followers

(* A replica that holds more events resolves the same chain or a better    *)
(* one.                                                                    *)
LEMMA MoreEventsImprove ==
  ASSUME NEW s \in Seq(Candidate), NEW t \in Seq(Candidate), ToSet(s) \subseteq ToSet(t)
  PROVE  resolve_chain(t) = resolve_chain(s) \/ Improves(resolve_chain(s), resolve_chain(t))
<1> DEFINE S == ToSet(s)
           T == ToSet(t)
           old == resolve_chain(s)
           new == resolve_chain(t)
           D == {n \in 1..Len(new) : n > Len(old) \/ (n <= Len(old) /\ old[n] # new[n])}
<1>1. \/ old = <<>> /\ ~ \E c \in S : IsGenesisIn(S, c)
      \/ Grown(S, old) /\ Followers(S, Last(old)) = {}
  BY ResolvedChain
<1>2. \/ new = <<>> /\ ~ \E c \in T : IsGenesisIn(T, c)
      \/ Grown(T, new) /\ Followers(T, Last(new)) = {}
  BY ResolvedChain
<1>3. S \subseteq T /\ S \subseteq Candidate /\ T \subseteq Candidate
  <2>1. S \subseteq T
    OBVIOUS
  <2>2. S \subseteq Candidate
    BY DEF ToSet
  <2>3. T \subseteq Candidate
    BY DEF ToSet
  <2> QED BY <2>1, <2>2, <2>3
<1>4. \A c \in S : IsGenesisIn(S, c) => IsGenesisIn(T, c)
  BY <1>3 DEF IsGenesisIn
<1> HIDE DEF S, T, old, new
<1>5. /\ old \in Seq(S) /\ Len(old) \in Nat
      /\ new \in Seq(T) /\ Len(new) \in Nat
  <2>0. \A X : <<>> \in Seq(X)
    OBVIOUS
  <2>1. old \in Seq(S)
    BY <1>1, <2>0, Zenon DEF Grown
  <2>2. new \in Seq(T)
    BY <1>2, <2>0, Zenon DEF Grown
  <2> QED BY <2>1, <2>2
<1>6. CASE D = {}
  <2>0. Len(new) <= Len(old)
    <3>1. Len(new) \notin D
      BY <1>6
    <3> QED BY <1>5, <3>1
  <2>1. Len(new) <= Len(old) /\ \A n \in 1..Len(new) : old[n] = new[n]
    <3>1. ASSUME NEW n \in 1..Len(new) PROVE old[n] = new[n]
      <4>1. n \notin D /\ n <= Len(old)
        BY <1>5, <1>6, <2>0
      <4> QED BY <4>1
    <3> QED BY <2>0, <3>1
  <2>2. CASE new = <<>>
    <3>1. old = <<>>
      BY <1>1, <1>2, <1>4, <2>2 DEF Grown, IsGenesisIn
    <3> QED BY <2>2, <3>1 DEF old, new
  <2>3. CASE new # <<>> /\ Len(new) < Len(old)
    <3> DEFINE k == Len(new)
    <3>1. /\ k \in 1..Len(new) /\ k + 1 \in 2..Len(old) /\ (k + 1) - 1 = k
          /\ old[k] = Last(new) /\ old # <<>>
      BY <1>5, <2>1, <2>3 DEF Last
    <3>2. old[k + 1] \in Followers(S, old[k])
      BY <1>1, <3>1 DEF Grown
    <3>3. Followers(T, Last(new)) = {}
      BY <1>2, <2>3
    <3> QED BY <1>3, <3>1, <3>2, <3>3, MoreFollow
  <2>4. CASE Len(new) = Len(old)
    <3>1. old = new
      BY <1>5, <2>1, <2>4
    <3> QED BY <3>1 DEF old, new
  <2> QED BY <1>5, <2>1, <2>2, <2>3, <2>4
<1>7. CASE D # {}
  <2>1. PICK n \in D : \A m \in D : n <= m
    <3>1. D \subseteq Nat
      OBVIOUS
    <3>2. PICK n \in D : \A m \in D : ~ (<<m, n>> \in OpToRel(<, Nat))
      <4> HIDE DEF D
      <4> QED BY <1>7, <3>1, NatLessThanWellFounded, WFMin
    <3>3. ASSUME NEW m \in D PROVE n <= m
      <4>1. m \in Nat /\ n \in Nat
        BY <3>1
      <4>2. ~ (m < n)
        BY <3>2, <4>1 DEF OpToRel
      <4> QED BY <4>1, <4>2
    <3> QED BY <3>3
  <2>2. /\ n \in 1..Len(new) /\ n \in Nat
        /\ n > Len(old) \/ (n <= Len(old) /\ old[n] # new[n])
    OBVIOUS
  <2>3. \A m \in 1..(n - 1) : m \in 1..Len(old) /\ old[m] = new[m]
    <3> TAKE m \in 1..(n - 1)
    <3>1. m \notin D /\ m \in 1..Len(new)
      BY <1>5, <2>1, <2>2
    <3> QED BY <1>5, <3>1
  <2>4. n <= Len(old) + 1
    <3>1. CASE n = 1
      BY <1>5, <3>1
    <3>2. CASE n # 1
      <4>1. n - 1 \in 1..(n - 1)
        BY <2>2, <3>2
      <4>2. n - 1 \in 1..Len(old)
        BY <2>3, <4>1
      <4> QED BY <1>5, <2>2, <4>2
    <3> QED BY <3>1, <3>2
  <2>5. SubSeq(old, 1, n - 1) = SubSeq(new, 1, n - 1)
    <3>1. /\ SubSeq(old, 1, n - 1) = [m \in 1..(n - 1) |-> old[m]]
          /\ SubSeq(new, 1, n - 1) = [m \in 1..(n - 1) |-> new[m]]
      BY <1>5, <2>2, <2>4
    <3> QED BY <2>3, <3>1
  <2>6. Grown(T, new)
    BY <1>2, <1>5, <2>2
  <2>7. ASSUME n <= Len(old)
        PROVE  IF n = 1 THEN signer_precedes(old[1], new[1])
               ELSE successor_precedes(old[n - 1], old[n], new[n])
    <3>1. Grown(S, old) /\ old[n] # new[n]
      BY <1>1, <1>5, <2>2, <2>7
    <3>2. CASE n = 1
      <4>1. /\ IsGenesisIn(S, old[1]) /\ IsGenesisIn(T, new[1]) /\ IsGenesisIn(T, old[1])
            /\ old[1] \in Candidate /\ new[1] \in Candidate
        BY <1>3, <1>4, <2>6, <3>1 DEF Grown, IsGenesisIn
      <4>2. old[1].signer <= new[1].signer
        BY <2>6, <4>1 DEF Grown, IsGenesisIn
      <4>3. old[1].signer # new[1].signer
        <5>1. /\ old[1].sequence = new[1].sequence
              /\ old[1].document.hash = new[1].document.hash
              /\ old[1].intact /\ new[1].intact
          BY <4>1 DEF IsGenesisIn
        <5>2. old[1].intact = new[1].intact
          <6>1. old[1].intact \in BOOLEAN /\ new[1].intact \in BOOLEAN
            BY <4>1, CandidateFields
          <6> QED BY <5>1, <6>1
        <5> QED BY <3>1, <3>2, <4>1, <5>1, <5>2, SameCandidate
      <4>4. old[1].signer \in Nat /\ new[1].signer \in Nat
        BY <4>1, CandidateFields
      <4> QED BY <3>2, <4>2, <4>3, <4>4 DEF signer_precedes
    <3>3. CASE n # 1
      <4>1. n \in 2..Len(old) /\ n \in 2..Len(new) /\ n - 1 \in 1..(n - 1)
        BY <1>5, <2>2, <2>7, <3>3
      <4>2. old[n - 1] = new[n - 1]
        BY <2>3, <4>1
      <4>3. old[n] \in Followers(T, new[n - 1])
        BY <1>3, <3>1, <4>1, <4>2, MoreFollow DEF Grown
      <4>4. successor_precedes(new[n - 1], old[n], new[n])
        BY <2>6, <3>1, <4>1, <4>3 DEF Grown
      <4> QED BY <3>3, <4>2, <4>4
    <3> QED BY <3>2, <3>3
  <2>8. Improves(old, new)
    BY <2>2, <2>4, <2>5, <2>7 DEF Improves
  <2> QED BY <2>8 DEF old, new
<1> QED BY <1>6, <1>7

(* Every arrival leaves the chain of a replica as it is or improves it.    *)
THEOREM ChainsOnlyImprove == Spec => []OnlyImproves
<1>1. TypeOK => OnlyImproves
  <2> SUFFICES ASSUME TypeOK, stored # <<>>
               PROVE  \/ Chain = resolve_chain(Front(stored))
                      \/ Improves(resolve_chain(Front(stored)), Chain)
    BY DEF OnlyImproves
  <2>1. stored \in Seq(Candidate)
    BY CandidatesAssumption DEF TypeOK
  <2>2. /\ Front(stored) \in Seq(Candidate)
        /\ \A i \in DOMAIN Front(stored) : i \in DOMAIN stored /\ Front(stored)[i] = stored[i]
    BY <2>1 DEF Front
  <2>3. ToSet(Front(stored)) \subseteq ToSet(stored)
    BY <2>2 DEF ToSet
  <2> QED BY <2>1, <2>2, <2>3, MoreEventsImprove DEF Chain
<1> QED BY <1>1, StoreTyped, PTL
=============================================================================
