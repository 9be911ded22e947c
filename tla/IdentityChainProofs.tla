------------------------ MODULE IdentityChainProofs ------------------------
(***************************************************************************)
(* What resolve_chain computes, for any events in any order.               *)
(***************************************************************************)
EXTENDS IdentityChain, FiniteSetTheorems, FunctionTheorems, WellFoundedInduction, TLAPS

-----------------------------------------------------------------------------
(* Facts about the natural numbers.                                        *)

(* A non-empty set of naturals with an upper bound has a greatest element. *)
LEMMA GreatestElement ==
  ASSUME NEW N \in Nat, NEW T \in SUBSET (0..N), T # {}
  PROVE  \E m \in T : \A n \in T : n <= m
<1> DEFINE U == {N - n : n \in T}
<1>1. U \subseteq Nat /\ U # {}
  <2>1. PICK n \in T : TRUE
    OBVIOUS
  <2>2. N - n \in U
    BY <2>1
  <2>3. ASSUME NEW i \in T PROVE N - i \in Nat
    <3>1. i \in 0..N
      OBVIOUS
    <3> QED BY <3>1
  <2> QED BY <2>2, <2>3
<1>2. PICK u \in U : \A v \in U : ~ (<<v, u>> \in OpToRel(<, Nat))
  <2> HIDE DEF U
  <2> QED BY <1>1, NatLessThanWellFounded, WFMin
<1>3. PICK m \in T : u = N - m
  OBVIOUS
<1>4. ASSUME NEW n \in T PROVE n <= m
  <2>1. ~ (N - n < N - m)
    <3>1. N - n \in U /\ u \in Nat /\ N - n \in Nat
      BY <1>1
    <3> QED BY <1>2, <1>3, <3>1 DEF OpToRel
  <2> QED BY <2>1, SMT
<1> QED BY <1>4

(* Induction, for a set of naturals.                                       *)
LEMMA NaturalSetInduction ==
  ASSUME NEW T \in SUBSET Nat, 0 \in T, \A n \in T : n + 1 \in T
  PROVE  T = Nat
<1> SUFFICES ASSUME T # Nat PROVE FALSE
  OBVIOUS
<1> DEFINE U == Nat \ T
<1>1. U \subseteq Nat /\ U # {}
  OBVIOUS
<1>2. PICK u \in U : \A v \in U : ~ (<<v, u>> \in OpToRel(<, Nat))
  <2> HIDE DEF U
  <2> QED BY <1>1, NatLessThanWellFounded, WFMin
<1>3. u \in Nat /\ u # 0 /\ u - 1 \in Nat
  OBVIOUS
<1>4. u - 1 \in T
  <2> SUFFICES ASSUME u - 1 \in U PROVE FALSE
    BY <1>3
  <2>1. ~ (u - 1 < u)
    BY <1>2, <1>3 DEF OpToRel
  <2> QED BY <1>3, <2>1
<1>5. (u - 1) + 1 = u
  BY <1>3
<1> QED BY <1>4, <1>5

-----------------------------------------------------------------------------
(* The candidates max_by chooses among, as sets.                           *)

GenesisSet(s) == {s[i] : i \in GenesisIndices(s)}

SuccessorSet(s, head) == {s[i] : i \in SuccessorIndices(s, head)}

(* Both depend on the set of candidates only.                              *)
LEMMA SetsOfCandidates ==
  ASSUME NEW s \in Seq(Candidate), NEW t \in Seq(Candidate), ToSet(s) = ToSet(t)
  PROVE  /\ GenesisSet(s) = GenesisSet(t)
         /\ \A head : SuccessorSet(s, head) = SuccessorSet(t, head)
<1>1. \A i \in DOMAIN s : \E j \in DOMAIN t : s[i] = t[j]
  BY DEF ToSet
<1>2. \A j \in DOMAIN t : \E i \in DOMAIN s : s[i] = t[j]
  BY DEF ToSet
<1>3. GenesisSet(s) = GenesisSet(t)
  BY <1>1, <1>2 DEF GenesisSet, GenesisIndices
<1>4. ASSUME NEW head PROVE SuccessorSet(s, head) = SuccessorSet(t, head)
  <2> DEFINE Valid(c) == /\ c.intact
                         /\ c.sequence = head.sequence + 1
                         /\ justify_succession(head, c) # None
  <2>1. SuccessorSet(s, head) = {s[i] : i \in {i \in DOMAIN s : Valid(s[i])}}
    BY DEF SuccessorSet, SuccessorIndices
  <2>2. SuccessorSet(t, head) = {t[i] : i \in {i \in DOMAIN t : Valid(t[i])}}
    BY DEF SuccessorSet, SuccessorIndices
  <2> HIDE DEF Valid
  <2> QED BY <1>1, <1>2, <2>1, <2>2, Zenon
<1> QED BY <1>3, <1>4

(* Of the indices of a sequence with a given value there is a last one.    *)
LEMMA LastIndex ==
  ASSUME NEW s \in Seq(Candidate), NEW I \in SUBSET DOMAIN s, NEW c,
         \E i \in I : s[i] = c
  PROVE  \E i \in I : s[i] = c /\ \A j \in I : s[j] = c => j <= i
<1> DEFINE T == {i \in I : s[i] = c}
<1>1. T \in SUBSET (0..Len(s)) /\ T # {} /\ Len(s) \in Nat
  OBVIOUS
<1>2. PICK m \in T : \A n \in T : n <= m
  <2> HIDE DEF T
  <2> QED BY <1>1, GreatestElement
<1> QED BY <1>2

(* Keys and hashes are bounded naturals.                                   *)
LEMMA CandidateFields ==
  ASSUME NEW c \in Candidate
  PROVE  /\ c.signer \in 0..MaxRank /\ c.signer \in Nat
         /\ c.document.hash \in 0..MaxRank /\ c.document.hash \in Nat
         /\ c.intact \in BOOLEAN /\ MaxRank \in Nat
<1>1. MaxRank \in Nat /\ Keys \subseteq 1..MaxRank
  BY RankAssumption
<1>2. c.signer \in Keys /\ c.document \in Docs /\ c.intact \in BOOLEAN
  BY DEF Candidate
<1>3. c.document \in Document
  BY <1>2, DocsAssumption
<1>4. c.document.hash \in 1..MaxRank
  BY <1>3 DEF Document
<1>5. c.signer \in 1..MaxRank
  BY <1>1, <1>2
<1> QED BY <1>1, <1>2, <1>4, <1>5

(* A candidate is determined by its sequence number, signer and document.  *)
LEMMA SameCandidate ==
  ASSUME NEW c \in Candidate, NEW d \in Candidate,
         c.sequence = d.sequence, c.signer = d.signer,
         c.document.hash = d.document.hash, c.intact = d.intact
  PROVE  c = d
<1>1. c.document = d.document
  BY DocsAssumption DEF Candidate
<1> QED BY <1>1 DEF Candidate

-----------------------------------------------------------------------------
(* Genesis.                                                                *)

(* Genesis(s) is the candidate of GenesisSet(s) with the greatest signer.  *)
LEMMA GenesisIsGreatest ==
  ASSUME NEW s \in Seq(Candidate), GenesisIndices(s) # {}
  PROVE  \E g \in GenesisSet(s) :
            /\ Genesis(s) = <<g>>
            /\ \A c \in GenesisSet(s) : c.signer <= g.signer
<1> DEFINE I == GenesisIndices(s)
           T == {s[i].signer : i \in I}
           Chosen(i) == \A j \in I : /\ ~ signer_precedes(s[i], s[j])
                                     /\ j > i => signer_precedes(s[j], s[i])
<1>0. \A i \in I : s[i] \in Candidate /\ i \in Nat
  BY DEF GenesisIndices
<1>1. T \in SUBSET (0..MaxRank) /\ T # {} /\ MaxRank \in Nat
  <2>1. \A i \in I : s[i].signer \in 0..MaxRank
    BY <1>0, CandidateFields
  <2>2. MaxRank \in Nat
    BY RankAssumption
  <2> QED BY <2>1, <2>2
<1>2. PICK m \in T : \A n \in T : n <= m
  <2> HIDE DEF T
  <2> QED BY <1>1, GreatestElement
<1>3. PICK k \in I : s[k].signer = m
  BY <1>2
<1>4. I \in SUBSET DOMAIN s
  BY DEF GenesisIndices
<1>5. PICK i \in I : s[i] = s[k] /\ \A j \in I : s[j] = s[k] => j <= i
  <2> HIDE DEF I
  <2> QED BY <1>3, <1>4, LastIndex
<1>6. \A j \in I : s[j].signer = m => s[j] = s[k]
  <2> SUFFICES ASSUME NEW j \in I, s[j].signer = m PROVE s[j] = s[k]
    OBVIOUS
  <2>1. /\ s[j] \in Candidate /\ s[k] \in Candidate
        /\ s[j].signer = s[k].signer
    BY <1>0, <1>3
  <2>2. /\ s[j].sequence = s[k].sequence
        /\ s[j].document.hash = s[k].document.hash
        /\ s[j].intact = s[k].intact
    BY <2>1, CandidateFields DEF GenesisIndices
  <2> QED BY <2>1, <2>2, SameCandidate
<1>7. Chosen(i)
  <2> SUFFICES ASSUME NEW j \in I
               PROVE  /\ ~ signer_precedes(s[i], s[j])
                      /\ j > i => signer_precedes(s[j], s[i])
    OBVIOUS
  <2>1. s[j].signer <= m /\ s[i].signer = m
    BY <1>2, <1>3, <1>5
  <2>2. s[j].signer \in Nat /\ m \in Nat /\ i \in Nat /\ j \in Nat
    BY <1>0, <1>1
  <2>3. s[j].signer = m => j <= i
    BY <1>5, <1>6
  <2> QED BY <2>1, <2>2, <2>3 DEF signer_precedes
<1>8. PICK r \in I : Chosen(r) /\ Genesis(s) = <<s[r]>>
  <2>1. Genesis(s) = <<s[CHOOSE x \in I : Chosen(x)]>>
    BY DEF Genesis, max_by
  <2> HIDE DEF Chosen, I
  <2> QED BY <1>7, <2>1
<1>9. \A c \in GenesisSet(s) : c.signer <= s[r].signer
  <2> SUFFICES ASSUME NEW j \in I PROVE s[j].signer <= s[r].signer
    BY DEF GenesisSet
  <2>1. ~ signer_precedes(s[r], s[j])
    BY <1>8
  <2>2. s[j].signer \in Nat /\ s[r].signer \in Nat
    BY <1>0, CandidateFields
  <2> QED BY <2>1, <2>2 DEF signer_precedes
<1> QED BY <1>8, <1>9 DEF GenesisSet

(* The genesis chosen depends on the set of candidates only.               *)
LEMMA GenesisOfSet ==
  ASSUME NEW s \in Seq(Candidate), NEW t \in Seq(Candidate), ToSet(s) = ToSet(t)
  PROVE  Genesis(s) = Genesis(t)
<1>1. GenesisSet(s) = GenesisSet(t)
  BY SetsOfCandidates
<1>2. CASE GenesisIndices(s) = {}
  BY <1>1, <1>2 DEF Genesis, GenesisSet
<1>3. CASE GenesisIndices(s) # {}
  <2>1. GenesisIndices(t) # {}
    BY <1>1, <1>3 DEF GenesisSet
  <2>2. PICK g \in GenesisSet(s) :
            /\ Genesis(s) = <<g>>
            /\ \A c \in GenesisSet(s) : c.signer <= g.signer
    BY <1>3, GenesisIsGreatest
  <2>3. PICK h \in GenesisSet(t) :
            /\ Genesis(t) = <<h>>
            /\ \A c \in GenesisSet(t) : c.signer <= h.signer
    BY <2>1, GenesisIsGreatest
  <2>4. /\ g \in Candidate /\ h \in Candidate
        /\ g.sequence = h.sequence /\ g.intact = h.intact
        /\ g.document.hash = h.document.hash
    <3>1. PICK i \in GenesisIndices(s) : g = s[i]
      BY DEF GenesisSet
    <3>2. PICK j \in GenesisIndices(t) : h = t[j]
      BY DEF GenesisSet
    <3>3. g \in Candidate /\ h \in Candidate
      BY <3>1, <3>2 DEF GenesisIndices
    <3>4. g.intact = h.intact
      BY <3>1, <3>2, <3>3, CandidateFields DEF GenesisIndices
    <3> QED BY <3>1, <3>2, <3>3, <3>4 DEF GenesisIndices
  <2>5. g.signer = h.signer
    <3>1. g.signer <= h.signer /\ h.signer <= g.signer
      BY <1>1, <2>2, <2>3
    <3>2. g.signer \in Nat /\ h.signer \in Nat
      BY <2>4, CandidateFields
    <3> QED BY <3>1, <3>2
  <2> QED BY <2>2, <2>3, <2>4, <2>5, SameCandidate
<1> QED BY <1>2, <1>3

-----------------------------------------------------------------------------
(* The preferred successor of a head.                                      *)

(* justify_succession returns one of the four reasons.                     *)
LEMMA ReasonRange ==
  ASSUME NEW head, NEW c
  PROVE  justify_succession(head, c) \in 0..3
BY DEF justify_succession, None, Republish, Recovery, Rotation

(* successor_precedes compares any two valid successors of a head: if      *)
(* neither precedes the other they are the same event.                     *)
LEMMA SuccessorsAreOrdered ==
  ASSUME NEW s \in Seq(Candidate), NEW t \in Seq(Candidate), NEW head,
         NEW c \in SuccessorSet(s, head), NEW d \in SuccessorSet(t, head),
         ~ successor_precedes(head, c, d), ~ successor_precedes(head, d, c)
  PROVE  c = d
<1>1. PICK i \in SuccessorIndices(s, head) : c = s[i]
  BY DEF SuccessorSet
<1>2. PICK j \in SuccessorIndices(t, head) : d = t[j]
  BY DEF SuccessorSet
<1>3. c \in Candidate /\ d \in Candidate
  BY <1>1, <1>2 DEF SuccessorIndices
<1>4. c.intact = d.intact /\ c.sequence = d.sequence
  <2>1. c.intact /\ d.intact
    BY <1>1, <1>2 DEF SuccessorIndices
  <2>2. c.sequence = head.sequence + 1 /\ d.sequence = head.sequence + 1
    BY <1>1, <1>2 DEF SuccessorIndices
  <2> QED BY <1>3, <2>1, <2>2, CandidateFields
<1>5. c.signer = d.signer /\ c.document.hash = d.document.hash
  <2>1. /\ c.signer \in Nat /\ d.signer \in Nat
        /\ c.document.hash \in Nat /\ d.document.hash \in Nat
    BY <1>3, CandidateFields
  <2>2. justify_succession(head, c) \in Nat /\ justify_succession(head, d) \in Nat
    BY ReasonRange
  <2> QED BY <2>1, <2>2 DEF successor_precedes
<1> QED BY <1>3, <1>4, <1>5, SameCandidate

(* Among the valid successors one is preceded by all others.               *)
LEMMA GreatestSuccessor ==
  ASSUME NEW s \in Seq(Candidate), NEW head, SuccessorIndices(s, head) # {}
  PROVE  \E c \in SuccessorSet(s, head) :
            \A d \in SuccessorSet(s, head) : ~ successor_precedes(head, c, d)
<1> DEFINE S == SuccessorSet(s, head)
           reason(c) == justify_succession(head, c)
           R == {reason(c) : c \in S}
<1>0. S # {} /\ \A c \in S : c \in Candidate
  BY DEF SuccessorSet, SuccessorIndices
<1>1. PICK r \in R : \A q \in R : q <= r
  <2>1. R \in SUBSET (0..3) /\ R # {} /\ 3 \in Nat
    BY <1>0, ReasonRange
  <2> HIDE DEF R
  <2> QED BY <2>1, GreatestElement
<1> DEFINE S1 == {c \in S : reason(c) = r}
           K == {c.signer : c \in S1}
<1>2. PICK k \in K : \A q \in K : q <= k
  <2>1. K \in SUBSET (0..MaxRank) /\ K # {} /\ MaxRank \in Nat
    <3>1. S1 # {}
      BY <1>1
    <3>2. \A c \in S1 : c.signer \in 0..MaxRank
      BY <1>0, CandidateFields
    <3>3. MaxRank \in Nat
      BY RankAssumption
    <3> HIDE DEF S1
    <3> QED BY <3>1, <3>2, <3>3
  <2> HIDE DEF K
  <2> QED BY <2>1, GreatestElement
<1> DEFINE S2 == {c \in S1 : c.signer = k}
           H == {c.document.hash : c \in S2}
<1>3. PICK h \in H : \A q \in H : q <= h
  <2>1. H \in SUBSET (0..MaxRank) /\ H # {} /\ MaxRank \in Nat
    <3>1. S2 # {}
      BY <1>2
    <3>2. \A c \in S2 : c.document.hash \in 0..MaxRank
      BY <1>0, CandidateFields
    <3>3. MaxRank \in Nat
      BY RankAssumption
    <3> HIDE DEF S2
    <3> QED BY <3>1, <3>2, <3>3
  <2> HIDE DEF H
  <2> QED BY <2>1, GreatestElement
<1>4. PICK c \in S2 : c.document.hash = h
  BY <1>3
<1>5. ASSUME NEW d \in S PROVE ~ successor_precedes(head, c, d)
  <2>1. reason(c) = r /\ c.signer = k /\ c.document.hash = h
    BY <1>4
  <2>2. reason(d) <= r
    BY <1>1
  <2>3. reason(d) = r => d.signer <= k
    BY <1>2
  <2>4. reason(d) = r /\ d.signer = k => d.document.hash <= h
    BY <1>3
  <2>5. /\ c \in Candidate /\ d \in Candidate
    BY <1>0, <1>4
  <2>6. /\ c.signer \in Nat /\ d.signer \in Nat
        /\ c.document.hash \in Nat /\ d.document.hash \in Nat
    BY <2>5, CandidateFields
  <2>7. justify_succession(head, c) \in Nat /\ justify_succession(head, d) \in Nat
    BY ReasonRange
  <2> HIDE DEF S, S1, S2
  <2> QED BY <2>1, <2>2, <2>3, <2>4, <2>6, <2>7 DEF successor_precedes
<1> QED BY <1>4, <1>5

(* Extend appends the valid successor that all others precede.             *)
LEMMA ExtendIsGreatest ==
  ASSUME NEW s \in Seq(Candidate), NEW chain, chain # <<>>,
         SuccessorIndices(s, Last(chain)) # {}
  PROVE  \E f \in SuccessorSet(s, Last(chain)) :
            /\ Extend(s, chain) = Append(chain, f)
            /\ \A d \in SuccessorSet(s, Last(chain)) :
                  ~ successor_precedes(Last(chain), f, d)
<1> DEFINE head == Last(chain)
           I == SuccessorIndices(s, head)
           Chosen(i) == \A j \in I :
                           /\ ~ successor_precedes(head, s[i], s[j])
                           /\ j > i => successor_precedes(head, s[j], s[i])
<1>0. I \in SUBSET DOMAIN s
  BY DEF SuccessorIndices
<1>1. PICK c \in SuccessorSet(s, head) :
         \A d \in SuccessorSet(s, head) : ~ successor_precedes(head, c, d)
  BY GreatestSuccessor
<1>2. PICK i \in I : s[i] = c /\ \A j \in I : s[j] = c => j <= i
  <2>1. \E i \in I : s[i] = c
    BY DEF SuccessorSet
  <2> HIDE DEF I
  <2> QED BY <1>0, <2>1, LastIndex
<1>3. Chosen(i)
  <2> SUFFICES ASSUME NEW j \in I
               PROVE  /\ ~ successor_precedes(head, s[i], s[j])
                      /\ j > i => successor_precedes(head, s[j], s[i])
    OBVIOUS
  <2>1. s[j] \in SuccessorSet(s, head)
    BY DEF SuccessorSet
  <2>2. ~ successor_precedes(head, s[i], s[j])
    BY <1>1, <1>2, <2>1
  <2>3. ~ successor_precedes(head, s[j], s[i]) => s[j] = c
    BY <1>2, <2>1, <2>2, SuccessorsAreOrdered
  <2>4. s[j] = c => ~ (j > i)
    <3>1. i \in Nat /\ j \in Nat
      BY <1>0
    <3> QED BY <1>2, <3>1
  <2> QED BY <2>2, <2>3, <2>4
<1>4. PICK r \in I : Chosen(r) /\ Extend(s, chain) = Append(chain, s[r])
  <2>1. Extend(s, chain) = Append(chain, s[CHOOSE x \in I : Chosen(x)])
    BY DEF Extend, max_by
  <2> HIDE DEF Chosen, I
  <2> QED BY <1>3, <2>1
<1>5. s[r] \in SuccessorSet(s, head)
  BY DEF SuccessorSet
<1>6. \A d \in SuccessorSet(s, head) : ~ successor_precedes(head, s[r], d)
  BY <1>4 DEF SuccessorSet
<1> QED BY <1>4, <1>5, <1>6

(* The successor appended depends on the set of candidates only.           *)
LEMMA ExtendOfSet ==
  ASSUME NEW s \in Seq(Candidate), NEW t \in Seq(Candidate), ToSet(s) = ToSet(t),
         NEW chain
  PROVE  Extend(s, chain) = Extend(t, chain)
<1> DEFINE head == Last(chain)
<1>1. SuccessorSet(s, head) = SuccessorSet(t, head)
  BY SetsOfCandidates
<1>2. SuccessorIndices(s, head) = {} <=> SuccessorIndices(t, head) = {}
  BY <1>1 DEF SuccessorSet
<1>3. CASE chain = <<>> \/ SuccessorIndices(s, head) = {}
  BY <1>2, <1>3 DEF Extend
<1>4. CASE chain # <<>> /\ SuccessorIndices(s, head) # {}
  <2>1. PICK f \in SuccessorSet(s, head) :
            /\ Extend(s, chain) = Append(chain, f)
            /\ \A d \in SuccessorSet(s, head) : ~ successor_precedes(head, f, d)
    BY <1>4, ExtendIsGreatest
  <2>2. PICK g \in SuccessorSet(t, head) :
            /\ Extend(t, chain) = Append(chain, g)
            /\ \A d \in SuccessorSet(t, head) : ~ successor_precedes(head, g, d)
    BY <1>2, <1>4, ExtendIsGreatest
  <2>3. f = g
    BY <1>1, <2>1, <2>2, SuccessorsAreOrdered
  <2> QED BY <2>1, <2>2, <2>3
<1> QED BY <1>3, <1>4

-----------------------------------------------------------------------------
(* The chain.                                                              *)

(* resolve_chain returns the same chain for any two enumerations of the    *)
(* same identity events, with or without repetitions: the replicas of an   *)
(* identity that hold the same events resolve the same chain.              *)
THEOREM ResolveDependsOnSet ==
  ASSUME NEW s \in Seq(Candidate), NEW t \in Seq(Candidate), ToSet(s) = ToSet(t)
  PROVE  resolve_chain(s) = resolve_chain(t)
<1>1. Genesis(s) = Genesis(t)
  BY GenesisOfSet
<1>2. \A chain : Extend(s, chain) = Extend(t, chain)
  BY ExtendOfSet
<1>3. Walk(s) = Walk(t)
  BY <1>1, <1>2, Zenon DEF Walk
<1> QED BY <1>3 DEF resolve_chain

-----------------------------------------------------------------------------
(* The loop.                                                               *)

(* The first n turns of the loop, as a function of the turn.               *)
Approximates(s, f, n) ==
  f = [i \in 0..n |-> IF i = 0 THEN Genesis(s) ELSE Extend(s, f[i - 1])]

(* Every number of turns has one.                                          *)
LEMMA ApproximationsExist ==
  ASSUME NEW s, NEW n \in Nat
  PROVE  \E f : Approximates(s, f, n)
<1> DEFINE T == {m \in Nat : \E f : Approximates(s, f, m)}
<1>1. 0 \in T
  <2> DEFINE f == [i \in 0..0 |-> Genesis(s)]
  <2>1. Approximates(s, f, 0)
    BY DEF Approximates
  <2> QED BY <2>1
<1>2. ASSUME NEW m \in T PROVE m + 1 \in T
  <2>1. PICK f : Approximates(s, f, m)
    OBVIOUS
  <2> DEFINE g == [i \in 0..(m + 1) |-> IF i <= m THEN f[i] ELSE Extend(s, f[m])]
  <2>2. ASSUME NEW i \in 0..(m + 1)
        PROVE  g[i] = IF i = 0 THEN Genesis(s) ELSE Extend(s, g[i - 1])
    <3>0. m \in Nat
      OBVIOUS
    <3>1. CASE i = 0
      <4>1. g[i] = f[0] /\ 0 \in 0..m
        BY <3>0, <3>1
      <4> QED BY <2>1, <3>1, <4>1 DEF Approximates
    <3>2. CASE i # 0 /\ i <= m
      <4>1. i \in 0..m /\ i - 1 \in 0..m /\ i - 1 \in 0..(m + 1) /\ i - 1 <= m
        BY <3>0, <3>2
      <4>2. g[i] = f[i] /\ g[i - 1] = f[i - 1]
        BY <3>2, <4>1
      <4> QED BY <2>1, <3>2, <4>1, <4>2 DEF Approximates
    <3>3. CASE i = m + 1
      <4>1. i # 0 /\ ~ (i <= m) /\ i - 1 = m /\ m \in 0..(m + 1) /\ m <= m
        BY <3>0, <3>3
      <4>2. g[i] = Extend(s, f[m]) /\ g[i - 1] = f[m]
        BY <4>1
      <4> QED BY <4>1, <4>2
    <3> QED BY <3>0, <3>1, <3>2, <3>3
  <2>3. Approximates(s, g, m + 1)
    <3> DEFINE h == [i \in 0..(m + 1) |-> IF i = 0 THEN Genesis(s) ELSE Extend(s, g[i - 1])]
    <3>1. g = h
      <4> SUFFICES ASSUME NEW i \in 0..(m + 1) PROVE g[i] = h[i]
        OBVIOUS
      <4>1. h[i] = IF i = 0 THEN Genesis(s) ELSE Extend(s, g[i - 1])
        OBVIOUS
      <4> QED BY <2>2, <4>1
    <3> HIDE DEF g
    <3> QED BY <3>1 DEF Approximates
  <2> QED BY <2>3
<1>3. T = Nat
  <2>1. T \in SUBSET Nat
    OBVIOUS
  <2> HIDE DEF T
  <2> QED BY <1>1, <1>2, <2>1, NaturalSetInduction
<1> QED BY <1>3

(* Any two agree where both are defined.                                   *)
LEMMA ApproximationsAgree ==
  ASSUME NEW s, NEW i \in Nat
  PROVE  \A m, n \in Nat : \A f, g :
           /\ Approximates(s, f, m) /\ Approximates(s, g, n)
           /\ i <= m /\ i <= n
           => f[i] = g[i]
<1> DEFINE P(k) == \A m, n \in Nat : \A f, g :
                      /\ Approximates(s, f, m) /\ Approximates(s, g, n)
                      /\ k <= m /\ k <= n
                      => f[k] = g[k]
           T == {k \in Nat : P(k)}
<1>1. 0 \in T
  <2> SUFFICES ASSUME NEW m \in Nat, NEW n \in Nat, NEW f, NEW g,
                      Approximates(s, f, m), Approximates(s, g, n)
               PROVE  f[0] = g[0]
    OBVIOUS
  <2>1. 0 \in 0..m /\ 0 \in 0..n
    OBVIOUS
  <2> QED BY <2>1 DEF Approximates
<1>2. ASSUME NEW k \in T PROVE k + 1 \in T
  <2>1. k \in Nat /\ P(k)
    OBVIOUS
  <2> SUFFICES ASSUME NEW m \in Nat, NEW n \in Nat, NEW f, NEW g,
                      Approximates(s, f, m), Approximates(s, g, n),
                      k + 1 <= m, k + 1 <= n
               PROVE  f[k + 1] = g[k + 1]
    BY <2>1
  <2>2. /\ k <= m /\ k <= n /\ k + 1 # 0 /\ (k + 1) - 1 = k
        /\ k + 1 \in 0..m /\ k + 1 \in 0..n
    BY <2>1
  <2>3. f[k] = g[k]
    BY <2>1, <2>2
  <2>4. f[k + 1] = Extend(s, f[k]) /\ g[k + 1] = Extend(s, g[k])
    BY <2>2 DEF Approximates
  <2> QED BY <2>3, <2>4
<1>3. T = Nat
  <2>1. T \in SUBSET Nat
    OBVIOUS
  <2> HIDE DEF T
  <2> QED BY <1>1, <1>2, <2>1, NaturalSetInduction
<1> QED BY <1>3

(* The recursive function Walk(s) satisfies its defining equation: turn    *)
(* n + 1 of the loop extends the chain of turn n.                          *)
LEMMA WalkUnfolds ==
  ASSUME NEW s
  PROVE  /\ Walk(s)[0] = Genesis(s)
         /\ \A n \in Nat : Walk(s)[n + 1] = Extend(s, Walk(s)[n])
<1> DEFINE a(n) == CHOOSE f : Approximates(s, f, n)
           h == [n \in Nat |-> a(n)[n]]
           Body(w) == [n \in Nat |-> IF n = 0 THEN Genesis(s) ELSE Extend(s, w[n - 1])]
<1>1. ASSUME NEW n \in Nat PROVE Approximates(s, a(n), n)
  BY ApproximationsExist
<1>2. ASSUME NEW n \in Nat
      PROVE  h[n] = IF n = 0 THEN Genesis(s) ELSE Extend(s, h[n - 1])
  <2>1. h[n] = a(n)[n] /\ n \in 0..n
    OBVIOUS
  <2>2. CASE n = 0
    <3> HIDE DEF a
    <3> QED BY <1>1, <2>1, <2>2 DEF Approximates
  <2>3. CASE n # 0
    <3>1. n - 1 \in Nat /\ n - 1 <= n - 1 /\ n - 1 <= n
      BY <2>3
    <3> DEFINE k == n - 1
               b == a(k)
               c == a(n)
    <3>2. Approximates(s, b, k) /\ Approximates(s, c, n)
      BY <1>1, <3>1
    <3>3. b[k] = c[k]
      <4>1. k \in Nat /\ k <= k /\ k <= n
        BY <3>1
      <4> HIDE DEF b, c, k
      <4> QED BY <3>2, <4>1, ApproximationsAgree
    <3>4. c[n] = Extend(s, c[k])
      <4> HIDE DEF c
      <4> QED BY <2>1, <2>3, <3>2 DEF Approximates
    <3>5. h[n - 1] = b[k]
      BY <3>1
    <3> HIDE DEF a, h
    <3> QED BY <2>1, <2>3, <3>3, <3>4, <3>5
  <2> QED BY <2>2, <2>3
<1>3. h = Body(h)
  <2> SUFFICES ASSUME NEW n \in Nat PROVE h[n] = Body(h)[n]
    OBVIOUS
  <2>1. Body(h)[n] = IF n = 0 THEN Genesis(s) ELSE Extend(s, h[n - 1])
    OBVIOUS
  <2> QED BY <1>2, <2>1
<1>4. Walk(s) = CHOOSE w : w = Body(w)
  BY DEF Walk
<1> DEFINE W == Walk(s)
<1>5. W = Body(W)
  <2> HIDE DEF h, Body
  <2> QED BY <1>3, <1>4
<1> HIDE DEF W
<1>6. W[0] = Genesis(s)
  BY <1>5
<1>7. ASSUME NEW n \in Nat PROVE W[n + 1] = Extend(s, W[n])
  <2>1. n + 1 \in Nat /\ n + 1 # 0 /\ (n + 1) - 1 = n
    OBVIOUS
  <2>2. W[n + 1] = Body(W)[n + 1]
    BY <1>5
  <2>3. Body(W)[n + 1] = IF n + 1 = 0 THEN Genesis(s) ELSE Extend(s, W[(n + 1) - 1])
    BY <2>1
  <2> QED BY <2>1, <2>2, <2>3
<1> QED BY <1>6, <1>7 DEF W

-----------------------------------------------------------------------------
(* The chain resolved.                                                     *)

(* The candidates max_by chooses among are those of IsResolution.          *)
LEMMA CandidatesOfSet ==
  ASSUME NEW s \in Seq(Candidate)
  PROVE  /\ GenesisSet(s) = {c \in ToSet(s) : IsGenesisIn(ToSet(s), c)}
         /\ GenesisIndices(s) = {} <=> GenesisSet(s) = {}
         /\ \A head : /\ SuccessorSet(s, head) = Followers(ToSet(s), head)
                      /\ SuccessorIndices(s, head) = {} <=> SuccessorSet(s, head) = {}
<1>1. GenesisSet(s) = {c \in ToSet(s) : IsGenesisIn(ToSet(s), c)}
  BY DEF GenesisSet, GenesisIndices, IsGenesisIn, ToSet, authorizes_rotation
<1>2. GenesisIndices(s) = {} <=> GenesisSet(s) = {}
  BY DEF GenesisSet
<1>3. ASSUME NEW head
      PROVE  /\ SuccessorSet(s, head) = Followers(ToSet(s), head)
             /\ SuccessorIndices(s, head) = {} <=> SuccessorSet(s, head) = {}
  <2> DEFINE Valid(c) == /\ c.intact
                         /\ c.sequence = head.sequence + 1
                         /\ justify_succession(head, c) # None
  <2>1. SuccessorSet(s, head) = {s[i] : i \in {i \in DOMAIN s : Valid(s[i])}}
    BY DEF SuccessorSet, SuccessorIndices
  <2>2. Followers(ToSet(s), head) = {c \in {s[i] : i \in DOMAIN s} : Valid(c)}
    BY DEF Followers, ToSet
  <2>3. SuccessorIndices(s, head) = {} <=> SuccessorSet(s, head) = {}
    BY DEF SuccessorSet
  <2> HIDE DEF Valid
  <2> QED BY <2>1, <2>2, <2>3, Zenon
<1> QED BY <1>1, <1>2, <1>3

(* A chain of events of S that begins with the preferred genesis and goes  *)
(* from each event to its preferred follower.                              *)
Grown(S, chain) ==
  /\ chain \in Seq(S) /\ chain # <<>>
  /\ IsGenesisIn(S, chain[1])
  /\ \A c \in S : IsGenesisIn(S, c) => c.signer <= chain[1].signer
  /\ \A n \in 2..Len(chain) :
       /\ chain[n] \in Followers(S, chain[n - 1])
       /\ \A c \in Followers(S, chain[n - 1]) \ {chain[n]} :
            successor_precedes(chain[n - 1], c, chain[n])
  /\ \A n \in 1..Len(chain) : chain[n].sequence = n

(* The chain before the first turn.                                        *)
LEMMA GenesisGrown ==
  ASSUME NEW s \in Seq(Candidate), GenesisIndices(s) # {}
  PROVE  Grown(ToSet(s), Genesis(s)) /\ Len(Genesis(s)) = 1
<1>1. PICK g \in GenesisSet(s) : /\ Genesis(s) = <<g>>
                                 /\ \A c \in GenesisSet(s) : c.signer <= g.signer
  BY GenesisIsGreatest
<1>2. GenesisSet(s) = {c \in ToSet(s) : IsGenesisIn(ToSet(s), c)}
  BY CandidatesOfSet
<1>3. g \in ToSet(s) /\ IsGenesisIn(ToSet(s), g) /\ g.sequence = 1
  BY <1>2 DEF IsGenesisIn
<1>4. /\ <<g>> \in Seq(ToSet(s)) /\ <<g>> # <<>> /\ Len(<<g>>) = 1
      /\ <<g>>[1] = g /\ 2..1 = {} /\ 1..1 = {1}
  BY <1>3
<1> QED BY <1>1, <1>2, <1>3, <1>4 DEF Grown

(* A turn that finds a follower adds the preferred one.                    *)
LEMMA ExtendGrows ==
  ASSUME NEW s \in Seq(Candidate), NEW chain, Grown(ToSet(s), chain),
         Followers(ToSet(s), Last(chain)) # {}
  PROVE  Grown(ToSet(s), Extend(s, chain)) /\ Len(Extend(s, chain)) = Len(chain) + 1
<1> DEFINE S == ToSet(s)
           head == Last(chain)
           F == Followers(S, head)
<1>1. /\ SuccessorSet(s, head) = F
      /\ SuccessorIndices(s, head) # {}
  BY CandidatesOfSet
<1>2. chain \in Seq(S) /\ chain # <<>>
  BY DEF Grown
<1>3. PICK f \in F : /\ Extend(s, chain) = Append(chain, f)
                     /\ \A d \in F : ~ successor_precedes(head, f, d)
  <2>1. \E f \in SuccessorSet(s, head) :
           /\ Extend(s, chain) = Append(chain, f)
           /\ \A d \in SuccessorSet(s, head) : ~ successor_precedes(head, f, d)
    BY <1>1, <1>2, ExtendIsGreatest
  <2> QED BY <1>1, <2>1
<1>4. ASSUME NEW d \in F \ {f} PROVE successor_precedes(head, d, f)
  BY <1>1, <1>3, SuccessorsAreOrdered
<1>5. f \in S /\ f.sequence = head.sequence + 1
  BY DEF Followers
<1> DEFINE new == Append(chain, f)
<1>6. /\ new \in Seq(S) /\ new # <<>> /\ Len(new) = Len(chain) + 1
      /\ Len(chain) \in Nat \ {0} /\ head = chain[Len(chain)]
      /\ new[Len(chain) + 1] = f
      /\ \A n \in 1..Len(chain) : new[n] = chain[n]
  BY <1>2, <1>5 DEF Last
<1>7. head.sequence = Len(chain)
  BY <1>6 DEF Grown
<1>8. new[1] = chain[1]
  BY <1>6
<1>9. ASSUME NEW n \in 2..Len(new)
      PROVE  /\ new[n] \in Followers(S, new[n - 1])
             /\ \A c \in Followers(S, new[n - 1]) \ {new[n]} :
                  successor_precedes(new[n - 1], c, new[n])
  <2>1. CASE n = Len(chain) + 1
    <3>1. new[n] = f /\ new[n - 1] = head
      BY <1>6, <2>1
    <3> HIDE DEF new
    <3> QED BY <1>4, <3>1
  <2>2. CASE n # Len(chain) + 1
    <3>1. n \in 2..Len(chain) /\ new[n] = chain[n] /\ new[n - 1] = chain[n - 1]
      BY <1>6, <2>2
    <3> HIDE DEF new
    <3> QED BY <3>1 DEF Grown
  <2> QED BY <2>1, <2>2
<1>10. ASSUME NEW n \in 1..Len(new) PROVE new[n].sequence = n
  <2>1. CASE n = Len(chain) + 1
    BY <1>5, <1>6, <1>7, <2>1
  <2>2. CASE n # Len(chain) + 1
    <3>1. n \in 1..Len(chain) /\ new[n] = chain[n]
      BY <1>6, <2>2
    <3> HIDE DEF new
    <3> QED BY <3>1 DEF Grown
  <2> QED BY <2>1, <2>2
<1>11. /\ IsGenesisIn(S, chain[1])
       /\ \A c \in S : IsGenesisIn(S, c) => c.signer <= chain[1].signer
  BY DEF Grown
<1>12. Grown(S, new)
  <2> HIDE DEF new, S
  <2> QED BY <1>6, <1>8, <1>9, <1>10, <1>11 DEF Grown
<1> QED BY <1>3, <1>6, <1>12

(* After n turns the chain has n + 1 events, or nothing can follow it.     *)
LEMMA WalkGrows ==
  ASSUME NEW s \in Seq(Candidate), GenesisIndices(s) # {}, NEW n \in Nat
  PROVE  /\ Grown(ToSet(s), Walk(s)[n])
         /\ \/ Len(Walk(s)[n]) = n + 1
            \/ Followers(ToSet(s), Last(Walk(s)[n])) = {}
<1> DEFINE S == ToSet(s)
           P(k) == /\ Grown(S, Walk(s)[k])
                   /\ \/ Len(Walk(s)[k]) = k + 1
                      \/ Followers(S, Last(Walk(s)[k])) = {}
           T == {k \in Nat : P(k)}
<1>1. 0 \in T
  BY GenesisGrown, WalkUnfolds
<1>2. ASSUME NEW k \in T PROVE k + 1 \in T
  <2> DEFINE chain == Walk(s)[k]
  <2>1. /\ Grown(S, chain) /\ k \in Nat /\ k + 1 \in Nat
        /\ Len(chain) = k + 1 \/ Followers(S, Last(chain)) = {}
    OBVIOUS
  <2>2. Walk(s)[k + 1] = Extend(s, chain)
    BY WalkUnfolds
  <2>3. CASE Followers(S, Last(chain)) = {}
    <3>1. SuccessorIndices(s, Last(chain)) = {}
      BY <2>3, CandidatesOfSet
    <3>2. Extend(s, chain) = chain
      BY <3>1 DEF Extend
    <3> HIDE DEF chain, S
    <3> QED BY <2>1, <2>2, <2>3, <3>2
  <2>4. CASE Followers(S, Last(chain)) # {}
    <3>1. Grown(S, Extend(s, chain)) /\ Len(Extend(s, chain)) = Len(chain) + 1
      BY <2>1, <2>4, ExtendGrows
    <3> HIDE DEF chain, S
    <3> QED BY <2>1, <2>2, <2>4, <3>1
  <2> QED BY <2>3, <2>4
<1>3. T = Nat
  <2>1. T \in SUBSET Nat
    OBVIOUS
  <2> HIDE DEF T
  <2> QED BY <1>1, <1>2, <2>1, NaturalSetInduction
<1> QED BY <1>3

(* Without a genesis the chain stays empty.                                *)
LEMMA WalkEmpty ==
  ASSUME NEW s, GenesisIndices(s) = {}, NEW n \in Nat
  PROVE  Walk(s)[n] = <<>>
<1> DEFINE T == {k \in Nat : Walk(s)[k] = <<>>}
<1>1. 0 \in T
  BY WalkUnfolds DEF Genesis
<1>2. ASSUME NEW k \in T PROVE k + 1 \in T
  <2>1. Walk(s)[k + 1] = Extend(s, <<>>) /\ k + 1 \in Nat
    BY WalkUnfolds
  <2>2. Extend(s, <<>>) = <<>>
    BY DEF Extend
  <2> QED BY <2>1, <2>2
<1>3. T = Nat
  <2>1. T \in SUBSET Nat
    OBVIOUS
  <2> HIDE DEF T
  <2> QED BY <1>1, <1>2, <2>1, NaturalSetInduction
<1> QED BY <1>3

(* The events of a sequence are finitely many.                             *)
LEMMA ToSetFinite ==
  ASSUME NEW X, NEW s \in Seq(X)
  PROVE  IsFiniteSet(ToSet(s)) /\ Cardinality(ToSet(s)) \in Nat
<1>1. s \in [1..Len(s) -> ToSet(s)] /\ Len(s) \in Nat
  BY DEF ToSet
<1>2. s \in Surjection(1..Len(s), ToSet(s))
  <2>1. \A t \in ToSet(s) : \E i \in 1..Len(s) : s[i] = t
    BY DEF ToSet
  <2> QED BY <1>1, <2>1, Fun_IsSurj
<1>3. IsFiniteSet(1..Len(s))
  BY <1>1, FS_Interval
<1> QED BY <1>2, <1>3, FS_Surjection, FS_CardinalityType

(* A chain has no more events than there are: their numbers differ.        *)
LEMMA GrownIsShort ==
  ASSUME NEW S, IsFiniteSet(S), NEW chain, Grown(S, chain)
  PROVE  Len(chain) \in Nat /\ Len(chain) <= Cardinality(S)
<1>1. chain \in Seq(S) /\ \A n \in 1..Len(chain) : chain[n].sequence = n
  BY DEF Grown
<1>2. chain \in [1..Len(chain) -> S] /\ Len(chain) \in Nat
  BY <1>1
<1>3. \A a, b \in 1..Len(chain) : chain[a] = chain[b] => a = b
  BY <1>1
<1>4. chain \in Injection(1..Len(chain), S)
  BY <1>2, <1>3, Fun_IsInj
<1>5. Cardinality(1..Len(chain)) = Len(chain)
  <2> DEFINE n == Len(chain)
  <2>1. n \in Nat /\ n \in Int /\ 1 \in Int
    BY <1>2
  <2> HIDE DEF n
  <2>2. Cardinality(1..n) = IF 1 > n THEN 0 ELSE n - 1 + 1
    BY <2>1, FS_Interval
  <2> QED BY <2>1, <2>2 DEF n
<1> QED BY <1>2, <1>4, <1>5, FS_Injection

(* The walk ends where nothing can follow, or there is no genesis.         *)
LEMMA ResolvedChain ==
  ASSUME NEW s \in Seq(Candidate)
  PROVE  \/ /\ resolve_chain(s) = <<>>
            /\ ~ \E c \in ToSet(s) : IsGenesisIn(ToSet(s), c)
         \/ /\ Grown(ToSet(s), resolve_chain(s))
            /\ Followers(ToSet(s), Last(resolve_chain(s))) = {}
<1> DEFINE S == ToSet(s)
           N == Cardinality(S)
<1>1. IsFiniteSet(S) /\ N \in Nat
  BY ToSetFinite
<1>2. CASE GenesisIndices(s) = {}
  <2>1. resolve_chain(s) = <<>>
    BY <1>1, <1>2, WalkEmpty DEF resolve_chain
  <2>2. {c \in S : IsGenesisIn(S, c)} = {}
    BY <1>2, CandidatesOfSet
  <2> QED BY <2>1, <2>2
<1>3. CASE GenesisIndices(s) # {}
  <2> DEFINE chain == Walk(s)[N]
  <2>1. /\ Grown(S, chain)
        /\ Len(chain) = N + 1 \/ Followers(S, Last(chain)) = {}
    BY <1>1, <1>3, WalkGrows
  <2>2. Len(chain) \in Nat /\ Len(chain) <= N
    <3> HIDE DEF chain, S
    <3> QED BY <1>1, <2>1, GrownIsShort
  <2>3. Followers(S, Last(chain)) = {}
    <3> HIDE DEF chain, S, N
    <3> QED BY <1>1, <2>1, <2>2
  <2>4. chain = resolve_chain(s)
    BY DEF resolve_chain
  <2> HIDE DEF chain, S
  <2> QED BY <2>1, <2>3, <2>4 DEF S
<1> QED BY <1>2, <1>3

(* resolve_chain returns the chain that IsResolution describes: the        *)
(* preferred genesis, from each event the successor that every rival       *)
(* precedes, and an end that nothing held can extend; or no chain, when    *)
(* there is no genesis.                                                    *)
THEOREM ResolveIsResolution ==
  ASSUME NEW s \in Seq(Candidate)
  PROVE  IsResolution(resolve_chain(s), ToSet(s))
<1> DEFINE S == ToSet(s)
           chain == resolve_chain(s)
<1>1. \/ chain = <<>> /\ ~ \E c \in S : IsGenesisIn(S, c)
      \/ Grown(S, chain) /\ Followers(S, Last(chain)) = {}
  BY ResolvedChain
<1> HIDE DEF chain, S
<1>2. IsResolution(chain, S)
  BY <1>1 DEF IsResolution, Grown
<1> QED BY <1>2 DEF chain, S
=============================================================================
