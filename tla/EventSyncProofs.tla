-------------------------- MODULE EventSyncProofs ---------------------------
(***************************************************************************)
(* EventSync implements EventReplication, for any number of devices,       *)
(* servers, events, pages and restarts, when a device publishes from one   *)
(* flow at a time.  (With two flows it does not: two events share a key.)  *)
(***************************************************************************)
EXTENDS EventSync, WellFoundedInduction, TLAPS

SingleFlow == \A f, g \in Flows : f = g

-----------------------------------------------------------------------------
(* The inductive invariant.  A stands for authored and B for built.        *)

(* An event under a key nobody has used.                                   *)
Fresh(e, A) == \A g \in A : ~ SameKey(e, g)

(* A flow of device d holds the event it signed: a fresh one until it is   *)
(* saved, an authored one after.                                           *)
FlowOK(d, q, A, B) ==
  /\ q \in FlowRecord
  /\ \A e \in q.event : e.sequence <= B
  /\ q.pc = "save" => \E e \in Event : q.event = {e} /\ e.signer = d /\ Fresh(e, A)
  /\ q.pc = "copy" => \E e \in A : q.event = {e} /\ e.signer = d

PushOK(q, A) == q \in PushRecord /\ q.bundles \subseteq A

PullOK(q, A) == q \in PullRecord /\ q.pages \in [Servers -> SUBSET A]

(* Only authored events are stored anywhere.                               *)
StoresOK ==
  /\ core \in [Devices -> SUBSET authored]
  /\ disk \in [Devices -> SUBSET authored]
  /\ server \in [Servers -> SUBSET authored]
  /\ refused \in [Servers -> SUBSET Event]

(* Every authored event has a key of its own.                              *)
AuthoredOK ==
  /\ authored \subseteq Event /\ KeysUnique
  /\ restarts \in 0..MaxRestarts /\ built \in 0..MaxEvents
  /\ \A e \in authored : e.sequence <= built

(* A device's own events are on its disk, and in its core except for the   *)
(* one a flow is about to copy there.                                      *)
OwnOK ==
  \A d \in Devices : \A e \in authored : e.signer = d =>
    /\ e \in disk[d]
    /\ e \in core[d] \/ \E f \in Flows : flow[d][f].pc = "copy" /\ e \in flow[d][f].event

FlowsOK ==
  /\ flow \in [Devices -> [Flows -> FlowRecord]]
  /\ \A d \in Devices : \A f \in Flows : FlowOK(d, flow[d][f], authored, built)

PushesOK ==
  /\ push \in [Devices -> [Servers -> PushRecord]]
  /\ \A d \in Devices : \A s \in Servers : PushOK(push[d][s], authored)

PullsOK ==
  /\ pull \in [Devices -> PullRecord]
  /\ \A d \in Devices : PullOK(pull[d], authored)

IInv == StoresOK /\ AuthoredOK /\ OwnOK /\ FlowsOK /\ PushesOK /\ PullsOK

-----------------------------------------------------------------------------
(* Facts about the operators.                                              *)

(* A non-empty set of naturals with an upper bound has a greatest element. *)
LEMMA GreatestElement ==
  ASSUME NEW N \in Nat, NEW T \in SUBSET (0..N), T # {}
  PROVE  \E m \in T : \A n \in T : n <= m
<1> DEFINE U == {N - n : n \in T}
<1>1. U \subseteq Nat /\ U # {}
  <2>1. PICK n \in T : TRUE
    OBVIOUS
  <2>2. N - n \in U
    BY <2>1
  <2>3. ASSUME NEW i \in T PROVE N - i \in Nat
    <3>1. i \in 0..N
      OBVIOUS
    <3> QED BY <3>1
  <2> QED BY <2>2, <2>3
<1>2. PICK u \in U : \A v \in U : ~ (<<v, u>> \in OpToRel(<, Nat))
  <2> HIDE DEF U
  <2> QED BY <1>1, NatLessThanWellFounded, WFMin
<1>3. PICK m \in T : u = N - m
  OBVIOUS
<1>4. ASSUME NEW n \in T PROVE n <= m
  <2>1. ~ (N - n < N - m)
    <3>1. N - n \in U /\ u \in Nat /\ N - n \in Nat
      BY <1>1
    <3> QED BY <1>2, <1>3, <3>1 DEF OpToRel
  <2> QED BY <2>1, SMT
<1> QED BY <1>4

(* What Max returns for the sequence numbers of a set of events and 0.     *)
LEMMA MaxSequence ==
  ASSUME NEW B \in Nat, NEW S, \A e \in S : e.sequence \in Nat /\ e.sequence <= B
  PROVE /\ Max({0} \cup {e.sequence : e \in S}) \in 0..B
        /\ Max({0} \cup {e.sequence : e \in S}) \in {0} \cup {e.sequence : e \in S}
        /\ \A e \in S : e.sequence <= Max({0} \cup {f.sequence : f \in S})
<1> DEFINE T == {0} \cup {e.sequence : e \in S}
<1>1. T \in SUBSET (0..B) /\ T # {}
  OBVIOUS
<1>2. PICK m \in T : \A n \in T : n <= m
  <2> HIDE DEF T
  <2> QED BY <1>1, GreatestElement
<1>3. \A n \in T : m >= n
  BY <1>1, <1>2
<1>4. Max(T) \in T /\ \A n \in T : Max(T) >= n
  <2> HIDE DEF T
  <2> QED BY <1>3, Zenon DEF Max
<1>5. ASSUME NEW e \in S PROVE e.sequence <= Max(T)
  <2>1. e.sequence \in T
    OBVIOUS
  <2>2. Max(T) >= e.sequence
    BY <1>4, <2>1
  <2>3. Max(T) \in Nat /\ e.sequence \in Nat
    BY <1>1, <1>4
  <2> HIDE DEF T
  <2> QED BY <2>2, <2>3
<1> QED BY <1>1, <1>4, <1>5

(* The heads of a store are sequence numbers or 0.                         *)
LEMMA HeadsTyped ==
  ASSUME NEW S \in SUBSET Event
  PROVE Heads(S) \in HeadVector
<1>1. ASSUME NEW d \in Devices
      PROVE Max({0} \cup {e.sequence : e \in {f \in S : f.signer = d}}) \in 0..MaxEvents
  <2> DEFINE D == {f \in S : f.signer = d}
  <2>1. MaxEvents \in Nat
    BY SyncAssumption
  <2>2. \A e \in D : e.sequence \in Nat /\ e.sequence <= MaxEvents
    BY <2>1 DEF Event, Numbers
  <2> HIDE DEF D
  <2>3. Max({0} \cup {e.sequence : e \in D}) \in 0..MaxEvents
    BY <2>1, <2>2, MaxSequence
  <2> QED BY <2>3 DEF D
<1> QED BY <1>1 DEF Heads, HeadVector

(* Inserting keeps what is there and adds nothing but e.                   *)
LEMMA InsertNewFacts ==
  ASSUME NEW S, NEW e
  PROVE S \subseteq InsertNew(S, e) /\ InsertNew(S, e) \subseteq S \cup {e}
BY DEF InsertNew

(* With unique keys an event is in a set of authored events after it was   *)
(* inserted.                                                               *)
LEMMA InsertedIsHeld ==
  ASSUME KeysUnique, NEW S \in SUBSET authored, NEW e \in authored
  PROVE e \in InsertNew(S, e)
BY DEF InsertNew, HoldsKeyOf, KeysUnique

(* The records of idle tasks claim nothing.                                *)
LEMMA IdleRecords ==
  /\ \A A : PushOK(IdlePush, A)
  /\ \A A : PullOK(IdlePull, A)
  /\ \A d, A, B : FlowOK(d, IdleFlow, A, B)
<1>1. NoHeads \in HeadVector
  BY SyncAssumption DEF NoHeads, HeadVector
<1>2. \A A : PushOK(IdlePush, A)
  BY <1>1 DEF PushOK, PushRecord, IdlePush
<1>3. \A A : PullOK(IdlePull, A)
  BY <1>1 DEF PullOK, PullRecord, IdlePull
<1>4. \A d, A, B : FlowOK(d, IdleFlow, A, B)
  BY DEF FlowOK, FlowRecord, IdleFlow
<1> QED BY <1>2, <1>3, <1>4

-----------------------------------------------------------------------------
(* A step of a push changes one record of push.                            *)
LEMMA PushSet ==
  ASSUME PushesOK, authored' = authored, NEW d \in Devices, NEW s \in Servers, NEW q,
         PushOK(q, authored), push' = [push EXCEPT ![d][s] = q]
  PROVE PushesOK'
<1>1. q \in PushRecord
  BY DEF PushOK
<1>2. push' \in [Devices -> [Servers -> PushRecord]]
  BY <1>1 DEF PushesOK
<1>3. \A c \in Devices : \A t \in Servers :
        push'[c][t] = IF c = d /\ t = s THEN q ELSE push[c][t]
  BY DEF PushesOK
<1> QED BY <1>2, <1>3 DEF PushesOK

(* A step of a pull changes one record of pull.                            *)
LEMMA PullSet ==
  ASSUME PullsOK, authored' = authored, NEW d \in Devices, NEW q,
         PullOK(q, authored), pull' = [pull EXCEPT ![d] = q]
  PROVE PullsOK'
<1>1. q \in PullRecord
  BY DEF PullOK
<1> QED BY <1>1 DEF PullsOK

(* A step of a flow changes one record of flow.                            *)
LEMMA FlowSet ==
  ASSUME FlowsOK, NEW d \in Devices, NEW f \in Flows, NEW q,
         flow' = [flow EXCEPT ![d][f] = q], FlowOK(d, q, authored', built'),
         \A c \in Devices : \A g \in Flows : c # d \/ g # f =>
           FlowOK(c, flow[c][g], authored', built')
  PROVE FlowsOK'
<1>1. q \in FlowRecord
  BY DEF FlowOK
<1>2. flow' \in [Devices -> [Flows -> FlowRecord]]
  BY <1>1 DEF FlowsOK
<1>3. \A c \in Devices : \A g \in Flows :
        flow'[c][g] = IF c = d /\ g = f THEN q ELSE flow[c][g]
  BY DEF FlowsOK
<1> QED BY <1>2, <1>3 DEF FlowsOK

-----------------------------------------------------------------------------
(* Pushes.                                                                 *)

(* Steps that change a push record and nothing the others rely on.         *)
LEMMA PushOnly ==
  ASSUME IInv, NEW d \in Devices, NEW s \in Servers, NEW q, PushOK(q, authored),
         push' = [push EXCEPT ![d][s] = q],
         UNCHANGED <<core, disk, flow, server, pull, restarts, built, refused, authored>>
  PROVE IInv'
<1>1. PushesOK'
  BY PushSet DEF IInv
<1>2. StoresOK' /\ AuthoredOK' /\ PullsOK'
  BY DEF IInv, StoresOK, AuthoredOK, PullsOK, KeysUnique
<1>3. OwnOK' /\ FlowsOK'
  BY DEF IInv, OwnOK, FlowsOK
<1> QED BY <1>1, <1>2, <1>3 DEF IInv

(* The steps of a push, its failures included.                             *)
LEMMA PushInv ==
  ASSUME IInv, NEW d \in Devices, NEW s \in Servers,
         PushStep(d, s) \/ Refuse(d, s) \/ LosePush(d, s)
  PROVE IInv'
<1> DEFINE q == push[d][s]
<1>1. /\ q \in PushRecord /\ q.bundles \subseteq authored /\ authored \subseteq Event
      /\ push \in [Devices -> [Servers -> PushRecord]]
      /\ core[d] \subseteq authored /\ server[s] \subseteq authored
  BY DEF IInv, PushesOK, PushOK, StoresOK, AuthoredOK
<1>2. NoHeads \in HeadVector
  BY SyncAssumption DEF NoHeads, HeadVector
<1>3. CASE StartFullPush(d, s)
  <2> DEFINE n == [IdlePush EXCEPT !.pc = "put", !.bundles = core[d]]
  <2>1. PushOK(n, authored)
    BY <1>1, <1>2 DEF PushOK, PushRecord, IdlePush
  <2>2. push' = [push EXCEPT ![d][s] = n]
    BY <1>3 DEF StartFullPush
  <2> HIDE DEF n
  <2> QED BY <1>3, <2>1, <2>2, PushOnly DEF StartFullPush
<1>4. CASE RequestHeads(d, s)
  <2> DEFINE n == [IdlePush EXCEPT !.pc = "bundle", !.heads = Heads(server[s])]
  <2>1. Heads(server[s]) \in HeadVector
    BY <1>1, HeadsTyped
  <2>2. PushOK(n, authored)
    BY <2>1 DEF PushOK, PushRecord, IdlePush
  <2>3. push' = [push EXCEPT ![d][s] = n]
    BY <1>4 DEF RequestHeads
  <2> HIDE DEF n
  <2> QED BY <1>4, <2>2, <2>3, PushOnly DEF RequestHeads
<1>5. CASE Bundle(d, s)
  <2> DEFINE n == [IdlePush EXCEPT !.pc = "put", !.bundles = Beyond(core[d], q.heads)]
  <2>1. Beyond(core[d], q.heads) \subseteq authored
    BY <1>1 DEF Beyond
  <2>2. PushOK(n, authored)
    BY <1>1, <1>2, <2>1 DEF PushOK, PushRecord, IdlePush
  <2>3. push' = [push EXCEPT ![d][s] = n]
    BY <1>5 DEF Bundle
  <2> HIDE DEF n
  <2> QED BY <1>5, <2>2, <2>3, PushOnly DEF Bundle
<1>6. CASE EndPush(d, s) \/ LosePush(d, s)
  <2>1. PushOK(IdlePush, authored)
    BY IdleRecords
  <2>2. push' = [push EXCEPT ![d][s] = IdlePush]
    BY <1>6 DEF EndPush, LosePush
  <2> QED BY <1>6, <2>1, <2>2, PushOnly DEF EndPush, LosePush
<1>7. ASSUME NEW e \in First(q.bundles), push' = [push EXCEPT ![d][s].bundles = @ \ {e}],
             authored' = authored
      PROVE e \in authored /\ PushesOK'
  <2>1. e \in authored
    BY <1>1, <1>7 DEF First
  <2> DEFINE n == [q EXCEPT !.bundles = q.bundles \ {e}]
  <2>2. PushOK(n, authored)
    BY <1>1 DEF PushOK, PushRecord
  <2>3. push' = [push EXCEPT ![d][s] = n]
    BY <1>1, <1>7
  <2> HIDE DEF n
  <2>4. PushesOK'
    BY <1>7, <2>2, <2>3, PushSet DEF IInv
  <2> QED BY <2>1, <2>4
<1>8. CASE Put(d, s)
  <2>1. PICK e \in First(q.bundles) :
          /\ server' = [server EXCEPT ![s] = InsertNew(@, e)]
          /\ push' = [push EXCEPT ![d][s].bundles = @ \ {e}]
    BY <1>8 DEF Put
  <2>2. UNCHANGED <<core, disk, flow, pull, restarts, built, refused, authored>>
    BY <1>8 DEF Put
  <2>3. e \in authored /\ PushesOK'
    BY <1>7, <2>1, <2>2
  <2>4. server' \in [Servers -> SUBSET authored]
    BY <1>1, <2>1, <2>3, InsertNewFacts DEF IInv, StoresOK
  <2>5. StoresOK' /\ AuthoredOK' /\ PullsOK'
    BY <2>2, <2>4 DEF IInv, StoresOK, AuthoredOK, PullsOK, KeysUnique
  <2>6. OwnOK' /\ FlowsOK'
    BY <2>2 DEF IInv, OwnOK, FlowsOK
  <2> QED BY <2>3, <2>5, <2>6 DEF IInv
<1>9. CASE Refuse(d, s)
  <2>1. PICK e \in First(q.bundles) :
          /\ refused' = [refused EXCEPT ![s] = @ \cup {e}]
          /\ push' = [push EXCEPT ![d][s].bundles = @ \ {e}]
    BY <1>9 DEF Refuse
  <2>2. UNCHANGED <<core, disk, flow, server, pull, restarts, built, authored>>
    BY <1>9 DEF Refuse
  <2>3. e \in authored /\ PushesOK'
    BY <1>7, <2>1, <2>2
  <2>4. refused' \in [Servers -> SUBSET Event]
    BY <1>1, <2>1, <2>3 DEF IInv, StoresOK
  <2>5. StoresOK' /\ AuthoredOK' /\ PullsOK'
    BY <2>2, <2>4 DEF IInv, StoresOK, AuthoredOK, PullsOK, KeysUnique
  <2>6. OwnOK' /\ FlowsOK'
    BY <2>2 DEF IInv, OwnOK, FlowsOK
  <2> QED BY <2>3, <2>5, <2>6 DEF IInv
<1> QED BY <1>3, <1>4, <1>5, <1>6, <1>8, <1>9 DEF PushStep, StartPush, PushGoesOn

-----------------------------------------------------------------------------
(* Pulls.                                                                  *)

(* A pull may only enlarge its device's core and disk, by authored events. *)
LEMMA PullOnly ==
  ASSUME IInv, NEW d \in Devices, NEW q, PullOK(q, authored),
         pull' = [pull EXCEPT ![d] = q],
         NEW C \in SUBSET authored, core[d] \subseteq C, core' = [core EXCEPT ![d] = C],
         NEW D \in SUBSET authored, disk[d] \subseteq D, disk' = [disk EXCEPT ![d] = D],
         UNCHANGED <<flow, server, push, restarts, built, refused, authored>>
  PROVE IInv'
<1>1. PullsOK'
  BY PullSet DEF IInv
<1>2. StoresOK' /\ AuthoredOK' /\ PushesOK'
  BY DEF IInv, StoresOK, AuthoredOK, PushesOK, KeysUnique
<1>3. \A c \in Devices : core[c] \subseteq core'[c] /\ disk[c] \subseteq disk'[c]
  BY DEF IInv, StoresOK
<1>4. OwnOK' /\ FlowsOK'
  BY <1>3 DEF IInv, OwnOK, FlowsOK
<1> QED BY <1>1, <1>2, <1>4 DEF IInv

(* The steps of a pull, lost replies included.                             *)
LEMMA PullInv ==
  ASSUME IInv, NEW d \in Devices, PullStep(d) \/ \E s \in Servers : LoseReply(d, s)
  PROVE IInv'
<1> DEFINE q == pull[d]
<1>1. /\ q \in PullRecord /\ q.pages \in [Servers -> SUBSET authored]
      /\ pull \in [Devices -> PullRecord] /\ authored \subseteq Event
      /\ core[d] \in SUBSET authored /\ disk[d] \in SUBSET authored
      /\ core \in [Devices -> SUBSET authored] /\ disk \in [Devices -> SUBSET authored]
      /\ server \in [Servers -> SUBSET authored]
  BY DEF IInv, PullsOK, PullOK, StoresOK, AuthoredOK
<1>2. core = [core EXCEPT ![d] = core[d]] /\ disk = [disk EXCEPT ![d] = disk[d]]
  BY <1>1
<1>3. ASSUME NEW partial \in Partial, StartPull(d, partial) PROVE IInv'
  <2> DEFINE h == IF partial THEN Heads(disk[d]) ELSE NoHeads
  <2> DEFINE n == [IdlePull EXCEPT !.pc = "list", !.waiting = Servers, !.heads = h]
  <2>1. Heads(disk[d]) \in HeadVector /\ NoHeads \in HeadVector
    BY <1>1, HeadsTyped, SyncAssumption DEF NoHeads, HeadVector
  <2>2. h \in HeadVector
    BY <2>1
  <2>3. PullOK(n, authored)
    <3> HIDE DEF h
    <3> QED BY <2>2 DEF PullOK, PullRecord, IdlePull
  <2>4. pull' = [pull EXCEPT ![d] = n]
    BY <1>3 DEF StartPull
  <2> HIDE DEF n
  <2> QED BY <1>1, <1>2, <1>3, <2>3, <2>4, PullOnly DEF StartPull
<1>4. ASSUME NEW s \in Servers, Reply(d, s) PROVE IInv'
  <2>1. PICK page \in Pages(Beyond(server[s], q.heads)) :
          /\ pull' = [pull EXCEPT ![d].waiting = @ \ {s}, ![d].pages[s] = page]
          /\ core' = [core EXCEPT ![d] = @ \cup {e \in page : ~ HoldsKeyOf(@, e)}]
    BY <1>4 DEF Reply
  <2>2. page \in SUBSET authored
    BY <1>1, <2>1 DEF Pages, Beyond
  <2> DEFINE n == [q EXCEPT !.waiting = q.waiting \ {s}, !.pages = [q.pages EXCEPT ![s] = page]]
  <2>3. PullOK(n, authored)
    BY <1>1, <2>2 DEF PullOK, PullRecord
  <2>4. pull' = [pull EXCEPT ![d] = n]
    BY <1>1, <2>1 DEF PullRecord
  <2> DEFINE C == core[d] \cup {e \in page : ~ HoldsKeyOf(core[d], e)}
  <2>5. core' = [core EXCEPT ![d] = C] /\ C \in SUBSET authored /\ core[d] \subseteq C
    BY <1>1, <2>1, <2>2
  <2>6. disk' = [disk EXCEPT ![d] = disk[d]]
    BY <1>2, <1>4 DEF Reply
  <2>7. UNCHANGED <<flow, server, push, restarts, built, refused, authored>>
    BY <1>4 DEF Reply
  <2> HIDE DEF n, C
  <2> QED BY <1>1, <2>3, <2>4, <2>5, <2>6, <2>7, PullOnly
<1>5. ASSUME NEW s \in Servers, LoseReply(d, s) PROVE IInv'
  <2> DEFINE n == [q EXCEPT !.waiting = {}]
  <2>1. PullOK(n, authored) /\ PullOK(IdlePull, authored)
    BY <1>1, IdleRecords DEF PullOK, PullRecord
  <2>2. pull' = [pull EXCEPT ![d] = n] \/ pull' = [pull EXCEPT ![d] = IdlePull]
    BY <1>1, <1>5 DEF LoseReply
  <2> HIDE DEF n
  <2> QED BY <1>1, <1>2, <1>5, <2>1, <2>2, PullOnly DEF LoseReply
<1>6. ASSUME NEW s \in Servers, SavePulled(d, s) PROVE IInv'
  <2>1. PICK e \in Highest(q.pages[s]) :
          /\ disk' = [disk EXCEPT ![d] = InsertNew(@, e)]
          /\ pull' = [pull EXCEPT ![d].pages[s] = @ \ {e}]
    BY <1>6 DEF SavePulled
  <2>2. e \in authored
    BY <1>1, <2>1 DEF Highest
  <2> DEFINE n == [q EXCEPT !.pages = [q.pages EXCEPT ![s] = q.pages[s] \ {e}]]
  <2>3. PullOK(n, authored)
    BY <1>1 DEF PullOK, PullRecord
  <2>4. pull' = [pull EXCEPT ![d] = n]
    BY <1>1, <2>1 DEF PullRecord
  <2> DEFINE D == InsertNew(disk[d], e)
  <2>5. disk' = [disk EXCEPT ![d] = D] /\ D \in SUBSET authored /\ disk[d] \subseteq D
    BY <1>1, <2>1, <2>2, InsertNewFacts
  <2>6. core' = [core EXCEPT ![d] = core[d]]
    BY <1>2, <1>6 DEF SavePulled
  <2>7. UNCHANGED <<flow, server, push, restarts, built, refused, authored>>
    BY <1>6 DEF SavePulled
  <2> HIDE DEF n, D
  <2> QED BY <1>1, <2>3, <2>4, <2>5, <2>6, <2>7, PullOnly
<1>7. CASE EndPull(d)
  <2>1. PullOK(IdlePull, authored)
    BY IdleRecords
  <2> QED BY <1>1, <1>2, <1>7, <2>1, PullOnly DEF EndPull
<1> QED BY <1>3, <1>4, <1>5, <1>6, <1>7 DEF PullStep, StartSomePull, PullGoesOn

-----------------------------------------------------------------------------
(* Publishing.                                                             *)

(* With one flow, which is idle, the next sequence number of the core is   *)
(* one the device never used.                                              *)
LEMMA NextIsFresh ==
  ASSUME SingleFlow, IInv, NEW d \in Devices, NEW f \in Flows, flow[d][f] = IdleFlow
  PROVE /\ next_sequence(core[d]) \in 1..(built + 1)
        /\ \A g \in authored : g.signer = d => g.sequence < next_sequence(core[d])
<1>1. built \in Nat /\ core[d] \subseteq authored /\ authored \subseteq Event
  BY SyncAssumption DEF IInv, AuthoredOK, StoresOK
<1>2. \A e \in core[d] : e.sequence \in Nat /\ e.sequence <= built
  BY <1>1, SyncAssumption DEF IInv, AuthoredOK, Event, Numbers
<1> DEFINE m == Max({0} \cup {e.sequence : e \in core[d]})
<1>3. m \in 0..built /\ \A e \in core[d] : e.sequence <= m
  BY <1>1, <1>2, MaxSequence
<1>4. next_sequence(core[d]) = 1 + m
  BY DEF next_sequence
<1>5. ASSUME NEW g \in authored, g.signer = d PROVE g \in core[d]
  <2>1. \A h \in Flows : flow[d][h].pc # "copy"
    BY DEF SingleFlow, IdleFlow
  <2> QED BY <1>5, <2>1 DEF IInv, OwnOK
<1> HIDE DEF m
<1>6. 1 + m \in 1..(built + 1)
  BY <1>1, <1>3
<1>7. ASSUME NEW g \in authored, g.signer = d PROVE g.sequence < 1 + m
  <2>1. g.sequence \in Nat /\ g.sequence <= m
    BY <1>2, <1>3, <1>5, <1>7
  <2> QED BY <1>1, <1>3, <2>1
<1> QED BY <1>4, <1>6, <1>7

(* Building an event takes a key that is free.                             *)
LEMMA BuildInv ==
  ASSUME SingleFlow, IInv, NEW d \in Devices, NEW f \in Flows, Build(d, f)
  PROVE IInv'
<1> DEFINE e == [signer |-> d, sequence |-> next_sequence(core[d]), id |-> built + 1]
<1> DEFINE q == [pc |-> "save", event |-> {e}]
<1>1. /\ built \in Nat /\ MaxEvents \in Nat /\ built < MaxEvents /\ built' = built + 1
      /\ flow[d][f] = IdleFlow /\ authored \subseteq Event
      /\ UNCHANGED <<core, disk, server, push, pull, restarts, refused, authored>>
      /\ flow' = [flow EXCEPT ![d][f] = q]
  BY SyncAssumption DEF Build, IInv, AuthoredOK
<1>2. /\ next_sequence(core[d]) \in 1..(built + 1)
      /\ \A g \in authored : g.signer = d => g.sequence < next_sequence(core[d])
  BY <1>1, NextIsFresh
<1>3. e \in Event /\ e.sequence <= built'
  BY <1>1, <1>2 DEF Event, Numbers
<1>4. Fresh(e, authored)
  <2>1. ASSUME NEW g \in authored, g.signer = d PROVE g.sequence # e.sequence
    <3>1. g.sequence \in Nat
      BY <1>1, SyncAssumption DEF Event, Numbers
    <3> QED BY <1>1, <1>2, <2>1, <3>1
  <2> QED BY <2>1 DEF Fresh, SameKey
<1> HIDE DEF e
<1>5. FlowOK(d, q, authored', built')
  <2>1. e.signer = d
    BY DEF e
  <2> QED BY <1>1, <1>3, <1>4, <2>1 DEF FlowOK, FlowRecord
<1>6. ASSUME NEW c \in Devices, NEW g \in Flows
      PROVE FlowOK(c, flow[c][g], authored', built')
  <2>1. FlowOK(c, flow[c][g], authored, built)
    BY DEF IInv, FlowsOK
  <2>2. ASSUME NEW x \in flow[c][g].event PROVE x.sequence <= built'
    <3>1. x.sequence \in Nat /\ x.sequence <= built
      BY <2>1, SyncAssumption DEF FlowOK, FlowRecord, Event, Numbers
    <3> QED BY <1>1, <3>1
  <2> QED BY <1>1, <2>1, <2>2 DEF FlowOK
<1> HIDE DEF q
<1>7. FlowsOK'
  BY <1>1, <1>5, <1>6, FlowSet DEF IInv
<1>8. StoresOK' /\ PushesOK' /\ PullsOK'
  BY <1>1 DEF IInv, StoresOK, PushesOK, PullsOK
<1>9. AuthoredOK'
  <2>1. built' \in 0..MaxEvents
    BY <1>1
  <2>2. ASSUME NEW x \in authored PROVE x.sequence <= built'
    <3>1. x.sequence \in Nat /\ x.sequence <= built
      BY <1>1, SyncAssumption DEF IInv, AuthoredOK, Event, Numbers
    <3> QED BY <1>1, <3>1
  <2> QED BY <1>1, <2>1, <2>2 DEF IInv, AuthoredOK, KeysUnique
<1>10. OwnOK'
  <2>1. \A h \in Flows : flow[d][h].pc # "copy"
    BY <1>1 DEF SingleFlow, IdleFlow
  <2>2. \A c \in Devices : \A h \in Flows : flow[c][h].pc = "copy" => flow'[c][h] = flow[c][h]
    BY <1>1, <2>1 DEF IInv, FlowsOK
  <2> QED BY <1>1, <2>2 DEF IInv, OwnOK
<1> QED BY <1>7, <1>8, <1>9, <1>10 DEF IInv

(* Saving a fresh event replaces nothing on the disk.                      *)
LEMMA UpsertFresh ==
  ASSUME NEW A, NEW S \in SUBSET A, NEW e, Fresh(e, A)
  PROVE Upsert(S, e) = S \cup {e}
BY DEF Upsert, Fresh

(* What saving does, given the invariant: it adds one fresh event of the   *)
(* device to its disk and to the authored ones.                            *)
LEMMA SaveAdds ==
  ASSUME IInv, NEW d \in Devices, NEW f \in Flows, Save(d, f)
  PROVE \E e \in Event :
          /\ e.signer = d /\ Fresh(e, authored) /\ e.sequence <= built
          /\ flow[d][f].event = {e}
          /\ authored' = authored \cup {e}
          /\ disk' = [disk EXCEPT ![d] = disk[d] \cup {e}]
<1>1. FlowOK(d, flow[d][f], authored, built) /\ flow[d][f].pc = "save"
  BY DEF Save, IInv, FlowsOK
<1>2. PICK e \in Event : /\ flow[d][f].event = {e} /\ e.signer = d /\ Fresh(e, authored)
                         /\ e.sequence <= built
  BY <1>1 DEF FlowOK
<1>3. authored' = authored \cup {e} /\ disk' = [disk EXCEPT ![d] = Upsert(disk[d], e)]
  BY <1>2 DEF Save
<1>4. disk[d] \in SUBSET authored
  BY DEF IInv, StoresOK
<1>5. Upsert(disk[d], e) = disk[d] \cup {e}
  BY <1>2, <1>4, UpsertFresh
<1> QED BY <1>2, <1>3, <1>5

(* Saving: the only step that authors an event.                            *)
LEMMA SaveInv ==
  ASSUME SingleFlow, IInv, NEW d \in Devices, NEW f \in Flows, Save(d, f)
  PROVE IInv'
<1>1. PICK e \in Event :
          /\ e.signer = d /\ Fresh(e, authored) /\ e.sequence <= built
          /\ flow[d][f].event = {e}
          /\ authored' = authored \cup {e}
          /\ disk' = [disk EXCEPT ![d] = disk[d] \cup {e}]
  BY SaveAdds
<1>2. /\ UNCHANGED <<core, server, push, pull, restarts, refused, built>>
      /\ flow' = [flow EXCEPT ![d][f].pc = "copy"]
  BY DEF Save
<1> DEFINE q == [flow[d][f] EXCEPT !.pc = "copy"]
<1>3. flow \in [Devices -> [Flows -> FlowRecord]] /\ flow[d][f] \in FlowRecord
  BY DEF IInv, FlowsOK
<1>4. flow' = [flow EXCEPT ![d][f] = q] /\ q.event = {e} /\ q.pc = "copy" /\ q \in FlowRecord
  BY <1>1, <1>2, <1>3 DEF FlowRecord
<1> HIDE DEF q
<1>5. FlowOK(d, q, authored', built')
  BY <1>1, <1>2, <1>4 DEF FlowOK
<1>6. ASSUME NEW c \in Devices, NEW g \in Flows, c # d \/ g # f
      PROVE FlowOK(c, flow[c][g], authored', built')
  <2>1. FlowOK(c, flow[c][g], authored, built) /\ c # d
    BY <1>6 DEF IInv, FlowsOK, SingleFlow
  <2>2. ASSUME NEW x \in Event, x.signer = c, Fresh(x, authored)
        PROVE Fresh(x, authored')
    BY <1>1, <2>1, <2>2 DEF Fresh, SameKey
  <2> QED BY <1>1, <1>2, <2>1, <2>2 DEF FlowOK
<1>7. FlowsOK'
  BY <1>4, <1>5, <1>6, FlowSet DEF IInv
<1>8. StoresOK'
  BY <1>1, <1>2 DEF IInv, StoresOK
<1>9. PushesOK' /\ PullsOK'
  <2>1. authored \subseteq authored'
    BY <1>1
  <2>2. \A r : PushOK(r, authored) => PushOK(r, authored')
    BY <2>1 DEF PushOK
  <2>3. \A r : PullOK(r, authored) => PullOK(r, authored')
    BY <2>1 DEF PullOK
  <2> QED BY <1>2, <2>2, <2>3 DEF IInv, PushesOK, PullsOK
<1>10. AuthoredOK'
  <2>1. KeysUnique'
    BY <1>1 DEF IInv, AuthoredOK, KeysUnique, Fresh, SameKey
  <2> QED BY <1>1, <1>2, <2>1 DEF IInv, AuthoredOK
<1>11. OwnOK'
  <2>1. /\ \A c \in Devices : disk[c] \subseteq disk'[c]
        /\ e \in disk'[d] /\ core' = core
    BY <1>1, <1>2 DEF IInv, StoresOK
  <2>2. \A c \in Devices : \A g \in Flows :
          flow'[c][g] = IF c = d /\ g = f THEN q ELSE flow[c][g]
    BY <1>3, <1>4
  <2>3. ASSUME NEW c \in Devices, NEW x \in authored, x.signer = c
        PROVE /\ x \in disk'[c]
              /\ x \in core'[c] \/ \E g \in Flows : flow'[c][g].pc = "copy" /\ x \in flow'[c][g].event
    <3>1. \A g \in Flows : flow[c][g].pc = "copy" => flow'[c][g] = flow[c][g]
      BY <2>2 DEF Save
    <3> QED BY <2>1, <2>3, <3>1 DEF IInv, OwnOK
  <2>4. flow'[d][f].pc = "copy" /\ e \in flow'[d][f].event
    BY <1>4, <2>2
  <2> QED BY <1>1, <2>1, <2>3, <2>4 DEF OwnOK
<1> QED BY <1>7, <1>8, <1>9, <1>10, <1>11 DEF IInv

(* Copying makes the core hold the event, so the flow may forget it.       *)
LEMMA CopyInv ==
  ASSUME SingleFlow, IInv, NEW d \in Devices, NEW f \in Flows, Copy(d, f)
  PROVE IInv'
<1>1. PICK e \in flow[d][f].event : core' = [core EXCEPT ![d] = InsertNew(@, e)]
  BY DEF Copy
<1>2. /\ UNCHANGED <<disk, server, push, pull, restarts, built, refused, authored>>
      /\ flow' = [flow EXCEPT ![d][f] = IdleFlow] /\ flow[d][f].pc = "copy"
  BY DEF Copy
<1>3. flow[d][f].event = {e} /\ e \in authored
  BY <1>1, <1>2 DEF IInv, FlowsOK, FlowOK
<1>4. /\ core \in [Devices -> SUBSET authored]
      /\ flow \in [Devices -> [Flows -> FlowRecord]]
  BY DEF IInv, StoresOK, FlowsOK
<1>5. /\ \A c \in Devices : core[c] \subseteq core'[c]
      /\ e \in core'[d] /\ core' \in [Devices -> SUBSET authored]
  <2>1. core[d] \subseteq InsertNew(core[d], e) /\ InsertNew(core[d], e) \subseteq core[d] \cup {e}
    BY InsertNewFacts
  <2>2. e \in InsertNew(core[d], e)
    BY <1>3, <1>4, InsertedIsHeld DEF IInv, AuthoredOK
  <2>3. core' = [core EXCEPT ![d] = InsertNew(core[d], e)]
    BY <1>1
  <2> DEFINE C == InsertNew(core[d], e)
  <2> HIDE DEF C
  <2> QED BY <1>3, <1>4, <2>1, <2>2, <2>3 DEF C
<1>6. FlowsOK'
  <2>1. FlowOK(d, IdleFlow, authored', built')
    BY IdleRecords
  <2>2. \A c \in Devices : \A g \in Flows : FlowOK(c, flow[c][g], authored', built')
    BY <1>2 DEF IInv, FlowsOK
  <2> QED BY <1>2, <2>1, <2>2, FlowSet DEF IInv
<1>7. StoresOK' /\ AuthoredOK' /\ PushesOK' /\ PullsOK'
  BY <1>2, <1>5 DEF IInv, StoresOK, AuthoredOK, PushesOK, PullsOK, KeysUnique
<1>8. OwnOK'
  <2>1. \A c \in Devices : \A g \in Flows :
          flow'[c][g] = IF c = d /\ g = f THEN IdleFlow ELSE flow[c][g]
    BY <1>2, <1>4
  <2>2. ASSUME NEW c \in Devices, NEW x \in authored, x.signer = c
        PROVE /\ x \in disk'[c]
              /\ x \in core'[c] \/ \E g \in Flows : flow'[c][g].pc = "copy" /\ x \in flow'[c][g].event
    <3>1. CASE x = e /\ c = d
      BY <1>2, <1>5, <2>2, <3>1 DEF IInv, OwnOK
    <3>2. CASE x # e \/ c # d
      BY <1>2, <1>3, <1>5, <2>1, <2>2, <3>2 DEF IInv, OwnOK
    <3> QED BY <3>1, <3>2
  <2> QED BY <1>2, <2>2 DEF OwnOK
<1> QED BY <1>6, <1>7, <1>8 DEF IInv

(* A restart forgets the tasks of a device; its disk has all it published. *)
LEMMA RestartInv ==
  ASSUME IInv, NEW d \in Devices, Restart(d)
  PROVE IInv'
<1>1. /\ UNCHANGED <<disk, server, built, authored, refused>>
      /\ core' = [core EXCEPT ![d] = disk[d]]
      /\ restarts < MaxRestarts /\ restarts' = restarts + 1
      /\ flow' = [flow EXCEPT ![d] = [f \in Flows |-> IdleFlow]]
      /\ push' = [push EXCEPT ![d] = [s \in Servers |-> IdlePush]]
      /\ pull' = [pull EXCEPT ![d] = IdlePull]
  BY DEF Restart
<1>2. StoresOK'
  BY <1>1 DEF IInv, StoresOK
<1>3. AuthoredOK'
  <2>1. restarts' \in 0..MaxRestarts
    BY <1>1, SyncAssumption DEF IInv, AuthoredOK
  <2> QED BY <1>1, <2>1 DEF IInv, AuthoredOK, KeysUnique
<1>4. FlowsOK'
  <2>1. IdleFlow \in FlowRecord
    BY DEF IdleFlow, FlowRecord
  <2>2. \A c \in Devices : \A g \in Flows :
          flow'[c][g] = IF c = d THEN IdleFlow ELSE flow[c][g]
    BY <1>1 DEF IInv, FlowsOK
  <2>3. flow' \in [Devices -> [Flows -> FlowRecord]]
    BY <1>1, <2>1 DEF IInv, FlowsOK
  <2> QED BY <1>1, <2>2, <2>3, IdleRecords DEF IInv, FlowsOK
<1>5. PushesOK'
  <2>1. PushOK(IdlePush, authored) /\ IdlePush \in PushRecord
    BY IdleRecords DEF PushOK
  <2>2. \A c \in Devices : \A s \in Servers :
          push'[c][s] = IF c = d THEN IdlePush ELSE push[c][s]
    BY <1>1 DEF IInv, PushesOK
  <2>3. push' \in [Devices -> [Servers -> PushRecord]]
    BY <1>1, <2>1 DEF IInv, PushesOK
  <2> QED BY <1>1, <2>1, <2>2, <2>3 DEF IInv, PushesOK
<1>6. PullsOK'
  <2>1. PullOK(IdlePull, authored)
    BY IdleRecords
  <2> QED BY <1>1, <2>1, PullSet DEF IInv
<1>7. OwnOK'
  <2>1. core'[d] = disk[d] /\ \A c \in Devices : c # d => core'[c] = core[c] /\ flow'[c] = flow[c]
    BY <1>1 DEF IInv, StoresOK, FlowsOK
  <2> QED BY <1>1, <2>1 DEF IInv, OwnOK
<1> QED BY <1>2, <1>3, <1>4, <1>5, <1>6, <1>7 DEF IInv

-----------------------------------------------------------------------------
(* The invariant holds initially ...                                       *)
LEMMA InitInv ==
  ASSUME Init
  PROVE IInv
<1>1. StoresOK /\ AuthoredOK /\ OwnOK
  BY SyncAssumption DEF Init, StoresOK, AuthoredOK, OwnOK, KeysUnique
<1>2. FlowsOK
  <2>1. IdleFlow \in FlowRecord
    BY DEF IdleFlow, FlowRecord
  <2> QED BY <2>1, IdleRecords DEF Init, FlowsOK
<1>3. PushesOK
  <2>1. \A A : IdlePush \in PushRecord /\ PushOK(IdlePush, A)
    BY IdleRecords DEF PushOK
  <2> QED BY <2>1 DEF Init, PushesOK
<1>4. PullsOK
  <2>1. \A A : IdlePull \in PullRecord /\ PullOK(IdlePull, A)
    BY IdleRecords DEF PullOK
  <2> QED BY <2>1 DEF Init, PullsOK
<1> QED BY <1>1, <1>2, <1>3, <1>4 DEF IInv

(* ... and every step of a device with one flow keeps it.                  *)
LEMMA NextInv ==
  ASSUME SingleFlow, IInv, [Next]_vars
  PROVE IInv'
<1>1. CASE UNCHANGED vars
  BY <1>1 DEF vars, IInv, StoresOK, AuthoredOK, KeysUnique, OwnOK, FlowsOK, PushesOK, PullsOK
<1>2. CASE Next
  <2>1. PICK d \in Devices :
          \/ \E f \in Flows : FlowStep(d, f)
          \/ \E s \in Servers : PushStep(d, s) \/ Refuse(d, s) \/ LosePush(d, s)
          \/ PullStep(d) \/ \E s \in Servers : LoseReply(d, s)
          \/ Restart(d)
    BY <1>2 DEF Next
  <2>2. CASE \E f \in Flows : FlowStep(d, f)
    BY <2>2, BuildInv, SaveInv, CopyInv DEF FlowStep
  <2>3. CASE \E s \in Servers : PushStep(d, s) \/ Refuse(d, s) \/ LosePush(d, s)
    BY <2>3, PushInv
  <2>4. CASE PullStep(d) \/ \E s \in Servers : LoseReply(d, s)
    BY <2>4, PullInv
  <2>5. CASE Restart(d)
    BY <2>5, RestartInv
  <2> QED BY <2>1, <2>2, <2>3, <2>4, <2>5
<1> QED BY <1>1, <1>2

(* The stores hold authored events under unique keys, a device holds its   *)
(* own, and what a flow is about to save has a fresh key: always.          *)
THEOREM SyncInvariant ==
  ASSUME SingleFlow
  PROVE Spec => []IInv
<1>1. Init => IInv
  BY InitInv
<1>2. IInv /\ [Next]_vars => IInv'
  BY NextInv
<1> QED BY <1>1, <1>2, PTL DEF Spec

(* Every store, page and bundle holds events, and no sequence number       *)
(* outgrows the number of events published.                                *)
THEOREM SyncTyped ==
  ASSUME SingleFlow
  PROVE Spec => []TypeOK
<1>1. IInv => TypeOK
  BY DEF IInv, StoresOK, AuthoredOK, FlowsOK, PushesOK, PullsOK, TypeOK
<1> QED BY <1>1, SyncInvariant, PTL

(* A device that publishes one event at a time never signs two under one   *)
(* key, through restarts, lost requests and pulls of its own events.       *)
THEOREM NoKeyReused ==
  ASSUME SingleFlow
  PROVE Spec => []KeysUnique
<1>1. IInv => KeysUnique
  BY DEF IInv, AuthoredOK
<1> QED BY <1>1, SyncInvariant, PTL

(* What a device published is on its disk for good: no save of a pulled    *)
(* event and no later publication replaces it.                             *)
THEOREM PublishedStaysOnDisk ==
  ASSUME SingleFlow
  PROVE Spec => []OwnEventsKept
<1>1. IInv => OwnEventsKept
  BY DEF IInv, OwnOK, OwnEventsKept
<1> QED BY <1>1, SyncInvariant, PTL

-----------------------------------------------------------------------------
(* Refinement.                                                             *)

Held == [s \in Devices \cup Servers |-> IF s \in Devices THEN disk[s] ELSE server[s]]

(* A step that leaves both kinds of durable store alone is a stutter.      *)
LEMMA StoresAlone ==
  ASSUME UNCHANGED <<disk, server, authored>>
  PROVE UNCHANGED <<authored, Held>>
BY DEF Held

(* Putting an event into one store is a Receive, or nothing.               *)
LEMMA PutReceives ==
  ASSUME IInv, NEW d \in Devices, NEW s \in Servers, Put(d, s)
  PROVE \/ UNCHANGED <<authored, Held>>
        \/ \E e \in authored : /\ Held' = [Held EXCEPT ![s] = @ \cup {e}]
                               /\ authored' = authored
<1>1. PICK e \in First(push[d][s].bundles) : server' = [server EXCEPT ![s] = InsertNew(@, e)]
  BY DEF Put
<1>2. e \in authored /\ disk' = disk /\ authored' = authored
  BY <1>1 DEF Put, First, IInv, PushesOK, PushOK
<1>3. server \in [Servers -> SUBSET authored] /\ s \notin Devices
  BY SyncAssumption DEF IInv, StoresOK
<1>4. CASE HoldsKeyOf(server[s], e)
  <2>1. server' = server
    BY <1>1, <1>3, <1>4 DEF InsertNew
  <2> QED BY <1>2, <2>1 DEF Held
<1>5. CASE ~ HoldsKeyOf(server[s], e)
  <2>1. server' = [server EXCEPT ![s] = server[s] \cup {e}]
    BY <1>1, <1>5 DEF InsertNew
  <2>2. Held' = [Held EXCEPT ![s] = @ \cup {e}]
    BY <1>2, <1>3, <2>1 DEF Held
  <2> QED BY <1>2, <2>2
<1> QED BY <1>4, <1>5

(* So is saving a pulled event.                                            *)
LEMMA PulledReceives ==
  ASSUME IInv, NEW d \in Devices, NEW s \in Servers, SavePulled(d, s)
  PROVE \/ UNCHANGED <<authored, Held>>
        \/ \E e \in authored : /\ Held' = [Held EXCEPT ![d] = @ \cup {e}]
                               /\ authored' = authored
<1>1. PICK e \in Highest(pull[d].pages[s]) : disk' = [disk EXCEPT ![d] = InsertNew(@, e)]
  BY DEF SavePulled
<1>2. e \in authored /\ server' = server /\ authored' = authored
  BY <1>1 DEF SavePulled, Highest, IInv, PullsOK, PullOK
<1>3. disk \in [Devices -> SUBSET authored]
  BY DEF IInv, StoresOK
<1>4. CASE HoldsKeyOf(disk[d], e)
  <2>1. disk' = disk
    BY <1>1, <1>3, <1>4 DEF InsertNew
  <2> QED BY <1>2, <2>1 DEF Held
<1>5. CASE ~ HoldsKeyOf(disk[d], e)
  <2>1. disk' = [disk EXCEPT ![d] = disk[d] \cup {e}]
    BY <1>1, <1>5 DEF InsertNew
  <2>2. Held' = [Held EXCEPT ![d] = @ \cup {e}]
    BY <1>2, <1>3, <2>1 DEF Held
  <2> QED BY <1>2, <2>2
<1> QED BY <1>4, <1>5

(* Saving an event of one's own is Author: its key is fresh.               *)
LEMMA SaveAuthors ==
  ASSUME IInv, NEW d \in Devices, NEW f \in Flows, Save(d, f)
  PROVE \E e \in Event : /\ \A g \in authored : ~ SameKey(e, g)
                         /\ authored' = authored \cup {e}
                         /\ Held' = [Held EXCEPT ![e.signer] = @ \cup {e}]
<1>1. PICK e \in Event : /\ e.signer = d /\ Fresh(e, authored)
                         /\ authored' = authored \cup {e}
                         /\ disk' = [disk EXCEPT ![d] = disk[d] \cup {e}]
  BY SaveAdds
<1>2. server' = server /\ disk \in [Devices -> SUBSET authored]
  BY DEF Save, IInv, StoresOK
<1>3. Held' = [Held EXCEPT ![d] = @ \cup {e}]
  BY <1>1, <1>2 DEF Held
<1> QED BY <1>1, <1>3 DEF Fresh

(* Every step is a step of EventReplication, or changes no durable store.  *)
LEMMA StepReplicates ==
  ASSUME IInv, [Next]_vars
  PROVE [Replication!Next]_(Replication!vars)
<1> SUFFICES \/ UNCHANGED <<authored, Held>>
             \/ \E e \in Event : /\ \A g \in authored : ~ SameKey(e, g)
                                 /\ authored' = authored \cup {e}
                                 /\ Held' = [Held EXCEPT ![e.signer] = @ \cup {e}]
             \/ \E s \in Devices \cup Servers : \E e \in authored :
                  /\ Held' = [Held EXCEPT ![s] = @ \cup {e}]
                  /\ authored' = authored
  BY Zenon DEF Held, SameKey, Event, Replication!Next, Replication!vars, Replication!Author,
               Replication!Receive, Replication!SameKey, Replication!Event
<1>1. CASE UNCHANGED vars
  BY <1>1, StoresAlone DEF vars
<1>2. ASSUME NEW d \in Devices, NEW f \in Flows, FlowStep(d, f)
      PROVE UNCHANGED <<disk, server, authored>> \/ Save(d, f)
  BY <1>2 DEF FlowStep, Build, Copy
<1>3. ASSUME NEW d \in Devices, NEW s \in Servers,
             PushStep(d, s) \/ Refuse(d, s) \/ LosePush(d, s) \/ LoseReply(d, s)
      PROVE UNCHANGED <<disk, server, authored>> \/ Put(d, s)
  BY <1>3 DEF PushStep, StartPush, PushGoesOn, StartFullPush, RequestHeads, Bundle, EndPush, Refuse, LosePush, LoseReply
<1>4. ASSUME NEW d \in Devices, PullStep(d)
      PROVE UNCHANGED <<disk, server, authored>> \/ \E s \in Servers : SavePulled(d, s)
  BY <1>4 DEF PullStep, StartSomePull, PullGoesOn, StartPull, Reply, EndPull
<1>5. ASSUME NEW d \in Devices, Restart(d) PROVE UNCHANGED <<disk, server, authored>>
  BY <1>5 DEF Restart
<1>6. CASE Next
  <2>1. PICK d \in Devices :
          \/ UNCHANGED <<disk, server, authored>>
          \/ \E f \in Flows : Save(d, f)
          \/ \E s \in Servers : Put(d, s) \/ SavePulled(d, s)
    BY <1>2, <1>3, <1>4, <1>5, <1>6 DEF Next
  <2> QED BY <2>1, StoresAlone, SaveAuthors, PutReceives, PulledReceives
<1> QED BY <1>1, <1>6

(* Synchronization implements grow-only replication: the disks and the     *)
(* servers only ever gain events, each authored once under its key.        *)
THEOREM SyncReplicates ==
  ASSUME SingleFlow
  PROVE Spec => Replicates
<1>1. Init => Replication!Init
  BY DEF Init, Replication!Init
<1>2. IInv /\ [Next]_vars => [Replication!Next]_(Replication!vars)
  BY StepReplicates
<1> QED BY <1>1, <1>2, SyncInvariant, PTL DEF Spec, Replicates, Replication!Spec
-----------------------------------------------------------------------------
(* One server.                                                             *)

(* The own events of device d are sent in order: of the ones earlier than  *)
(* what is bundled, or than the head that was asked for, each is on the    *)
(* server, was refused or is bundled too.  K are the events the server     *)
(* holds or refused, S the ones it holds.                                  *)
Ahead(d, q, A, K, S) ==
  /\ q.pc = "bundle" =>
       /\ \A f \in A : f.signer = d /\ f.sequence <= q.heads[d] => f \in K
       /\ q.heads[d] = 0 \/ \E g \in A : g.signer = d /\ q.heads[d] <= g.sequence
  /\ \A e \in q.bundles : e.signer # d => e \in S
  /\ \A e \in q.bundles : \A f \in A :
       e.signer = d /\ f.signer = d /\ f.sequence < e.sequence => f \in K \cup q.bundles

(* The event a flow holds is the last one of its device.                   *)
Newest(d, q, A) ==
  \A e \in q.event : \A g \in A : g.signer = d =>
    /\ q.pc = "save" => g.sequence < e.sequence
    /\ q.pc = "copy" => g.sequence <= e.sequence

(* What a device holds of the others it has from the server.               *)
ForeignOK(s) ==
  \A d \in Devices :
    /\ \A e \in core[d] \cup disk[d] : e.signer # d => e \in server[s]
    /\ pull[d].pages[s] \subseteq server[s]

NewestOK == \A d \in Devices : \A f \in Flows : Newest(d, flow[d][f], authored)

AheadOK(s) ==
  \A d \in Devices : Ahead(d, push[d][s], authored, server[s] \cup refused[s], server[s])

(* The earlier events of the streams in S are held or refused.             *)
Prefixes(A, K, S) ==
  \A e \in S : \A f \in A : f.signer = e.signer /\ f.sequence < e.sequence => f \in K

PrefixInv(s) ==
  /\ ForeignOK(s) /\ NewestOK /\ AheadOK(s)
  /\ Prefixes(authored, server[s] \cup refused[s], server[s])

(* A head is 0 or the number of an event of the stream.                    *)
LEMMA HeadIsHeld ==
  ASSUME NEW S \in SUBSET Event, NEW d \in Devices
  PROVE  Heads(S)[d] = 0 \/ \E g \in S : g.signer = d /\ g.sequence = Heads(S)[d]
<1> DEFINE D == {f \in S : f.signer = d}
<1>1. MaxEvents \in Nat
  BY SyncAssumption
<1>2. \A e \in D : e.sequence \in Nat /\ e.sequence <= MaxEvents
  BY <1>1 DEF Event, Numbers
<1>3. Heads(S)[d] = Max({0} \cup {e.sequence : e \in D})
  BY DEF Heads
<1>4. Heads(S)[d] \in {0} \cup {e.sequence : e \in D}
  <2> HIDE DEF D
  <2> QED BY <1>1, <1>2, <1>3, MaxSequence
<1> QED BY <1>4

(* Holding or refusing more keeps a push ahead ...                         *)
LEMMA AheadGrows ==
  ASSUME NEW d, NEW q, NEW A, NEW K, NEW S, NEW L, NEW T, Ahead(d, q, A, K, S),
         K \subseteq L, S \subseteq T
  PROVE  Ahead(d, q, A, L, T)
BY DEF Ahead

(* ... and so does an event published meanwhile, which is the last one of  *)
(* its device.                                                             *)
LEMMA AheadNew ==
  ASSUME NEW d, NEW q \in PushRecord, NEW A \in SUBSET Event, NEW K, NEW S, NEW n \in Event,
         Ahead(d, q, A, K, S), q.bundles \subseteq A, d \in Devices,
         \A g \in A : g.signer = n.signer => g.sequence < n.sequence
  PROVE  Ahead(d, q, A \cup {n}, K, S)
<1>1. n.sequence \in Nat \ {0} /\ q.heads[d] \in Nat /\ \A g \in A : g.sequence \in Nat
  BY SyncAssumption DEF Event, Numbers, PushRecord, HeadVector
<1>2. ASSUME q.pc = "bundle", n.signer = d PROVE q.heads[d] < n.sequence
  <2>1. q.heads[d] = 0 \/ \E g \in A : g.signer = d /\ q.heads[d] <= g.sequence
    BY <1>2 DEF Ahead
  <2> QED BY <1>1, <1>2, <2>1
<1>3. \A e \in q.bundles : e.signer = d /\ n.signer = d => ~ (n.sequence < e.sequence)
  BY <1>1
<1>4. ASSUME q.pc = "bundle", n.signer = d PROVE ~ (n.sequence <= q.heads[d])
  BY <1>1, <1>2, <1>4
<1> QED BY <1>3, <1>4 DEF Ahead

(* The core lacks no event of its device that is earlier than one it has.  *)
LEMMA OwnEarlier ==
  ASSUME IInv, NewestOK, NEW d \in Devices, NEW e \in core[d], NEW f \in authored,
         e.signer = d, f.signer = d, f.sequence < e.sequence
  PROVE  f \in core[d]
<1>1. e \in authored /\ e.sequence \in Nat /\ f.sequence \in Nat
  BY SyncAssumption DEF IInv, StoresOK, AuthoredOK, Event, Numbers
<1>2. ASSUME NEW g \in Flows, flow[d][g].pc = "copy", f \in flow[d][g].event PROVE FALSE
  <2>1. e.sequence <= f.sequence
    BY <1>1, <1>2 DEF NewestOK, Newest
  <2> QED BY <1>1, <2>1
<1> QED BY <1>2 DEF IInv, OwnOK

LEMMA PrefixFacts ==
  ASSUME IInv, NEW s \in Servers
  PROVE  /\ authored \subseteq Event /\ KeysUnique
         /\ \A e \in authored : /\ e.sequence \in Nat \ {0}
                               /\ e.signer \in Nat /\ e.signer \in Devices
         /\ core \in [Devices -> SUBSET authored] /\ disk \in [Devices -> SUBSET authored]
         /\ server \in [Servers -> SUBSET authored] /\ server[s] \in SUBSET authored
         /\ refused \in [Servers -> SUBSET Event]
         /\ push \in [Devices -> [Servers -> PushRecord]]
         /\ \A d \in Devices : push[d][s] \in PushRecord /\ push[d][s].bundles \subseteq authored
         /\ pull \in [Devices -> PullRecord] /\ flow \in [Devices -> [Flows -> FlowRecord]]
<1>1. authored \subseteq Event /\ KeysUnique
  BY DEF IInv, AuthoredOK
<1>2. \A e \in Event : e.sequence \in Nat \ {0} /\ e.signer \in Nat /\ e.signer \in Devices
  <2>1. Devices \subseteq Nat /\ Numbers \subseteq Nat \ {0}
    BY SyncAssumption DEF Numbers
  <2>2. \A e \in Event : e.sequence \in Numbers /\ e.signer \in Devices
    BY DEF Event
  <2> QED BY <2>1, <2>2
<1>3. \A d \in Devices : push[d][s] \in PushRecord /\ push[d][s].bundles \subseteq authored
  BY DEF IInv, PushesOK, PushOK
<1>4. /\ core \in [Devices -> SUBSET authored] /\ disk \in [Devices -> SUBSET authored]
      /\ server \in [Servers -> SUBSET authored] /\ server[s] \in SUBSET authored
      /\ refused \in [Servers -> SUBSET Event]
  BY DEF IInv, StoresOK
<1>5. /\ push \in [Devices -> [Servers -> PushRecord]]
      /\ pull \in [Devices -> PullRecord] /\ flow \in [Devices -> [Flows -> FlowRecord]]
  BY DEF IInv, PushesOK, PullsOK, FlowsOK
<1> QED BY <1>1, <1>2, <1>3, <1>4, <1>5

(* Steps that set a push and change nothing else.                          *)
LEMMA PushAhead ==
  ASSUME IInv, NEW s \in Servers, PrefixInv(s), NEW d \in Devices, NEW q,
         push' = [push EXCEPT ![d][s] = q],
         Ahead(d, q, authored, server[s] \cup refused[s], server[s]),
         UNCHANGED <<core, disk, flow, server, pull, refused, authored>>
  PROVE  PrefixInv(s)'
<1>1. push \in [Devices -> [Servers -> PushRecord]]
  BY PrefixFacts
<1>2. push'[d][s] = q /\ \A c \in Devices : c # d => push'[c] = push[c]
  BY <1>1
<1>3. AheadOK(s)'
  BY <1>2 DEF PrefixInv, AheadOK
<1>4. ForeignOK(s)' /\ NewestOK'
  BY DEF PrefixInv, ForeignOK, NewestOK
<1> QED BY <1>3, <1>4 DEF PrefixInv

LEMMA PushPrefixes ==
  ASSUME IInv, NEW s \in Servers, PrefixInv(s), NEW d \in Devices,
         PushStep(d, s) \/ Refuse(d, s) \/ LosePush(d, s)
  PROVE  PrefixInv(s)'
<1> DEFINE q == push[d][s]
           S == server[s]
           K == server[s] \cup refused[s]
           A == authored
<1>1. /\ A \subseteq Event /\ KeysUnique /\ S \in SUBSET A /\ core[d] \in SUBSET A
      /\ \A e \in A : /\ e.sequence \in Nat \ {0}
                     /\ e.signer \in Nat /\ e.signer \in Devices
      /\ q \in PushRecord /\ q.bundles \subseteq A
      /\ push \in [Devices -> [Servers -> PushRecord]]
      /\ server \in [Servers -> SUBSET A] /\ refused \in [Servers -> SUBSET Event]
  BY PrefixFacts
<1>2. /\ Ahead(d, q, A, K, S) /\ Prefixes(A, K, S) /\ NewestOK
      /\ \A e \in core[d] : e.signer # d => e \in S
      /\ \A c \in Devices : Ahead(c, push[c][s], A, K, S)
  BY DEF PrefixInv, AheadOK, ForeignOK
<1>3. \A e \in core[d] : \A f \in A :
        e.signer = d /\ f.signer = d /\ f.sequence < e.sequence => f \in core[d]
  BY <1>2, OwnEarlier
<1> HIDE DEF S, K, A
<1>4. CASE StartFullPush(d, s)
  <2> DEFINE n == [IdlePush EXCEPT !.pc = "put", !.bundles = core[d]]
  <2>1. n.pc = "put" /\ n.bundles = core[d]
    BY DEF IdlePush
  <2>2. push' = [push EXCEPT ![d][s] = n]
    BY <1>4 DEF StartFullPush
  <2> HIDE DEF n
  <2>3. Ahead(d, n, A, K, S)
    BY <1>2, <1>3, <2>1 DEF Ahead
  <2> QED BY <1>4, <2>2, <2>3, PushAhead DEF StartFullPush, A, K, S
<1>5. CASE RequestHeads(d, s)
  <2> DEFINE h == Heads(S)
  <2> DEFINE n == [IdlePush EXCEPT !.pc = "bundle", !.heads = h]
  <2>1. n.bundles = {} /\ n.heads = h
    BY DEF IdlePush
  <2>2. push' = [push EXCEPT ![d][s] = n]
    BY <1>5 DEF RequestHeads, S
  <2>3. h[d] = 0 \/ \E g \in S : g.signer = d /\ g.sequence = h[d]
    BY <1>1, HeadIsHeld
  <2> HIDE DEF n, h
  <2>4. ASSUME NEW f \in A, f.signer = d, f.sequence <= h[d] PROVE f \in K
    <3>1. PICK g \in S : g.signer = d /\ g.sequence = h[d]
      BY <1>1, <2>3, <2>4
    <3>2. g \in A
      BY <1>1
    <3>3. CASE f.sequence = g.sequence
      BY <1>1, <2>4, <3>1, <3>2, <3>3 DEF KeysUnique, SameKey, A, K, S
    <3>4. CASE f.sequence < g.sequence
      BY <1>2, <2>4, <3>1, <3>4 DEF Prefixes
    <3> QED BY <1>1, <2>4, <3>1, <3>2, <3>3, <3>4
  <2>5. h[d] = 0 \/ \E g \in A : g.signer = d /\ h[d] <= g.sequence
    BY <1>1, <2>3
  <2>6. Ahead(d, n, A, K, S)
    BY <2>1, <2>4, <2>5 DEF Ahead
  <2> QED BY <1>5, <2>2, <2>6, PushAhead DEF RequestHeads, A, K, S
<1>6. CASE Bundle(d, s)
  <2> DEFINE B == Beyond(core[d], q.heads)
  <2> DEFINE n == [IdlePush EXCEPT !.pc = "put", !.bundles = B]
  <2>1. n.pc = "put" /\ n.bundles = B
    BY DEF IdlePush
  <2>2. push' = [push EXCEPT ![d][s] = n] /\ q.pc = "bundle"
    BY <1>6 DEF Bundle
  <2>3. B \subseteq core[d] /\ \A f \in core[d] : f.signer = d => f \in B \/ ~ (f.sequence > q.heads[d])
    BY DEF Beyond
  <2>4. q.heads[d] \in Nat
    BY <1>1 DEF PushRecord, HeadVector
  <2> HIDE DEF n, B
  <2>5. \A f \in A : f.signer = d /\ f.sequence <= q.heads[d] => f \in K
    BY <1>2, <2>2 DEF Ahead
  <2>6. ASSUME NEW e \in B, NEW f \in A, e.signer = d, f.signer = d, f.sequence < e.sequence
        PROVE  f \in K \cup B
    <3>1. f \in core[d]
      BY <1>3, <2>3, <2>6
    <3> QED BY <1>1, <2>3, <2>4, <2>5, <2>6, <3>1
  <2>7. Ahead(d, n, A, K, S)
    BY <1>2, <2>1, <2>3, <2>6 DEF Ahead
  <2> QED BY <1>6, <2>2, <2>7, PushAhead DEF Bundle, A, K, S
<1>7. CASE EndPush(d, s) \/ LosePush(d, s)
  <2>1. Ahead(d, IdlePush, A, K, S)
    BY DEF Ahead, IdlePush
  <2>2. push' = [push EXCEPT ![d][s] = IdlePush]
    BY <1>7 DEF EndPush, LosePush
  <2> QED BY <1>7, <2>1, <2>2, PushAhead DEF EndPush, LosePush, A, K, S
<1>8. ASSUME NEW e \in First(q.bundles), q.pc = "put",
             push' = [push EXCEPT ![d][s].bundles = @ \ {e}]
      PROVE  /\ push'[d][s].pc = "put" /\ push'[d][s].bundles = q.bundles \ {e}
             /\ \A c \in Devices : c # d => push'[c] = push[c]
             /\ e \in q.bundles /\ e \in A
             /\ \A f \in q.bundles : f.signer = e.signer => ~ (f.sequence < e.sequence)
  <2>1. e \in q.bundles
    BY DEF First
  <2>2. e \in A
    BY <1>1, <2>1
  <2>3. ASSUME NEW f \in q.bundles, f.signer = e.signer PROVE ~ (f.sequence < e.sequence)
    <3>1. e.signer < f.signer \/ e.sequence <= f.sequence
      BY <1>8, <2>3 DEF First
    <3> QED BY <1>1, <2>2, <2>3, <3>1
  <2>4. push'[d][s] = [q EXCEPT !.bundles = q.bundles \ {e}]
    BY <1>1, <1>8
  <2>5. \A c \in Devices : c # d => push'[c] = push[c]
    BY <1>1, <1>8
  <2> QED BY <1>1, <1>8, <2>1, <2>2, <2>3, <2>4, <2>5 DEF PushRecord
<1>9. ASSUME NEW e \in First(q.bundles), q.pc = "put",
             push' = [push EXCEPT ![d][s].bundles = @ \ {e}],
             NEW L, NEW T, K \cup {e} \subseteq L, S \subseteq T
      PROVE  \A c \in Devices : Ahead(c, push'[c][s], A, L, T)
  <2>1. /\ push'[d][s].pc = "put" /\ push'[d][s].bundles = q.bundles \ {e}
        /\ \A c \in Devices : c # d => push'[c] = push[c]
    BY <1>8, <1>9
  <2>2. \A c \in Devices : c # d => Ahead(c, push'[c][s], A, L, T)
    BY <1>2, <1>9, <2>1, AheadGrows
  <2>3. Ahead(d, push'[d][s], A, L, T)
    BY <1>2, <1>9, <2>1 DEF Ahead
  <2> QED BY <2>2, <2>3
<1>10. CASE Put(d, s)
  <2>1. PICK e \in First(q.bundles) :
          /\ server' = [server EXCEPT ![s] = InsertNew(@, e)]
          /\ push' = [push EXCEPT ![d][s].bundles = @ \ {e}]
    BY <1>10 DEF Put
  <2>2. UNCHANGED <<core, disk, flow, pull, refused, authored>> /\ q.pc = "put"
    BY <1>10 DEF Put
  <2>3. /\ e \in q.bundles /\ e \in A
        /\ \A f \in q.bundles : f.signer = e.signer => ~ (f.sequence < e.sequence)
    BY <1>8, <2>1, <2>2
  <2> DEFINE T == server'[s]
             L == server'[s] \cup refused[s]
  <2>4. S \subseteq T /\ T \subseteq S \cup {e} /\ e \in T
    <3>1. T = InsertNew(S, e)
      BY <1>1, <2>1 DEF S
    <3>2. e \in InsertNew(S, e)
      BY <1>1, <2>3, InsertedIsHeld DEF A
    <3> QED BY <3>1, <3>2, InsertNewFacts
  <2>5. K \cup {e} \subseteq L
    BY <2>4 DEF K, S
  <2> HIDE DEF T, L
  <2>6. \A c \in Devices : Ahead(c, push'[c][s], A, L, T)
    BY <1>9, <2>1, <2>2, <2>4, <2>5
  <2>7. AheadOK(s)'
    BY <2>2, <2>6 DEF AheadOK, A, L, T
  <2>8. ForeignOK(s)' /\ NewestOK'
    BY <2>2, <2>4 DEF PrefixInv, ForeignOK, NewestOK, S, T
  <2>9. Prefixes(A, L, T)
    <3>1. CASE e.signer # d
      <4>1. e \in S
        BY <1>2, <2>3, <3>1 DEF Ahead
      <4> QED BY <1>2, <2>4, <2>5, <4>1 DEF Prefixes
    <3>2. CASE e.signer = d
      <4>1. \A f \in A : f.signer = d /\ f.sequence < e.sequence => f \in K
        BY <1>2, <2>3, <3>2 DEF Ahead
      <4> QED BY <1>2, <2>4, <2>5, <3>2, <4>1 DEF Prefixes
    <3> QED BY <3>1, <3>2
  <2> QED BY <2>2, <2>7, <2>8, <2>9 DEF PrefixInv, A, L, T
<1>11. CASE Refuse(d, s)
  <2>1. PICK e \in First(q.bundles) :
          /\ refused' = [refused EXCEPT ![s] = @ \cup {e}]
          /\ push' = [push EXCEPT ![d][s].bundles = @ \ {e}]
    BY <1>11 DEF Refuse
  <2>2. UNCHANGED <<core, disk, flow, pull, server, authored>> /\ q.pc = "put"
    BY <1>11 DEF Refuse
  <2> DEFINE L == server[s] \cup refused'[s]
  <2>3. K \cup {e} \subseteq L
    BY <1>1, <2>1 DEF K, S
  <2> HIDE DEF L
  <2>4. \A c \in Devices : Ahead(c, push'[c][s], A, L, S)
    BY <1>9, <2>1, <2>2, <2>3
  <2>5. AheadOK(s)'
    BY <2>2, <2>4 DEF AheadOK, A, L, S
  <2>6. ForeignOK(s)' /\ NewestOK'
    BY <2>2 DEF PrefixInv, ForeignOK, NewestOK
  <2>7. Prefixes(A, L, S)
    BY <1>2, <2>3 DEF Prefixes
  <2> QED BY <2>2, <2>5, <2>6, <2>7 DEF PrefixInv, A, L, S
<1> QED BY <1>4, <1>5, <1>6, <1>7, <1>10, <1>11 DEF PushStep, StartPush, PushGoesOn

(* Pulls: what arrives is on the server.                                   *)
LEMMA PullPrefixes ==
  ASSUME IInv, NEW s \in Servers, Servers = {s}, PrefixInv(s), NEW d \in Devices,
         PullStep(d) \/ LoseReply(d, s)
  PROVE  PrefixInv(s)'
<1> DEFINE q == pull[d]
           S == server[s]
<1>1. /\ core \in [Devices -> SUBSET authored] /\ disk \in [Devices -> SUBSET authored]
      /\ pull \in [Devices -> PullRecord] /\ q \in PullRecord
      /\ q.pages \in [Servers -> SUBSET Event]
  BY PrefixFacts DEF PullRecord
<1>2. /\ \A e \in core[d] \cup disk[d] : e.signer # d => e \in S
      /\ q.pages[s] \subseteq S
  BY DEF PrefixInv, ForeignOK
<1>3. UNCHANGED <<flow, push, server, refused, authored>>
  BY DEF PullStep, StartSomePull, PullGoesOn, StartPull, Reply, SavePulled, EndPull, LoseReply
<1>4. NewestOK' /\ AheadOK(s)'
  BY <1>3 DEF PrefixInv, NewestOK, AheadOK
<1>5. Prefixes(authored', server'[s] \cup refused'[s], server'[s])
  BY <1>3 DEF PrefixInv
<1>6. IdlePull.pages[s] = {}
  BY DEF IdlePull
<1>7. /\ \A e \in core'[d] \cup disk'[d] : e.signer # d => e \in S
      /\ pull'[d].pages[s] \subseteq S
      /\ \A c \in Devices : c # d => core'[c] = core[c] /\ disk'[c] = disk[c] /\ pull'[c] = pull[c]
  <2>1. CASE \E partial \in Partial : StartPull(d, partial)
    <3>1. PICK partial \in Partial : StartPull(d, partial)
      BY <2>1
    <3> DEFINE h == IF partial THEN Heads(disk[d]) ELSE NoHeads
               n == [IdlePull EXCEPT !.pc = "list", !.waiting = Servers, !.heads = h]
    <3>2. UNCHANGED <<core, disk>> /\ pull' = [pull EXCEPT ![d] = n]
      BY <3>1 DEF StartPull
    <3>3. n.pages[s] = {}
      <4> HIDE DEF h
      <4> QED BY DEF IdlePull
    <3> HIDE DEF n
    <3> QED BY <1>1, <1>2, <3>2, <3>3
  <2>2. CASE Reply(d, s)
    <3>1. PICK page \in Pages(Beyond(S, q.heads)) :
            /\ pull' = [pull EXCEPT ![d].waiting = @ \ {s}, ![d].pages[s] = page]
            /\ core' = [core EXCEPT ![d] = @ \cup {e \in page : ~ HoldsKeyOf(@, e)}]
      BY <2>2 DEF Reply
    <3>2. page \subseteq S
      BY <3>1 DEF Pages, Beyond
    <3>3. pull'[d].pages[s] = page /\ \A c \in Devices : c # d => pull'[c] = pull[c]
      BY <1>1, <3>1 DEF PullRecord
    <3>4. core'[d] \subseteq core[d] \cup page /\ \A c \in Devices : c # d => core'[c] = core[c]
      BY <1>1, <3>1
    <3>5. disk' = disk
      BY <2>2 DEF Reply
    <3> QED BY <1>2, <3>2, <3>3, <3>4, <3>5
  <2>3. CASE SavePulled(d, s)
    <3>1. PICK e \in Highest(q.pages[s]) :
            /\ disk' = [disk EXCEPT ![d] = InsertNew(@, e)]
            /\ pull' = [pull EXCEPT ![d].pages[s] = @ \ {e}]
      BY <2>3 DEF SavePulled
    <3>2. e \in S
      BY <1>2, <3>1 DEF Highest
    <3>3. pull'[d].pages[s] \subseteq q.pages[s] /\ \A c \in Devices : c # d => pull'[c] = pull[c]
      BY <1>1, <3>1 DEF PullRecord
    <3>4. disk'[d] \subseteq disk[d] \cup {e} /\ \A c \in Devices : c # d => disk'[c] = disk[c]
      BY <1>1, <3>1, InsertNewFacts
    <3>5. core' = core
      BY <2>3 DEF SavePulled
    <3> QED BY <1>2, <3>2, <3>3, <3>4, <3>5
  <2>4. CASE EndPull(d)
    <3>1. UNCHANGED <<core, disk>> /\ pull' = [pull EXCEPT ![d] = IdlePull]
      BY <2>4 DEF EndPull
    <3> QED BY <1>1, <1>2, <1>6, <3>1
  <2>5. CASE LoseReply(d, s)
    <3>1. UNCHANGED <<core, disk>> /\ pull' = [pull EXCEPT ![d] = IdlePull]
      BY <2>5 DEF LoseReply
    <3> QED BY <1>1, <1>2, <1>6, <3>1
  <2> QED BY <2>1, <2>2, <2>3, <2>4, <2>5 DEF PullStep, StartSomePull, PullGoesOn
<1>8. ForeignOK(s)'
  BY <1>3, <1>7 DEF PrefixInv, ForeignOK
<1> QED BY <1>4, <1>5, <1>8 DEF PrefixInv

(* Publishing: a new event is the last one of its device, so it is         *)
(* earlier than nothing that is stored or on its way.                      *)
LEMMA FlowPrefixes ==
  ASSUME SingleFlow, IInv, NEW s \in Servers, PrefixInv(s), NEW d \in Devices,
         NEW f \in Flows, FlowStep(d, f)
  PROVE  PrefixInv(s)'
<1> DEFINE q == flow[d][f]
<1>1. /\ authored \subseteq Event
      /\ \A e \in Event : e.sequence \in Nat
      /\ core \in [Devices -> SUBSET authored] /\ disk \in [Devices -> SUBSET authored]
      /\ server[s] \in SUBSET authored
      /\ \A c \in Devices : push[c][s] \in PushRecord /\ push[c][s].bundles \subseteq authored
      /\ flow \in [Devices -> [Flows -> FlowRecord]] /\ q \in FlowRecord
  BY PrefixFacts, SyncAssumption DEF Event, Numbers
<1>2. \A c \in Devices : \A g \in Flows : c = d => g = f
  BY DEF SingleFlow
<1>3. UNCHANGED <<server, push, pull, refused>>
  BY DEF FlowStep, Build, Save, Copy
<1>4. CASE Build(d, f)
  <2> DEFINE n == next_sequence(core[d])
             e == [signer |-> d, sequence |-> n, id |-> built + 1]
  <2>1. flow' = [flow EXCEPT ![d][f] = [pc |-> "save", event |-> {e}]] /\ q = IdleFlow
    BY <1>4 DEF Build
  <2>2. \A g \in authored : g.signer = d => g.sequence < n
    BY <2>1, NextIsFresh
  <2>3. e.sequence = n
    OBVIOUS
  <2> HIDE DEF n, e
  <2>4. flow'[d][f].event = {e} /\ flow'[d][f].pc = "save"
        /\ \A c \in Devices : c # d => flow'[c] = flow[c]
    BY <1>1, <2>1
  <2>5. UNCHANGED <<core, disk, authored>>
    BY <1>4 DEF Build
  <2>6. NewestOK'
    BY <1>2, <2>2, <2>3, <2>4, <2>5 DEF PrefixInv, NewestOK, Newest
  <2>7. ForeignOK(s)' /\ AheadOK(s)'
    BY <1>3, <2>5 DEF PrefixInv, ForeignOK, AheadOK
  <2> QED BY <1>3, <2>5, <2>6, <2>7 DEF PrefixInv
<1>5. CASE Copy(d, f)
  <2>1. PICK e \in q.event : core' = [core EXCEPT ![d] = InsertNew(@, e)]
    BY <1>5 DEF Copy
  <2>2. /\ UNCHANGED <<disk, authored>> /\ flow' = [flow EXCEPT ![d][f] = IdleFlow]
        /\ q.pc = "copy"
    BY <1>5 DEF Copy
  <2>3. flow'[d][f].event = {} /\ \A c \in Devices : c # d => flow'[c] = flow[c]
    BY <1>1, <2>2 DEF IdleFlow
  <2>4. NewestOK'
    BY <1>2, <2>2, <2>3 DEF PrefixInv, NewestOK, Newest
  <2>5. e.signer = d
    <3>1. q.event = {e} /\ e \in authored
      BY <2>1, <2>2 DEF IInv, FlowsOK, FlowOK
    <3> QED BY <2>1, <2>2, <3>1 DEF IInv, FlowsOK, FlowOK
  <2>6. core'[d] \subseteq core[d] \cup {e} /\ \A c \in Devices : c # d => core'[c] = core[c]
    BY <1>1, <2>1, InsertNewFacts
  <2>7. ForeignOK(s)'
    BY <1>3, <2>2, <2>5, <2>6 DEF PrefixInv, ForeignOK
  <2>8. AheadOK(s)'
    BY <1>3, <2>2 DEF PrefixInv, AheadOK
  <2> QED BY <1>3, <2>2, <2>4, <2>7, <2>8 DEF PrefixInv
<1>6. CASE Save(d, f)
  <2>1. PICK e \in Event : /\ e.signer = d /\ q.event = {e}
                           /\ authored' = authored \cup {e}
                           /\ disk' = [disk EXCEPT ![d] = disk[d] \cup {e}]
    BY <1>6, SaveAdds
  <2>2. core' = core /\ flow' = [flow EXCEPT ![d][f].pc = "copy"] /\ q.pc = "save"
    BY <1>6 DEF Save
  <2>3. \A g \in authored : g.signer = d => g.sequence < e.sequence
    BY <2>1, <2>2 DEF PrefixInv, NewestOK, Newest
  <2>4. flow'[d][f].event = {e} /\ flow'[d][f].pc = "copy"
        /\ \A c \in Devices : c # d => flow'[c] = flow[c]
    BY <1>1, <2>1, <2>2 DEF FlowRecord
  <2>5. NewestOK'
    <3>1. \A g \in authored' : g.signer = d => g.sequence <= e.sequence
      BY <1>1, <2>1, <2>3
    <3>2. Newest(d, flow'[d][f], authored')
      BY <2>4, <3>1 DEF Newest
    <3>3. ASSUME NEW c \in Devices, NEW g \in Flows, c # d
          PROVE  Newest(c, flow'[c][g], authored')
      BY <2>1, <2>4, <3>3 DEF PrefixInv, NewestOK, Newest
    <3> QED BY <1>2, <3>2, <3>3 DEF NewestOK
  <2>6. ForeignOK(s)'
    BY <1>1, <1>3, <2>1, <2>2 DEF PrefixInv, ForeignOK
  <2>7. AheadOK(s)'
    <3>1. ASSUME NEW c \in Devices
          PROVE  Ahead(c, push[c][s], authored \cup {e}, server[s] \cup refused[s], server[s])
      <4>1. Ahead(c, push[c][s], authored, server[s] \cup refused[s], server[s])
        BY DEF PrefixInv, AheadOK
      <4> QED BY <1>1, <2>1, <2>3, <4>1, AheadNew
    <3> QED BY <1>3, <2>1, <3>1 DEF AheadOK
  <2>8. Prefixes(authored', server[s] \cup refused[s], server[s])
    <3>1. \A x \in server[s] : e.signer = x.signer => ~ (e.sequence < x.sequence)
      BY <1>1, <2>1, <2>3
    <3> QED BY <2>1, <3>1 DEF PrefixInv, Prefixes
  <2> QED BY <1>3, <2>5, <2>6, <2>7, <2>8 DEF PrefixInv
<1> QED BY <1>4, <1>5, <1>6 DEF FlowStep

LEMMA RestartPrefixes ==
  ASSUME IInv, NEW s \in Servers, PrefixInv(s), NEW d \in Devices, Restart(d)
  PROVE  PrefixInv(s)'
<1>1. /\ core \in [Devices -> SUBSET authored] /\ pull \in [Devices -> PullRecord]
      /\ push \in [Devices -> [Servers -> PushRecord]]
      /\ flow \in [Devices -> [Flows -> FlowRecord]]
  BY PrefixFacts
<1>2. UNCHANGED <<disk, server, authored, refused>>
  BY DEF Restart
<1>3. /\ core'[d] = disk[d] /\ pull'[d].pages[s] = {}
      /\ \A c \in Devices : c # d => core'[c] = core[c] /\ pull'[c] = pull[c]
  BY <1>1 DEF Restart, IdlePull
<1>4. /\ \A f \in Flows : flow'[d][f].event = {}
      /\ \A c \in Devices : c # d => flow'[c] = flow[c]
  BY <1>1 DEF Restart, IdleFlow
<1>5. /\ push'[d][s] = IdlePush /\ \A c \in Devices : c # d => push'[c] = push[c]
  BY <1>1 DEF Restart
<1>6. ForeignOK(s)'
  BY <1>2, <1>3 DEF PrefixInv, ForeignOK
<1>7. NewestOK'
  BY <1>2, <1>4 DEF PrefixInv, NewestOK, Newest
<1>8. AheadOK(s)'
  <2>1. \A A, K, S : Ahead(d, IdlePush, A, K, S)
    BY DEF Ahead, IdlePush
  <2> QED BY <1>2, <1>5, <2>1 DEF PrefixInv, AheadOK
<1> QED BY <1>2, <1>6, <1>7, <1>8 DEF PrefixInv

LEMMA InitPrefixes ==
  ASSUME NEW s \in Servers, Init
  PROVE  PrefixInv(s)
<1>1. \A d \in Devices : core[d] = {} /\ disk[d] = {} /\ pull[d].pages[s] = {}
  BY DEF Init, IdlePull
<1>2. \A d \in Devices : \A A, K, S : Ahead(d, push[d][s], A, K, S)
  BY DEF Init, Ahead, IdlePush
<1>3. server[s] = {} /\ authored = {}
  BY DEF Init
<1> QED BY <1>1, <1>2, <1>3 DEF PrefixInv, ForeignOK, NewestOK, Newest, AheadOK, Prefixes

LEMMA NextPrefixes ==
  ASSUME SingleFlow, IInv, NEW s, Servers = {s}, PrefixInv(s), [Next]_vars
  PROVE  PrefixInv(s)'
<1>1. CASE UNCHANGED vars
  BY <1>1 DEF vars, PrefixInv, ForeignOK, NewestOK, AheadOK
<1>2. CASE Next
  <2>1. PICK d \in Devices :
          \/ \E f \in Flows : FlowStep(d, f)
          \/ PushStep(d, s) \/ Refuse(d, s) \/ LosePush(d, s) \/ LoseReply(d, s)
          \/ PullStep(d) \/ Restart(d)
    BY <1>2 DEF Next
  <2> QED BY <2>1, FlowPrefixes, PushPrefixes, PullPrefixes, RestartPrefixes
<1> QED BY <1>1, <1>2

(* push_local_events against the only server a device has: whatever was    *)
(* lost, refused, restarted or bundled from stale heads, the server holds  *)
(* of each stream it holds an event of every earlier event that it did not *)
(* refuse, so its heads tell a device what it lacks.                       *)
THEOREM TheServerHoldsPrefixes ==
  ASSUME SingleFlow, \E s : Servers = {s}
  PROVE  Spec => []ServersHoldPrefixes
<1>1. PICK s : Servers = {s}
  OBVIOUS
<1>2. Init => PrefixInv(s)
  BY <1>1, InitPrefixes
<1>3. IInv /\ PrefixInv(s) /\ [Next]_vars => PrefixInv(s)'
  BY <1>1, NextPrefixes
<1>4. PrefixInv(s) => ServersHoldPrefixes
  BY <1>1 DEF PrefixInv, Prefixes, ServersHoldPrefixes
<1> QED BY <1>2, <1>3, <1>4, SyncInvariant, PTL DEF Spec
=============================================================================
