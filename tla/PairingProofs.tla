--------------------------- MODULE PairingProofs ---------------------------
(***************************************************************************)
(* Pairing, for any number of sessions, claimers and failures, and any     *)
(* settings.                                                               *)
(***************************************************************************)
EXTENDS Pairing, IdentityChainProofs

-----------------------------------------------------------------------------
(* The inductive invariant.  A stands for approved and C for scanned.      *)

KeysIn(A) == {a[2] : a \in A}

(* A document the identity manager makes: the issuer is a rotation key,    *)
(* every other key was approved.                                           *)
DocOK(doc, A) ==
  /\ doc \in Docs
  /\ Issuer \in doc.rotation_keys /\ doc.rotation_keys \subseteq {Issuer} \cup Claimers
  /\ doc.signing_keys \subseteq Claimers
  /\ doc.rest \in {0, 1}
  /\ DocumentKeys(doc) \subseteq {Issuer} \cup KeysIn(A)

EventsOK(events, A) ==
  /\ events \subseteq Candidate /\ IsFiniteSet(events)
  /\ \A e \in events : DocOK(e.document, A)

CoreOK ==
  /\ known \in [Devices -> SUBSET Candidate]
  /\ \A d \in Devices : EventsOK(known[d], approved)
  /\ EventsOK(served, approved)
  /\ GenesisEvent \in served /\ GenesisEvent \in known[Issuer]

RowOK ==
  /\ row \in [session : 0..MaxSessions, sequence : 1..2, document : Docs]
  /\ DocOK(row.document, approved)
  /\ joined \subseteq scanned

HookRecord ==
  [stage : {"unopened", "creating", "polling", "approving", "done", "error"},
   canceled : BOOLEAN, pc : {"idle", "put", "load", "pull", "push"},
   claimers : SUBSET Claimers, key : Claimers \cup {NoKey},
   role : {"rotation", "signing"}, sequence : 1..2, document : Docs,
   response : 0..MaxSessions]

(* A hook of session s lists claimers that scanned its code; it is         *)
(* approving one the user approved, and has put its first state until then.*)
HookOK(s, h, A, C) ==
  /\ h \in HookRecord
  /\ DocOK(h.document, A)
  /\ \A c \in h.claimers : <<s, c>> \in C
  /\ h.stage \in {"approving", "done"} => <<s, h.key>> \in A /\ h.key \in Claimers
  /\ h.stage \in {"unopened", "creating", "polling"} => h.sequence = 1
  /\ h.stage \in {"unopened", "polling", "done", "error"} => h.pc = "idle"
  /\ h.pc \in {"pull", "push"} => h.stage = "approving" /\ h.sequence = 1

HooksOK ==
  /\ hooks \in [Sessions -> HookRecord]
  /\ \A s \in Sessions : HookOK(s, hooks[s], approved, scanned)

ClaimerRecord ==
  [stage : {"unstarted", "joining", "polling", "claiming", "done", "error"},
   pc : {"idle", "get", "lookup", "add", "listed", "list", "pull", "push", "join", "claim"},
   session : 0..MaxSessions]

(* The steps of each stage.                                                *)
StepsOf(stage) ==
  CASE stage = "joining" -> {"get", "lookup", "add", "listed"}
    [] stage = "claiming" -> {"list", "pull", "push"}
    [] stage = "error" -> {"join", "claim"}
    [] OTHER -> {"idle"}

HasLogin(c, events) ==
  \E e \in events : e.signer = c /\ authorizes_signer(e.document, c)

(* A claimer c, with the identity active or not and the events it knows.   *)
ClaimerOK(c, q, isActive, events, C) ==
  /\ q \in ClaimerRecord /\ q.pc \in StepsOf(q.stage)
  /\ q.stage # "unstarted" => q.session \in Sessions /\ <<q.session, c>> \in C
  /\ isActive \in BOOLEAN
  /\ isActive <=> q.stage = "done" \/ q.pc \in {"pull", "push"}
  /\ q.stage = "done" \/ q.pc = "push" => HasLogin(c, events)

ClaimersOK ==
  /\ claimers \in [Claimers -> ClaimerRecord]
  /\ active \in [Claimers -> BOOLEAN]
  /\ \A c \in Claimers : ClaimerOK(c, claimers[c], active[c], known[c], scanned)

EditOK ==
  /\ edit \in [pc : {"idle", "info", "push"}, document : Docs]
  /\ DocOK(edit.document, approved)

RestOK ==
  /\ setting \in Settings
  /\ expired \subseteq Sessions /\ failures \in Nat
  /\ approved \subseteq scanned /\ scanned \subseteq Sessions \X Claimers

PairInv == CoreOK /\ RowOK /\ HooksOK /\ ClaimersOK /\ EditOK /\ RestOK

-----------------------------------------------------------------------------
(* Documents.                                                              *)

LEMMA SettingMeans ==
  ASSUME RestOK
  PROVE  /\ setting.sessions \in 0..MaxSessions /\ setting.claimers \subseteq Claimers
         /\ setting.roles \subseteq {"rotation", "signing"} /\ MaxSessions \in Nat
BY DeviceAssumption DEF RestOK, Setting

(* The genesis document has the issuer's key only.                         *)
LEMMA GenesisMeans ==
  /\ GenesisDocument \in Docs /\ GenesisDocument.hash = Identity
  /\ GenesisDocument.rotation_keys = {Issuer} /\ GenesisDocument.signing_keys = {}
  /\ GenesisDocument.rest = 0
  /\ GenesisEvent \in Candidate
<1>1. PICK d \in Docs : /\ d.hash = Identity /\ d.rotation_keys = {Issuer}
                        /\ d.signing_keys = {} /\ d.rest = 0
  BY DocsClosed
<1>2. GenesisDocument \in Docs /\ GenesisDocument.hash = Identity
  BY <1>1 DEF GenesisDocument
<1>3. GenesisDocument = d
  BY <1>1, <1>2, DocsAssumption
<1>4. Issuer \in Keys
  BY DeviceAssumption
<1>5. GenesisEvent \in Candidate
  BY <1>2, <1>4 DEF GenesisEvent, Candidate
<1> QED BY <1>1, <1>2, <1>3, <1>5

(* There is a document for all keys the identity manager puts together.    *)
HasDocument(R, S, servers) ==
  \E d \in Docs : d.rotation_keys = R /\ d.signing_keys = S /\ d.rest = servers

LEMMA DocumentsClosed ==
  \A Q, S \in SUBSET Claimers, servers \in {0, 1} : HasDocument({Issuer} \cup Q, S, servers)
BY DocsClosed DEF HasDocument

LEMMA DocumentWithMeans ==
  ASSUME NEW R, NEW S, NEW servers \in {0, 1},
         Issuer \in R, R \subseteq {Issuer} \cup Claimers, S \subseteq Claimers
  PROVE  /\ DocumentWith(R, S, servers) \in Docs
         /\ DocumentWith(R, S, servers).rotation_keys = R
         /\ DocumentWith(R, S, servers).signing_keys = S
         /\ DocumentWith(R, S, servers).rest = servers
<1> DEFINE Q == R \ {Issuer}
<1>1. R = {Issuer} \cup Q /\ Q \in SUBSET Claimers /\ S \in SUBSET Claimers
  OBVIOUS
<1>2. HasDocument({Issuer} \cup Q, S, servers)
  <2> HIDE DEF Q
  <2> QED BY <1>1, DocumentsClosed
<1>3. HasDocument(R, S, servers)
  <2> HIDE DEF Q
  <2> QED BY <1>1, <1>2
<1> QED BY <1>3, Zenon DEF DocumentWith, HasDocument

(* An approval only adds keys.                                             *)
LEMMA DocGrows ==
  ASSUME NEW doc, NEW A, NEW B, A \subseteq B, DocOK(doc, A)
  PROVE  DocOK(doc, B)
BY DEF DocOK, KeysIn

LEMMA WithKeyOK ==
  ASSUME NEW A, NEW doc, DocOK(doc, A), NEW role, NEW key \in Claimers, key \in KeysIn(A)
  PROVE  /\ DocOK(WithKey(doc, key, role), A)
         /\ authorizes_signer(WithKey(doc, key, role), key)
<1> DEFINE new == WithKey(doc, key, role)
<1>1. /\ Issuer \in doc.rotation_keys /\ doc.rotation_keys \subseteq {Issuer} \cup Claimers
      /\ doc.signing_keys \subseteq Claimers /\ doc.rest \in {0, 1}
      /\ doc.rotation_keys \cup doc.signing_keys \subseteq {Issuer} \cup KeysIn(A)
  BY DEF DocOK, DocumentKeys
<1>2. CASE role = "signing"
  <2>1. /\ new \in Docs /\ new.rotation_keys = doc.rotation_keys
        /\ new.signing_keys = doc.signing_keys \cup {key} /\ new.rest = doc.rest
    BY <1>1, <1>2, DocumentWithMeans DEF WithKey
  <2> HIDE DEF new
  <2>2. DocOK(new, A) /\ authorizes_signer(new, key)
    BY <1>1, <2>1 DEF DocOK, DocumentKeys, authorizes_signer
  <2> QED BY <2>2 DEF new
<1>3. CASE role # "signing"
  <2>1. /\ new \in Docs /\ new.rotation_keys = doc.rotation_keys \cup {key}
        /\ new.signing_keys = doc.signing_keys /\ new.rest = doc.rest
    BY <1>1, <1>3, DocumentWithMeans DEF WithKey
  <2> HIDE DEF new
  <2>2. DocOK(new, A) /\ authorizes_signer(new, key)
    BY <1>1, <2>1 DEF DocOK, DocumentKeys, authorizes_signer
  <2> QED BY <2>2 DEF new
<1> QED BY <1>2, <1>3

LEMMA WithoutKeyOK ==
  ASSUME NEW A, NEW doc, DocOK(doc, A), NEW key \in Claimers
  PROVE  DocOK(WithoutKey(doc, key), A)
<1> DEFINE new == WithoutKey(doc, key)
<1>1. /\ Issuer \in doc.rotation_keys /\ doc.rotation_keys \subseteq {Issuer} \cup Claimers
      /\ doc.signing_keys \subseteq Claimers /\ doc.rest \in {0, 1}
      /\ doc.rotation_keys \cup doc.signing_keys \subseteq {Issuer} \cup KeysIn(A)
  BY DEF DocOK, DocumentKeys
<1>2. key # Issuer
  BY DeviceAssumption
<1>3. /\ new \in Docs /\ new.rotation_keys = doc.rotation_keys \ {key}
      /\ new.signing_keys = doc.signing_keys \ {key} /\ new.rest = doc.rest
  BY <1>1, <1>2, DocumentWithMeans DEF WithoutKey
<1> HIDE DEF new
<1>4. DocOK(new, A)
  BY <1>1, <1>2, <1>3 DEF DocOK, DocumentKeys
<1> QED BY <1>4 DEF new

LEMMA WithServersOK ==
  ASSUME NEW A, NEW doc, DocOK(doc, A), NEW servers \in {0, 1}
  PROVE  DocOK(WithServers(doc, servers), A)
<1> DEFINE new == WithServers(doc, servers)
<1>1. /\ Issuer \in doc.rotation_keys /\ doc.rotation_keys \subseteq {Issuer} \cup Claimers
      /\ doc.signing_keys \subseteq Claimers
      /\ doc.rotation_keys \cup doc.signing_keys \subseteq {Issuer} \cup KeysIn(A)
  BY DEF DocOK, DocumentKeys
<1>2. /\ new \in Docs /\ new.rotation_keys = doc.rotation_keys
      /\ new.signing_keys = doc.signing_keys /\ new.rest = servers
  BY <1>1, DocumentWithMeans DEF WithServers
<1> HIDE DEF new
<1>3. DocOK(new, A)
  BY <1>1, <1>2 DEF DocOK, DocumentKeys
<1> QED BY <1>3 DEF new

-----------------------------------------------------------------------------
(* Chains.                                                                 *)

(* The chain of a set of events with the genesis is resolved from exactly  *)
(* those events.                                                           *)
LEMMA ChainOfEvents ==
  ASSUME NEW V, V \subseteq Candidate, IsFiniteSet(V), GenesisEvent \in V
  PROVE  /\ Grown(V, Chain(V)) /\ Followers(V, Latest(V)) = {}
         /\ Latest(V) \in V /\ Latest(V) \in Candidate
         /\ Latest(V).sequence = Len(Chain(V)) /\ Latest(V).sequence \in Nat \ {0}
<1> DEFINE n == Cardinality(V)
           s == SetToSeq(V)
<1>1. n \in Nat /\ ExistsBijection(1..n, V)
  BY FS_CardinalityType
<1>2. PICK f \in Bijection(1..n, V) : TRUE
  BY <1>1, Fun_ExistsBij
<1>3. f \in [1..n -> V] /\ IsInjective(f)
  BY <1>2 DEF Bijection, Injection
<1>4. s \in [1..n -> V] /\ IsInjective(s)
  <2> HIDE DEF n
  <2> QED BY <1>3, Zenon DEF SetToSeq, n
<1>5. s \in Seq(V) /\ DOMAIN s = 1..n
  <2> HIDE DEF s, n
  <2> QED BY <1>1, <1>4
<1>6. s \in Surjection(1..n, V)
  <2>1. s \in Injection(1..n, V)
    BY <1>4 DEF Injection
  <2>2. Cardinality(1..n) = n
    <3> HIDE DEF n
    <3>1. n \in Int /\ 1 \in Int
      BY <1>1
    <3>2. Cardinality(1..n) = IF 1 > n THEN 0 ELSE n - 1 + 1
      BY <3>1, FS_Interval
    <3> QED BY <1>1, <3>2
  <2> HIDE DEF s
  <2> QED BY <2>1, <2>2, FS_Injection
<1>7. ToSet(s) = V
  <2>1. \A v \in V : \E i \in 1..n : s[i] = v
    <3> HIDE DEF s, n
    <3> QED BY <1>6 DEF Surjection
  <2> HIDE DEF s, n
  <2> QED BY <1>4, <1>5, <2>1 DEF ToSet
<1>8. s \in Seq(Candidate)
  <2> HIDE DEF s
  <2> QED BY <1>5
<1>9. IsGenesisIn(V, GenesisEvent)
  BY GenesisMeans DEF IsGenesisIn, GenesisEvent
<1>10. Grown(V, Chain(V)) /\ Followers(V, Last(Chain(V))) = {}
  <2> HIDE DEF s
  <2>1. \/ /\ resolve_chain(s) = <<>>
           /\ ~ \E c \in V : IsGenesisIn(V, c)
        \/ /\ Grown(V, resolve_chain(s))
           /\ Followers(V, Last(resolve_chain(s))) = {}
    BY <1>7, <1>8, ResolvedChain
  <2> QED BY <1>9, <2>1 DEF Chain, s
<1>11. ASSUME NEW c, Grown(V, c)
       PROVE  Last(c) \in V /\ Last(c).sequence = Len(c) /\ Len(c) \in Nat \ {0}
  <2>1. c \in Seq(V) /\ c # <<>> /\ \A k \in 1..Len(c) : c[k].sequence = k
    BY <1>11 DEF Grown
  <2>2. Len(c) \in Nat \ {0} /\ Len(c) \in 1..Len(c) /\ c[Len(c)] \in V
    BY <2>1
  <2> QED BY <2>1, <2>2 DEF Last
<1> QED BY <1>10, <1>11 DEF Latest

(* What a device publishes on top of the events it knows.                  *)
LEMMA PublishedOK ==
  ASSUME NEW A, NEW V, EventsOK(V, A), GenesisEvent \in V,
         NEW d \in Devices, NEW doc, DocOK(doc, A)
  PROVE  EventsOK(Published(V, d, doc), A) /\ GenesisEvent \in Published(V, d, doc)
<1> DEFINE e == [sequence |-> Latest(V).sequence + 1, signer |-> d,
                 document |-> doc, intact |-> TRUE]
<1>1. Latest(V).sequence \in Nat \ {0}
  BY ChainOfEvents DEF EventsOK
<1>2. d \in Keys
  BY DeviceAssumption DEF Devices
<1>3. e \in Candidate /\ e.document = doc
  BY <1>1, <1>2 DEF Candidate, DocOK
<1>4. Published(V, d, doc) = V \cup {e}
  BY DEF Published
<1> HIDE DEF e
<1>5. IsFiniteSet(V \cup {e})
  BY FS_AddElement DEF EventsOK
<1> QED BY <1>3, <1>4, <1>5 DEF EventsOK

LEMMA UnionOK ==
  ASSUME NEW A, NEW V, NEW W, EventsOK(V, A), EventsOK(W, A)
  PROVE  EventsOK(V \cup W, A)
<1>1. IsFiniteSet(V \cup W)
  BY FS_Union DEF EventsOK
<1> QED BY <1>1 DEF EventsOK

(* What the server holds after a push.                                     *)
LEMMA PushedOK ==
  ASSUME NEW A, NEW V, EventsOK(V, A), EventsOK(served, A)
  PROVE  EventsOK(Pushed(V), A) /\ served \subseteq Pushed(V) /\ Pushed(V) \subseteq served \cup V
<1> DEFINE N == {e \in V : \A f \in served : f.signer # e.signer \/ f.sequence # e.sequence}
<1>1. EventsOK(N, A)
  <2>1. IsFiniteSet(N)
    BY FS_Subset DEF EventsOK
  <2> QED BY <2>1 DEF EventsOK
<1>2. Pushed(V) = served \cup N
  BY DEF Pushed
<1>3. EventsOK(served \cup N, A)
  <2> HIDE DEF N
  <2> QED BY <1>1, UnionOK
<1> QED BY <1>2, <1>3

(* The newest document is one of those held.                               *)
LEMMA LatestOK ==
  ASSUME NEW A, NEW V, EventsOK(V, A), GenesisEvent \in V
  PROVE  Latest(V) \in V /\ DocOK(Latest(V).document, A)
BY ChainOfEvents DEF EventsOK

-----------------------------------------------------------------------------
(* What a step leaves alone stays right, whatever is approved or scanned.  *)

Grows == approved \subseteq approved' /\ scanned \subseteq scanned'

LEMMA EventsGrow ==
  ASSUME NEW V, NEW A, NEW B, A \subseteq B, EventsOK(V, A)
  PROVE  EventsOK(V, B)
BY DocGrows DEF EventsOK

LEMMA CoreStays ==
  ASSUME CoreOK, UNCHANGED coreVars, Grows
  PROVE  CoreOK'
<1>1. known' = known /\ served' = served
  BY DEF coreVars
<1> QED BY <1>1, EventsGrow DEF CoreOK, Grows

LEMMA RowStays ==
  ASSUME RowOK, UNCHANGED serverVars, Grows
  PROVE  RowOK'
<1>1. row' = row /\ joined' = joined
  BY DEF serverVars
<1> QED BY <1>1, DocGrows DEF RowOK, Grows

LEMMA HookGrows ==
  ASSUME NEW s, NEW h, NEW A, NEW B, NEW C, NEW D, A \subseteq B, C \subseteq D,
         HookOK(s, h, A, C)
  PROVE  HookOK(s, h, B, D)
BY DocGrows DEF HookOK

LEMMA HooksStay ==
  ASSUME HooksOK, UNCHANGED hooks, Grows
  PROVE  HooksOK'
BY HookGrows DEF HooksOK, Grows

LEMMA HookSet ==
  ASSUME HooksOK, Grows, NEW s \in Sessions, NEW h,
         HookOK(s, h, approved', scanned'), hooks' = [hooks EXCEPT ![s] = h]
  PROVE  HooksOK'
<1>1. h \in HookRecord
  BY DEF HookOK
<1>2. hooks' \in [Sessions -> HookRecord]
  BY <1>1 DEF HooksOK
<1>3. ASSUME NEW t \in Sessions PROVE HookOK(t, hooks'[t], approved', scanned')
  <2>1. CASE t = s
    BY <2>1 DEF HooksOK
  <2>2. CASE t # s
    <3>1. hooks'[t] = hooks[t] /\ HookOK(t, hooks[t], approved, scanned)
      BY <2>2 DEF HooksOK
    <3> QED BY <3>1, HookGrows DEF Grows
  <2> QED BY <2>1, <2>2
<1> QED BY <1>2, <1>3 DEF HooksOK

LEMMA ClaimerGrows ==
  ASSUME NEW c, NEW q, NEW a, NEW V, NEW W, NEW C, NEW D, V \subseteq W, C \subseteq D,
         ClaimerOK(c, q, a, V, C)
  PROVE  ClaimerOK(c, q, a, W, D)
BY DEF ClaimerOK, HasLogin

LEMMA ClaimersStay ==
  ASSUME ClaimersOK, UNCHANGED claimVars, Grows, \A c \in Claimers : known[c] \subseteq known'[c]
  PROVE  ClaimersOK'
<1>1. claimers' = claimers /\ active' = active
  BY DEF claimVars
<1>2. ASSUME NEW c \in Claimers
      PROVE  ClaimerOK(c, claimers'[c], active'[c], known'[c], scanned')
  BY <1>1, ClaimerGrows DEF ClaimersOK, Grows
<1> QED BY <1>1, <1>2 DEF ClaimersOK

LEMMA ClaimerSet ==
  ASSUME ClaimersOK, Grows, NEW c \in Claimers, NEW q, NEW a,
         \A d \in Claimers : known[d] \subseteq known'[d],
         ClaimerOK(c, q, a, known'[c], scanned'),
         claimers' = [claimers EXCEPT ![c] = q], active' = [active EXCEPT ![c] = a]
  PROVE  ClaimersOK'
<1>1. q \in ClaimerRecord /\ a \in BOOLEAN
  BY DEF ClaimerOK
<1>2. /\ claimers \in [Claimers -> ClaimerRecord] /\ active \in [Claimers -> BOOLEAN]
      /\ \A d \in Claimers : ClaimerOK(d, claimers[d], active[d], known[d], scanned)
  BY DEF ClaimersOK
<1>3. claimers' \in [Claimers -> ClaimerRecord] /\ active' \in [Claimers -> BOOLEAN]
  BY <1>1, <1>2
<1>4. ASSUME NEW d \in Claimers
      PROVE  ClaimerOK(d, claimers'[d], active'[d], known'[d], scanned')
  <2>1. CASE d = c
    <3>1. claimers'[d] = q /\ active'[d] = a
      BY <1>2, <2>1, Zenon
    <3> QED BY <2>1, <3>1
  <2>2. CASE d # c
    <3>1. claimers'[d] = claimers[d] /\ active'[d] = active[d]
      BY <1>2, <2>2, Zenon
    <3> QED BY <1>2, <3>1, ClaimerGrows DEF Grows
  <2> QED BY <2>1, <2>2
<1> QED BY <1>3, <1>4 DEF ClaimersOK

LEMMA EditStays ==
  ASSUME EditOK, UNCHANGED edit, Grows
  PROVE  EditOK'
BY DocGrows DEF EditOK, Grows

LEMMA RestStays ==
  ASSUME RestOK, UNCHANGED <<setting, expired, history>>,
         UNCHANGED failures \/ MayFail
  PROVE  RestOK' /\ Grows
BY DEF RestOK, history, MayFail, Grows

(* A step that only changes the hook of one session.                       *)
OtherThanHooks == <<setting, coreVars, serverVars, claimVars, edit, expired, history>>

LEMMA OneHook ==
  ASSUME PairInv, UNCHANGED OtherThanHooks, UNCHANGED failures \/ MayFail,
         NEW s \in Sessions, NEW h, hooks' = [hooks EXCEPT ![s] = h],
         HookOK(s, h, approved, scanned)
  PROVE  PairInv'
<1>1. /\ UNCHANGED <<setting, expired, history>> /\ UNCHANGED coreVars
      /\ UNCHANGED serverVars /\ UNCHANGED claimVars /\ UNCHANGED edit
      /\ approved' = approved /\ scanned' = scanned /\ known' = known
  BY DEF OtherThanHooks, coreVars, history
<1>2. CoreOK /\ RowOK /\ HooksOK /\ ClaimersOK /\ EditOK /\ RestOK
  BY DEF PairInv
<1>3. RestOK' /\ Grows
  BY <1>1, <1>2, RestStays
<1>4. HooksOK'
  BY <1>1, <1>2, <1>3, HookSet
<1>5. CoreOK' /\ RowOK' /\ EditOK'
  BY <1>1, <1>2, <1>3, CoreStays, RowStays, EditStays
<1>6. ClaimersOK'
  BY <1>1, <1>2, <1>3, ClaimersStay
<1> QED BY <1>3, <1>4, <1>5, <1>6 DEF PairInv

(* A step that only changes one claimer.                                   *)
OtherThanClaimers == <<setting, coreVars, serverVars, hooks, edit, expired, history>>

LEMMA OneClaimer ==
  ASSUME PairInv, UNCHANGED OtherThanClaimers, UNCHANGED failures \/ MayFail,
         NEW c \in Claimers, NEW q, NEW a,
         claimers' = [claimers EXCEPT ![c] = q], active' = [active EXCEPT ![c] = a],
         ClaimerOK(c, q, a, known[c], scanned)
  PROVE  PairInv'
<1>1. /\ UNCHANGED <<setting, expired, history>> /\ UNCHANGED coreVars
      /\ UNCHANGED serverVars /\ UNCHANGED hooks /\ UNCHANGED edit
      /\ approved' = approved /\ scanned' = scanned /\ known' = known
  BY DEF OtherThanClaimers, coreVars, history
<1>2. CoreOK /\ RowOK /\ HooksOK /\ ClaimersOK /\ EditOK /\ RestOK
  BY DEF PairInv
<1>3. RestOK' /\ Grows
  BY <1>1, <1>2, RestStays
<1>4. ClaimersOK'
  BY <1>1, <1>2, <1>3, ClaimerSet
<1>5. CoreOK' /\ RowOK' /\ HooksOK' /\ EditOK'
  BY <1>1, <1>2, <1>3, CoreStays, RowStays, HooksStay, EditStays
<1> QED BY <1>3, <1>4, <1>5 DEF PairInv

-----------------------------------------------------------------------------
(* The issuer's hook.                                                      *)

LEMMA OpenScreenStep ==
  ASSUME PairInv, NEW s \in Sessions, OpenScreen(s)
  PROVE  PairInv'
<1> DEFINE h == Putting([hooks[s] EXCEPT !.stage = "creating"], known[Issuer], 1)
           V == known[Issuer]
<1>1. HookOK(s, hooks[s], approved, scanned) /\ hooks[s] \in HookRecord
  BY DEF PairInv, HooksOK
<1>2. DocOK(Latest(V).document, approved)
  BY LatestOK DEF PairInv, CoreOK, Devices
<1>3. /\ hooks[s].stage = "unopened" /\ hooks' = [hooks EXCEPT ![s] = h]
      /\ UNCHANGED OtherThanHooks /\ UNCHANGED failures
  BY DEF OpenScreen, OtherThanHooks, coreVars, serverVars, claimVars, history
<1>4. h = [hooks[s] EXCEPT !.stage = "creating", !.pc = "put", !.sequence = 1,
                           !.document = Latest(V).document]
  BY <1>1 DEF Putting, HookRecord
<1>5. HookOK(s, h, approved, scanned)
  <2> HIDE DEF h, V
  <2> QED BY <1>1, <1>2, <1>3, <1>4 DEF HookOK, HookRecord, DocOK
<1> QED BY <1>3, <1>5, OneHook

LEMMA CloseScreenStep ==
  ASSUME PairInv, NEW s \in Sessions, CloseScreen(s)
  PROVE  PairInv'
<1> DEFINE h == [hooks[s] EXCEPT !.canceled = TRUE]
<1>1. HookOK(s, hooks[s], approved, scanned) /\ hooks[s] \in HookRecord
  BY DEF PairInv, HooksOK
<1>2. /\ hooks' = [hooks EXCEPT ![s] = h]
      /\ UNCHANGED OtherThanHooks /\ UNCHANGED failures
  BY DEF CloseScreen, OtherThanHooks, coreVars, serverVars, claimVars, history
<1>3. HookOK(s, h, approved, scanned)
  BY <1>1 DEF HookOK, HookRecord
<1> QED BY <1>2, <1>3, OneHook

LEMMA FailedOK ==
  ASSUME NEW s, NEW h, NEW A, NEW C, HookOK(s, h, A, C)
  PROVE  HookOK(s, Failed(h), A, C)
BY DEF HookOK, HookRecord, Failed

LEMMA PutFailsStep ==
  ASSUME PairInv, NEW s \in Sessions, PutFails(s) \/ PollForClaimersFails(s) \/ ApprovePullFails(s)
  PROVE  PairInv'
<1>1. HookOK(s, Failed(hooks[s]), approved, scanned)
  BY FailedOK DEF PairInv, HooksOK
<1>2. /\ hooks' = [hooks EXCEPT ![s] = Failed(hooks[s])]
      /\ UNCHANGED OtherThanHooks /\ MayFail
  BY DEF PutFails, PollForClaimersFails, ApprovePullFails, OtherThanHooks, coreVars,
         serverVars, claimVars, history
<1> QED BY <1>1, <1>2, OneHook

LEMMA PutAnsweredStep ==
  ASSUME PairInv, NEW s \in Sessions, PutAnswered(s)
  PROVE  PairInv'
<1> DEFINE hook == hooks[s]
<1>1. HookOK(s, hook, approved, scanned) /\ hook \in HookRecord /\ hook.pc = "load"
  BY DEF PairInv, HooksOK, PutAnswered
<1>2. hook.stage \in {"approving", "creating"}
  BY <1>1 DEF HookOK, HookRecord
<1>3. UNCHANGED OtherThanHooks /\ UNCHANGED failures
  BY DEF PutAnswered, OtherThanHooks, coreVars, serverVars, claimVars, history
<1>4. PICK h : /\ hooks' = [hooks EXCEPT ![s] = h]
               /\ \/ h = Failed(hook)
                  \/ hook.stage = "approving" /\ h = [hook EXCEPT !.stage = "done", !.pc = "idle"]
                  \/ /\ hook.stage = "creating"
                     /\ \/ h = [hook EXCEPT !.pc = "idle"]
                        \/ h = [hook EXCEPT !.stage = "polling", !.pc = "idle"]
  <2> DEFINE ok == /\ hook.response = s /\ get_pairing_session(s)
                   /\ row.sequence >= hook.sequence /\ s \notin expired
             k == CASE ~ ok -> Failed(hook)
                    [] ok /\ hook.stage = "approving" -> [hook EXCEPT !.stage = "done", !.pc = "idle"]
                    [] ok /\ hook.stage = "creating" ->
                       [hook EXCEPT !.stage = IF hook.canceled THEN @ ELSE "polling", !.pc = "idle"]
  <2>1. hooks' = [hooks EXCEPT ![s] = k]
    BY DEF PutAnswered
  <2> HIDE DEF ok
  <2>2. CASE ~ ok
    BY <1>2, <2>1, <2>2
  <2>3. CASE ok /\ hook.stage = "approving"
    BY <1>2, <2>1, <2>3
  <2>4. CASE ok /\ hook.stage = "creating"
    <3>1. k = [hook EXCEPT !.stage = IF hook.canceled THEN @ ELSE "polling", !.pc = "idle"]
      BY <2>4
    <3>2. k = [hook EXCEPT !.pc = "idle"] \/ k = [hook EXCEPT !.stage = "polling", !.pc = "idle"]
      BY <1>1, <3>1 DEF HookRecord
    <3> HIDE DEF k
    <3> QED BY <2>1, <2>4, <3>2
  <2> QED BY <1>2, <2>2, <2>3, <2>4
<1>5. HookOK(s, h, approved, scanned)
  <2>1. CASE h = Failed(hook)
    BY <1>1, <2>1, FailedOK
  <2>2. CASE h # Failed(hook)
    <3> HIDE DEF hook
    <3> QED BY <1>1, <1>4, <2>2 DEF HookOK, HookRecord
  <2> QED BY <2>1, <2>2
<1> QED BY <1>3, <1>4, <1>5, OneHook

LEMMA PollForClaimersStep ==
  ASSUME PairInv, NEW s \in Sessions, PollForClaimers(s)
  PROVE  PairInv'
<1> DEFINE hook == hooks[s]
<1>1. HookOK(s, hook, approved, scanned) /\ hook \in HookRecord /\ hook.stage = "polling"
  BY DEF PairInv, HooksOK, PollForClaimers
<1>2. UNCHANGED OtherThanHooks /\ UNCHANGED failures
  BY DEF PollForClaimers, OtherThanHooks, coreVars, serverVars, claimVars, history
<1>3. CASE hooks' = [hooks EXCEPT ![s] = Failed(hook)]
  BY <1>1, <1>2, <1>3, FailedOK, OneHook
<1>4. CASE hooks' = [hooks EXCEPT ![s].claimers = @ \cup list_claimers(s)]
  <2> DEFINE h == [hook EXCEPT !.claimers = hook.claimers \cup list_claimers(s)]
  <2>1. \A c \in list_claimers(s) : <<s, c>> \in scanned /\ c \in Claimers
    <3>1. joined \subseteq scanned /\ scanned \subseteq Sessions \X Claimers
      BY DEF PairInv, RowOK, RestOK
    <3> QED BY <3>1 DEF list_claimers
  <2>2. HookOK(s, h, approved, scanned)
    <3> HIDE DEF hook
    <3> QED BY <1>1, <2>1 DEF HookOK, HookRecord
  <2>3. hooks' = [hooks EXCEPT ![s] = h]
    BY <1>4
  <2> QED BY <1>2, <2>2, <2>3, OneHook
<1> QED BY <1>3, <1>4 DEF PollForClaimers

(* The server applies the put or finds it stale; either way no claimer of  *)
(* another session is left.                                                *)
LEMMA PutPairingSessionStep ==
  ASSUME PairInv, NEW s \in Sessions, PutPairingSession(s)
  PROVE  PairInv'
<1> DEFINE hook == hooks[s]
           answer == IF is_stale(s, hook.sequence) THEN row.session ELSE s
           h == [hook EXCEPT !.pc = "load", !.response = answer]
<1>1. /\ HookOK(s, hook, approved, scanned) /\ hook \in HookRecord /\ hook.pc = "put"
      /\ CoreOK /\ RowOK /\ HooksOK /\ ClaimersOK /\ EditOK /\ RestOK
  BY DEF PairInv, HooksOK, PutPairingSession
<1>2. /\ UNCHANGED <<setting, expired, history>> /\ UNCHANGED failures /\ UNCHANGED coreVars
      /\ UNCHANGED claimVars /\ UNCHANGED edit /\ approved' = approved /\ scanned' = scanned
      /\ known' = known
  BY DEF PutPairingSession, coreVars, claimVars, history
<1>3. RestOK' /\ Grows
  BY <1>1, <1>2, RestStays
<1>4. hooks' = [hooks EXCEPT ![s] = h]
  BY DEF PutPairingSession
<1>5. HooksOK'
  <2>1. answer \in 0..MaxSessions
    BY <1>1 DEF RowOK, Sessions
  <2>2. HookOK(s, h, approved', scanned')
    <3> HIDE DEF hook, answer
    <3> QED BY <1>1, <1>2, <2>1 DEF HookOK, HookRecord
  <2> QED BY <1>1, <1>3, <1>4, <2>2, HookSet
<1>6. RowOK'
  <2>1. CASE is_stale(s, hook.sequence)
    <3>1. UNCHANGED serverVars
      BY <2>1 DEF PutPairingSession, PutIssuerState
    <3> QED BY <1>1, <1>3, <3>1, RowStays
  <2>2. CASE ~ is_stale(s, hook.sequence)
    <3>1. /\ row' = [session |-> s, sequence |-> hook.sequence, document |-> hook.document]
          /\ joined' \subseteq joined
      BY <2>2 DEF PutPairingSession, PutIssuerState
    <3>2. /\ hook.sequence \in 1..2 /\ hook.document \in Docs
          /\ DocOK(hook.document, approved) /\ s \in 0..MaxSessions
      BY <1>1 DEF HookOK, HookRecord, Sessions
    <3> QED BY <1>1, <1>2, <3>1, <3>2 DEF RowOK
  <2> QED BY <2>1, <2>2
<1>7. CoreOK' /\ EditOK' /\ ClaimersOK'
  BY <1>1, <1>2, <1>3, CoreStays, EditStays, ClaimersStay
<1> QED BY <1>3, <1>5, <1>6, <1>7 DEF PairInv

(* Only a claimer the hook lists can be approved.                          *)
LEMMA ApproveStep ==
  ASSUME PairInv, NEW s \in Sessions, NEW key \in setting.claimers, NEW role \in setting.roles,
         Approve(s, key, role)
  PROVE  PairInv'
<1> DEFINE h == [hooks[s] EXCEPT !.stage = "approving", !.pc = "pull",
                                 !.key = key, !.role = role]
<1>1. /\ HookOK(s, hooks[s], approved, scanned) /\ hooks[s] \in HookRecord
      /\ CoreOK /\ RowOK /\ HooksOK /\ ClaimersOK /\ EditOK /\ RestOK
  BY DEF PairInv, HooksOK
<1>2. /\ UNCHANGED <<setting, expired, scanned>> /\ UNCHANGED failures /\ UNCHANGED coreVars
      /\ UNCHANGED serverVars /\ UNCHANGED claimVars /\ UNCHANGED edit /\ known' = known
      /\ hooks[s].stage = "polling" /\ key \in hooks[s].claimers
      /\ hooks' = [hooks EXCEPT ![s] = h] /\ approved' = approved \cup {<<s, key>>}
  BY <1>1 DEF Approve, coreVars, serverVars, claimVars, HooksOK
<1>3. Grows
  BY <1>2 DEF Grows
<1>4. <<s, key>> \in scanned /\ key \in Claimers
  BY <1>1, <1>2, SettingMeans DEF HookOK
<1>5. RestOK'
  BY <1>1, <1>2, <1>4 DEF RestOK
<1>6. HookOK(s, h, approved', scanned')
  <2>1. HookOK(s, hooks[s], approved', scanned')
    BY <1>1, <1>3, HookGrows DEF Grows
  <2>2. role \in {"rotation", "signing"}
    BY <1>1, SettingMeans
  <2> QED BY <1>1, <1>2, <1>4, <2>1, <2>2 DEF HookOK, HookRecord
<1>7. HooksOK'
  BY <1>1, <1>2, <1>3, <1>6, HookSet
<1>8. CoreOK' /\ RowOK' /\ EditOK' /\ ClaimersOK'
  BY <1>1, <1>2, <1>3, CoreStays, RowStays, EditStays, ClaimersStay
<1> QED BY <1>5, <1>7, <1>8 DEF PairInv

LEMMA PuttingOK ==
  ASSUME NEW s, NEW h, NEW A, NEW C, HookOK(s, h, A, C), h.pc \in {"pull", "push"},
         NEW V, EventsOK(V, A), GenesisEvent \in V
  PROVE  HookOK(s, NextState(h, V), A, C)
<1> DEFINE doc == Latest(V).document
           g == NextState(h, V)
<1>1. DocOK(doc, A) /\ doc \in Docs
  BY LatestOK DEF DocOK
<1>2. h \in HookRecord /\ h.sequence = 1 /\ h.stage = "approving"
  BY DEF HookOK
<1>3. g = [h EXCEPT !.pc = "put", !.sequence = 2, !.document = doc]
  BY <1>2 DEF NextState, Putting
<1> HIDE DEF doc, g
<1>4. g \in HookRecord
  <2>1. 2 \in 1..2 /\ "put" \in {"idle", "put", "load", "pull", "push"}
    OBVIOUS
  <2> QED BY <1>1, <1>2, <1>3, <2>1, Zenon DEF HookRecord
<1>5. /\ g.document = doc /\ g.claimers = h.claimers /\ g.stage = "approving"
      /\ g.key = h.key /\ g.pc = "put"
  BY <1>2, <1>3 DEF HookRecord
<1>6. HookOK(s, g, A, C)
  BY <1>1, <1>2, <1>4, <1>5 DEF HookOK
<1> QED BY <1>6 DEF g

(* A step that changes what one device knows.                              *)
LEMMA CoreSet ==
  ASSUME CoreOK, UNCHANGED approved, NEW d \in Devices, NEW V,
         known' = [known EXCEPT ![d] = V], EventsOK(V, approved), known[d] \subseteq V,
         EventsOK(served', approved), GenesisEvent \in served'
  PROVE  CoreOK' /\ \A e \in Devices : known[e] \subseteq known'[e]
BY DEF CoreOK, EventsOK

LEMMA ApprovePulledStep ==
  ASSUME PairInv, NEW s \in Sessions, ApprovePulled(s)
  PROVE  PairInv'
<1> DEFINE hook == hooks[s]
           pulled == known[Issuer] \cup served
           doc == Latest(pulled).document
           new == WithKey(doc, hook.key, hook.role)
           events == Published(pulled, Issuer, new)
<1>1. /\ HookOK(s, hook, approved, scanned) /\ hook \in HookRecord /\ hook.pc = "pull"
      /\ CoreOK /\ RowOK /\ HooksOK /\ ClaimersOK /\ EditOK /\ RestOK
  BY DEF PairInv, HooksOK, ApprovePulled
<1>2. /\ UNCHANGED <<setting, expired, history>> /\ UNCHANGED failures /\ served' = served
      /\ UNCHANGED serverVars /\ UNCHANGED claimVars /\ UNCHANGED edit
      /\ approved' = approved /\ scanned' = scanned
  BY DEF ApprovePulled, serverVars, claimVars, history
<1>3. RestOK' /\ Grows
  BY <1>1, <1>2, RestStays
<1>4. /\ EventsOK(pulled, approved) /\ GenesisEvent \in pulled /\ Issuer \in Devices
      /\ EventsOK(served, approved) /\ GenesisEvent \in served
  BY <1>1, UnionOK DEF CoreOK, Devices
<1>5. <<s, hook.key>> \in approved /\ hook.key \in Claimers /\ hook.key \in KeysIn(approved)
  BY <1>1 DEF HookOK, KeysIn
<1>6. DocOK(doc, approved)
  BY <1>4, LatestOK
<1>7. EventsOK(events, approved) /\ pulled \subseteq events
  <2>1. DocOK(new, approved)
    <3> HIDE DEF doc, hook
    <3> QED BY <1>5, <1>6, WithKeyOK
  <2>2. EventsOK(events, approved)
    <3> HIDE DEF new, pulled
    <3> QED BY <1>4, <2>1, PublishedOK
  <2> QED BY <2>2 DEF Published
<1>8. /\ known' = [known EXCEPT ![Issuer] = pulled] \/ known' = [known EXCEPT ![Issuer] = events]
      /\ \/ hooks' = [hooks EXCEPT ![s] = [hook EXCEPT !.pc = "idle"]]
         \/ hooks' = [hooks EXCEPT ![s] = NextState(hook, pulled)]
         \/ hooks' = [hooks EXCEPT ![s] = [hook EXCEPT !.pc = "push"]]
  <2>1. CASE hook.canceled
    BY <2>1 DEF ApprovePulled
  <2>2. CASE ~ hook.canceled /\ authorizes_signer(doc, hook.key)
    BY <2>2 DEF ApprovePulled
  <2>3. CASE ~ hook.canceled /\ ~ authorizes_signer(doc, hook.key)
    BY <2>3 DEF ApprovePulled, AfterCommit
  <2> QED BY <2>1, <2>2, <2>3
<1> HIDE DEF hook, pulled, events, new, doc
<1>9. CoreOK' /\ \A d \in Devices : known[d] \subseteq known'[d]
  <2>1. known[Issuer] \subseteq pulled /\ known[Issuer] \subseteq events
    BY <1>7 DEF pulled
  <2> QED BY <1>1, <1>2, <1>4, <1>7, <1>8, <2>1, CoreSet
<1>10. /\ HookOK(s, [hook EXCEPT !.pc = "idle"], approved, scanned)
       /\ HookOK(s, [hook EXCEPT !.pc = "push"], approved, scanned)
       /\ HookOK(s, NextState(hook, pulled), approved, scanned)
  <2>1. HookOK(s, [hook EXCEPT !.pc = "idle"], approved, scanned)
    BY <1>1 DEF HookOK, HookRecord
  <2>2. HookOK(s, [hook EXCEPT !.pc = "push"], approved, scanned)
    BY <1>1 DEF HookOK, HookRecord
  <2>3. HookOK(s, NextState(hook, pulled), approved, scanned)
    BY <1>1, <1>4, PuttingOK
  <2> QED BY <2>1, <2>2, <2>3
<1>11. HooksOK'
  BY <1>1, <1>2, <1>3, <1>8, <1>10, HookSet
<1>12. ClaimersOK'
  BY <1>1, <1>2, <1>3, <1>9, ClaimersStay DEF Devices
<1>13. RowOK' /\ EditOK'
  BY <1>1, <1>2, <1>3, RowStays, EditStays
<1> QED BY <1>3, <1>9, <1>11, <1>12, <1>13 DEF PairInv

(* A push adds events that are known to a device to those on the server.   *)
LEMMA CorePushed ==
  ASSUME CoreOK, UNCHANGED <<approved, known>>, NEW d \in Devices,
         served' = Pushed(known[d]) \/ UNCHANGED served
  PROVE  CoreOK'
<1>1. EventsOK(known[d], approved) /\ EventsOK(served, approved) /\ GenesisEvent \in served
  BY DEF CoreOK
<1>2. EventsOK(served', approved) /\ GenesisEvent \in served'
  BY <1>1, PushedOK
<1> QED BY <1>2 DEF CoreOK

LEMMA ApprovePushedStep ==
  ASSUME PairInv, NEW s \in Sessions, ApprovePushed(s)
  PROVE  PairInv'
<1> DEFINE hook == hooks[s]
<1>1. /\ HookOK(s, hook, approved, scanned) /\ hook.pc = "push"
      /\ CoreOK /\ RowOK /\ HooksOK /\ ClaimersOK /\ EditOK /\ RestOK
  BY DEF PairInv, HooksOK, ApprovePushed
<1>2. /\ UNCHANGED <<setting, expired, history>>
      /\ UNCHANGED failures \/ MayFail
      /\ UNCHANGED serverVars /\ UNCHANGED claimVars /\ UNCHANGED edit
      /\ approved' = approved /\ scanned' = scanned /\ known' = known
      /\ served' = Pushed(known[Issuer]) \/ UNCHANGED served
      /\ hooks' = [hooks EXCEPT ![s] = NextState(hook, known[Issuer])]
  BY DEF ApprovePushed, serverVars, claimVars, history
<1>3. RestOK' /\ Grows
  BY <1>1, <1>2, RestStays
<1>4. CoreOK'
  BY <1>1, <1>2, CorePushed DEF Devices
<1>5. HookOK(s, NextState(hook, known[Issuer]), approved, scanned)
  <2>1. EventsOK(known[Issuer], approved) /\ GenesisEvent \in known[Issuer]
    BY <1>1 DEF CoreOK, Devices
  <2> HIDE DEF hook
  <2> QED BY <1>1, <2>1, PuttingOK
<1>6. HooksOK'
  BY <1>1, <1>2, <1>3, <1>5, HookSet
<1>7. RowOK' /\ EditOK' /\ ClaimersOK'
  BY <1>1, <1>2, <1>3, RowStays, EditStays, ClaimersStay
<1> QED BY <1>3, <1>4, <1>6, <1>7 DEF PairInv

-----------------------------------------------------------------------------
(* The claimer's hook.                                                     *)

LEMMA ScanStep ==
  ASSUME PairInv, NEW c \in Claimers, NEW s \in Sessions, Scan(c, s)
  PROVE  PairInv'
<1> DEFINE q == [stage |-> "joining", pc |-> "get", session |-> s]
<1>1. /\ CoreOK /\ RowOK /\ HooksOK /\ ClaimersOK /\ EditOK /\ RestOK
      /\ ClaimerOK(c, claimers[c], active[c], known[c], scanned)
      /\ claimers[c].stage = "unstarted"
  BY DEF PairInv, ClaimersOK, Scan
<1>2. /\ UNCHANGED <<setting, expired, approved>> /\ UNCHANGED failures /\ UNCHANGED coreVars
      /\ UNCHANGED serverVars /\ UNCHANGED hooks /\ UNCHANGED edit /\ known' = known
      /\ scanned' = scanned \cup {<<s, c>>}
      /\ claimers' = [claimers EXCEPT ![c] = q] /\ active' = active
  BY DEF Scan, coreVars, serverVars
<1>3. Grows
  BY <1>2 DEF Grows
<1>4. RestOK'
  BY <1>1, <1>2 DEF RestOK
<1>5. active[c] = FALSE /\ active' = [active EXCEPT ![c] = FALSE]
  <2>1. active[c] = FALSE
    BY <1>1 DEF ClaimerOK, ClaimerRecord, StepsOf
  <2> QED BY <1>1, <1>2, <2>1 DEF ClaimersOK
<1>6. ClaimerOK(c, q, FALSE, known'[c], scanned')
  <2>1. q \in ClaimerRecord /\ q.pc \in StepsOf(q.stage)
    BY DEF ClaimerRecord, StepsOf, Sessions
  <2> QED BY <1>2, <2>1 DEF ClaimerOK
<1>7. ClaimersOK'
  <2> HIDE DEF q
  <2> QED BY <1>1, <1>2, <1>3, <1>5, <1>6, ClaimerSet
<1>8. CoreOK' /\ RowOK' /\ HooksOK' /\ EditOK'
  BY <1>1, <1>2, <1>3, CoreStays, RowStays, HooksStay, EditStays
<1> QED BY <1>4, <1>7, <1>8 DEF PairInv

(* The records of a claimer that a step may leave it with.                 *)
Moved(q, stage, pc) == [q EXCEPT !.stage = stage, !.pc = pc]

LEMMA AdvanceMeans ==
  ASSUME ClaimersOK, NEW c \in Claimers, NEW stage, NEW pc, Advance(c, stage, pc)
  PROVE  claimers' = [claimers EXCEPT ![c] = Moved(claimers[c], stage, pc)]
BY DEF Advance, Moved, ClaimersOK, ClaimerRecord

LEMMA MovedOK ==
  ASSUME NEW c, NEW q, NEW a, NEW V, NEW W, NEW C, ClaimerOK(c, q, a, V, C),
         q.stage # "unstarted", V \subseteq W,
         NEW b \in BOOLEAN,
         NEW stage \in {"joining", "polling", "claiming", "done", "error"},
         NEW pc \in StepsOf(stage),
         b <=> stage = "done" \/ pc \in {"pull", "push"},
         stage = "done" \/ pc = "push" => HasLogin(c, W)
  PROVE  ClaimerOK(c, Moved(q, stage, pc), b, W, C)
<1> DEFINE r == Moved(q, stage, pc)
<1>1. q \in ClaimerRecord /\ q.session \in Sessions /\ <<q.session, c>> \in C
  BY DEF ClaimerOK
<1>2. pc \in {"idle", "get", "lookup", "add", "listed", "list", "pull", "push", "join",
             "claim"}
  BY DEF StepsOf
<1>3. r \in ClaimerRecord /\ r.stage = stage /\ r.pc = pc /\ r.session = q.session
  BY <1>1, <1>2 DEF Moved, ClaimerRecord
<1> HIDE DEF r
<1>4. ClaimerOK(c, r, b, W, C)
  BY <1>1, <1>3 DEF ClaimerOK
<1> QED BY <1>4 DEF r

(* Every step before the claim leaves the identity inactive.               *)
LEMMA JoinStep ==
  ASSUME PairInv, NEW c \in Claimers, UNCHANGED OtherThanClaimers, UNCHANGED active,
         UNCHANGED failures \/ MayFail,
         claimers[c].stage \in {"joining", "polling"},
         NEW stage \in {"joining", "polling", "claiming", "error"}, NEW pc \in StepsOf(stage),
         pc \notin {"pull", "push"}, Advance(c, stage, pc)
  PROVE  PairInv'
<1>1. /\ ClaimersOK /\ ClaimerOK(c, claimers[c], active[c], known[c], scanned)
  BY DEF PairInv, ClaimersOK
<1>2. active[c] = FALSE /\ active' = [active EXCEPT ![c] = FALSE]
  <2>1. active[c] = FALSE
    BY <1>1 DEF ClaimerOK, ClaimerRecord, StepsOf
  <2> QED BY <1>1, <2>1 DEF ClaimersOK
<1>3. claimers' = [claimers EXCEPT ![c] = Moved(claimers[c], stage, pc)]
  BY <1>1, AdvanceMeans
<1>4. ClaimerOK(c, Moved(claimers[c], stage, pc), FALSE, known[c], scanned)
  BY <1>1, MovedOK
<1> QED BY <1>2, <1>3, <1>4, OneClaimer

LEMMA JoinLooksUpStep ==
  ASSUME PairInv, NEW c \in Claimers, JoinLooksUp(c)
  PROVE  PairInv'
<1>1. UNCHANGED OtherThanClaimers /\ UNCHANGED active /\ UNCHANGED failures
  BY DEF JoinLooksUp, OtherThanClaimers, coreVars, serverVars, history
<1>2. claimers[c].stage = "joining"
  BY DEF JoinLooksUp, PairInv, ClaimersOK, ClaimerOK, ClaimerRecord, StepsOf
<1>3. \/ Advance(c, "joining", "lookup") \/ Advance(c, "joining", "add")
      \/ Advance(c, "error", "join")
  BY DEF JoinLooksUp
<1>4. "lookup" \in StepsOf("joining") /\ "add" \in StepsOf("joining") /\ "join" \in StepsOf("error")
  BY DEF StepsOf
<1> QED BY <1>1, <1>2, <1>3, <1>4, JoinStep

LEMMA JoinListedStep ==
  ASSUME PairInv, NEW c \in Claimers, JoinListed(c)
  PROVE  PairInv'
<1>1. UNCHANGED OtherThanClaimers /\ UNCHANGED active /\ UNCHANGED failures
  BY DEF JoinListed, OtherThanClaimers, coreVars, serverVars, history
<1>2. claimers[c].stage = "joining"
  BY DEF JoinListed, PairInv, ClaimersOK, ClaimerOK, ClaimerRecord, StepsOf
<1>3. Advance(c, "polling", "idle") \/ Advance(c, "error", "join")
  BY DEF JoinListed
<1>4. "idle" \in StepsOf("polling") /\ "join" \in StepsOf("error")
  BY DEF StepsOf
<1> QED BY <1>1, <1>2, <1>3, <1>4, JoinStep

LEMMA JoinFailsStep ==
  ASSUME PairInv, NEW c \in Claimers, JoinFails(c)
  PROVE  PairInv'
<1>1. UNCHANGED OtherThanClaimers /\ UNCHANGED active /\ MayFail
  BY DEF JoinFails, OtherThanClaimers, coreVars, serverVars, history
<1>2. claimers[c].stage = "joining" /\ Advance(c, "error", "join")
  BY DEF JoinFails
<1>3. "join" \in StepsOf("error")
  BY DEF StepsOf
<1> QED BY <1>1, <1>2, <1>3, JoinStep

LEMMA PollForAuthorizationStep ==
  ASSUME PairInv, NEW c \in Claimers, PollForAuthorization(c)
  PROVE  PairInv'
<1>1. UNCHANGED OtherThanClaimers /\ UNCHANGED active /\ UNCHANGED failures
  BY DEF PollForAuthorization, OtherThanClaimers, coreVars, serverVars, history
<1>2. claimers[c].stage = "polling" /\ Advance(c, "claiming", "list")
  BY DEF PollForAuthorization
<1>3. "list" \in StepsOf("claiming")
  BY DEF StepsOf
<1> QED BY <1>1, <1>2, <1>3, JoinStep

(* The key joins the session whose code its device scanned.                *)
LEMMA JoinAddsStep ==
  ASSUME PairInv, NEW c \in Claimers, JoinAdds(c)
  PROVE  PairInv'
<1>1. /\ CoreOK /\ RowOK /\ HooksOK /\ ClaimersOK /\ EditOK /\ RestOK
      /\ ClaimerOK(c, claimers[c], active[c], known[c], scanned)
  BY DEF PairInv, ClaimersOK
<1>2. /\ UNCHANGED <<setting, expired, history>> /\ UNCHANGED failures /\ UNCHANGED coreVars
      /\ UNCHANGED hooks /\ UNCHANGED edit /\ known' = known /\ active' = active
      /\ approved' = approved /\ scanned' = scanned /\ row' = row
      /\ joined' = joined \cup {<<claimers[c].session, c>>}
  BY DEF JoinAdds, AddClaimer, coreVars, history
<1>3. RestOK' /\ Grows
  BY <1>1, <1>2, RestStays
<1>4. claimers[c].stage = "joining" /\ active[c] = FALSE
  BY <1>1 DEF JoinAdds, ClaimerOK, ClaimerRecord, StepsOf
<1>5. active' = [active EXCEPT ![c] = FALSE]
  BY <1>1, <1>2, <1>4 DEF ClaimersOK
<1>6. RowOK'
  BY <1>1, <1>2, <1>4 DEF RowOK, ClaimerOK
<1>7. ClaimersOK'
  <2>1. "listed" \in StepsOf("joining")
    BY DEF StepsOf
  <2>2. ClaimerOK(c, Moved(claimers[c], "joining", "listed"), FALSE, known'[c], scanned')
    BY <1>1, <1>2, <1>4, <2>1, MovedOK
  <2>3. Advance(c, "joining", "listed")
    BY DEF JoinAdds
  <2>4. claimers' = [claimers EXCEPT ![c] = Moved(claimers[c], "joining", "listed")]
    BY <1>1, <2>3, AdvanceMeans
  <2> QED BY <1>1, <1>2, <1>3, <1>5, <2>2, <2>4, ClaimerSet
<1>8. CoreOK' /\ HooksOK' /\ EditOK'
  BY <1>1, <1>2, <1>3, CoreStays, HooksStay, EditStays
<1> QED BY <1>3, <1>6, <1>7, <1>8 DEF PairInv

LEMMA GoBackStep ==
  ASSUME PairInv, NEW c \in Claimers, GoBack(c)
  PROVE  PairInv'
<1>1. ClaimersOK /\ ClaimerOK(c, claimers[c], active[c], known[c], scanned)
  BY DEF PairInv, ClaimersOK
<1>2. /\ UNCHANGED OtherThanClaimers /\ UNCHANGED failures /\ active' = active
      /\ claimers' = [claimers EXCEPT ![c] = NewClaimer]
      /\ claimers[c].stage \in {"polling", "error"}
  BY DEF GoBack, OtherThanClaimers, coreVars, serverVars, history
<1>3. active' = [active EXCEPT ![c] = FALSE]
  <2>1. active[c] = FALSE
    BY <1>1, <1>2 DEF ClaimerOK, ClaimerRecord, StepsOf
  <2> QED BY <1>1, <1>2, <2>1 DEF ClaimersOK
<1>4. ClaimerOK(c, NewClaimer, FALSE, known[c], scanned)
  <2>1. MaxSessions \in Nat
    BY DeviceAssumption
  <2> QED BY <2>1 DEF ClaimerOK, NewClaimer, ClaimerRecord, StepsOf
<1> QED BY <1>2, <1>3, <1>4, OneClaimer

LEMMA ClaimFailsStep ==
  ASSUME PairInv, NEW c \in Claimers, ClaimFails(c)
  PROVE  PairInv'
<1>1. ClaimersOK /\ ClaimerOK(c, claimers[c], active[c], known[c], scanned)
  BY DEF PairInv, ClaimersOK
<1>2. /\ UNCHANGED OtherThanClaimers /\ MayFail /\ active' = [active EXCEPT ![c] = FALSE]
      /\ Advance(c, "error", "claim") /\ claimers[c].pc \in {"list", "pull"}
  BY DEF ClaimFails, RolledBack, OtherThanClaimers, coreVars, serverVars, history
<1>3. claimers[c].stage # "unstarted" /\ "claim" \in StepsOf("error")
  BY <1>1, <1>2 DEF ClaimerOK, StepsOf
<1>4. ClaimerOK(c, Moved(claimers[c], "error", "claim"), FALSE, known[c], scanned)
  BY <1>1, <1>3, MovedOK
<1>5. claimers' = [claimers EXCEPT ![c] = Moved(claimers[c], "error", "claim")]
  BY <1>1, <1>2, AdvanceMeans
<1> QED BY <1>2, <1>4, <1>5, OneClaimer

(* A step of the claim, which changes what the device knows.               *)
LEMMA ClaimStep ==
  ASSUME PairInv, NEW c \in Claimers, claimers[c].stage # "unstarted",
         UNCHANGED <<setting, served, serverVars, hooks, edit, expired, failures, history>>,
         NEW V, known' = [known EXCEPT ![c] = V], known[c] \subseteq V, EventsOK(V, approved),
         NEW a \in BOOLEAN, active' = [active EXCEPT ![c] = a],
         NEW stage \in {"claiming", "error"}, NEW pc \in StepsOf(stage), Advance(c, stage, pc),
         a <=> pc \in {"pull", "push"},
         pc = "push" => HasLogin(c, V)
  PROVE  PairInv'
<1>1. /\ CoreOK /\ RowOK /\ HooksOK /\ ClaimersOK /\ EditOK /\ RestOK
      /\ ClaimerOK(c, claimers[c], active[c], known[c], scanned)
  BY DEF PairInv, ClaimersOK
<1>2. /\ UNCHANGED <<setting, expired, history>> /\ UNCHANGED failures
      /\ UNCHANGED serverVars /\ UNCHANGED hooks /\ UNCHANGED edit /\ served' = served
      /\ approved' = approved /\ scanned' = scanned /\ c \in Devices
  BY DEF history, Devices
<1>3. RestOK' /\ Grows
  BY <1>1, <1>2, RestStays
<1>4. CoreOK' /\ \A d \in Devices : known[d] \subseteq known'[d]
  <2>1. EventsOK(served', approved) /\ GenesisEvent \in served'
    BY <1>1, <1>2 DEF CoreOK
  <2> QED BY <1>1, <1>2, <2>1, CoreSet
<1>5. known'[c] = V
  BY <1>1, <1>2 DEF CoreOK
<1>6. ClaimerOK(c, Moved(claimers[c], stage, pc), a, known'[c], scanned')
  <2>1. /\ stage \in {"joining", "polling", "claiming", "done", "error"} /\ stage # "done"
        /\ a <=> stage = "done" \/ pc \in {"pull", "push"}
        /\ stage = "done" \/ pc = "push" => HasLogin(c, V)
    OBVIOUS
  <2>2. ClaimerOK(c, Moved(claimers[c], stage, pc), a, V, scanned)
    BY ONLY <1>1, <2>1, MovedOK, a \in BOOLEAN, pc \in StepsOf(stage),
            known[c] \subseteq V, claimers[c].stage # "unstarted"
  <2> QED BY <1>2, <1>5, <2>2
<1>7. claimers' = [claimers EXCEPT ![c] = Moved(claimers[c], stage, pc)]
  BY <1>1, AdvanceMeans
<1>8. ClaimersOK'
  <2>1. \A d \in Claimers : known[d] \subseteq known'[d]
    BY <1>4 DEF Devices
  <2> QED BY <1>1, <1>3, <1>6, <1>7, <2>1, ClaimerSet
<1>9. RowOK' /\ HooksOK' /\ EditOK'
  BY <1>1, <1>2, <1>3, RowStays, HooksStay, EditStays
<1> QED BY <1>3, <1>4, <1>8, <1>9 DEF PairInv

LEMMA ClaimListedStep ==
  ASSUME PairInv, NEW c \in Claimers, ClaimListed(c)
  PROVE  PairInv'
<1> DEFINE V == known[c] \cup served
<1>1. EventsOK(V, approved) /\ known[c] \subseteq V
  BY UnionOK DEF PairInv, CoreOK, Devices
<1>2. /\ UNCHANGED <<setting, served, serverVars, hooks, edit, expired, failures, history>>
      /\ known' = [known EXCEPT ![c] = V]
  BY DEF ClaimListed
<1>3. claimers[c].stage # "unstarted"
  BY DEF ClaimListed, PairInv, ClaimersOK, ClaimerOK, StepsOf
<1>4. "pull" \in StepsOf("claiming") /\ "claim" \in StepsOf("error")
  BY DEF StepsOf
<1>5. CASE active' = [active EXCEPT ![c] = TRUE] /\ Advance(c, "claiming", "pull")
  <2> HIDE DEF V
  <2> QED BY <1>1, <1>2, <1>3, <1>4, <1>5, ClaimStep
<1>6. CASE active' = [active EXCEPT ![c] = FALSE] /\ Advance(c, "error", "claim")
  <2> HIDE DEF V
  <2> QED BY <1>1, <1>2, <1>3, <1>4, <1>6, ClaimStep
<1> QED BY <1>5, <1>6 DEF ClaimListed, RolledBack

LEMMA ClaimPulledStep ==
  ASSUME PairInv, NEW c \in Claimers, ClaimPulled(c)
  PROVE  PairInv'
<1> DEFINE V == known[c] \cup served
           W == Published(V, c, Latest(V).document)
<1>1. /\ EventsOK(V, approved) /\ known[c] \subseteq V /\ GenesisEvent \in V /\ c \in Devices
  BY UnionOK DEF PairInv, CoreOK, Devices
<1>2. UNCHANGED <<setting, served, serverVars, hooks, edit, expired, failures, history>>
  BY DEF ClaimPulled
<1>3. /\ claimers[c].stage # "unstarted" /\ active[c] = TRUE /\ active \in [Claimers -> BOOLEAN]
  BY DEF ClaimPulled, PairInv, ClaimersOK, ClaimerOK, StepsOf
<1>4. "push" \in StepsOf("claiming") /\ "claim" \in StepsOf("error")
  BY DEF StepsOf
<1>5. CASE Authorizes(V, c)
  <2>1. EventsOK(W, approved) /\ known[c] \subseteq W
    <3>1. DocOK(Latest(V).document, approved)
      BY <1>1, LatestOK
    <3>2. EventsOK(W, approved)
      <4> HIDE DEF V
      <4> QED BY <1>1, <3>1, PublishedOK
    <3> QED BY <3>2 DEF Published
  <2>2. HasLogin(c, W)
    <3> DEFINE doc == Latest(V).document
               e == [sequence |-> Latest(V).sequence + 1, signer |-> c,
                     document |-> doc, intact |-> TRUE]
    <3>1. e \in W
      BY DEF Published
    <3>2. authorizes_signer(doc, c)
      BY <1>5 DEF Authorizes
    <3> HIDE DEF W, doc
    <3>3. e.signer = c /\ e.document = doc
      OBVIOUS
    <3> QED BY <3>1, <3>2, <3>3 DEF HasLogin
  <2>3. /\ known' = [known EXCEPT ![c] = W] /\ Advance(c, "claiming", "push")
        /\ active' = [active EXCEPT ![c] = TRUE]
    BY <1>3, <1>5 DEF ClaimPulled
  <2> HIDE DEF W
  <2> QED BY <1>2, <1>3, <1>4, <2>1, <2>2, <2>3, ClaimStep
<1>6. CASE ~ Authorizes(V, c)
  <2>1. /\ known' = [known EXCEPT ![c] = V] /\ Advance(c, "error", "claim")
        /\ active' = [active EXCEPT ![c] = FALSE]
    BY <1>6 DEF ClaimPulled, RolledBack
  <2> HIDE DEF V
  <2> QED BY <1>1, <1>2, <1>3, <1>4, <2>1, ClaimStep
<1> QED BY <1>5, <1>6

LEMMA ClaimPushedStep ==
  ASSUME PairInv, NEW c \in Claimers, ClaimPushed(c)
  PROVE  PairInv'
<1>1. /\ CoreOK /\ RowOK /\ HooksOK /\ ClaimersOK /\ EditOK /\ RestOK
      /\ ClaimerOK(c, claimers[c], active[c], known[c], scanned) /\ claimers[c].pc = "push"
  BY DEF PairInv, ClaimersOK, ClaimPushed
<1>2. /\ UNCHANGED <<setting, expired, history>>
      /\ UNCHANGED failures \/ MayFail
      /\ UNCHANGED serverVars /\ UNCHANGED hooks /\ UNCHANGED edit
      /\ approved' = approved /\ scanned' = scanned /\ known' = known /\ active' = active
      /\ served' = Pushed(known[c]) \/ UNCHANGED served
      /\ Advance(c, "done", "idle") /\ c \in Devices
  BY DEF ClaimPushed, serverVars, history, Devices
<1>3. RestOK' /\ Grows
  BY <1>1, <1>2, RestStays
<1>4. CoreOK'
  BY <1>1, <1>2, CorePushed
<1>5. active[c] = TRUE /\ HasLogin(c, known[c]) /\ claimers[c].stage # "unstarted"
  BY <1>1 DEF ClaimerOK, StepsOf
<1>6. active' = [active EXCEPT ![c] = TRUE]
  BY <1>1, <1>2, <1>5 DEF ClaimersOK
<1>7. ClaimersOK'
  <2>1. "idle" \in StepsOf("done")
    BY DEF StepsOf
  <2>2. ClaimerOK(c, Moved(claimers[c], "done", "idle"), TRUE, known'[c], scanned')
    BY <1>1, <1>2, <1>5, <2>1, MovedOK
  <2>3. claimers' = [claimers EXCEPT ![c] = Moved(claimers[c], "done", "idle")]
    BY <1>1, <1>2, AdvanceMeans
  <2> QED BY <1>1, <1>2, <1>3, <1>6, <2>2, <2>3, ClaimerSet
<1>8. RowOK' /\ HooksOK' /\ EditOK'
  BY <1>1, <1>2, <1>3, RowStays, HooksStay, EditStays
<1> QED BY <1>3, <1>4, <1>7, <1>8 DEF PairInv

-----------------------------------------------------------------------------
(* The settings screen, and time.                                          *)

LEMMA EditStep ==
  ASSUME PairInv, NEW pc \in {"idle", "info", "push"}, NEW doc, DocOK(doc, approved),
         edit' = [pc |-> pc, document |-> doc],
         UNCHANGED <<setting, coreVars, serverVars, hooks, claimVars, expired, history>>,
         UNCHANGED failures \/ MayFail
  PROVE  PairInv'
<1>1. CoreOK /\ RowOK /\ HooksOK /\ ClaimersOK /\ EditOK /\ RestOK
  BY DEF PairInv
<1>2. /\ UNCHANGED <<setting, expired, history>> /\ UNCHANGED coreVars
      /\ UNCHANGED serverVars /\ UNCHANGED hooks /\ UNCHANGED claimVars
      /\ approved' = approved /\ scanned' = scanned /\ known' = known
  BY DEF history, coreVars
<1>3. RestOK' /\ Grows
  BY <1>1, <1>2, RestStays
<1>4. EditOK'
  BY <1>2 DEF EditOK, DocOK
<1>5. CoreOK' /\ RowOK' /\ HooksOK' /\ ClaimersOK'
  BY <1>1, <1>2, <1>3, CoreStays, RowStays, HooksStay, ClaimersStay
<1> QED BY <1>3, <1>4, <1>5 DEF PairInv

LEMMA AddServerStep ==
  ASSUME PairInv, AddServer
  PROVE  PairInv'
<1>1. DocOK(Latest(known[Issuer]).document, approved)
  BY LatestOK DEF PairInv, CoreOK, Devices
<1>2. /\ edit' = [pc |-> "info", document |-> Latest(known[Issuer]).document]
      /\ UNCHANGED <<setting, coreVars, serverVars, hooks, claimVars, expired, history>>
      /\ UNCHANGED failures
  BY DEF AddServer
<1> QED BY <1>1, <1>2, EditStep

LEMMA ServerFailsStep ==
  ASSUME PairInv, ServerFails
  PROVE  PairInv'
<1>1. DocOK(edit.document, approved)
  BY DEF PairInv, EditOK
<1>2. /\ edit' = [pc |-> "idle", document |-> edit.document]
      /\ UNCHANGED <<setting, coreVars, serverVars, hooks, claimVars, expired, history>>
      /\ MayFail
  BY DEF ServerFails, PairInv, EditOK
<1> QED BY <1>1, <1>2, EditStep

LEMMA EditPublishesStep ==
  ASSUME PairInv, NEW doc, DocOK(doc, approved), EditPublishes(doc)
  PROVE  PairInv'
<1> DEFINE V == known[Issuer]
           W == Published(V, Issuer, doc)
<1>1. CoreOK /\ RowOK /\ HooksOK /\ ClaimersOK /\ EditOK /\ RestOK
  BY DEF PairInv
<1>2. /\ UNCHANGED <<setting, expired, history>> /\ UNCHANGED failures
      /\ UNCHANGED serverVars /\ UNCHANGED hooks /\ UNCHANGED claimVars /\ served' = served
      /\ approved' = approved /\ scanned' = scanned /\ Issuer \in Devices
      /\ known' = [known EXCEPT ![Issuer] = W]
      /\ edit' = [edit EXCEPT !.pc = "push"]
  BY DEF EditPublishes, history, Devices
<1>3. RestOK' /\ Grows
  BY <1>1, <1>2, RestStays
<1>4. EventsOK(W, approved) /\ V \subseteq W
  <2>1. EventsOK(V, approved) /\ GenesisEvent \in V
    BY <1>1, <1>2 DEF CoreOK
  <2>2. EventsOK(W, approved)
    <3> HIDE DEF V
    <3> QED BY <1>2, <2>1, PublishedOK
  <2> QED BY <2>2 DEF Published
<1>5. CoreOK' /\ \A d \in Devices : known[d] \subseteq known'[d]
  <2>1. EventsOK(served', approved) /\ GenesisEvent \in served'
    BY <1>1, <1>2 DEF CoreOK
  <2> HIDE DEF W
  <2> QED BY <1>1, <1>2, <1>4, <2>1, CoreSet
<1>6. EditOK'
  BY <1>1, <1>2 DEF EditOK
<1>7. ClaimersOK'
  BY <1>1, <1>2, <1>3, <1>5, ClaimersStay DEF Devices
<1>8. RowOK' /\ HooksOK'
  BY <1>1, <1>2, <1>3, RowStays, HooksStay
<1> QED BY <1>3, <1>5, <1>6, <1>7, <1>8 DEF PairInv

LEMMA EditsStep ==
  ASSUME PairInv, ServerAnswers \/ RemoveServer \/ \E key \in Claimers : RemoveKey(key)
  PROVE  PairInv'
<1>1. DocOK(Latest(known[Issuer]).document, approved) /\ DocOK(edit.document, approved)
  BY LatestOK DEF PairInv, CoreOK, Devices, EditOK
<1>2. CASE ServerAnswers
  <2>1. DocOK(WithServers(edit.document, 1), approved)
    BY <1>1, WithServersOK
  <2> QED BY <1>2, <2>1, EditPublishesStep DEF ServerAnswers
<1>3. CASE RemoveServer
  <2>1. DocOK(WithServers(Latest(known[Issuer]).document, 0), approved)
    BY <1>1, WithServersOK
  <2> QED BY <1>3, <2>1, EditPublishesStep DEF RemoveServer
<1>4. ASSUME NEW key \in Claimers, RemoveKey(key) PROVE PairInv'
  <2>1. DocOK(WithoutKey(Latest(known[Issuer]).document, key), approved)
    BY <1>1, WithoutKeyOK
  <2> QED BY <1>4, <2>1, EditPublishesStep DEF RemoveKey
<1> QED BY <1>2, <1>3, <1>4

LEMMA EditPushedStep ==
  ASSUME PairInv, EditPushed
  PROVE  PairInv'
<1>1. CoreOK /\ RowOK /\ HooksOK /\ ClaimersOK /\ EditOK /\ RestOK
  BY DEF PairInv
<1>2. /\ UNCHANGED <<setting, expired, history>>
      /\ UNCHANGED failures \/ MayFail
      /\ UNCHANGED serverVars /\ UNCHANGED hooks /\ UNCHANGED claimVars
      /\ approved' = approved /\ scanned' = scanned /\ known' = known
      /\ served' = Pushed(known[Issuer]) \/ UNCHANGED served
      /\ edit' = [edit EXCEPT !.pc = "idle"] /\ Issuer \in Devices
  BY DEF EditPushed, serverVars, claimVars, history, Devices
<1>3. RestOK' /\ Grows
  BY <1>1, <1>2, RestStays
<1>4. CoreOK'
  BY <1>1, <1>2, CorePushed
<1>5. EditOK'
  BY <1>1, <1>2 DEF EditOK
<1>6. RowOK' /\ HooksOK' /\ ClaimersOK'
  BY <1>1, <1>2, <1>3, RowStays, HooksStay, ClaimersStay
<1> QED BY <1>3, <1>4, <1>5, <1>6 DEF PairInv

LEMMA ExpireStep ==
  ASSUME PairInv, NEW s \in Sessions, Expire(s)
  PROVE  PairInv'
<1>1. CoreOK /\ RowOK /\ HooksOK /\ ClaimersOK /\ EditOK /\ RestOK
  BY DEF PairInv
<1>2. /\ UNCHANGED <<setting, history>> /\ UNCHANGED failures /\ UNCHANGED coreVars
      /\ UNCHANGED serverVars /\ UNCHANGED hooks /\ UNCHANGED claimVars /\ UNCHANGED edit
      /\ approved' = approved /\ scanned' = scanned /\ known' = known
      /\ expired' = expired \cup {s}
  BY DEF Expire, coreVars, history
<1>3. RestOK' /\ Grows
  BY <1>1, <1>2 DEF RestOK, Grows
<1>4. CoreOK' /\ RowOK' /\ HooksOK' /\ ClaimersOK' /\ EditOK'
  BY <1>1, <1>2, <1>3, CoreStays, RowStays, HooksStay, ClaimersStay, EditStays
<1> QED BY <1>3, <1>4 DEF PairInv

-----------------------------------------------------------------------------
(* The invariant holds.                                                    *)

LEMMA PairInit == Init => PairInv
<1> SUFFICES ASSUME Init PROVE PairInv
  OBVIOUS
<1> USE DEF Init, ServerInit
<1>1. DocOK(GenesisDocument, {})
  BY GenesisMeans DEF DocOK, DocumentKeys
<1>2. approved = {} /\ scanned = {} /\ MaxSessions \in Nat
  BY DeviceAssumption
<1>3. EventsOK({GenesisEvent}, {}) /\ EventsOK({}, {})
  <2>1. GenesisEvent.document = GenesisDocument
    BY DEF GenesisEvent
  <2> QED BY <1>1, <2>1, GenesisMeans, FS_Singleton, FS_EmptySet DEF EventsOK
<1>4. CoreOK
  <2>1. known \in [Devices -> SUBSET Candidate]
    BY GenesisMeans DEF Devices
  <2>2. \A d \in Devices : known[d] \in {{}, {GenesisEvent}}
    BY DEF Devices
  <2>3. known[Issuer] = {GenesisEvent}
    OBVIOUS
  <2> QED BY <1>2, <1>3, <2>1, <2>2, <2>3 DEF CoreOK
<1>5. RowOK
  BY <1>1, <1>2, GenesisMeans DEF RowOK
<1>6. HooksOK
  <2>1. NewHook \in HookRecord
    BY <1>2, GenesisMeans DEF NewHook, HookRecord
  <2>2. \A s \in Sessions : HookOK(s, NewHook, {}, {})
    BY <1>1, <2>1 DEF HookOK, NewHook
  <2> QED BY <1>2, <2>1, <2>2 DEF HooksOK
<1>7. ClaimersOK
  <2>1. NewClaimer \in ClaimerRecord /\ NewClaimer.pc \in StepsOf(NewClaimer.stage)
    BY <1>2 DEF NewClaimer, ClaimerRecord, StepsOf
  <2>2. \A c, V : ClaimerOK(c, NewClaimer, FALSE, V, {})
    BY <2>1 DEF ClaimerOK, NewClaimer
  <2> QED BY <1>2, <2>1, <2>2 DEF ClaimersOK
<1>8. EditOK
  BY <1>1, <1>2, GenesisMeans DEF EditOK
<1>9. RestOK
  BY <1>2 DEF RestOK
<1> QED BY <1>4, <1>5, <1>6, <1>7, <1>8, <1>9 DEF PairInv

LEMMA PairStep == PairInv /\ [Next]_vars => PairInv'
<1> SUFFICES ASSUME PairInv, [Next]_vars PROVE PairInv'
  OBVIOUS
<1>1. CASE UNCHANGED vars
  <2>1. /\ UNCHANGED <<setting, expired, history>> /\ UNCHANGED failures /\ UNCHANGED coreVars
        /\ UNCHANGED serverVars /\ UNCHANGED hooks /\ UNCHANGED claimVars /\ UNCHANGED edit
        /\ known' = known
    BY <1>1 DEF vars, coreVars
  <2>2. CoreOK /\ RowOK /\ HooksOK /\ ClaimersOK /\ EditOK /\ RestOK
    BY DEF PairInv
  <2>3. RestOK' /\ Grows
    BY <2>1, <2>2, RestStays
  <2>4. CoreOK' /\ RowOK' /\ HooksOK' /\ ClaimersOK' /\ EditOK'
    BY <2>1, <2>2, <2>3, CoreStays, RowStays, HooksStay, ClaimersStay, EditStays
  <2> QED BY <2>3, <2>4 DEF PairInv
<1>2. setting.claimers \subseteq Claimers
  BY SettingMeans DEF PairInv
<1>3. ASSUME NEW s \in Sessions,
             \/ IssuerWorks(s) \/ OpenScreen(s) \/ CloseScreen(s) \/ PutFails(s)
             \/ PollForClaimers(s) \/ PollForClaimersFails(s) \/ ApprovePullFails(s) \/ Expire(s)
      PROVE  PairInv'
  BY <1>3, PutPairingSessionStep, PutAnsweredStep, ApprovePulledStep, ApprovePushedStep,
     OpenScreenStep, CloseScreenStep, PutFailsStep, PollForClaimersStep, ExpireStep
     DEF IssuerWorks
<1>4. ASSUME NEW s \in Sessions, NEW c \in setting.claimers,
             (\E role \in setting.roles : Approve(s, c, role)) \/ Scan(c, s)
      PROVE  PairInv'
  BY <1>2, <1>4, ApproveStep, ScanStep
<1>5. ASSUME NEW c \in setting.claimers,
             ClaimerWorks(c) \/ JoinFails(c) \/ ClaimFails(c) \/ GoBack(c) \/ RemoveKey(c)
      PROVE  PairInv'
  BY <1>2, <1>5, JoinLooksUpStep, JoinAddsStep, JoinListedStep, PollForAuthorizationStep,
     ClaimListedStep,
     ClaimPulledStep, ClaimPushedStep, JoinFailsStep, ClaimFailsStep, GoBackStep, EditsStep
     DEF ClaimerWorks
<1>6. CASE AddServer \/ ServerAnswers \/ ServerFails \/ RemoveServer \/ EditPushed
  BY <1>6, AddServerStep, EditsStep, ServerFailsStep, EditPushedStep
<1> QED BY <1>1, <1>3, <1>4, <1>5, <1>6 DEF Next

LEMMA PairInvariant == Spec => []PairInv
BY PairInit, PairStep, PTL DEF Spec

(* Every state of the pairing flows is well formed.                        *)
THEOREM PairingTyped == Spec => []TypeOK
<1>1. PairInv => TypeOK
  <2> SUFFICES ASSUME PairInv PROVE TypeOK
    OBVIOUS
  <2>1. joined \subseteq Sessions \X Claimers /\ approved \subseteq Sessions \X Claimers
    BY DEF PairInv, RowOK, RestOK
  <2>2. served \subseteq Candidate
    BY DEF PairInv, CoreOK, EventsOK
  <2> QED BY <2>1, <2>2 DEF PairInv, CoreOK, RowOK, HooksOK, HookRecord, ClaimersOK,
             ClaimerRecord, EditOK, RestOK, TypeOK
<1> QED BY <1>1, PairInvariant, PTL

(* No key gets into a document, on any device or on the server, and no     *)
(* claimer completes, without an approval in a session whose code its      *)
(* device scanned.                                                         *)
THEOREM OnlyTheApprovedPair == Spec => []OnlyApprovedPaired
<1>1. PairInv => OnlyApprovedPaired
  <2> SUFFICES ASSUME PairInv PROVE OnlyApprovedPaired
    OBVIOUS
  <2>0. KeysIn(approved) = ApprovedKeys
    BY DEF KeysIn, ApprovedKeys
  <2>1. approved \subseteq scanned
    BY DEF PairInv, RestOK
  <2>2. ASSUME NEW e \in served \cup UNION {known[d] : d \in Devices}
        PROVE  DocumentKeys(e.document) \subseteq {Issuer} \cup ApprovedKeys
    <3>1. DocOK(e.document, approved)
      BY DEF PairInv, CoreOK, EventsOK
    <3> QED BY <2>0, <3>1 DEF DocOK
  <2>3. DocumentKeys(row.document) \subseteq {Issuer} \cup ApprovedKeys
    BY <2>0 DEF PairInv, RowOK, DocOK
  <2>4. ASSUME NEW c \in Claimers, claimers[c].stage = "done" PROVE c \in ApprovedKeys
    <3>1. HasLogin(c, known[c]) /\ c \in Devices
      BY <2>4 DEF PairInv, ClaimersOK, ClaimerOK, Devices
    <3>2. PICK e \in known[c] : authorizes_signer(e.document, c)
      BY <3>1 DEF HasLogin
    <3>3. c \in DocumentKeys(e.document) /\ c # Issuer
      BY <3>2, DeviceAssumption DEF authorizes_signer, DocumentKeys
    <3> QED BY <2>2, <3>1, <3>3
  <2> QED BY <2>1, <2>2, <2>3, <2>4 DEF OnlyApprovedPaired
<1> QED BY <1>1, PairInvariant, PTL

(* A claim leaves the identity active exactly when it has completed or is  *)
(* past the check that adopts it, and with an event of its own.            *)
THEOREM ClaimsAreAtomic == Spec => []ActiveIffClaimed
<1>1. PairInv => ActiveIffClaimed
  <2> SUFFICES ASSUME PairInv, NEW c \in Claimers
               PROVE  /\ active[c] <=> \/ claimers[c].stage = "done"
                                       \/ claimers[c].stage = "claiming" /\ claimers[c].pc # "list"
                      /\ claimers[c].stage = "done" =>
                           \E e \in known[c] : e.signer = c /\ authorizes_signer(e.document, c)
    BY DEF ActiveIffClaimed
  <2>1. ClaimerOK(c, claimers[c], active[c], known[c], scanned)
    BY DEF PairInv, ClaimersOK
  <2>2. claimers[c].pc \in {"pull", "push"}
          <=> claimers[c].stage = "claiming" /\ claimers[c].pc # "list"
    BY <2>1 DEF ClaimerOK, StepsOf
  <2> QED BY <2>1, <2>2 DEF ClaimerOK, HasLogin
<1> QED BY <1>1, PairInvariant, PTL

-----------------------------------------------------------------------------
(* One rotation key.                                                       *)

(* The issuer is the only rotation key of every document in V.             *)
Sole(V) == \A e \in V : e.document.rotation_keys = {Issuer}

(* Every event of the issuer in V is on the chain of V.                    *)
OnChain(V) ==
  \A e \in V : e.signer = Issuer =>
    e.sequence \in 1..Len(Chain(V)) /\ Chain(V)[e.sequence] = e

(* What the identity says, to who knows V.                                 *)
Says(V) == IdentityContent(Latest(V).document)

Signing(V) == Latest(V).document.signing_keys

(* An event of the issuer that grants a rotation key and has a number that *)
(* none of its events on the server has.                                   *)
Granting(x) ==
  /\ x.signer = Issuer /\ x.document.rotation_keys # {Issuer}
  /\ \A f \in served : f.signer # Issuer \/ f.sequence # x.sequence

(* Who knows what: a device knows its own events and some that are on the  *)
(* server, the issuer all of its own that are there; what a claimer knows  *)
(* says nothing that the server has not said.                              *)
KnownOK ==
  /\ \A e \in known[Issuer] : e.signer = Issuer \/ e \in served
  /\ \A e \in served : e.signer = Issuer => e \in known[Issuer]
  /\ \A c \in Claimers : \A e \in known[c] :
       (e.signer = c \/ e \in served) /\ \E f \in served : f.document = e.document

(* While there is one rotation key, the issuer's events are on the chain;  *)
(* one that grants another key reaches the server before the next.         *)
LineOK ==
  /\ Sole(known[Issuer]) => OnChain(known[Issuer])
  /\ Sole(served) => OnChain(served)
  /\ Sole(served) => Sole(known[Issuer]) \/ \E x \in known[Issuer] : Granting(x)

LineInv == KnownOK /\ LineOK

(* The key that hook h is to add is added.                                 *)
Added(h) ==
  h.stage = "done" \/ (h.stage = "approving" /\ h.pc \in {"push", "put", "load"})

(* Without changes of the settings screen, and with signing keys only: the *)
(* issuer's document has what a hook that published has added, the server  *)
(* is never ahead of it, and no document on its way names a rotation key.  *)
AloneOK ==
  /\ Sole(known[Issuer]) /\ Sole(served) /\ edit.pc = "idle"
  /\ Signing(served) \subseteq Signing(known[Issuer])
  /\ row.document.rotation_keys = {Issuer}
  /\ \A s \in Sessions :
       /\ hooks[s].role = "signing" /\ hooks[s].document.rotation_keys = {Issuer}
       /\ Added(hooks[s]) => hooks[s].key \in Signing(known[Issuer])

AloneInv == PairingAlone => AloneOK

(* Screens are opened one after the other.                                 *)
ScreensOK ==
  \A s \in Sessions :
    /\ hooks[s].canceled => hooks[s].stage # "unopened"
    /\ hooks[s].stage # "unopened" => \A t \in Sessions : t < s => hooks[t].canceled

(* Session t has added the key of c.                                       *)
Gave(t, c) ==
  /\ hooks[t].key = c /\ <<t, c>> \in approved
  /\ hooks[t].stage \in {"approving", "done", "error"} /\ hooks[t].pc # "pull"

(* A claimer of session s that is told of its approval: it is on the       *)
(* server, or there was an earlier one.                                    *)
Earlier(c, s) == \E t \in Sessions : t < s /\ <<t, c>> \in approved

Shown(c, s) == c \in Signing(served) \/ Earlier(c, s)

FirstOK ==
  /\ \A c \in Signing(known[Issuer]) : \E t \in Sessions : Gave(t, c)
  /\ \A s \in Sessions : hooks[s].pc = "put" =>
       \A c \in hooks[s].document.signing_keys : Shown(c, s)
  /\ \A c \in row.document.signing_keys : Shown(c, row.session)
  /\ \A c \in Claimers :
       /\ claimers[c].pc \in {"list", "pull"} => Shown(c, claimers[c].session)
       /\ claimers[c].pc = "claim" => Earlier(c, claimers[c].session)

FirstInv == PairingAlone /\ failures = 0 => FirstOK

-----------------------------------------------------------------------------
(* Chains with one rotation key.                                           *)

Line(V) ==
  V \subseteq Candidate /\ IsFiniteSet(V) /\ GenesisEvent \in V /\ Sole(V)

(* The issuer's events succeed as rotations, all others as republications. *)
LEMMA OneRotates ==
  ASSUME NEW V, Sole(V), NEW h \in V, NEW d \in Followers(V, h)
  PROVE  /\ d \in V
         /\ d.signer = Issuer => justify_succession(h, d) = Rotation
         /\ d.signer # Issuer =>
              /\ justify_succession(h, d) = Republish
              /\ IdentityContent(d.document) = IdentityContent(h.document)
<1>1. /\ d \in V /\ justify_succession(h, d) # None
      /\ h.document.rotation_keys = {Issuer} /\ d.document.rotation_keys = {Issuer}
  BY DEF Followers, Sole
<1>2. ~ is_recovery(h, d) \/ d.signer = Issuer
  BY <1>1 DEF is_recovery, authorizes_rotation
<1> QED BY <1>1, <1>2 DEF justify_succession, authorizes_rotation, is_republish

(* Only what the head says decides on its successors.                      *)
LEMMA SameSuccession ==
  ASSUME NEW g, NEW h, IdentityContent(g.document) = IdentityContent(h.document), NEW d
  PROVE  justify_succession(g, d) = justify_succession(h, d)
<1>1. /\ g.document.rotation_keys = h.document.rotation_keys
      /\ g.document.signing_keys = h.document.signing_keys
      /\ g.document.recovery_key = h.document.recovery_key
  BY DEF IdentityContent
<1> QED BY <1>1 DEF justify_succession, authorizes_rotation, is_republish, authorizes_signer,
           is_recovery

(* The head's reasons, and none of two candidates precedes the other both  *)
(* ways.                                                                   *)
LEMMA PrecedesOneWay ==
  ASSUME NEW g, NEW h, IdentityContent(g.document) = IdentityContent(h.document),
         NEW a \in Candidate, NEW b \in Candidate,
         successor_precedes(g, a, b), successor_precedes(h, b, a)
  PROVE  FALSE
<1> DEFINE ra == justify_succession(h, a)
           rb == justify_succession(h, b)
<1>1. justify_succession(g, a) = ra /\ justify_succession(g, b) = rb
  BY SameSuccession
<1>2. ra \in Nat /\ rb \in Nat
  BY DEF justify_succession, None, Republish, Recovery, Rotation
<1>3. /\ a.signer \in Nat /\ b.signer \in Nat
      /\ a.document.hash \in Nat /\ b.document.hash \in Nat
  BY CandidateFields
<1>4. \/ ra < rb
      \/ ra = rb /\ a.signer < b.signer
      \/ ra = rb /\ a.signer = b.signer /\ a.document.hash < b.document.hash
  BY <1>1 DEF successor_precedes
<1>5. \/ rb < ra
      \/ rb = ra /\ b.signer < a.signer
      \/ rb = ra /\ b.signer = a.signer /\ b.document.hash < a.document.hash
  BY DEF successor_precedes
<1> HIDE DEF ra, rb
<1> QED BY <1>2, <1>3, <1>4, <1>5

(* The chain begins with the genesis event.                                *)
LEMMA BeginsWithGenesis ==
  ASSUME NEW V, Line(V), NEW C, Grown(V, C)
  PROVE  C[1] = GenesisEvent
<1>1. IsGenesisIn(V, C[1])
  BY DEF Grown
<1>2. /\ C[1] \in Candidate /\ C[1].sequence = 1 /\ C[1].intact = TRUE
      /\ C[1].document.hash = Identity
      /\ C[1].document.rotation_keys = {Issuer} /\ C[1].signer \in C[1].document.rotation_keys
  BY <1>1 DEF IsGenesisIn, Line, Sole, Candidate
<1>3. C[1].document = GenesisDocument
  BY <1>2, GenesisMeans, DocsAssumption DEF Candidate
<1>4. C[1].signer = Issuer
  BY <1>2
<1> QED BY <1>2, <1>3, <1>4 DEF Candidate, GenesisEvent

LEMMA GrownFacts ==
  ASSUME NEW V, V \subseteq Candidate, NEW C, Grown(V, C)
  PROVE  /\ Len(C) \in Nat \ {0} /\ Last(C) = C[Len(C)]
         /\ \A k \in 1..Len(C) : C[k] \in V /\ C[k] \in Candidate /\ C[k].sequence = k
         /\ \A k \in 1..Len(C) : k + 1 \in 1..Len(C) =>
              /\ C[k + 1] \in Followers(V, C[k])
              /\ \A c \in Followers(V, C[k]) \ {C[k + 1]} : successor_precedes(C[k], c, C[k + 1])
<1>1. C \in Seq(V) /\ C # <<>>
  BY DEF Grown
<1>2. Len(C) \in Nat \ {0} /\ Last(C) = C[Len(C)]
  BY <1>1 DEF Last
<1>3. \A k \in 1..Len(C) : C[k] \in V /\ C[k] \in Candidate /\ C[k].sequence = k
  BY <1>1 DEF Grown
<1>4. ASSUME NEW k \in 1..Len(C), k + 1 \in 1..Len(C)
      PROVE  /\ C[k + 1] \in Followers(V, C[k])
             /\ \A c \in Followers(V, C[k]) \ {C[k + 1]} : successor_precedes(C[k], c, C[k + 1])
  <2>1. k + 1 \in 2..Len(C) /\ (k + 1) - 1 = k
    BY <1>2, <1>4
  <2> QED BY <2>1 DEF Grown
<1> QED BY <1>2, <1>3, <1>4

(* The chain D, of more events, is at position k as C is.                  *)
Agree(C, D, k) ==
  /\ k \in 1..Len(D)
  /\ IdentityContent(D[k].document) = IdentityContent(C[k].document)
  /\ C[k].signer = Issuer => D[k] = C[k]

(* One position further.                                                   *)
LEMMA AgreeStep ==
  ASSUME NEW V, NEW W, Line(W), V \subseteq W, Line(V),
         NEW C, Grown(V, C), NEW D, Grown(W, D), Followers(W, Last(D)) = {},
         \A e \in W \ V : e.signer = Issuer => Len(C) < e.sequence,
         NEW k \in 1..Len(C), k + 1 \in 1..Len(C), Agree(C, D, k)
  PROVE  Agree(C, D, k + 1)
<1> DEFINE h == C[k]
           g == D[k]
           c == C[k + 1]
           d == D[k + 1]
<1>1. /\ V \subseteq Candidate /\ W \subseteq Candidate /\ Sole(V) /\ Sole(W)
      /\ IdentityContent(g.document) = IdentityContent(h.document) /\ k \in 1..Len(D)
  BY DEF Line, Agree
<1>2. /\ Len(C) \in Nat /\ h \in V /\ h.sequence = k /\ c \in V /\ c.sequence = k + 1
      /\ c \in Candidate /\ c \in Followers(V, h)
      /\ \A x \in Followers(V, h) \ {c} : successor_precedes(h, x, c)
  <2>1. /\ Len(C) \in Nat \ {0}
        /\ \A i \in 1..Len(C) : C[i] \in V /\ C[i] \in Candidate /\ C[i].sequence = i
    BY <1>1, GrownFacts
  <2>2. \A i \in 1..Len(C) : i + 1 \in 1..Len(C) =>
              /\ C[i + 1] \in Followers(V, C[i])
              /\ \A x \in Followers(V, C[i]) \ {C[i + 1]} :
                   successor_precedes(C[i], x, C[i + 1])
    BY <1>1, GrownFacts
  <2> QED BY <2>1, <2>2
<1>3. Len(D) \in Nat /\ g \in W /\ g.sequence = k /\ Last(D) = D[Len(D)]
  <2>1. /\ Len(D) \in Nat \ {0} /\ Last(D) = D[Len(D)]
        /\ \A i \in 1..Len(D) : D[i] \in W /\ D[i] \in Candidate /\ D[i].sequence = i
    BY <1>1, GrownFacts
  <2> QED BY <1>1, <2>1
<1>4. \A x : justify_succession(g, x) = justify_succession(h, x)
  BY <1>1, SameSuccession
<1>5. c \in Followers(W, g)
  BY <1>2, <1>3, <1>4 DEF Followers
<1>6. k + 1 \in 1..Len(D)
  <2>1. k # Len(D)
    BY <1>3, <1>5
  <2> QED BY <1>1, <1>3, <2>1
<1>7. /\ d \in W /\ d.sequence = k + 1 /\ d \in Candidate /\ d \in Followers(W, g)
      /\ \A x \in Followers(W, g) \ {d} : successor_precedes(g, x, d)
  <2>1. \A i \in 1..Len(D) : D[i] \in W /\ D[i] \in Candidate /\ D[i].sequence = i
    BY <1>1, GrownFacts
  <2>2. \A i \in 1..Len(D) : i + 1 \in 1..Len(D) =>
              /\ D[i + 1] \in Followers(W, D[i])
              /\ \A x \in Followers(W, D[i]) \ {D[i + 1]} :
                   successor_precedes(D[i], x, D[i + 1])
    BY <1>1, GrownFacts
  <2> QED BY <1>1, <1>6, <2>1, <2>2
<1>8. d.signer = Issuer => d \in Followers(V, h)
  <2>1. ASSUME d.signer = Issuer PROVE d \in V
    <3>1. ~ (Len(C) < k + 1)
      BY <1>2
    <3> QED BY <1>7, <2>1, <3>1
  <2> QED BY <1>2, <1>3, <1>4, <1>7, <2>1 DEF Followers
<1> HIDE DEF c, d, g, h
<1>9. CASE d = c
  BY <1>6, <1>9 DEF Agree, c, d
<1>10. CASE d # c
  <2>1. successor_precedes(g, c, d)
    BY <1>5, <1>7, <1>10
  <2>2. d.signer # Issuer
    <3>1. SUFFICES ASSUME d.signer = Issuer PROVE FALSE
      OBVIOUS
    <3>2. successor_precedes(h, d, c)
      BY <1>2, <1>8, <1>10, <3>1
    <3> QED BY <1>1, <1>2, <1>7, <2>1, <3>2, PrecedesOneWay
  <2>3. /\ justify_succession(g, d) = Republish
        /\ IdentityContent(d.document) = IdentityContent(g.document)
    BY <1>1, <1>3, <1>7, <2>2, OneRotates
  <2>4. c.signer # Issuer
    <3>1. SUFFICES ASSUME c.signer = Issuer PROVE FALSE
      OBVIOUS
    <3>2. justify_succession(g, c) = Rotation
      BY <1>1, <1>3, <1>5, <3>1, OneRotates
    <3> QED BY <2>1, <2>3, <3>2 DEF successor_precedes, Rotation, Republish
  <2>5. IdentityContent(c.document) = IdentityContent(h.document)
    BY <1>1, <1>2, <2>4, OneRotates
  <2> QED BY <1>1, <1>6, <2>3, <2>4, <2>5 DEF Agree, c, d
<1> QED BY <1>9, <1>10

(* Logins, and events of the issuer that come after the chain, change      *)
(* nothing of what the chain says at each number.                          *)
LEMMA ChainsAgree ==
  ASSUME NEW V, NEW W, Line(W), V \subseteq W, Line(V),
         NEW C, Grown(V, C), NEW D, Grown(W, D), Followers(W, Last(D)) = {},
         \A e \in W \ V : e.signer = Issuer => Len(C) < e.sequence
  PROVE  \A k \in 1..Len(C) : Agree(C, D, k)
<1>1. Len(C) \in Nat \ {0} /\ Len(D) \in Nat \ {0}
  BY GrownFacts DEF Line
<1> DEFINE T == {i \in Nat : i + 1 \in 1..Len(C) => Agree(C, D, i + 1)}
<1>2. 0 \in T
  <2>1. C[1] = GenesisEvent /\ D[1] = GenesisEvent
    BY BeginsWithGenesis
  <2>2. Agree(C, D, 1)
    BY <1>1, <2>1 DEF Agree
  <2> QED BY <2>2
<1>3. ASSUME NEW i \in T PROVE i + 1 \in T
  <2> SUFFICES ASSUME (i + 1) + 1 \in 1..Len(C) PROVE Agree(C, D, (i + 1) + 1)
    OBVIOUS
  <2>1. i + 1 \in 1..Len(C) /\ i \in Nat
    BY <1>1
  <2>2. Agree(C, D, i + 1)
    BY <2>1
  <2> DEFINE k == i + 1
  <2> HIDE DEF k, T
  <2>3. Agree(C, D, k + 1)
    BY <2>1, <2>2, AgreeStep DEF k
  <2> QED BY <2>3 DEF k
<1>4. T = Nat
  <2> HIDE DEF T
  <2>1. T \in SUBSET Nat
    BY DEF T
  <2> QED BY <1>2, <1>3, <2>1, NaturalSetInduction
<1>5. ASSUME NEW k \in 1..Len(C) PROVE Agree(C, D, k)
  <2>1. k - 1 \in Nat /\ (k - 1) + 1 = k
    BY <1>1
  <2>2. k - 1 \in T
    BY <1>4, <2>1
  <2> QED BY <2>1, <2>2
<1> QED BY <1>5

(* From the issuer's last event on, the chain repeats what it said.        *)
LEMMA TailRepeats ==
  ASSUME NEW W, Line(W), NEW D, Grown(W, D), NEW m \in 1..Len(D),
         \A e \in W : e.signer = Issuer => e.sequence <= m
  PROVE  IdentityContent(Last(D).document) = IdentityContent(D[m].document)
<1>1. W \subseteq Candidate /\ Sole(W) /\ Len(D) \in Nat \ {0} /\ Last(D) = D[Len(D)]
  BY GrownFacts DEF Line
<1> DEFINE T == {i \in Nat : m + i \in 1..Len(D) =>
                   IdentityContent(D[m + i].document) = IdentityContent(D[m].document)}
<1>2. 0 \in T
  BY <1>1
<1>3. ASSUME NEW i \in T PROVE i + 1 \in T
  <2> SUFFICES ASSUME m + (i + 1) \in 1..Len(D)
               PROVE  IdentityContent(D[m + (i + 1)].document) = IdentityContent(D[m].document)
    OBVIOUS
  <2> DEFINE k == m + i
  <2>1. i \in Nat /\ k \in 1..Len(D) /\ k + 1 \in 1..Len(D) /\ m + (i + 1) = k + 1
    BY <1>1
  <2>2. IdentityContent(D[k].document) = IdentityContent(D[m].document)
    BY <2>1
  <2>3. ~ (k + 1 <= m)
    BY <1>1, <2>1
  <2> HIDE DEF k, T
  <2>4. /\ D[k] \in W /\ D[k + 1] \in Followers(W, D[k]) /\ D[k + 1] \in W
        /\ D[k + 1].sequence = k + 1
    BY <1>1, <2>1, GrownFacts
  <2>5. D[k + 1].signer # Issuer
    BY <2>3, <2>4
  <2>6. IdentityContent(D[k + 1].document) = IdentityContent(D[k].document)
    BY <1>1, <2>4, <2>5, OneRotates
  <2> QED BY <2>1, <2>2, <2>6
<1>4. T = Nat
  <2> HIDE DEF T
  <2>1. T \in SUBSET Nat
    BY DEF T
  <2> QED BY <1>2, <1>3, <2>1, NaturalSetInduction
<1>5. Len(D) - m \in T /\ m + (Len(D) - m) = Len(D)
  <2> HIDE DEF T
  <2>1. Len(D) - m \in Nat /\ m + (Len(D) - m) = Len(D)
    BY <1>1
  <2> QED BY <1>4, <2>1
<1>6. Len(D) \in 1..Len(D)
  BY <1>1
<1> QED BY <1>1, <1>5, <1>6

(* Events by others than the issuer change nothing of what the identity    *)
(* says, and leave the issuer's events on the chain.                       *)
LEMMA LoginsChangeNothing ==
  ASSUME NEW V, NEW W, Line(W), V \subseteq W, Line(V), OnChain(V),
         \A e \in W \ V : e.signer # Issuer
  PROVE  OnChain(W) /\ Says(W) = Says(V)
<1> DEFINE C == Chain(V)
           D == Chain(W)
<1>1. /\ Grown(V, C) /\ Grown(W, D) /\ Followers(W, Last(D)) = {}
      /\ Latest(V) = Last(C) /\ Latest(W) = Last(D)
  BY ChainOfEvents DEF Line, Latest
<1> HIDE DEF C, D
<1>2. \A k \in 1..Len(C) : Agree(C, D, k)
  BY <1>1, ChainsAgree
<1>3. Len(C) \in Nat \ {0} /\ Last(C) = C[Len(C)]
  BY <1>1, GrownFacts DEF Line
<1>4. \A e \in W : e.signer = Issuer => e.sequence \in 1..Len(C) /\ C[e.sequence] = e
  BY DEF OnChain, C
<1>5. OnChain(W)
  BY <1>2, <1>4 DEF OnChain, Agree, D
<1>6. Len(C) \in 1..Len(C) /\ \A e \in W : e.signer = Issuer => e.sequence <= Len(C)
  BY <1>3, <1>4
<1>7. Agree(C, D, Len(C))
  BY <1>2, <1>6
<1>8. IdentityContent(Last(D).document) = IdentityContent(D[Len(C)].document)
  BY <1>1, <1>6, <1>7, TailRepeats DEF Agree
<1> QED BY <1>1, <1>3, <1>5, <1>7, <1>8 DEF Says, Agree

(* What the issuer publishes on top of the chain it knows is on the chain, *)
(* and is what the identity then says.                                     *)
LEMMA IssuerExtends ==
  ASSUME NEW V, Line(V), OnChain(V), NEW doc \in Docs, doc.rotation_keys = {Issuer}
  PROVE  LET W == Published(V, Issuer, doc)
         IN  Line(W) /\ OnChain(W) /\ Says(W) = IdentityContent(doc)
<1> DEFINE n == Latest(V).sequence
           e == [sequence |-> n + 1, signer |-> Issuer, document |-> doc, intact |-> TRUE]
           W == V \cup {e}
           C == Chain(V)
           D == Chain(W)
<1>1. Published(V, Issuer, doc) = W
  BY DEF Published
<1>2. n = Len(C) /\ n \in Nat \ {0} /\ Grown(V, C) /\ Issuer \in Keys
  BY ChainOfEvents, DeviceAssumption DEF Line
<1>3. /\ e \in Candidate /\ e.signer = Issuer /\ e.sequence = n + 1 /\ e.document = doc
      /\ e.intact = TRUE
  BY <1>2 DEF Candidate
<1> HIDE DEF e
<1>4. Line(W) /\ V \subseteq W
  <2>1. IsFiniteSet(V \cup {e})
    BY FS_AddElement DEF Line
  <2> QED BY <1>3, <2>1 DEF Line, Sole
<1> HIDE DEF W
<1>5. Grown(W, D) /\ Followers(W, Last(D)) = {} /\ Latest(W) = Last(D)
  BY <1>4, ChainOfEvents DEF Line, Latest
<1> HIDE DEF C, D, n
<1>6. \A x \in W \ V : x.signer = Issuer => Len(C) < x.sequence
  <2>1. \A x \in W \ V : x = e
    BY DEF W
  <2> QED BY <1>2, <1>3, <2>1
<1>7. \A k \in 1..Len(C) : Agree(C, D, k)
  BY <1>2, <1>4, <1>5, <1>6, ChainsAgree
<1>8. n \in 1..Len(D) /\ D[n] \in W /\ D[n].sequence = n /\ Len(D) \in Nat /\ Sole(W)
      /\ Last(D) = D[Len(D)] /\ W \subseteq Candidate
  <2>1. Agree(C, D, n)
    BY <1>2, <1>7
  <2>2. Sole(W) /\ W \subseteq Candidate
    BY <1>4 DEF Line
  <2>3. /\ Len(D) \in Nat \ {0} /\ Last(D) = D[Len(D)]
        /\ \A i \in 1..Len(D) : D[i] \in W /\ D[i] \in Candidate /\ D[i].sequence = i
    BY <1>5, <2>2, GrownFacts
  <2> QED BY <2>1, <2>2, <2>3 DEF Agree
<1>9. e \in Followers(W, D[n]) /\ e \in W
  <2>1. D[n].document.rotation_keys = {Issuer}
    BY <1>8 DEF Sole
  <2>2. justify_succession(D[n], e) = Rotation
    BY <1>3, <2>1 DEF justify_succession, authorizes_rotation
  <2> QED BY <1>3, <1>8, <2>2 DEF Followers, Rotation, None, W
<1>10. n + 1 \in 1..Len(D)
  <2>1. n # Len(D)
    BY <1>5, <1>8, <1>9
  <2> QED BY <1>2, <1>8, <2>1
<1> DEFINE d == D[n + 1]
<1>11. /\ d \in Followers(W, D[n]) /\ d \in W /\ d \in Candidate /\ d.sequence = n + 1
       /\ \A x \in Followers(W, D[n]) \ {d} : successor_precedes(D[n], x, d)
  <2>1. \A i \in 1..Len(D) : D[i] \in W /\ D[i] \in Candidate /\ D[i].sequence = i
    BY <1>5, <1>8, GrownFacts
  <2>2. \A i \in 1..Len(D) : i + 1 \in 1..Len(D) =>
              /\ D[i + 1] \in Followers(W, D[i])
              /\ \A x \in Followers(W, D[i]) \ {D[i + 1]} :
                   successor_precedes(D[i], x, D[i + 1])
    BY <1>5, <1>8, GrownFacts
  <2> QED BY <1>8, <1>10, <2>1, <2>2
<1> HIDE DEF d
<1>12. d = e
  <2>1. SUFFICES ASSUME d # e PROVE FALSE
    OBVIOUS
  <2>2. successor_precedes(D[n], e, d) /\ d \in V
    BY <1>9, <1>11, <2>1 DEF W
  <2>3. d.signer # Issuer
    <3>1. SUFFICES ASSUME d.signer = Issuer PROVE FALSE
      OBVIOUS
    <3>2. n + 1 \in 1..Len(C)
      BY <1>11, <2>2, <3>1 DEF OnChain, C
    <3> QED BY <1>2, <3>2
  <2>4. justify_succession(D[n], d) = Republish /\ justify_succession(D[n], e) = Rotation
    BY <1>3, <1>8, <1>9, <1>11, <2>3, OneRotates
  <2> QED BY <2>2, <2>4 DEF successor_precedes, Rotation, Republish
<1>13. ASSUME NEW x \in W, x.signer = Issuer
       PROVE  x.sequence \in 1..Len(D) /\ D[x.sequence] = x /\ x.sequence <= n + 1
  <2>1. CASE x = e
    BY <1>2, <1>3, <1>10, <1>12, <2>1 DEF d
  <2>2. CASE x # e
    <3>1. x \in V
      BY <2>2 DEF W
    <3>2. x.sequence \in 1..Len(C) /\ C[x.sequence] = x
      BY <1>13, <3>1 DEF OnChain, C
    <3>3. Agree(C, D, x.sequence)
      BY <1>7, <3>2
    <3> QED BY <1>2, <1>13, <3>2, <3>3 DEF Agree
  <2> QED BY <2>1, <2>2
<1>14. OnChain(W)
  BY <1>13 DEF OnChain, D
<1>15. Says(W) = IdentityContent(doc)
  <2>1. IdentityContent(Last(D).document) = IdentityContent(d.document)
    BY <1>4, <1>5, <1>10, <1>13, TailRepeats DEF d
  <2> QED BY <1>3, <1>5, <1>12, <2>1 DEF Says
<1> QED BY <1>1, <1>4, <1>14, <1>15
-----------------------------------------------------------------------------
(* What a step does to the events.                                         *)

IssuerPublishes(V, doc) ==
  /\ V \in {known[Issuer], known[Issuer] \cup served} /\ DocOK(doc, approved)
  /\ known' = [known EXCEPT ![Issuer] = Published(V, Issuer, doc)] /\ served' = served

IssuerPulls ==
  known' = [known EXCEPT ![Issuer] = known[Issuer] \cup served] /\ served' = served

Pushes(d) == known' = known /\ served' = Pushed(known[d])

(* A claimer pulls, and may publish the newest document again.             *)
ClaimerPulls(c) ==
  LET events == known[c] \cup served
  IN /\ served' = served
     /\ \/ known' = [known EXCEPT ![c] = events]
        \/ known' = [known EXCEPT ![c] = Published(events, c, Latest(events).document)]

(* Every step does one of these to the events, or nothing.                 *)
EventStep ==
  \/ UNCHANGED coreVars
  \/ IssuerPulls
  \/ \E V, doc : IssuerPublishes(V, doc)
  \/ Pushes(Issuer)
  \/ \E c \in Claimers : ClaimerPulls(c)
  \/ \E c \in Claimers : Pushes(c)

LEMMA ApprovePulledEvents ==
  ASSUME PairInv, NEW s \in Sessions, ApprovePulled(s)
  PROVE  EventStep
<1> DEFINE hook == hooks[s]
           pulled == known[Issuer] \cup served
           doc == Latest(pulled).document
           new == WithKey(doc, hook.key, hook.role)
<1>1. HookOK(s, hook, approved, scanned) /\ hook.pc = "pull" /\ served' = served
  BY DEF PairInv, HooksOK, ApprovePulled
<1>2. EventsOK(pulled, approved) /\ GenesisEvent \in pulled
  BY UnionOK DEF PairInv, CoreOK, Devices
<1>3. hook.key \in Claimers /\ hook.key \in KeysIn(approved)
  BY <1>1 DEF HookOK, KeysIn
<1>4. DocOK(doc, approved)
  BY <1>2, LatestOK
<1>5. DocOK(new, approved)
  <2> HIDE DEF doc, hook
  <2> QED BY <1>3, <1>4, WithKeyOK
<1>6. \/ known' = [known EXCEPT ![Issuer] = pulled]
      \/ known' = [known EXCEPT ![Issuer] = Published(pulled, Issuer, new)]
  BY DEF ApprovePulled
<1>7. CASE known' = [known EXCEPT ![Issuer] = pulled]
  BY <1>1, <1>7 DEF EventStep, IssuerPulls
<1>8. CASE known' = [known EXCEPT ![Issuer] = Published(pulled, Issuer, new)]
  <2>1. IssuerPublishes(pulled, new)
    BY <1>1, <1>5, <1>8 DEF IssuerPublishes
  <2> HIDE DEF pulled, new
  <2> QED BY <2>1 DEF EventStep
<1> QED BY <1>6, <1>7, <1>8

LEMMA EditsEvents ==
  ASSUME PairInv, ServerAnswers \/ RemoveServer \/ \E key \in Claimers : RemoveKey(key)
  PROVE  EventStep
<1>1. DocOK(Latest(known[Issuer]).document, approved) /\ DocOK(edit.document, approved)
  BY LatestOK DEF PairInv, CoreOK, Devices, EditOK
<1>2. ASSUME NEW doc, DocOK(doc, approved), EditPublishes(doc) PROVE EventStep
  <2>1. IssuerPublishes(known[Issuer], doc)
    BY <1>2 DEF EditPublishes, IssuerPublishes
  <2> QED BY <2>1 DEF EventStep
<1>3. CASE ServerAnswers
  <2>1. DocOK(WithServers(edit.document, 1), approved)
    BY <1>1, WithServersOK
  <2> QED BY <1>2, <1>3, <2>1 DEF ServerAnswers
<1>4. CASE RemoveServer
  <2>1. DocOK(WithServers(Latest(known[Issuer]).document, 0), approved)
    BY <1>1, WithServersOK
  <2> QED BY <1>2, <1>4, <2>1 DEF RemoveServer
<1>5. ASSUME NEW key \in Claimers, RemoveKey(key) PROVE EventStep
  <2>1. DocOK(WithoutKey(Latest(known[Issuer]).document, key), approved)
    BY <1>1, WithoutKeyOK
  <2> QED BY <1>2, <1>5, <2>1 DEF RemoveKey
<1> QED BY <1>3, <1>4, <1>5

LEMMA EventSteps == PairInv /\ [Next]_vars => EventStep
<1> SUFFICES ASSUME PairInv, [Next]_vars PROVE EventStep
  OBVIOUS
<1>1. CASE UNCHANGED vars
  BY <1>1 DEF vars, EventStep
<1>2. setting.claimers \subseteq Claimers
  BY SettingMeans DEF PairInv
<1>3. ASSUME NEW s \in Sessions,
             \/ PutPairingSession(s) \/ PutAnswered(s)
             \/ OpenScreen(s) \/ CloseScreen(s) \/ PutFails(s)
             \/ PollForClaimers(s) \/ PollForClaimersFails(s) \/ ApprovePullFails(s) \/ Expire(s)
      PROVE  EventStep
  BY <1>3 DEF EventStep, PutPairingSession, PutAnswered, OpenScreen, CloseScreen, PutFails,
              PollForClaimers, PollForClaimersFails, ApprovePullFails, Expire
<1>4. ASSUME NEW s \in Sessions, ApprovePulled(s) \/ ApprovePushed(s)
      PROVE  EventStep
  BY <1>4, ApprovePulledEvents DEF EventStep, ApprovePushed, Pushes, coreVars
<1>5. ASSUME NEW s \in Sessions, NEW c \in setting.claimers,
             (\E role \in setting.roles : Approve(s, c, role)) \/ Scan(c, s)
      PROVE  EventStep
  BY <1>5 DEF EventStep, Approve, Scan
<1>6. ASSUME NEW c \in Claimers,
             \/ JoinLooksUp(c) \/ JoinAdds(c) \/ JoinListed(c) \/ PollForAuthorization(c)
             \/ JoinFails(c) \/ ClaimFails(c) \/ GoBack(c)
      PROVE  EventStep
  BY <1>6 DEF EventStep, JoinLooksUp, JoinAdds, JoinListed, PollForAuthorization, JoinFails,
              ClaimFails, GoBack
<1>7. ASSUME NEW c \in Claimers, ClaimListed(c) \/ ClaimPulled(c) \/ ClaimPushed(c)
      PROVE  EventStep
  <2>1. CASE ClaimListed(c) \/ ClaimPulled(c)
    <3>1. ClaimerPulls(c)
      BY <2>1 DEF ClaimListed, ClaimPulled, ClaimerPulls
    <3> QED BY <3>1 DEF EventStep
  <2>2. CASE ClaimPushed(c)
    BY <2>2 DEF ClaimPushed, EventStep, Pushes, coreVars
  <2> QED BY <1>7, <2>1, <2>2
<1>8. CASE \/ AddServer \/ ServerAnswers \/ ServerFails \/ RemoveServer \/ EditPushed
           \/ \E c \in Claimers : RemoveKey(c)
  <2>1. CASE AddServer \/ ServerFails \/ EditPushed
    BY <2>1 DEF AddServer, ServerFails, EditPushed, EventStep, Pushes, coreVars
  <2> QED BY <1>8, <2>1, EditsEvents
<1> QED BY <1>1, <1>2, <1>3, <1>4, <1>5, <1>6, <1>7, <1>8 DEF Next, IssuerWorks, ClaimerWorks

-----------------------------------------------------------------------------
(* While there is one rotation key, the issuer's events stay on the chain. *)

LEMMA LineOf ==
  ASSUME NEW A, NEW V, EventsOK(V, A), GenesisEvent \in V, Sole(V)
  PROVE  Line(V)
BY DEF EventsOK, Line

LEMMA SolePart ==
  ASSUME NEW V, NEW W, V \subseteq W, Sole(W)
  PROVE  Sole(V)
BY DEF Sole

(* What the invariant says of the events of the issuer and the server.     *)
LEMMA Events ==
  ASSUME PairInv
  PROVE  /\ EventsOK(known[Issuer], approved) /\ GenesisEvent \in known[Issuer]
         /\ EventsOK(served, approved) /\ GenesisEvent \in served
         /\ known \in [Devices -> SUBSET Candidate] /\ Issuer \in Devices
         /\ Claimers \subseteq Devices /\ Issuer \notin Claimers
         /\ \A d \in Devices : EventsOK(known[d], approved)
BY DeviceAssumption DEF PairInv, CoreOK, Devices

(* The issuer pulls.                                                       *)
LEMMA PulledLine ==
  ASSUME PairInv, LineInv, Sole(known[Issuer]), Sole(served)
  PROVE  LET V == known[Issuer] \cup served
         IN  Line(V) /\ OnChain(V) /\ Says(V) = Says(known[Issuer])
<1> DEFINE K == known[Issuer]
           V == K \cup served
<1>1. EventsOK(V, approved) /\ GenesisEvent \in V /\ Sole(V)
  BY Events, UnionOK DEF Sole
<1>2. Line(V) /\ Line(K) /\ K \subseteq V /\ OnChain(K)
  <2> HIDE DEF V, K
  <2>1. EventsOK(K, approved) /\ GenesisEvent \in K /\ Sole(K) /\ OnChain(K)
    BY Events DEF LineInv, LineOK, K
  <2> QED BY <1>1, <2>1, LineOf DEF V
<1>3. \A e \in V \ K : e.signer # Issuer
  BY DEF LineInv, KnownOK
<1> HIDE DEF V, K
<1>4. OnChain(V) /\ Says(V) = Says(K)
  BY <1>2, <1>3, LoginsChangeNothing
<1> QED BY <1>2, <1>4 DEF V, K

LEMMA PullsLine ==
  ASSUME PairInv, LineInv, IssuerPulls
  PROVE  LineInv'
<1> DEFINE W == known[Issuer] \cup served
<1>1. /\ known'[Issuer] = W /\ served' = served
      /\ \A c \in Claimers : known'[c] = known[c]
  BY Events DEF IssuerPulls
<1>2. KnownOK'
  BY <1>1 DEF KnownOK, LineInv
<1>3. Sole(W) => OnChain(W)
  <2>1. Sole(W) => Sole(known[Issuer]) /\ Sole(served)
    BY DEF Sole
  <2> QED BY <2>1, PulledLine
<1>4. Sole(served) => Sole(W) \/ \E x \in W : Granting(x)
  BY DEF LineInv, LineOK, Sole
<1>5. \A x : Granting(x)' <=> Granting(x)
  BY <1>1 DEF Granting
<1> HIDE DEF W
<1>6. LineOK'
  BY <1>1, <1>3, <1>4, <1>5 DEF LineInv, LineOK, Sole, OnChain, Chain, Granting
<1> QED BY <1>2, <1>6 DEF LineInv
(* What the issuer publishes is newer than all its events on the server.   *)
LEMMA PublishesLine ==
  ASSUME PairInv, LineInv, NEW V, NEW doc, IssuerPublishes(V, doc)
  PROVE  LineInv'
<1> DEFINE K == known[Issuer]
           W == Published(V, Issuer, doc)
           e == [sequence |-> Latest(V).sequence + 1, signer |-> Issuer,
                 document |-> doc, intact |-> TRUE]
<1>1. /\ known'[Issuer] = W /\ served' = served
      /\ \A c \in Claimers : known'[c] = known[c]
      /\ K \subseteq V /\ V \subseteq K \cup served /\ doc \in Docs
  BY Events DEF IssuerPublishes, DocOK
<1>2. W = V \cup {e}
  BY DEF Published
<1>3. e.signer = Issuer /\ e.document = doc /\ e.sequence = Latest(V).sequence + 1
  OBVIOUS
<1> HIDE DEF e, W, K
<1>4. KnownOK'
  <2>1. \A x \in W : x.signer = Issuer \/ x \in served
    BY <1>1, <1>2, <1>3 DEF LineInv, KnownOK, K
  <2>2. \A x \in served : x.signer = Issuer => x \in W
    BY <1>1, <1>2 DEF LineInv, KnownOK, K
  <2> QED BY <1>1, <2>1, <2>2 DEF LineInv, KnownOK
<1>5. ASSUME Sole(V) PROVE Line(V) /\ OnChain(V)
  <2>1. CASE V = K
    BY <1>5, <2>1, Events, LineOf DEF LineInv, LineOK, K
  <2>2. CASE V = K \cup served
    <3>1. Sole(K) /\ Sole(served)
      BY <1>5, <2>2 DEF Sole
    <3> QED BY <2>2, <3>1, PulledLine DEF K
  <2> QED BY <2>1, <2>2 DEF IssuerPublishes, K
<1>6. Sole(W) => OnChain(W)
  <2>1. SUFFICES ASSUME Sole(W) PROVE OnChain(W)
    OBVIOUS
  <2>2. Sole(V) /\ doc.rotation_keys = {Issuer}
    BY <1>2, <1>3, <2>1 DEF Sole
  <2> QED BY <1>1, <1>5, <2>2, IssuerExtends DEF W
<1>7. Sole(served) => Sole(W) \/ \E x \in W : Granting(x)
  <2>1. SUFFICES ASSUME Sole(served), ~ Sole(W) PROVE \E x \in W : Granting(x)
    OBVIOUS
  <2>2. CASE Sole(K)
    <3>1. Sole(V)
      BY <1>1, <2>1, <2>2 DEF Sole
    <3>2. doc.rotation_keys # {Issuer}
      BY <1>2, <1>3, <2>1, <3>1 DEF Sole
    <3>3. Latest(V).sequence = Len(Chain(V)) /\ Latest(V).sequence \in Nat
      BY <1>5, <3>1, ChainOfEvents DEF Line
    <3>4. ASSUME NEW f \in served, f.signer = Issuer, f.sequence = e.sequence PROVE FALSE
      <4>1. f \in V
        BY <1>1, <3>4 DEF LineInv, KnownOK, K
      <4>2. f.sequence \in 1..Len(Chain(V))
        BY <1>5, <3>1, <3>4, <4>1 DEF OnChain
      <4> QED BY <1>3, <3>3, <3>4, <4>2
    <3> QED BY <1>2, <1>3, <3>2, <3>4 DEF Granting
  <2>3. CASE ~ Sole(K)
    BY <1>1, <1>2, <2>1, <2>3 DEF LineInv, LineOK, K
  <2> QED BY <2>2, <2>3
<1>8. LineOK'
  BY <1>1, <1>6, <1>7 DEF LineInv, LineOK, Sole, OnChain, Chain, Granting
<1> QED BY <1>4, <1>8 DEF LineInv

(* All the issuer's events reach the server, and it then says what they say. *)
LEMMA PushedLine ==
  ASSUME PairInv, LineInv, Sole(Pushed(known[Issuer]))
  PROVE  LET W == Pushed(known[Issuer])
         IN  /\ Sole(known[Issuer]) /\ Sole(served)
             /\ Line(W) /\ OnChain(W) /\ Says(W) = Says(known[Issuer])
<1> DEFINE K == known[Issuer]
           W == Pushed(K)
<1>1. /\ EventsOK(K, approved) /\ EventsOK(served, approved) /\ GenesisEvent \in K
      /\ EventsOK(W, approved) /\ served \subseteq W /\ W \subseteq served \cup K
      /\ GenesisEvent \in W
  BY Events, PushedOK
<1>2. W = served \cup {x \in K : \A f \in served : f.signer # x.signer \/ f.sequence # x.sequence}
  BY DEF Pushed
<1> HIDE DEF W, K
<1>3. Sole(served) /\ Line(W)
  BY <1>1, LineOf, SolePart DEF W, K
<1>4. Sole(K) /\ OnChain(K) /\ Line(K)
  <2>1. ~ \E x \in K : Granting(x)
    <3>1. SUFFICES ASSUME NEW x \in K, Granting(x) PROVE FALSE
      OBVIOUS
    <3>2. x \in W /\ x.document.rotation_keys # {Issuer}
      BY <1>2, <3>1 DEF Granting
    <3> QED BY <1>3, <3>2 DEF Line, Sole
  <2>2. Sole(K) /\ OnChain(K)
    BY <1>3, <2>1 DEF LineInv, LineOK, K
  <2> QED BY <1>1, <2>2, LineOf
<1>5. K \subseteq W
  <2>1. SUFFICES ASSUME NEW x \in K, x \notin W PROVE FALSE
    OBVIOUS
  <2>2. PICK f \in served : f.signer = x.signer /\ f.sequence = x.sequence
    BY <1>2, <2>1
  <2>3. x.signer = Issuer
    BY <1>1, <2>1 DEF LineInv, KnownOK, K
  <2>4. f \in K
    BY <2>2, <2>3 DEF LineInv, KnownOK, K
  <2>5. f = x
    BY <1>4, <2>2, <2>3, <2>4 DEF OnChain
  <2> QED BY <1>1, <2>1, <2>5
<1>6. \A x \in W \ K : x.signer # Issuer
  BY <1>1 DEF LineInv, KnownOK, K
<1>7. OnChain(W) /\ Says(W) = Says(K)
  BY <1>3, <1>4, <1>5, <1>6, LoginsChangeNothing
<1> QED BY <1>3, <1>4, <1>7 DEF W, K

LEMMA PushesLine ==
  ASSUME PairInv, LineInv, Pushes(Issuer)
  PROVE  LineInv'
<1> DEFINE W == Pushed(known[Issuer])
<1>1. known' = known /\ served' = W
  BY DEF Pushes
<1>2. served \subseteq W /\ W \subseteq served \cup known[Issuer]
  BY Events, PushedOK
<1>3. Sole(W) => OnChain(W) /\ Sole(known[Issuer])
  BY PushedLine
<1> HIDE DEF W
<1>4. KnownOK'
  BY <1>1, <1>2 DEF LineInv, KnownOK
<1>5. LineOK'
  BY <1>1, <1>3 DEF LineInv, LineOK, Sole, OnChain, Chain
<1> QED BY <1>4, <1>5 DEF LineInv

LEMMA ClaimerPullsLine ==
  ASSUME PairInv, LineInv, NEW c \in Claimers, ClaimerPulls(c)
  PROVE  LineInv'
<1> DEFINE V == known[c] \cup served
           W == known'[c]
           e == [sequence |-> Latest(V).sequence + 1, signer |-> c,
                 document |-> Latest(V).document, intact |-> TRUE]
<1>1. /\ served' = served /\ known'[Issuer] = known[Issuer]
      /\ \A d \in Claimers : d # c => known'[d] = known[d]
      /\ W = V \/ W = V \cup {e}
  BY Events DEF ClaimerPulls, Published
<1>2. Latest(V) \in V
  BY Events, UnionOK, LatestOK
<1>3. \A x \in V : (x.signer = c \/ x \in served) /\ \E f \in served : f.document = x.document
  BY DEF LineInv, KnownOK
<1>4. e.signer = c /\ e.document = Latest(V).document
  OBVIOUS
<1> HIDE DEF e, V, W
<1>5. \A x \in W : (x.signer = c \/ x \in served) /\ \E f \in served : f.document = x.document
  BY <1>1, <1>2, <1>3, <1>4
<1>6. KnownOK'
  BY <1>1, <1>5 DEF LineInv, KnownOK, W
<1>7. LineOK'
  BY <1>1 DEF LineInv, LineOK, Sole, OnChain, Chain, Granting
<1> QED BY <1>6, <1>7 DEF LineInv

(* A login changes nothing of what the server says.                        *)
LEMMA LoginLine ==
  ASSUME PairInv, LineInv, NEW c \in Claimers
  PROVE  LET W == Pushed(known[c])
         IN  /\ served \subseteq W
             /\ \A x \in W \ served : x.signer = c /\ \E f \in served : f.document = x.document
             /\ Sole(served) => Sole(W) /\ Line(W) /\ OnChain(W) /\ Says(W) = Says(served)
<1> DEFINE W == Pushed(known[c])
<1>1. /\ EventsOK(served, approved) /\ GenesisEvent \in served /\ c # Issuer
      /\ EventsOK(W, approved) /\ served \subseteq W /\ W \subseteq served \cup known[c]
  BY Events, PushedOK
<1> HIDE DEF W
<1>2. \A x \in W \ served : x.signer = c /\ \E f \in served : f.document = x.document
  BY <1>1 DEF LineInv, KnownOK
<1>3. ASSUME Sole(served)
      PROVE  Sole(W) /\ Line(W) /\ OnChain(W) /\ Says(W) = Says(served)
  <2>1. Sole(W)
    BY <1>2, <1>3 DEF Sole
  <2>2. Line(W) /\ Line(served) /\ OnChain(served)
    BY <1>1, <1>3, <2>1, LineOf DEF LineInv, LineOK
  <2>3. \A x \in W \ served : x.signer # Issuer
    BY <1>1, <1>2
  <2> QED BY <1>1, <2>1, <2>2, <2>3, LoginsChangeNothing
<1> QED BY <1>1, <1>2, <1>3 DEF W

LEMMA ClaimerPushesLine ==
  ASSUME PairInv, LineInv, NEW c \in Claimers, Pushes(c)
  PROVE  LineInv'
<1> DEFINE W == Pushed(known[c])
<1>1. known' = known /\ served' = W /\ c # Issuer
  BY Events DEF Pushes
<1>2. /\ served \subseteq W /\ \A x \in W \ served : x.signer = c
      /\ Sole(served) => OnChain(W)
  BY LoginLine
<1> HIDE DEF W
<1>3. \A x \in W : x.signer = Issuer => x \in served
  BY <1>1, <1>2
<1>4. KnownOK'
  BY <1>1, <1>2, <1>3 DEF LineInv, KnownOK
<1>5. Sole(W) => Sole(served)
  BY <1>2, SolePart
<1>6. \A x : Granting(x) => Granting(x)'
  BY <1>1, <1>3 DEF Granting
<1>7. LineOK'
  BY <1>1, <1>2, <1>5, <1>6 DEF LineInv, LineOK, Sole, OnChain, Chain
<1> QED BY <1>4, <1>7 DEF LineInv

LEMMA LineInit == Init => LineInv
<1> SUFFICES ASSUME Init PROVE LineInv
  OBVIOUS
<1>1. /\ known[Issuer] = {GenesisEvent} /\ served = {GenesisEvent}
      /\ \A c \in Claimers : known[c] = {}
  BY DeviceAssumption DEF Init
<1>2. KnownOK
  BY <1>1 DEF KnownOK
<1> DEFINE V == {GenesisEvent}
<1>3. GenesisEvent.sequence = 1 /\ GenesisEvent.document = GenesisDocument
  BY DEF GenesisEvent
<1>4. Line(V)
  BY <1>3, GenesisMeans, FS_Singleton DEF Line, Sole
<1>5. Grown(V, Chain(V)) /\ Len(Chain(V)) \in Nat \ {0}
  <2>1. Grown(V, Chain(V))
    BY <1>4, ChainOfEvents DEF Line
  <2> QED BY <1>4, <2>1, GrownFacts DEF Line
<1>6. Chain(V)[1] = GenesisEvent
  BY <1>4, <1>5, BeginsWithGenesis
<1>7. OnChain(V) /\ Sole(V)
  BY <1>3, <1>4, <1>5, <1>6 DEF OnChain, Line
<1>8. LineOK
  BY <1>1, <1>7 DEF LineOK
<1> QED BY <1>2, <1>8 DEF LineInv

LEMMA LineStep == PairInv /\ LineInv /\ [Next]_vars => LineInv'
<1> SUFFICES ASSUME PairInv, LineInv, [Next]_vars PROVE LineInv'
  OBVIOUS
<1>1. EventStep
  BY EventSteps
<1>2. CASE UNCHANGED coreVars
  BY <1>2 DEF coreVars, LineInv, KnownOK, LineOK, Sole, OnChain, Chain, Granting
<1> QED BY <1>1, <1>2, PullsLine, PublishesLine, PushesLine, ClaimerPullsLine,
           ClaimerPushesLine DEF EventStep

LEMMA LineInvariant == Spec => [](PairInv /\ LineInv)
BY PairInit, PairStep, LineInit, LineStep, PTL DEF Spec

(* As long as the issuer holds the only rotation key, the login of a       *)
(* signing key, however late it reaches the server, leaves what the        *)
(* identity says as it was.                                                *)
THEOREM LoginsKeepIdentity == Spec => LoginKeepsIdentity
<1> DEFINE new == served' \ served
           Keeps == (/\ new # {} /\ \A e \in new : e.signer \in Latest(served).document.signing_keys
                     /\ \A e \in served : e.document.rotation_keys = {Issuer})
                      => IdentityContent(Latest(served').document)
                           = IdentityContent(Latest(served).document)
<1>1. PairInv /\ LineInv /\ [Next]_vars => Keeps
  <2> SUFFICES ASSUME PairInv, LineInv, [Next]_vars, new # {},
                      \A e \in new : e.signer \in Latest(served).document.signing_keys,
                      Sole(served)
               PROVE  Says(served') = Says(served)
    BY DEF Sole, Says, Latest, Chain
  <2>1. Latest(served).document.signing_keys \subseteq Claimers
    BY Events, LatestOK DEF DocOK
  <2>2. CASE Pushes(Issuer)
    <3>1. new \subseteq known[Issuer] \ served
      BY <2>2, Events, PushedOK DEF Pushes
    <3>2. \A e \in new : e.signer = Issuer
      BY <3>1 DEF LineInv, KnownOK
    <3> QED BY <2>1, <3>2, Events
  <2>3. ASSUME NEW c \in Claimers, Pushes(c) PROVE Says(served') = Says(served)
    BY <2>3, LoginLine DEF Pushes
  <2>4. CASE served' = served
    BY <2>4
  <2> QED BY <2>2, <2>3, <2>4, EventSteps
          DEF EventStep, coreVars, IssuerPulls, IssuerPublishes, ClaimerPulls
<1>2. [][Keeps]_vars <=> LoginKeepsIdentity
  BY PTL DEF LoginKeepsIdentity
<1> QED BY <1>1, <1>2, LineInvariant, PTL DEF Spec
-----------------------------------------------------------------------------
(* What a step does to a hook: h becomes k.                                *)

LateStages == {"approving", "done", "error"}

SameButStep(h, k) ==
  k.key = h.key /\ k.role = h.role /\ k.canceled = h.canceled

Opens(s, h, k) ==
  /\ h.stage = "unopened" /\ \A t \in Sessions : t < s => hooks[t].canceled
  /\ k.stage = "creating" /\ k.pc = "put" /\ k.sequence = 1 /\ SameButStep(h, k)
  /\ k.document = Latest(known[Issuer]).document

Closes(h, k) ==
  /\ h.stage # "unopened" /\ k.canceled
  /\ k.stage = h.stage /\ k.pc = h.pc /\ k.key = h.key /\ k.role = h.role
  /\ k.document = h.document /\ k.sequence = h.sequence

(* It waits for something else, or has ended.  It shows what its put was   *)
(* answered.                                                               *)
Moves(s, h, k) ==
  /\ h.stage # "unopened" /\ k.stage # "unopened" /\ k.pc \in {"idle", "load"}
  /\ SameButStep(h, k) /\ k.document = h.document /\ k.sequence = h.sequence
  /\ k.pc = "load" => h.pc = "put" /\ k.stage = h.stage
  /\ k.stage \in {"polling", "approving", "done"} /\ k.stage # h.stage =>
       h.pc = "load" /\ k.stage # "approving" /\ row.session = s /\ row.sequence >= h.sequence
       /\ (k.stage = "done" => h.stage = "approving")
  /\ h.stage \in LateStages => k.stage \in LateStages
  /\ Added(k) => Added(h)

Approves(s, h, k) ==
  /\ h.stage = "polling" /\ k.stage = "approving" /\ k.pc = "pull"
  /\ k.role \in setting.roles /\ k.canceled = h.canceled /\ k.document = h.document
  /\ k.sequence = h.sequence

(* It adds the key, or puts the state that says so.                        *)
Works(s, h, k) ==
  /\ ApprovePulled(s) \/ ApprovePushed(s)
  /\ h.stage = "approving" /\ k.stage = "approving" /\ h.pc \in {"pull", "push"}
  /\ SameButStep(h, k)
  /\ \/ k.pc = "put" /\ k.sequence = h.sequence + 1
     \/ k.pc \in {"idle", "push"} /\ k.sequence = h.sequence /\ k.document = h.document

HookMove(s, h, k) ==
  \/ k = h
  \/ Opens(s, h, k)
  \/ Closes(h, k)
  \/ Moves(s, h, k)
  \/ Approves(s, h, k)
  \/ Works(s, h, k)

LEMMA OneHookMoves ==
  ASSUME PairInv, NEW s \in Sessions, NEW k, hooks' = [hooks EXCEPT ![s] = k],
         HookMove(s, hooks[s], k)
  PROVE  \A t \in Sessions : HookMove(t, hooks[t], hooks'[t])
<1>1. hooks \in [Sessions -> HookRecord]
  BY DEF PairInv, HooksOK
<1>2. ASSUME NEW t \in Sessions PROVE HookMove(t, hooks[t], hooks'[t])
  <2>1. CASE t = s
    BY <1>1, <2>1
  <2>2. CASE t # s
    <3>1. hooks'[t] = hooks[t]
      BY <1>1, <2>2
    <3> QED BY <3>1 DEF HookMove
  <2> QED BY <2>1, <2>2
<1> QED BY <1>2

LEMMA FailedMoves ==
  ASSUME NEW s, NEW h \in HookRecord, h.stage # "unopened"
  PROVE  Moves(s, h, Failed(h))
BY DEF HookRecord, Moves, Failed, SameButStep, LateStages, Added

LEMMA ScreenMoves ==
  ASSUME PairInv, NEW s \in Sessions, OpenScreen(s) \/ CloseScreen(s)
  PROVE  \A t \in Sessions : HookMove(t, hooks[t], hooks'[t])
<1> DEFINE h == hooks[s]
<1>1. h \in HookRecord
  BY DEF PairInv, HooksOK
<1>2. CASE OpenScreen(s)
  <2> DEFINE k == Putting([h EXCEPT !.stage = "creating"], known[Issuer], 1)
  <2>1. hooks' = [hooks EXCEPT ![s] = k]
    BY <1>2 DEF OpenScreen
  <2>2. /\ k.stage = "creating" /\ k.pc = "put" /\ k.document = Latest(known[Issuer]).document
        /\ k.sequence = 1
        /\ k.key = h.key /\ k.role = h.role /\ k.canceled = h.canceled
    BY <1>1 DEF HookRecord, Putting
  <2>3. Opens(s, h, k)
    <3> HIDE DEF k
    <3> QED BY <1>2, <2>2 DEF OpenScreen, Opens, SameButStep
  <2> HIDE DEF k
  <2> QED BY <2>1, <2>3, OneHookMoves DEF HookMove
<1>3. CASE CloseScreen(s)
  <2> DEFINE k == [h EXCEPT !.canceled = TRUE]
  <2>1. hooks' = [hooks EXCEPT ![s] = k] /\ h.stage # "unopened"
    BY <1>3 DEF CloseScreen
  <2>2. Closes(h, k)
    BY <1>1, <2>1 DEF HookRecord, Closes
  <2> HIDE DEF k
  <2> QED BY <2>1, <2>2, OneHookMoves DEF HookMove
<1> QED BY <1>2, <1>3

LEMMA PutMoves ==
  ASSUME PairInv, NEW s \in Sessions, PutPairingSession(s) \/ PutAnswered(s)
  PROVE  \A t \in Sessions : HookMove(t, hooks[t], hooks'[t])
<1> DEFINE h == hooks[s]
<1>1. h \in HookRecord /\ HookOK(s, h, approved, scanned)
  BY DEF PairInv, HooksOK
<1>2. h.pc \in {"put", "load"} /\ h.stage \in {"approving", "creating"}
  BY <1>1 DEF PutPairingSession, PutAnswered, HookOK, HookRecord
<1>3. CASE PutPairingSession(s)
  <2> DEFINE answer == IF is_stale(s, h.sequence) THEN row.session ELSE s
             k == [h EXCEPT !.pc = "load", !.response = answer]
  <2>1. hooks' = [hooks EXCEPT ![s] = k] /\ h.pc = "put"
    BY <1>3 DEF PutPairingSession
  <2>2. Moves(s, h, k)
    <3> HIDE DEF answer
    <3> QED BY <1>1, <1>2, <2>1 DEF HookRecord, Moves, SameButStep, LateStages, Added
  <2> HIDE DEF k
  <2> QED BY <2>1, <2>2, OneHookMoves DEF HookMove
<1>4. CASE PutAnswered(s)
  <2> DEFINE ok == /\ h.response = s /\ get_pairing_session(s)
                   /\ row.sequence >= h.sequence /\ s \notin expired
             k == CASE ~ ok -> Failed(h)
                    [] ok /\ h.stage = "approving" -> [h EXCEPT !.stage = "done", !.pc = "idle"]
                    [] ok /\ h.stage = "creating" ->
                       [h EXCEPT !.stage = IF h.canceled THEN @ ELSE "polling", !.pc = "idle"]
  <2>1. hooks' = [hooks EXCEPT ![s] = k] /\ h.pc = "load"
    BY <1>4 DEF PutAnswered
  <2> HIDE DEF ok
  <2>2. Moves(s, h, k)
    <3>1. CASE ~ ok
      <4>1. k = Failed(h)
        BY <1>2, <3>1
      <4> QED BY <1>1, <1>2, <4>1, FailedMoves
    <3>2. CASE ok /\ h.stage = "approving"
      <4>1. k = [h EXCEPT !.stage = "done", !.pc = "idle"]
        BY <3>2
      <4> HIDE DEF k
      <4> QED BY <1>1, <2>1, <3>2, <4>1
              DEF ok, get_pairing_session, HookRecord, Moves, SameButStep, LateStages, Added
    <3>3. CASE ok /\ h.stage = "creating"
      <4>1. k = [h EXCEPT !.stage = IF h.canceled THEN @ ELSE "polling", !.pc = "idle"]
        BY <3>3
      <4> HIDE DEF k
      <4>2. k.stage \in {"creating", "polling"}
        BY <1>1, <3>3, <4>1 DEF HookRecord
      <4> QED BY <1>1, <2>1, <3>3, <4>1, <4>2
              DEF ok, get_pairing_session, HookRecord, Moves, SameButStep, LateStages, Added
    <3> QED BY <1>2, <3>1, <3>2, <3>3
  <2> HIDE DEF k
  <2> QED BY <2>1, <2>2, OneHookMoves DEF HookMove
<1> QED BY <1>3, <1>4

LEMMA PollMoves ==
  ASSUME PairInv, NEW s \in Sessions,
         \/ PollForClaimers(s) \/ PollForClaimersFails(s)
         \/ PutFails(s) \/ ApprovePullFails(s)
  PROVE  \A t \in Sessions : HookMove(t, hooks[t], hooks'[t])
<1> DEFINE h == hooks[s]
<1>1. h \in HookRecord /\ HookOK(s, h, approved, scanned)
  BY DEF PairInv, HooksOK
<1>2. h.stage # "unopened"
  BY <1>1 DEF PollForClaimers, PollForClaimersFails, PutFails, ApprovePullFails, HookOK
<1>3. CASE hooks' = [hooks EXCEPT ![s] = Failed(h)]
  BY <1>1, <1>2, <1>3, FailedMoves, OneHookMoves DEF HookMove
<1>4. CASE hooks' = [hooks EXCEPT ![s].claimers = @ \cup list_claimers(s)] /\ h.stage = "polling"
  <2> DEFINE k == [h EXCEPT !.claimers = h.claimers \cup list_claimers(s)]
  <2>1. hooks' = [hooks EXCEPT ![s] = k]
    BY <1>4
  <2>2. h.pc = "idle"
    BY <1>1, <1>4 DEF HookOK
  <2>3. Moves(s, h, k)
    BY <1>1, <1>4, <2>2 DEF HookRecord, Moves, SameButStep, LateStages, Added
  <2> HIDE DEF k
  <2> QED BY <2>1, <2>3, OneHookMoves DEF HookMove
<1> QED BY <1>3, <1>4 DEF PollForClaimers, PollForClaimersFails, PutFails, ApprovePullFails

LEMMA ApproveMoves ==
  ASSUME PairInv, NEW s \in Sessions, NEW c, NEW role \in setting.roles, Approve(s, c, role)
  PROVE  \A t \in Sessions : HookMove(t, hooks[t], hooks'[t])
<1> DEFINE h == hooks[s]
           k == [h EXCEPT !.stage = "approving", !.pc = "pull", !.key = c, !.role = role]
<1>1. h \in HookRecord /\ h.stage = "polling" /\ hooks' = [hooks EXCEPT ![s] = k]
  BY DEF PairInv, HooksOK, Approve
<1>2. Approves(s, h, k)
  BY <1>1 DEF HookRecord, Approves
<1> HIDE DEF k
<1> QED BY <1>1, <1>2, OneHookMoves DEF HookMove

LEMMA NextStateMeans ==
  ASSUME NEW h \in HookRecord, NEW V
  PROVE  LET k == NextState(h, V)
         IN  /\ k.stage = h.stage /\ k.pc = "put" /\ SameButStep(h, k)
             /\ k.document = Latest(V).document /\ k.sequence = h.sequence + 1
BY DEF HookRecord, NextState, Putting, SameButStep

LEMMA WorkMoves ==
  ASSUME PairInv, NEW s \in Sessions, ApprovePulled(s) \/ ApprovePushed(s)
  PROVE  /\ \A t \in Sessions : HookMove(t, hooks[t], hooks'[t])
         /\ \A t \in Sessions : t # s => hooks'[t] = hooks[t]
<1> DEFINE h == hooks[s]
           pulled == known[Issuer] \cup served
<1>1. h \in HookRecord /\ HookOK(s, h, approved, scanned) /\ hooks \in [Sessions -> HookRecord]
  BY DEF PairInv, HooksOK
<1>2. h.pc \in {"pull", "push"} /\ h.stage = "approving"
  BY <1>1 DEF ApprovePulled, ApprovePushed, HookOK
<1>3. PICK k : /\ hooks' = [hooks EXCEPT ![s] = k]
               /\ \/ k = [h EXCEPT !.pc = "idle"]
                  \/ k = [h EXCEPT !.pc = "push"]
                  \/ \E V : k = NextState(h, V)
  <2>1. CASE ApprovePushed(s)
    BY <2>1 DEF ApprovePushed
  <2>2. CASE ApprovePulled(s) /\ h.canceled
    BY <2>2 DEF ApprovePulled
  <2>3. CASE ApprovePulled(s) /\ ~ h.canceled
    BY <2>3 DEF ApprovePulled, AfterCommit
  <2> QED BY <2>1, <2>2, <2>3
<1>4. /\ k.stage = "approving" /\ SameButStep(h, k)
      /\ \/ k.pc = "put" /\ k.sequence = h.sequence + 1
         \/ k.pc \in {"idle", "push"} /\ k.sequence = h.sequence /\ k.document = h.document
  <2>1. CASE k = [h EXCEPT !.pc = "idle"] \/ k = [h EXCEPT !.pc = "push"]
    BY <1>1, <1>2, <2>1 DEF HookRecord, SameButStep
  <2>2. CASE \E V : k = NextState(h, V)
    BY <1>1, <1>2, <2>2, NextStateMeans
  <2> QED BY <1>3, <2>1, <2>2
<1>5. HookMove(s, h, k)
  BY <1>2, <1>4 DEF HookMove, Works
<1> QED BY <1>1, <1>3, <1>5, OneHookMoves

LEMMA HookMoves ==
  PairInv /\ [Next]_vars => \A t \in Sessions : HookMove(t, hooks[t], hooks'[t])
<1> DEFINE P == \A t \in Sessions : HookMove(t, hooks[t], hooks'[t])
<1> SUFFICES ASSUME PairInv, [Next]_vars PROVE P
  OBVIOUS
<1>1. CASE hooks' = hooks
  BY <1>1 DEF HookMove
<1>2. ASSUME NEW s \in Sessions,
             \/ IssuerWorks(s) \/ OpenScreen(s) \/ CloseScreen(s) \/ PutFails(s)
             \/ PollForClaimers(s) \/ PollForClaimersFails(s) \/ ApprovePullFails(s)
      PROVE  P
  BY <1>2, ScreenMoves, PutMoves, PollMoves, WorkMoves DEF IssuerWorks
<1>3. ASSUME NEW s \in Sessions, NEW c \in setting.claimers, NEW role \in setting.roles,
             Approve(s, c, role)
      PROVE  P
  BY <1>3, ApproveMoves
<1>4. ASSUME NEW s \in Sessions, Expire(s) \/ \E c \in setting.claimers : Scan(c, s)
      PROVE  P
  BY <1>1, <1>4 DEF Expire, Scan
<1>5. ASSUME NEW c \in setting.claimers,
             ClaimerWorks(c) \/ JoinFails(c) \/ ClaimFails(c) \/ GoBack(c) \/ RemoveKey(c)
      PROVE  P
  BY <1>1, <1>5 DEF ClaimerWorks, JoinLooksUp, JoinAdds, JoinListed, PollForAuthorization,
     ClaimListed, ClaimPulled, ClaimPushed, JoinFails, ClaimFails, GoBack, RemoveKey, EditPublishes
<1>6. CASE AddServer \/ ServerAnswers \/ ServerFails \/ RemoveServer \/ EditPushed
  BY <1>1, <1>6 DEF AddServer, ServerAnswers, ServerFails, RemoveServer, EditPushed,
     EditPublishes
<1>7. CASE UNCHANGED vars
  BY <1>1, <1>7 DEF vars
<1> HIDE DEF P
<1> QED BY <1>2, <1>3, <1>4, <1>5, <1>6, <1>7 DEF Next

(* Screens are opened one after the other.                                 *)
LEMMA ScreensStep == PairInv /\ ScreensOK /\ [Next]_vars => ScreensOK'
<1> SUFFICES ASSUME PairInv, ScreensOK, [Next]_vars PROVE ScreensOK'
  OBVIOUS
<1>1. \A t \in Sessions : HookMove(t, hooks[t], hooks'[t])
  BY HookMoves
<1>2. ASSUME NEW s \in Sessions
      PROVE  /\ hooks[s].canceled => hooks'[s].canceled
             /\ hooks'[s].canceled => hooks'[s].stage # "unopened"
             /\ hooks'[s].stage # "unopened" =>
                  \A t \in Sessions : t < s => hooks[t].canceled
  <2> DEFINE h == hooks[s]
             k == hooks'[s]
  <2>1. /\ h.canceled => h.stage # "unopened"
        /\ h.stage # "unopened" => \A t \in Sessions : t < s => hooks[t].canceled
    BY DEF ScreensOK
  <2>2. HookMove(s, h, k)
    BY <1>1
  <2> HIDE DEF h, k
  <2>3. /\ h.canceled => k.canceled
        /\ k.canceled => k.stage # "unopened"
        /\ k.stage # "unopened" => \A t \in Sessions : t < s => hooks[t].canceled
    BY <2>1, <2>2 DEF HookMove, Opens, Closes, Moves, Approves, Works, SameButStep
  <2> QED BY <2>3 DEF h, k
<1> QED BY <1>2 DEF ScreensOK
-----------------------------------------------------------------------------
(* Approvals alone: signing keys are granted, and nothing else changes the *)
(* identity.                                                               *)

LEMMA SaysKeys ==
  ASSUME NEW V, NEW doc, Says(V) = IdentityContent(doc)
  PROVE  Signing(V) = doc.signing_keys
BY DEF Says, Signing, IdentityContent

LEMMA SameKeys ==
  ASSUME NEW V, NEW W, Says(V) = Says(W)
  PROVE  Signing(V) = Signing(W)
BY SaysKeys DEF Says, Signing

(* No change of the settings screen begins.                                *)
LEMMA AloneSteps ==
  ASSUME PairInv, PairingAlone, edit.pc = "idle", [Next]_vars
  PROVE  /\ edit' = edit
         /\ \/ \E s \in Sessions : ApprovePulled(s)
            \/ UNCHANGED coreVars
            \/ Pushes(Issuer)
            \/ \E c \in Claimers : ClaimerPulls(c)
            \/ \E c \in Claimers : Pushes(c)
<1> DEFINE P == /\ edit' = edit
                /\ \/ \E s \in Sessions : ApprovePulled(s)
                   \/ UNCHANGED coreVars
                   \/ Pushes(Issuer)
                   \/ \E c \in Claimers : ClaimerPulls(c)
                   \/ \E c \in Claimers : Pushes(c)
<1> SUFFICES P
  OBVIOUS
<1>1. CASE UNCHANGED vars
  BY <1>1 DEF vars
<1>2. setting.claimers \subseteq Claimers
  BY SettingMeans DEF PairInv
<1>3. ASSUME NEW s \in Sessions,
             \/ PutPairingSession(s) \/ PutAnswered(s)
             \/ OpenScreen(s) \/ CloseScreen(s) \/ PutFails(s)
             \/ PollForClaimers(s) \/ PollForClaimersFails(s) \/ ApprovePullFails(s) \/ Expire(s)
      PROVE  P
  BY <1>3 DEF PutPairingSession, PutAnswered, OpenScreen, CloseScreen, PutFails,
              PollForClaimers, PollForClaimersFails, ApprovePullFails, Expire
<1>4. ASSUME NEW s \in Sessions, ApprovePulled(s) PROVE P
  <2>1. edit' = edit
    BY <1>4 DEF ApprovePulled
  <2> QED BY <1>4, <2>1
<1>5. ASSUME NEW s \in Sessions, ApprovePushed(s) PROVE P
  BY <1>5 DEF ApprovePushed, Pushes, coreVars
<1>6. ASSUME NEW s \in Sessions, NEW c \in setting.claimers,
             (\E role \in setting.roles : Approve(s, c, role)) \/ Scan(c, s)
      PROVE  P
  BY <1>6 DEF Approve, Scan
<1>7. ASSUME NEW c \in Claimers,
             \/ JoinLooksUp(c) \/ JoinAdds(c) \/ JoinListed(c) \/ PollForAuthorization(c)
             \/ JoinFails(c) \/ ClaimFails(c) \/ GoBack(c)
      PROVE  P
  BY <1>7 DEF JoinLooksUp, JoinAdds, JoinListed, PollForAuthorization, JoinFails, ClaimFails,
              GoBack
<1>8. ASSUME NEW c \in Claimers, ClaimListed(c) \/ ClaimPulled(c) PROVE P
  <2>1. ClaimerPulls(c) /\ edit' = edit
    BY <1>8 DEF ClaimListed, ClaimPulled, ClaimerPulls
  <2> QED BY <2>1
<1>9. ASSUME NEW c \in Claimers, ClaimPushed(c) PROVE P
  BY <1>9 DEF ClaimPushed, Pushes, coreVars
<1>10. ~ (AddServer \/ ServerAnswers \/ ServerFails \/ RemoveServer \/ EditPushed)
  BY DEF AddServer, ServerAnswers, ServerFails, RemoveServer, EditPushed, PairingAlone
<1>11. ~ \E c : RemoveKey(c)
  BY DEF RemoveKey, PairingAlone
<1> HIDE DEF P
<1> QED BY <1>1, <1>2, <1>3, <1>4, <1>5, <1>6, <1>7, <1>8, <1>9, <1>10, <1>11
        DEF Next, IssuerWorks, ClaimerWorks

(* The pull of an approval ends: the issuer's document gets the key.       *)
LEMMA AloneApproves ==
  ASSUME PairInv, LineInv, AloneOK, NEW s \in Sessions, ApprovePulled(s)
  PROVE  LET K == known[Issuer]
             L == known'[Issuer]
             h == hooks[s]
             k == hooks'[s]
         IN  /\ served' = served /\ Sole(L) /\ Signing(K) \subseteq Signing(L)
             /\ \/ Signing(L) = Signing(K)
                \/ Signing(L) = Signing(K) \cup {h.key} /\ k.pc = "push"
             /\ Added(k) => h.key \in Signing(L)
             /\ k.document.rotation_keys = {Issuer}
             /\ k.pc = "put" => ~ h.canceled /\ k.document.signing_keys = Signing(K)
<1> DEFINE K == known[Issuer]
           L == known'[Issuer]
           h == hooks[s]
           k == hooks'[s]
           V == K \cup served
           doc == Latest(V).document
           new == WithKey(doc, h.key, h.role)
<1>1. /\ h \in HookRecord /\ HookOK(s, h, approved, scanned) /\ hooks \in [Sessions -> HookRecord]
      /\ h.pc = "pull" /\ h.stage = "approving" /\ h.key \in Claimers /\ h.key # Issuer
      /\ h.role = "signing" /\ h.document.rotation_keys = {Issuer} /\ served' = served
  <2>1. h \in HookRecord /\ HookOK(s, h, approved, scanned) /\ hooks \in [Sessions -> HookRecord]
    BY DEF PairInv, HooksOK
  <2>2. h.pc = "pull" /\ served' = served
    BY DEF ApprovePulled
  <2>3. h.stage = "approving" /\ h.key \in Claimers
    BY <2>1, <2>2 DEF HookOK
  <2> QED BY <2>1, <2>2, <2>3, Events DEF AloneOK
<1>2. Line(V) /\ OnChain(V) /\ Says(V) = Says(K)
  BY PulledLine DEF AloneOK
<1>3. Signing(V) = Signing(K) /\ doc.signing_keys = Signing(V)
  BY <1>2, SameKeys DEF Signing
<1>4. doc.rotation_keys = {Issuer} /\ Sole(V) /\ doc.signing_keys \subseteq Claimers
      /\ doc.rest \in {0, 1}
  <2>1. Latest(V) \in V
    BY <1>2, ChainOfEvents DEF Line
  <2>2. DocOK(doc, approved)
    BY Events, UnionOK, LatestOK
  <2> QED BY <1>2, <2>1, <2>2 DEF Line, Sole, DocOK
<1>5. CASE h.canceled
  <2>1. L = V /\ k = [h EXCEPT !.pc = "idle"]
    BY <1>1, <1>5, Events DEF ApprovePulled
  <2>2. k.pc = "idle" /\ k.document = h.document /\ ~ Added(k)
    BY <1>1, <2>1 DEF HookRecord, Added
  <2> HIDE DEF h, k, V, L, K, doc, new
  <2>3. Sole(L) /\ Signing(L) = Signing(K)
    BY <1>3, <1>4, <2>1
  <2> QED BY <1>1, <2>2, <2>3 DEF h, k, L, K
<1>6. CASE ~ h.canceled /\ authorizes_signer(doc, h.key)
  <2>1. L = V /\ k = NextState(h, V)
    BY <1>1, <1>6, Events DEF ApprovePulled
  <2> HIDE DEF h, k, V, L, K, new
  <2>2. k.pc = "put" /\ k.document = doc
    BY <1>1, <2>1, NextStateMeans
  <2>3. h.key \in Signing(L)
    BY <1>1, <1>3, <1>4, <1>6, <2>1 DEF authorizes_signer
  <2> HIDE DEF doc
  <2>4. Sole(L) /\ Signing(L) = Signing(K)
    BY <1>3, <1>4, <2>1
  <2>5. k.document.rotation_keys = {Issuer} /\ k.document.signing_keys = Signing(K)
    BY <1>3, <1>4, <2>2
  <2> QED BY <1>1, <1>6, <2>2, <2>3, <2>4, <2>5 DEF h, k, L, K
<1>7. CASE ~ h.canceled /\ ~ authorizes_signer(doc, h.key)
  <2>1. L = Published(V, Issuer, new) /\ k = [h EXCEPT !.pc = "push"]
    BY <1>1, <1>7, Events DEF ApprovePulled, AfterCommit
  <2>2. k.pc = "push" /\ k.document = h.document
    BY <1>1, <2>1 DEF HookRecord
  <2>3. new = DocumentWith(doc.rotation_keys, doc.signing_keys \cup {h.key}, doc.rest)
    BY <1>1 DEF WithKey
  <2> HIDE DEF h, k, V, L, K, doc, new
  <2>4. /\ new \in Docs /\ new.rotation_keys = {Issuer}
        /\ new.signing_keys = doc.signing_keys \cup {h.key}
    <3>1. Issuer \in doc.rotation_keys /\ doc.rotation_keys \subseteq {Issuer} \cup Claimers
      BY <1>4
    <3>2. doc.signing_keys \cup {h.key} \subseteq Claimers
      BY <1>1, <1>4
    <3> DEFINE S == doc.signing_keys \cup {h.key}
    <3> HIDE DEF S
    <3>3. DocumentWith(doc.rotation_keys, S, doc.rest) \in Docs
          /\ DocumentWith(doc.rotation_keys, S, doc.rest).rotation_keys = doc.rotation_keys
          /\ DocumentWith(doc.rotation_keys, S, doc.rest).signing_keys = S
      BY <1>4, <3>1, <3>2, DocumentWithMeans DEF S
    <3> QED BY <1>4, <2>3, <3>3 DEF S
  <2>5. Line(L) /\ Says(L) = IdentityContent(new)
    BY <1>2, <2>1, <2>4, IssuerExtends
  <2>6. Sole(L) /\ Signing(L) = Signing(K) \cup {h.key}
    BY <1>3, <2>4, <2>5, SaysKeys DEF Line
  <2> QED BY <1>1, <2>2, <2>6 DEF h, k, L, K
<1> QED BY <1>5, <1>6, <1>7

LEMMA AloneEvents ==
  ASSUME PairInv, LineInv, AloneOK, PairingAlone, [Next]_vars
  PROVE  /\ Sole(known'[Issuer]) /\ Sole(served')
         /\ Signing(known[Issuer]) \subseteq Signing(known'[Issuer])
         /\ Signing(served) \subseteq Signing(served')
         /\ Signing(served') \subseteq Signing(known'[Issuer])
<1> DEFINE K == known[Issuer]
<1>1. Sole(K) /\ Sole(served) /\ Signing(served) \subseteq Signing(K) /\ edit.pc = "idle"
  BY DEF AloneOK
<1>2. ASSUME NEW s \in Sessions, ApprovePulled(s)
      PROVE  /\ Sole(known'[Issuer]) /\ Sole(served')
             /\ Signing(known[Issuer]) \subseteq Signing(known'[Issuer])
             /\ Signing(served) \subseteq Signing(served')
             /\ Signing(served') \subseteq Signing(known'[Issuer])
  <2>1. /\ served' = served /\ Sole(known'[Issuer])
        /\ Signing(K) \subseteq Signing(known'[Issuer])
    BY <1>2, AloneApproves
  <2> QED BY <1>1, <2>1
<1>3. CASE Pushes(Issuer)
  <2>1. known' = known /\ served' = Pushed(K)
    BY <1>3 DEF Pushes
  <2>2. Sole(Pushed(K))
    BY <1>1, Events, PushedOK DEF Sole
  <2>3. Signing(Pushed(K)) = Signing(K)
    BY <2>2, PushedLine, SameKeys
  <2> QED BY <1>1, <2>1, <2>2, <2>3
<1>4. ASSUME NEW c \in Claimers, Pushes(c)
      PROVE  known' = known /\ Sole(served') /\ Signing(served') = Signing(served)
  <2>1. Sole(Pushed(known[c])) /\ Says(Pushed(known[c])) = Says(served)
    BY <1>1, LoginLine
  <2>2. Signing(Pushed(known[c])) = Signing(served)
    BY <2>1, SameKeys
  <2> QED BY <1>4, <2>1, <2>2 DEF Pushes
<1>5. CASE UNCHANGED coreVars \/ \E c \in Claimers : ClaimerPulls(c)
  <2>1. known'[Issuer] = K /\ served' = served
    BY <1>5, Events DEF coreVars, ClaimerPulls
  <2> QED BY <1>1, <2>1
<1> QED BY <1>1, <1>2, <1>3, <1>4, <1>5, AloneSteps

(* Only a put changes the server's row,                                    *)
LEMMA OnlyPuts ==
  ASSUME [Next]_vars, ~ \E s \in Sessions : PutPairingSession(s)
  PROVE  row' = row
BY DEF Next, vars, serverVars, IssuerWorks, ClaimerWorks, PutAnswered, OpenScreen,
   CloseScreen, PutFails, PollForClaimers, PollForClaimersFails, ApprovePullFails, Expire,
   ApprovePulled, ApprovePushed, Approve, Scan, JoinLooksUp, JoinAdds, JoinListed, AddClaimer,
   PollForAuthorization, ClaimListed, ClaimPulled, ClaimPushed, JoinFails, ClaimFails, GoBack,
   RemoveKey, EditPublishes, AddServer, ServerAnswers, ServerFails, RemoveServer, EditPushed

(* which takes the document of a hook.                                     *)
LEMMA RowMoves ==
  ASSUME PairInv, [Next]_vars
  PROVE  \/ row' = row
         \/ \E s \in Sessions : /\ hooks[s].pc = "put"
                                /\ row'.document = hooks[s].document /\ row'.session = s
<1>1. ASSUME NEW s \in Sessions, PutPairingSession(s)
      PROVE  \/ row' = row
             \/ /\ hooks[s].pc = "put"
                /\ row'.document = hooks[s].document /\ row'.session = s
  BY <1>1 DEF PutPairingSession, PutIssuerState, serverVars
<1> QED BY <1>1, OnlyPuts

LEMMA SettingStays == [Next]_vars => setting' = setting
BY DEF Next, vars, IssuerWorks, ClaimerWorks, PutPairingSession, PutAnswered, OpenScreen,
   CloseScreen, PutFails, PollForClaimers, PollForClaimersFails, ApprovePullFails, Expire,
   ApprovePulled, ApprovePushed, Approve, Scan, JoinLooksUp, JoinAdds, JoinListed,
   PollForAuthorization, ClaimListed, ClaimPulled, ClaimPushed, JoinFails, ClaimFails, GoBack,
   RemoveKey, EditPublishes, AddServer, ServerAnswers, ServerFails, RemoveServer, EditPushed

LEMMA AloneHooks ==
  ASSUME PairInv, LineInv, AloneOK, PairingAlone, [Next]_vars, NEW s \in Sessions
  PROVE  /\ hooks'[s].role = "signing" /\ hooks'[s].document.rotation_keys = {Issuer}
         /\ Added(hooks'[s]) => hooks'[s].key \in Signing(known'[Issuer])
<1> DEFINE h == hooks[s]
           k == hooks'[s]
<1>1. /\ h.role = "signing" /\ h.document.rotation_keys = {Issuer}
      /\ Added(h) => h.key \in Signing(known[Issuer])
  BY DEF AloneOK
<1>2. Signing(known[Issuer]) \subseteq Signing(known'[Issuer])
  BY AloneEvents
<1>3. Latest(known[Issuer]).document.rotation_keys = {Issuer}
  <2>1. Latest(known[Issuer]) \in known[Issuer]
    BY Events, LatestOK
  <2> QED BY <2>1 DEF AloneOK, Sole
<1>4. HookMove(s, h, k)
  BY HookMoves
<1>5. CASE Works(s, h, k)
  <2>1. k.role = "signing" /\ k.key = h.key /\ h.stage = "approving"
    BY <1>1, <1>5 DEF Works, SameButStep
  <2>2. CASE ApprovePulled(s)
    <3>1. k.document.rotation_keys = {Issuer} /\ (Added(k) => h.key \in Signing(known'[Issuer]))
      BY <2>2, AloneApproves
    <3> QED BY <2>1, <3>1
  <2>3. CASE ApprovePushed(s)
    <3>1. h \in HookRecord /\ hooks \in [Sessions -> HookRecord]
      BY DEF PairInv, HooksOK
    <3>2. h.pc = "push" /\ k = NextState(h, known[Issuer])
      BY <2>3, <3>1 DEF ApprovePushed
    <3>3. k.document.rotation_keys = {Issuer}
      BY <1>3, <3>1, <3>2, NextStateMeans
    <3>4. Added(h)
      BY <2>1, <3>2 DEF Added
    <3> QED BY <1>1, <1>2, <2>1, <3>3, <3>4
  <2> QED BY <1>5, <2>2, <2>3 DEF Works
<1>6. CASE ~ Works(s, h, k)
  <2> HIDE DEF h, k
  <2>1. k.role = "signing" /\ k.document.rotation_keys = {Issuer}
    BY <1>1, <1>3, <1>4, <1>6
       DEF HookMove, Opens, Closes, Moves, Approves, SameButStep, PairingAlone
  <2>2. Added(k) => Added(h) /\ k.key = h.key
    BY <1>4, <1>6 DEF HookMove, Opens, Closes, Moves, Approves, SameButStep, Added
  <2>3. Added(k) => k.key \in Signing(known'[Issuer])
    BY <1>1, <1>2, <2>2
  <2> QED BY <2>1, <2>3 DEF h, k
<1> QED BY <1>5, <1>6

LEMMA AloneInit == Init => AloneInv
<1> SUFFICES ASSUME Init PROVE AloneOK
  BY DEF AloneInv
<1> DEFINE V == {GenesisEvent}
<1>1. /\ known[Issuer] = V /\ served = V /\ hooks = [s \in Sessions |-> NewHook]
      /\ row.document = GenesisDocument /\ edit.pc = "idle"
  BY DeviceAssumption DEF Init, ServerInit
<1>2. GenesisEvent.document = GenesisDocument /\ GenesisDocument.rotation_keys = {Issuer}
  BY GenesisMeans DEF GenesisEvent
<1>3. Sole(V)
  BY <1>2 DEF Sole
<1>4. \A s \in Sessions :
        /\ hooks[s].role = "signing" /\ hooks[s].document.rotation_keys = {Issuer}
        /\ ~ Added(hooks[s])
  BY <1>1, <1>2 DEF NewHook, Added
<1> HIDE DEF V
<1> QED BY <1>1, <1>2, <1>3, <1>4 DEF AloneOK

LEMMA AloneStep == PairInv /\ LineInv /\ AloneInv /\ [Next]_vars => AloneInv'
<1> SUFFICES ASSUME PairInv, LineInv, AloneInv, [Next]_vars, PairingAlone' PROVE AloneOK'
  BY DEF AloneInv
<1>1. PairingAlone /\ AloneOK
  BY SettingStays DEF PairingAlone, AloneInv
<1>2. edit' = edit /\ edit.pc = "idle"
  BY <1>1, AloneSteps DEF AloneOK
<1>3. row'.document.rotation_keys = {Issuer}
  BY <1>1, RowMoves DEF AloneOK
<1>4. \A s \in Sessions :
        /\ hooks'[s].role = "signing" /\ hooks'[s].document.rotation_keys = {Issuer}
        /\ Added(hooks'[s]) => hooks'[s].key \in Signing(known'[Issuer])
  BY <1>1, AloneHooks
<1>5. /\ Sole(known'[Issuer]) /\ Sole(served')
      /\ Signing(served') \subseteq Signing(known'[Issuer])
  BY <1>1, AloneEvents
<1> QED BY <1>2, <1>3, <1>4, <1>5 DEF AloneOK, Sole, Signing, Latest, Chain, Added

LEMMA AloneInvariant == Spec => [](PairInv /\ LineInv /\ AloneInv)
BY LineInvariant, AloneInit, AloneStep, PTL DEF Spec

(* An approval the issuer reports as done stays in the identity, whatever  *)
(* logins and sessions follow and whatever fails.                          *)
THEOREM ApprovalsAreKept == Spec => []ApprovalKept
<1>1. PairInv /\ LineInv /\ AloneInv => ApprovalKept
  <2> SUFFICES ASSUME PairInv, LineInv, AloneInv, PairingAlone,
                      NEW s \in Sessions, hooks[s].stage = "done"
               PROVE  Authorizes(known[Issuer] \cup served, hooks[s].key)
    BY DEF ApprovalKept
  <2>1. AloneOK /\ Sole(known[Issuer]) /\ Sole(served)
    BY DEF AloneInv, AloneOK
  <2>2. hooks[s].key \in Signing(known[Issuer])
    BY <2>1 DEF AloneOK, Added
  <2>3. Signing(known[Issuer] \cup served) = Signing(known[Issuer])
    BY <2>1, PulledLine, SameKeys
  <2> QED BY <2>2, <2>3 DEF Authorizes, authorizes_signer, Signing
<1> QED BY <1>1, AloneInvariant, PTL
-----------------------------------------------------------------------------
(* Without failures, a key is on the server before the session says so.    *)

LEMMA HistoryGrows ==
  ASSUME PairInv, [Next]_vars
  PROVE  /\ approved \subseteq approved'
         /\ failures' = failures \/ MayFail
BY DEF Next, vars, history, IssuerWorks, ClaimerWorks, PutPairingSession, PutAnswered,
   OpenScreen, CloseScreen, PutFails, PollForClaimers, PollForClaimersFails, ApprovePullFails,
   Expire, ApprovePulled, ApprovePushed, Approve, Scan, JoinLooksUp, JoinAdds, JoinListed,
   PollForAuthorization, ClaimListed, ClaimPulled, ClaimPushed, JoinFails, ClaimFails, GoBack,
   RemoveKey, EditPublishes, AddServer, ServerAnswers, ServerFails, RemoveServer, EditPushed

LEMMA NoFailure ==
  ASSUME PairInv, [Next]_vars, failures' = 0
  PROVE  failures = 0 /\ ~ MayFail
<1>1. failures \in Nat
  BY DEF PairInv, RestOK
<1> QED BY <1>1, HistoryGrows DEF MayFail

LEMMA GaveStays ==
  ASSUME PairInv, [Next]_vars, NEW t \in Sessions, NEW c, Gave(t, c)
  PROVE  Gave(t, c)'
<1> DEFINE h == hooks[t]
           k == hooks'[t]
<1>1. /\ h.key = c /\ <<t, c>> \in approved' /\ h.stage \in LateStages /\ h.pc # "pull"
  BY HistoryGrows DEF Gave, LateStages
<1>2. HookMove(t, h, k)
  BY HookMoves
<1> HIDE DEF h, k
<1>3. k.key = c /\ k.stage \in LateStages /\ k.pc # "pull"
  BY <1>1, <1>2 DEF HookMove, Opens, Closes, Moves, Approves, Works, SameButStep, LateStages
<1> QED BY <1>1, <1>3 DEF Gave, LateStages, k

LEMMA ShownStays ==
  ASSUME PairInv, LineInv, AloneOK, PairingAlone, [Next]_vars, NEW s, NEW c
  PROVE  /\ Earlier(c, s) => Earlier(c, s)'
         /\ Shown(c, s) => Shown(c, s)'
<1>1. approved \subseteq approved'
  BY HistoryGrows
<1>2. Signing(served) \subseteq Signing(served')
  BY AloneEvents
<1>3. Earlier(c, s) => Earlier(c, s)'
  BY <1>1 DEF Earlier
<1> QED BY <1>2, <1>3 DEF Shown, Signing, Latest, Chain

(* A key of the issuer's document was added before a session whose screen  *)
(* is only now opened, or that is approving with its screen open.          *)
LEMMA AddedEarlier ==
  ASSUME PairInv, ScreensOK, FirstOK, NEW s \in Sessions,
         hooks[s].stage = "unopened" \/ (hooks[s].pc = "pull" /\ ~ hooks[s].canceled),
         NEW c \in Signing(known[Issuer])
  PROVE  Earlier(c, s)
<1>1. PICK t \in Sessions : Gave(t, c)
  BY DEF FirstOK
<1>2. /\ <<t, c>> \in approved /\ hooks[t].stage # "unopened" /\ hooks[t].pc # "pull"
  BY <1>1 DEF Gave
<1>3. t # s
  BY <1>2
<1>4. ~ s < t
  <2>1. SUFFICES ASSUME s < t PROVE FALSE
    OBVIOUS
  <2>2. hooks[s].canceled /\ hooks[s].stage # "unopened"
    BY <1>2, <2>1 DEF ScreensOK
  <2> QED BY <2>2
<1>5. s \in Nat /\ t \in Nat
  BY DeviceAssumption DEF Sessions
<1>6. t < s
  BY <1>3, <1>4, <1>5
<1> QED BY <1>2, <1>6 DEF Earlier

LEMMA FirstKeys ==
  ASSUME PairInv, LineInv, AloneOK, FirstOK, PairingAlone, [Next]_vars,
         NEW c \in Signing(known'[Issuer])
  PROVE  \E t \in Sessions : Gave(t, c)'
<1>1. CASE c \in Signing(known[Issuer])
  <2>1. PICK t \in Sessions : Gave(t, c)
    BY <1>1 DEF FirstOK
  <2> QED BY <2>1, GaveStays
<1>2. CASE c \notin Signing(known[Issuer])
  <2>1. PICK s \in Sessions : ApprovePulled(s)
    <3>1. known'[Issuer] # known[Issuer]
      BY <1>2
    <3>2. edit.pc = "idle"
      BY DEF AloneOK
    <3> QED BY <3>1, <3>2, AloneSteps, Events DEF coreVars, Pushes, ClaimerPulls
  <2> DEFINE h == hooks[s]
             k == hooks'[s]
  <2>2. c = h.key /\ k.pc = "push"
    BY <1>2, <2>1, AloneApproves
  <2>3. h.pc = "pull" /\ h.stage = "approving" /\ <<s, h.key>> \in approved
    BY <2>1 DEF ApprovePulled, PairInv, HooksOK, HookOK
  <2>4. HookMove(s, h, k)
    BY HookMoves
  <2> HIDE DEF h, k
  <2>5. k.key = c /\ k.stage = "approving"
    BY <2>2, <2>3, <2>4 DEF HookMove, Opens, Closes, Moves, Approves, Works, SameButStep
  <2>6. <<s, c>> \in approved'
    BY <2>2, <2>3, HistoryGrows
  <2> QED BY <2>2, <2>5, <2>6 DEF Gave, k
<1> QED BY <1>1, <1>2

LEMMA FirstPuts ==
  ASSUME PairInv, LineInv, AloneOK, ScreensOK, FirstOK, PairingAlone, [Next]_vars,
         failures' = 0, NEW s \in Sessions, hooks'[s].pc = "put",
         NEW c \in hooks'[s].document.signing_keys
  PROVE  Shown(c, s)'
<1> DEFINE h == hooks[s]
           k == hooks'[s]
<1>1. HookMove(s, h, k)
  BY HookMoves
<1>2. Earlier(c, s) => Shown(c, s)'
  BY ShownStays DEF Shown
<1>3. CASE h.pc = "put" /\ c \in h.document.signing_keys
  BY <1>3, ShownStays DEF FirstOK
<1>4. CASE Opens(s, h, k)
  <2>1. h.stage = "unopened" /\ c \in Signing(known[Issuer])
    BY <1>4 DEF Opens, Signing
  <2> QED BY <1>2, <2>1, AddedEarlier
<1>5. CASE ApprovePulled(s)
  <2>1. ~ h.canceled /\ c \in Signing(known[Issuer])
    BY <1>5, AloneApproves
  <2>2. h.pc = "pull"
    BY <1>5 DEF ApprovePulled
  <2> QED BY <1>2, <2>1, <2>2, AddedEarlier
<1>6. CASE ApprovePushed(s)
  <2>1. h \in HookRecord /\ hooks \in [Sessions -> HookRecord]
    BY DEF PairInv, HooksOK
  <2>2. k = NextState(h, known[Issuer]) /\ served' = Pushed(known[Issuer])
    BY <1>6, <2>1, NoFailure DEF ApprovePushed
  <2>3. c \in Signing(known[Issuer])
    BY <2>1, <2>2, NextStateMeans DEF Signing
  <2>4. Sole(served')
    BY AloneEvents
  <2>5. Signing(served') = Signing(known[Issuer])
    BY <2>2, <2>4, PushedLine, SameKeys
  <2>6. c \in Signing(served')
    BY <2>3, <2>5
  <2> QED BY <2>6 DEF Shown, Signing, Latest, Chain
<1>7. CASE k = h \/ Closes(h, k)
  <2>1. h.pc = "put" /\ c \in h.document.signing_keys
    BY <1>7 DEF Closes
  <2> QED BY <1>3, <2>1
<1> QED BY <1>1, <1>4, <1>5, <1>6, <1>7 DEF HookMove, Moves, Approves, Works

(* What a claimer knows says what the server says.                         *)
LEMMA ClaimerSees ==
  ASSUME PairInv, LineInv, AloneOK, NEW c \in Claimers, c \in Signing(served)
  PROVE  Authorizes(known[c] \cup served, c)
<1> DEFINE W == known[c] \cup served
<1>1. EventsOK(W, approved) /\ GenesisEvent \in W /\ EventsOK(served, approved)
      /\ GenesisEvent \in served /\ c # Issuer
  BY Events, UnionOK
<1>2. Sole(served) /\ OnChain(served)
  BY DEF AloneOK, LineInv, LineOK
<1>3. Sole(W)
  BY <1>2 DEF LineInv, KnownOK, Sole
<1>4. \A e \in W \ served : e.signer # Issuer
  BY <1>1 DEF LineInv, KnownOK
<1>5. served \subseteq W
  OBVIOUS
<1> HIDE DEF W
<1>6. Line(W) /\ Line(served)
  BY <1>1, <1>2, <1>3, LineOf
<1>7. Signing(W) = Signing(served)
  BY <1>2, <1>4, <1>5, <1>6, LoginsChangeNothing, SameKeys
<1> QED BY <1>7 DEF Authorizes, authorizes_signer, Signing, W

(* What a step without a failure does to a claimer.                        *)
ClaimerMove(c, q, r) ==
  \/ r = q
  \/ r.pc \notin {"list", "pull", "claim"}
  \/ /\ r.session = q.session /\ r.pc = "list"
     /\ get_pairing_session(q.session) /\ authorizes_signer(row.document, c)
  \/ r.session = q.session /\ q.pc \in {"list", "pull"} /\ r.pc = "pull"
  \/ /\ r.session = q.session /\ q.pc \in {"list", "pull"} /\ r.pc = "claim"
     /\ ~ Authorizes(known[c] \cup served, c)

LEMMA OneClaimerMoves ==
  ASSUME PairInv, NEW c \in Claimers, NEW r, claimers' = [claimers EXCEPT ![c] = r],
         ClaimerMove(c, claimers[c], r), NEW d \in Claimers
  PROVE  ClaimerMove(d, claimers[d], claimers'[d])
<1>1. claimers \in [Claimers -> ClaimerRecord]
  BY DEF PairInv, ClaimersOK
<1>2. CASE d = c
  BY <1>1, <1>2
<1>3. CASE d # c
  <2>1. claimers'[d] = claimers[d]
    BY <1>1, <1>3
  <2> QED BY <2>1 DEF ClaimerMove
<1> QED BY <1>2, <1>3

LEMMA MovedMeans ==
  ASSUME PairInv, NEW c \in Claimers, NEW stage, NEW pc, Advance(c, stage, pc)
  PROVE  \E r : /\ claimers' = [claimers EXCEPT ![c] = r]
                /\ r.pc = pc /\ r.session = claimers[c].session
<1>1. claimers \in [Claimers -> ClaimerRecord] /\ claimers[c] \in ClaimerRecord
  BY DEF PairInv, ClaimersOK
<1> DEFINE r == Moved(claimers[c], stage, pc)
<1>2. claimers' = [claimers EXCEPT ![c] = r]
  BY <1>1, AdvanceMeans DEF PairInv
<1>3. r.pc = pc /\ r.session = claimers[c].session
  BY <1>1 DEF Moved, ClaimerRecord
<1> HIDE DEF r
<1> QED BY <1>2, <1>3

LEMMA ClaimerMoves ==
  ASSUME PairInv, [Next]_vars, ~ MayFail, NEW d \in Claimers
  PROVE  ClaimerMove(d, claimers[d], claimers'[d])
<1> DEFINE P == ClaimerMove(d, claimers[d], claimers'[d])
<1>1. ASSUME claimers' = claimers PROVE P
  BY <1>1 DEF ClaimerMove
<1>2. setting.claimers \subseteq Claimers
  BY SettingMeans DEF PairInv
<1>3. ASSUME NEW c \in Claimers, NEW stage, NEW pc, Advance(c, stage, pc),
             \/ pc \notin {"list", "pull", "claim"}
             \/ /\ pc = "list" /\ get_pairing_session(claimers[c].session)
                /\ authorizes_signer(row.document, c)
             \/ claimers[c].pc \in {"list", "pull"} /\ pc = "pull"
             \/ /\ claimers[c].pc \in {"list", "pull"} /\ pc = "claim"
                /\ ~ Authorizes(known[c] \cup served, c)
      PROVE  P
  <2>1. PICK r : /\ claimers' = [claimers EXCEPT ![c] = r]
                 /\ r.pc = pc /\ r.session = claimers[c].session
    BY <1>3, MovedMeans
  <2>2. ClaimerMove(c, claimers[c], r)
    BY <1>3, <2>1 DEF ClaimerMove
  <2> QED BY <2>1, <2>2, OneClaimerMoves
<1>4. ASSUME NEW c \in Claimers, JoinLooksUp(c) \/ JoinAdds(c) \/ JoinListed(c) PROVE P
  <2>1. \E pc \in {"lookup", "add", "listed", "join", "idle"} : \E stage : Advance(c, stage, pc)
    BY <1>4 DEF JoinLooksUp, JoinAdds, JoinListed
  <2> HIDE DEF P
  <2> QED BY <1>3, <2>1
<1>5. ASSUME NEW c \in Claimers, PollForAuthorization(c) PROVE P
  <2> HIDE DEF P
  <2> QED BY <1>3, <1>5 DEF PollForAuthorization
<1>6. ASSUME NEW c \in Claimers, ClaimListed(c) PROVE P
  <2> HIDE DEF P
  <2> QED BY <1>3, <1>6 DEF ClaimListed
<1>7. ASSUME NEW c \in Claimers, ClaimPulled(c) PROVE P
  <2> HIDE DEF P
  <2> QED BY <1>3, <1>7 DEF ClaimPulled
<1>8. ASSUME NEW c \in Claimers, ClaimPushed(c) PROVE P
  <2> HIDE DEF P
  <2> QED BY <1>3, <1>8 DEF ClaimPushed
<1>9. ASSUME NEW c \in Claimers, GoBack(c) \/ \E s \in Sessions : Scan(c, s) PROVE P
  <2>1. PICK r : claimers' = [claimers EXCEPT ![c] = r] /\ r.pc \in {"idle", "get"}
    <3>1. CASE GoBack(c)
      <4>1. NewClaimer.pc = "idle"
        BY DEF NewClaimer
      <4> QED BY <3>1, <4>1 DEF GoBack
    <3>2. ASSUME NEW s \in Sessions, Scan(c, s)
          PROVE  \E r : claimers' = [claimers EXCEPT ![c] = r] /\ r.pc \in {"idle", "get"}
      <4> DEFINE r == [stage |-> "joining", pc |-> "get", session |-> s]
      <4>1. claimers' = [claimers EXCEPT ![c] = r] /\ r.pc = "get"
        BY <3>2 DEF Scan
      <4> QED BY <4>1
    <3> QED BY <1>9, <3>1, <3>2
  <2>2. ClaimerMove(c, claimers[c], r)
    BY <2>1 DEF ClaimerMove
  <2> QED BY <2>1, <2>2, OneClaimerMoves
<1>10. ASSUME NEW s \in Sessions,
             \/ IssuerWorks(s) \/ OpenScreen(s) \/ CloseScreen(s) \/ PutFails(s)
             \/ PollForClaimers(s) \/ PollForClaimersFails(s) \/ ApprovePullFails(s) \/ Expire(s)
             \/ \E c \in setting.claimers, role \in setting.roles : Approve(s, c, role)
      PROVE  claimers' = claimers
  BY <1>10 DEF IssuerWorks, PutPairingSession, PutAnswered, OpenScreen, CloseScreen, PutFails,
     PollForClaimers, PollForClaimersFails, ApprovePullFails, Expire, ApprovePulled,
     ApprovePushed, Approve, claimVars
<1>11. ASSUME \/ AddServer \/ ServerAnswers \/ ServerFails \/ RemoveServer \/ EditPushed
              \/ \E c : RemoveKey(c)
              \/ UNCHANGED vars
       PROVE  claimers' = claimers
  BY <1>11 DEF AddServer, ServerAnswers, ServerFails, RemoveServer, EditPushed, RemoveKey,
     EditPublishes, claimVars, vars
<1>12. ~ \E c : JoinFails(c) \/ ClaimFails(c)
  BY DEF JoinFails, ClaimFails
<1> HIDE DEF P
<1>13. ASSUME NEW s \in Sessions, NEW c \in setting.claimers, Scan(c, s) PROVE P
  BY <1>2, <1>9, <1>13
<1>14. ASSUME NEW c \in setting.claimers, ClaimerWorks(c) \/ GoBack(c) PROVE P
  BY <1>2, <1>4, <1>5, <1>6, <1>7, <1>8, <1>9, <1>14 DEF ClaimerWorks
<1>15. ASSUME NEW c \in setting.claimers,
              ClaimerWorks(c) \/ JoinFails(c) \/ ClaimFails(c) \/ GoBack(c) \/ RemoveKey(c)
       PROVE  P
  BY <1>1, <1>11, <1>12, <1>14, <1>15
<1>16. ASSUME NEW s \in Sessions,
              \/ IssuerWorks(s) \/ OpenScreen(s) \/ CloseScreen(s) \/ PutFails(s)
              \/ PollForClaimers(s) \/ PollForClaimersFails(s) \/ ApprovePullFails(s) \/ Expire(s)
              \/ \E c \in setting.claimers, role \in setting.roles : Approve(s, c, role)
              \/ \E c \in setting.claimers : Scan(c, s)
       PROVE  P
  <2>1. CASE \E c \in setting.claimers : Scan(c, s)
    BY <1>13, <2>1
  <2>2. CASE ~ \E c \in setting.claimers : Scan(c, s)
    BY <1>1, <1>10, <1>16, <2>2
  <2> QED BY <2>1, <2>2
<1>17. ASSUME \/ AddServer \/ ServerAnswers \/ ServerFails \/ RemoveServer \/ EditPushed
              \/ UNCHANGED vars
       PROVE  P
  BY <1>1, <1>11, <1>17
<1>18. P
  BY <1>15, <1>16, <1>17 DEF Next
<1> QED BY <1>18 DEF P

LEMMA FirstClaimers ==
  ASSUME PairInv, LineInv, AloneOK, FirstOK, PairingAlone, [Next]_vars, failures' = 0,
         NEW c \in Claimers, NEW x, claimers'[c].session = x
  PROVE  /\ claimers'[c].pc \in {"list", "pull"} => Shown(c, x)'
         /\ claimers'[c].pc = "claim" => Earlier(c, x)'
<1> DEFINE q == claimers[c]
           r == claimers'[c]
<1>1. ClaimerMove(c, q, r)
  BY NoFailure, ClaimerMoves
<1>2. SUFFICES ASSUME r.pc \in {"list", "pull", "claim"}
               PROVE  /\ r.pc # "claim" => Shown(c, x)
                      /\ r.pc = "claim" => Earlier(c, x)
  BY ShownStays
<1>3. q.session = x
  BY <1>1, <1>2 DEF ClaimerMove
<1>4. /\ q.pc \in {"list", "pull"} => Shown(c, x)
      /\ q.pc = "claim" => Earlier(c, x)
  BY <1>3 DEF FirstOK
<1>5. get_pairing_session(x) /\ authorizes_signer(row.document, c) => Shown(c, x)
  <2>1. row.document.rotation_keys = {Issuer} /\ c # Issuer
    BY Events DEF AloneOK
  <2> QED BY <2>1 DEF get_pairing_session, authorizes_signer, FirstOK
<1>6. ~ Authorizes(known[c] \cup served, c) /\ Shown(c, x) => Earlier(c, x)
  BY ClaimerSees DEF Shown
<1> HIDE DEF q, r
<1> QED BY <1>1, <1>2, <1>3, <1>4, <1>5, <1>6 DEF ClaimerMove

LEMMA FirstRow ==
  ASSUME PairInv, LineInv, AloneOK, FirstOK, PairingAlone, [Next]_vars,
         NEW x, row'.session = x, NEW c \in row'.document.signing_keys
  PROVE  Shown(c, x)'
<1>1. Shown(c, x)
  BY RowMoves DEF FirstOK
<1> QED BY <1>1, ShownStays

LEMMA FirstInit == Init => ScreensOK /\ FirstInv
<1> SUFFICES ASSUME Init PROVE ScreensOK /\ FirstOK
  BY DEF FirstInv
<1> DEFINE V == {GenesisEvent}
<1>1. /\ known[Issuer] = V /\ served = V /\ hooks = [s \in Sessions |-> NewHook]
      /\ row.document = GenesisDocument /\ claimers = [c \in Claimers |-> NewClaimer]
  BY DeviceAssumption DEF Init, ServerInit
<1>2. Latest(V) = GenesisEvent
  <2>1. V \subseteq Candidate /\ IsFiniteSet(V) /\ GenesisEvent \in V
    BY GenesisMeans, FS_Singleton
  <2>2. Latest(V) \in V
    BY <2>1, ChainOfEvents
  <2> QED BY <2>2
<1>3. GenesisEvent.document = GenesisDocument /\ GenesisDocument.signing_keys = {}
  BY GenesisMeans DEF GenesisEvent
<1>4. Signing(known[Issuer]) = {}
  BY <1>1, <1>2, <1>3 DEF Signing
<1>5. \A s \in Sessions : /\ hooks[s].pc = "idle" /\ hooks[s].stage = "unopened"
                          /\ ~ hooks[s].canceled
  BY <1>1 DEF NewHook
<1>6. \A c \in Claimers : claimers[c].pc = "idle"
  BY <1>1 DEF NewClaimer
<1> QED BY <1>1, <1>3, <1>4, <1>5, <1>6 DEF ScreensOK, FirstOK

LEMMA FirstStep ==
  PairInv /\ LineInv /\ AloneInv /\ ScreensOK /\ FirstInv /\ [Next]_vars => FirstInv'
<1> SUFFICES ASSUME PairInv, LineInv, AloneInv, ScreensOK, FirstInv, [Next]_vars,
                    PairingAlone', failures' = 0
             PROVE  FirstOK'
  BY DEF FirstInv
<1>1. PairingAlone /\ failures = 0
  BY SettingStays, NoFailure DEF PairingAlone
<1>2. AloneOK /\ FirstOK
  BY <1>1 DEF AloneInv, FirstInv
<1>3. \A c \in Signing(known'[Issuer]) : \E t \in Sessions : Gave(t, c)'
  BY <1>1, <1>2, FirstKeys
<1>4. \A s \in Sessions : hooks'[s].pc = "put" =>
        \A c \in hooks'[s].document.signing_keys : Shown(c, s)'
  BY <1>1, <1>2, FirstPuts
<1>5. \A x : row'.session = x => \A c \in row'.document.signing_keys : Shown(c, x)'
  BY <1>1, <1>2, FirstRow
<1>6. \A c \in Claimers : \A x : claimers'[c].session = x =>
        /\ claimers'[c].pc \in {"list", "pull"} => Shown(c, x)'
        /\ claimers'[c].pc = "claim" => Earlier(c, x)'
  BY <1>1, <1>2, FirstClaimers
<1> QED BY <1>3, <1>4, <1>5, <1>6 DEF FirstOK, Shown, Earlier, Gave, Signing, Latest, Chain

LEMMA FirstInvariant ==
  Spec => [](PairInv /\ LineInv /\ AloneInv /\ ScreensOK /\ FirstInv)
BY AloneInvariant, FirstInit, ScreensStep, FirstStep, PTL DEF Spec

(* As long as no call fails, a claimer that has seen its approval, and was *)
(* not approved in an earlier session too, is never told that it is not    *)
(* authorized: the key is on the server before the session says so.        *)
THEOREM ApprovalsArePublishedFirst == Spec => []ApprovalPublishedFirst
<1>1. FirstInv => ApprovalPublishedFirst
  BY DEF FirstInv, FirstOK, Earlier, ApprovalPublishedFirst
<1> QED BY <1>1, FirstInvariant, PTL
-----------------------------------------------------------------------------
(* What the server answered to the issuer.                                 *)

(* A session that is shown was stored, and one that is done was stored in  *)
(* its second state; what is stored of a session since, its hook has put.  *)
StandsOK(s, h) ==
  /\ h.stage \in {"polling", "approving", "done"} => row.session >= s
  /\ h.stage = "approving" /\ h.pc \in {"put", "load"} => h.sequence = 2
  /\ h.stage = "done" => row.session > s \/ row.sequence = 2
  /\ row.session = s /\ row.sequence = 2 => h.sequence = 2 /\ row.document = h.document

StandInv == \A s \in Sessions : StandsOK(s, hooks[s])

(* The row changes to a newer session, or to a later state of its own.     *)
LEMMA RowAdvances ==
  ASSUME PairInv, [Next]_vars, row' # row
  PROVE  \E s \in Sessions :
           /\ hooks[s].pc = "put" /\ hooks'[s].pc = "load"
           /\ row' = [session |-> s, sequence |-> hooks[s].sequence,
                      document |-> hooks[s].document]
           /\ row.session < s \/ (row.session = s /\ row.sequence < hooks[s].sequence)
<1>1. PICK s \in Sessions : PutPairingSession(s)
  BY OnlyPuts
<1>2. row \in [session : 0..MaxSessions, sequence : 1..2, document : Docs]
      /\ hooks \in [Sessions -> HookRecord] /\ s \in Nat /\ MaxSessions \in Nat
  BY DeviceAssumption DEF PairInv, RowOK, HooksOK, Sessions
<1>3. hooks[s].sequence \in 1..2
  BY <1>2 DEF HookRecord
<1>4. /\ hooks[s].pc = "put" /\ ~ is_stale(s, hooks[s].sequence)
      /\ row' = [session |-> s, sequence |-> hooks[s].sequence,
                 document |-> hooks[s].document]
  BY <1>1 DEF PutPairingSession, PutIssuerState, serverVars
<1>5. row.session < s \/ (row.session = s /\ row.sequence < hooks[s].sequence)
  BY <1>2, <1>3, <1>4 DEF is_stale
<1>6. hooks'[s].pc = "load"
  BY <1>1, <1>2 DEF PutPairingSession, HookRecord
<1> QED BY <1>4, <1>5, <1>6

(* A hook that moves, while the row stays or advances by a put of session  *)
(* t.                                                                      *)
LEMMA StandsStep ==
  ASSUME PairInv, StandInv, [Next]_vars, NEW s \in Sessions
  PROVE  StandsOK(s, hooks[s])'
<1> DEFINE h == hooks[s]
           k == hooks'[s]
<1>1. /\ h \in HookRecord /\ HookOK(s, h, approved, scanned) /\ StandsOK(s, h)
      /\ row.session \in Nat /\ row.sequence \in 1..2 /\ s \in Nat /\ h.sequence \in 1..2
  BY DeviceAssumption DEF PairInv, HooksOK, RowOK, StandInv, Sessions, HookRecord
<1>2. HookMove(s, h, k)
  BY HookMoves
<1>3. \A t \in Sessions : t \in Nat /\ hooks[t].sequence \in 1..2
  BY DeviceAssumption DEF PairInv, HooksOK, Sessions, HookRecord
<1> HIDE DEF h, k
<1>4. /\ k.stage \in {"polling", "approving", "done"} => row.session >= s
      /\ k.stage = "approving" /\ k.pc \in {"put", "load"} => k.sequence = 2
      /\ k.stage = "done" => row.session > s \/ row.sequence = 2
      /\ h.sequence = 2 => k.sequence = 2 /\ k.document = h.document
      /\ k.pc = "load" /\ h.pc = "put" => k.sequence = h.sequence /\ k.document = h.document
  BY <1>1, <1>2 DEF HookMove, Opens, Closes, Moves, Approves, Works, HookOK, StandsOK
<1>5. CASE row' = row
  <2>1. StandsOK(s, k)
    BY <1>1, <1>4 DEF StandsOK
  <2> QED BY <1>5, <2>1 DEF StandsOK, k
<1>6. CASE row' # row
  <2>1. PICK t \in Sessions :
          /\ hooks[t].pc = "put" /\ hooks'[t].pc = "load"
          /\ row' = [session |-> t, sequence |-> hooks[t].sequence,
                     document |-> hooks[t].document]
          /\ row.session < t \/ (row.session = t /\ row.sequence < hooks[t].sequence)
    BY <1>6, RowAdvances
  <2>2. /\ row'.session = t /\ row'.sequence = hooks[t].sequence
        /\ row'.document = hooks[t].document
    BY <2>1
  <2>3. /\ k.stage \in {"polling", "approving", "done"} => row'.session >= s
        /\ k.stage = "done" => row'.session > s \/ row'.sequence = 2
    BY <1>1, <1>3, <1>4, <2>1, <2>2
  <2>4. row'.session = s /\ row'.sequence = 2 => k.sequence = 2 /\ row'.document = k.document
    BY <1>4, <2>1, <2>2 DEF h, k
  <2> QED BY <1>4, <2>3, <2>4 DEF StandsOK, k
<1> QED BY <1>5, <1>6

(* However late the puts of sessions that were given up arrive, an older   *)
(* session never takes the place of one the issuer's screen shows, and the *)
(* row of a session that is done has the document its screen has put.      *)
THEOREM AnswersStand == Spec => []AnsweredStands
<1>1. Init => StandInv
  <2> SUFFICES ASSUME Init, NEW s \in Sessions PROVE StandsOK(s, hooks[s])
    BY DEF StandInv
  <2>1. hooks[s].stage = "unopened" /\ row.session = 0 /\ s # 0
    BY DeviceAssumption DEF Init, ServerInit, NewHook, Sessions
  <2> QED BY <2>1 DEF StandsOK
<1>2. PairInv /\ StandInv /\ [Next]_vars => StandInv'
  BY StandsStep DEF StandInv
<1>3. PairInv /\ StandInv => AnsweredStands
  <2> SUFFICES ASSUME PairInv, StandInv, NEW s \in Sessions
               PROVE  /\ hooks[s].stage \in {"polling", "approving", "done"} => row.session >= s
                      /\ hooks[s].stage = "done" /\ row.session = s
                           => row.document = hooks[s].document
    BY DEF AnsweredStands, get_pairing_session
  <2>1. StandsOK(s, hooks[s]) /\ s \in Nat
    BY DeviceAssumption DEF StandInv, Sessions
  <2> QED BY <2>1 DEF StandsOK
<1> QED BY <1>1, <1>2, <1>3, PairInvariant, PTL DEF Spec
=============================================================================
