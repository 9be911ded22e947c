----------------------------- MODULE EventSync ------------------------------
(***************************************************************************)
(* How the events of one identity travel: devices publish events from      *)
(* concurrent flows, keep them in the memory of rs-core and on disk, push  *)
(* what a server's heads lack and pull what lies beyond their own heads    *)
(* (packages/js-core/src/polycentric-client.ts, packages/rs-core/src:      *)
(* api.rs, sync.rs, client.rs; on the server list_heads, list_events and   *)
(* put_events).                                                            *)
(*                                                                         *)
(* One collection is modelled, and an identity document that authorizes    *)
(* every device, so every event is valid.  A stream is the events of one   *)
(* signer in it.                                                           *)
(***************************************************************************)
EXTENDS Naturals, FiniteSets, FiniteSetsExt

CONSTANTS
  Devices,      \* devices, numbered; the number is also the device's key
  Servers,      \* servers every device is configured with
  Flows,        \* publishing flows that can be under way on one device
  MaxEvents,    \* bound: events published altogether
  PageSize,     \* events in a page of list_events (200 in the code)
  MaxRestarts,  \* bound: times an application is closed and opened
  Partial,      \* the strategies used: {TRUE}, {FALSE} or both
  Failures      \* what goes wrong: "lost" requests, "refused" events

Numbers == 1..MaxEvents

(* `id' stands for content and signature.                                  *)
Event == [signer : Devices, sequence : Numbers, id : Numbers]

ASSUME SyncAssumption ==
  /\ Devices \subseteq Nat /\ Devices \cap Servers = {}
  /\ IsFiniteSet(Devices) /\ IsFiniteSet(Servers)
  /\ MaxEvents \in Nat /\ PageSize \in Nat \ {0} /\ MaxRestarts \in Nat
  /\ Partial \subseteq BOOLEAN /\ Failures \subseteq {"lost", "refused"}

VARIABLES
  core,      \* per device: the EventStore of rs-core, in memory
  disk,      \* per device: the event repository
  flow,      \* per device and flow: its step and the event it signed
  server,    \* per server: rows of the events table
  push,      \* per device and server: a push under way
  pull,      \* per device: a pull under way
  restarts,  \* how often an application was restarted
  built,     \* ids given out
  refused,   \* history: per server, events whose put failed
  authored   \* history: events that reached their author's disk

vars == <<core, disk, flow, server, push, pull, restarts, built, refused, authored>>

-----------------------------------------------------------------------------

SameKey(e, f) == e.signer = f.signer /\ e.sequence = f.sequence

HoldsKeyOf(S, e) == \E f \in S : SameKey(e, f)

(* EventStore::insert_at, and the INSERT of put_events: the first event    *)
(* under a key stays.                                                      *)
InsertNew(S, e) == IF HoldsKeyOf(S, e) THEN S ELSE S \cup {e}

(* The repository's save: the last one does (ON CONFLICT DO UPDATE).       *)
Upsert(S, e) == {f \in S : ~ SameKey(e, f)} \cup {e}

(* The highest sequence number of each stream, 0 for an empty one.         *)
Heads(S) ==
  [d \in Devices |-> Max({0} \cup {e.sequence : e \in {f \in S : f.signer = d}})]

NoHeads == [d \in Devices |-> 0]

(* Slip: the event after the head is skipped too.                          *)
BeyondNext(S, heads) == {e \in S : e.sequence > heads[e.signer] + 1}

Beyond(S, heads) == {e \in S : e.sequence > heads[e.signer]}

(* Slip: the last number instead of the next one.                          *)
last_sequence(S) == Max({0} \cup {e.sequence : e \in S})

(* next_sequence: over the events of all signers.                          *)
next_sequence(S) == 1 + Max({0} \cup {e.sequence : e \in S})

(* Slip: the newest event of a stream is sent first.                       *)
NewestFirst(S) ==
  {e \in S : \A f \in S : \/ e.signer < f.signer
                          \/ e.signer = f.signer /\ e.sequence >= f.sequence}

(* Bundles go stream by stream in ascending order: the next one of S.      *)
First(S) ==
  {e \in S : \A f \in S : \/ e.signer < f.signer
                          \/ e.signer = f.signer /\ e.sequence <= f.sequence}

(* list_events returns PageSize events with the highest sequence numbers,  *)
(* highest first; the order among equal numbers is the database's.         *)
Pages(S) ==
  {P \in SUBSET S : /\ Cardinality(P) = Min({PageSize, Cardinality(S)})
                    /\ \A e \in P, f \in S \ P : f.sequence <= e.sequence}

Highest(P) == {e \in P : \A f \in P : f.sequence <= e.sequence}

IdleFlow == [pc |-> "idle", event |-> {}]
IdlePush == [pc |-> "idle", heads |-> NoHeads, bundles |-> {}]
IdlePull == [pc |-> "idle", heads |-> NoHeads, waiting |-> {}, pages |-> [s \in Servers |-> {}]]

Init ==
  /\ core = [d \in Devices |-> {}]
  /\ disk = [d \in Devices |-> {}]
  /\ flow = [d \in Devices |-> [f \in Flows |-> IdleFlow]]
  /\ server = [s \in Servers |-> {}]
  /\ push = [d \in Devices |-> [s \in Servers |-> IdlePush]]
  /\ pull = [d \in Devices |-> IdlePull]
  /\ restarts = 0 /\ built = 0 /\ authored = {}
  /\ refused = [s \in Servers |-> {}]

-----------------------------------------------------------------------------
(* Publishing.                                                             *)

(* Slip: the event is mirrored into the core before it is on disk.         *)
BuildCopied(d, f) ==
  /\ flow[d][f] = IdleFlow
  /\ built < MaxEvents
  /\ built' = built + 1
  /\ LET e == [signer |-> d, sequence |-> next_sequence(core[d]), id |-> built + 1]
     IN /\ flow' = [flow EXCEPT ![d][f] = [pc |-> "save", event |-> {e}]]
        /\ core' = [core EXCEPT ![d] = InsertNew(@, e)]
  /\ UNCHANGED <<disk, server, push, pull, restarts, refused, authored>>

(* buildEvent takes the next sequence number; the event is then signed,    *)
(* which is awaited.                                                       *)
Build(d, f) ==
  /\ flow[d][f] = IdleFlow
  /\ built < MaxEvents
  /\ built' = built + 1
  /\ flow' = [flow EXCEPT ![d][f] =
       [pc |-> "save",
        event |-> {[signer |-> d, sequence |-> next_sequence(core[d]),
                    id |-> built + 1]}]]
  /\ UNCHANGED <<core, disk, server, push, pull, restarts, refused, authored>>

(* Slip: the event is taken for saved when it is not.                      *)
SaveForgotten(d, f) ==
  /\ flow[d][f].pc = "save"
  /\ authored' = authored \cup flow[d][f].event
  /\ flow' = [flow EXCEPT ![d][f].pc = "copy"]
  /\ UNCHANGED <<core, disk, server, push, pull, restarts, refused, built>>

(* commitEvent saves the event, which is awaited ...                       *)
Save(d, f) ==
  /\ flow[d][f].pc = "save"
  /\ \E e \in flow[d][f].event :
       /\ disk' = [disk EXCEPT ![d] = Upsert(@, e)]
       /\ authored' = authored \cup {e}
  /\ flow' = [flow EXCEPT ![d][f].pc = "copy"]
  /\ UNCHANGED <<core, server, push, pull, restarts, refused, built>>

(* ... and mirrors it into the core.                                       *)
Copy(d, f) ==
  /\ flow[d][f].pc = "copy"
  /\ \E e \in flow[d][f].event : core' = [core EXCEPT ![d] = InsertNew(@, e)]
  /\ flow' = [flow EXCEPT ![d][f] = IdleFlow]
  /\ UNCHANGED <<disk, server, push, pull, restarts, built, refused, authored>>

(* Slip: initialize leaves the core empty.                                 *)
RestartEmpty(d) ==
  /\ restarts < MaxRestarts
  /\ restarts' = restarts + 1
  /\ core' = [core EXCEPT ![d] = {}]
  /\ flow' = [flow EXCEPT ![d] = [f \in Flows |-> IdleFlow]]
  /\ push' = [push EXCEPT ![d] = [s \in Servers |-> IdlePush]]
  /\ pull' = [pull EXCEPT ![d] = IdlePull]
  /\ UNCHANGED <<disk, server, built, authored, refused>>

(* The application is closed; initialize copies the disk into a new core.  *)
Restart(d) ==
  /\ restarts < MaxRestarts
  /\ restarts' = restarts + 1
  /\ core' = [core EXCEPT ![d] = disk[d]]
  /\ flow' = [flow EXCEPT ![d] = [f \in Flows |-> IdleFlow]]
  /\ push' = [push EXCEPT ![d] = [s \in Servers |-> IdlePush]]
  /\ pull' = [pull EXCEPT ![d] = IdlePull]
  /\ UNCHANGED <<disk, server, built, authored, refused>>

-----------------------------------------------------------------------------
(* push_local_events.                                                      *)

(* A full push bundles every local event without asking.                   *)
StartFullPush(d, s) ==
  /\ FALSE \in Partial
  /\ push[d][s] = IdlePush
  /\ push' = [push EXCEPT ![d][s] =
       [IdlePush EXCEPT !.pc = "put", !.bundles = core[d]]]
  /\ UNCHANGED <<core, disk, flow, server, pull, restarts, built, refused, authored>>

(* A partial push asks for the server's heads ...                          *)
RequestHeads(d, s) ==
  /\ TRUE \in Partial
  /\ push[d][s] = IdlePush
  /\ push' = [push EXCEPT ![d][s] =
       [IdlePush EXCEPT !.pc = "bundle", !.heads = Heads(server[s])]]
  /\ UNCHANGED <<core, disk, flow, server, pull, restarts, built, refused, authored>>

(* ... and bundles what lies beyond them (bundle_unsent_events).           *)
Bundle(d, s) ==
  /\ push[d][s].pc = "bundle"
  /\ push' = [push EXCEPT ![d][s] =
       [IdlePush EXCEPT !.pc = "put",
                        !.bundles = Beyond(core[d], push[d][s].heads)]]
  /\ UNCHANGED <<core, disk, flow, server, pull, restarts, built, refused, authored>>

(* put_events handles the events of the batch one by one; a duplicate is   *)
(* answered as success.                                                    *)
Put(d, s) ==
  /\ push[d][s].pc = "put"
  /\ \E e \in First(push[d][s].bundles) :
       /\ server' = [server EXCEPT ![s] = InsertNew(@, e)]
       /\ push' = [push EXCEPT ![d][s].bundles = @ \ {e}]
  /\ UNCHANGED <<core, disk, flow, pull, restarts, built, refused, authored>>

(* One event of the batch fails; its error is logged by the client.        *)
Refuse(d, s) ==
  /\ "refused" \in Failures
  /\ push[d][s].pc = "put"
  /\ \E e \in First(push[d][s].bundles) :
       /\ refused' = [refused EXCEPT ![s] = @ \cup {e}]
       /\ push' = [push EXCEPT ![d][s].bundles = @ \ {e}]
  /\ UNCHANGED <<core, disk, flow, server, pull, restarts, built, authored>>

EndPush(d, s) ==
  /\ push[d][s].pc = "put" /\ push[d][s].bundles = {}
  /\ push' = [push EXCEPT ![d][s] = IdlePush]
  /\ UNCHANGED <<core, disk, flow, server, pull, restarts, built, refused, authored>>

(* The server dies, or the connection does, somewhere in the exchange.     *)
LosePush(d, s) ==
  /\ "lost" \in Failures
  /\ push[d][s].pc # "idle"
  /\ push' = [push EXCEPT ![d][s] = IdlePush]
  /\ UNCHANGED <<core, disk, flow, server, pull, restarts, built, refused, authored>>

-----------------------------------------------------------------------------
(* pull.                                                                   *)

(* Every server is asked for what lies beyond the heads on disk, or for    *)
(* everything.                                                             *)
StartPull(d, partial) ==
  /\ pull[d] = IdlePull
  /\ pull' = [pull EXCEPT ![d] =
       [IdlePull EXCEPT !.pc = "list", !.waiting = Servers,
                        !.heads = IF partial THEN Heads(disk[d]) ELSE NoHeads]]
  /\ UNCHANGED <<core, disk, flow, server, push, restarts, built, refused, authored>>

(* A page arrives and is copied into the core (copy_bundles).              *)
Reply(d, s) ==
  /\ pull[d].pc = "list" /\ s \in pull[d].waiting
  /\ \E page \in Pages(Beyond(server[s], pull[d].heads)) :
       /\ pull' = [pull EXCEPT ![d].waiting = @ \ {s}, ![d].pages[s] = page]
       /\ core' = [core EXCEPT ![d] = @ \cup {e \in page : ~ HoldsKeyOf(@, e)}]
  /\ UNCHANGED <<disk, flow, server, push, restarts, built, refused, authored>>

(* A request that fails rejects listEvents, and the pull with it: nothing  *)
(* is saved.  Only when it is the last of several to report is the settled *)
(* result of the others emitted before its error, and the pull goes on.    *)
(* (The replies a rejected pull still awaits are left out: they would only *)
(* enter the core.)                                                        *)
LoseReply(d, s) ==
  /\ "lost" \in Failures
  /\ pull[d].pc = "list" /\ s \in pull[d].waiting
  /\ pull' = [pull EXCEPT ![d] = IF pull[d].waiting = {s} /\ Servers # {s}
                                 THEN [pull[d] EXCEPT !.waiting = {}] ELSE IdlePull]
  /\ UNCHANGED <<core, disk, flow, server, push, restarts, built, refused, authored>>

(* trySaveBundle, event by event in the order of a page; which server's    *)
(* page comes first is left open.  The look-up and the save are one step:  *)
(* an event on a server is on its author's disk already, so no flow can    *)
(* save one under that key in between.                                     *)
SavePulled(d, s) ==
  /\ pull[d].pc = "list" /\ pull[d].waiting = {}
  /\ \E e \in Highest(pull[d].pages[s]) :
       /\ disk' = [disk EXCEPT ![d] = InsertNew(@, e)]
       /\ pull' = [pull EXCEPT ![d].pages[s] = @ \ {e}]
  /\ UNCHANGED <<core, flow, server, push, restarts, built, refused, authored>>

EndPull(d) ==
  /\ pull[d].pc = "list" /\ pull[d].waiting = {}
  /\ \A s \in Servers : pull[d].pages[s] = {}
  /\ pull' = [pull EXCEPT ![d] = IdlePull]
  /\ UNCHANGED <<core, disk, flow, server, push, restarts, built, refused, authored>>

-----------------------------------------------------------------------------

FlowStep(d, f) == Build(d, f) \/ Save(d, f) \/ Copy(d, f)

(* A sync of device d: its push to server s and its pull start ...         *)
StartPush(d, s) == StartFullPush(d, s) \/ RequestHeads(d, s)

StartSomePull(d) == \E partial \in Partial : StartPull(d, partial)

(* ... and go on.                                                          *)
PushGoesOn(d, s) == Bundle(d, s) \/ Put(d, s) \/ EndPush(d, s)

PullGoesOn(d) == (\E s \in Servers : Reply(d, s) \/ SavePulled(d, s)) \/ EndPull(d)

PushStep(d, s) == StartPush(d, s) \/ PushGoesOn(d, s)

PullStep(d) == StartSomePull(d) \/ PullGoesOn(d)

Next ==
  \E d \in Devices :
    \/ \E f \in Flows : FlowStep(d, f)
    \/ \E s \in Servers : PushStep(d, s) \/ Refuse(d, s) \/ LosePush(d, s)
                            \/ LoseReply(d, s)
    \/ PullStep(d)
    \/ Restart(d)

Spec == Init /\ [][Next]_vars

(* What was started goes on: publishing, pushes and pulls are awaited      *)
(* calls.  Nothing makes a device start a sync: the application does so    *)
(* when it opens, when the identity is switched and when the user acts.    *)
Fairness ==
  \A d \in Devices :
    /\ \A f \in Flows : WF_vars(Save(d, f) \/ Copy(d, f))
    /\ \A s \in Servers : WF_vars(PushGoesOn(d, s))
    /\ WF_vars(PullGoesOn(d))

FairSpec == Spec /\ Fairness

-----------------------------------------------------------------------------
(* Properties.                                                             *)

HeadVector == [Devices -> 0..MaxEvents]

FlowRecord == [pc : {"idle", "save", "copy"}, event : SUBSET Event]
PushRecord == [pc : {"idle", "bundle", "put"}, heads : HeadVector, bundles : SUBSET Event]
PullRecord == [pc : {"idle", "list"}, heads : HeadVector, waiting : SUBSET Servers,
               pages : [Servers -> SUBSET Event]]

(* Stores and tasks have their types: no sequence number exceeds the       *)
(* number of events published.                                             *)
TypeOK ==
  /\ core \in [Devices -> SUBSET Event] /\ disk \in [Devices -> SUBSET Event]
  /\ server \in [Servers -> SUBSET Event] /\ refused \in [Servers -> SUBSET Event]
  /\ flow \in [Devices -> [Flows -> FlowRecord]]
  /\ push \in [Devices -> [Servers -> PushRecord]]
  /\ pull \in [Devices -> PullRecord]
  /\ authored \subseteq Event
  /\ restarts \in 0..MaxRestarts /\ built \in 0..MaxEvents

(* No two events ever share a key: what a device signs under a sequence    *)
(* number it signs once, through restarts, lost requests and pulls of its  *)
(* own events.                                                             *)
KeysUnique == \A e, f \in authored : SameKey(e, f) => e = f

(* The stores that survive implement grow-only replication.                *)
Replication ==
  INSTANCE EventReplication WITH
    Stores <- Devices \cup Servers,
    held <- [s \in Devices \cup Servers |->
               IF s \in Devices THEN disk[s] ELSE server[s]]

Replicates == Replication!Spec

(* A server that holds an event holds every earlier one of its stream that *)
(* it did not refuse, whatever was cut off, restarted or built from stale  *)
(* heads: asking for the heads is then enough to find out what it lacks.   *)
(* (Of the only server: with several, a device may fetch the newest page   *)
(* of a stream from one and push just that to another.)                    *)
ServersHoldPrefixes ==
  \A s \in Servers : \A e \in server[s] : \A f \in authored \ refused[s] :
    f.signer = e.signer /\ f.sequence < e.sequence => f \in server[s]

(* A device knows of every event it published.                             *)
OwnEventsKept ==
  \A d \in Devices : \A e \in authored : e.signer = d => e \in disk[d]

(* Every device starts a push to every server and a pull again and again.  *)
KeepSyncing ==
  \A d \in Devices :
    /\ \A s \in Servers : []<><<StartPush(d, s)>>_vars
    /\ []<><<StartSomePull(d)>>_vars

(* Clients and servers converge: as long as the devices keep syncing, an   *)
(* event that was published reaches every device and every server.         *)
Converges ==
  KeepSyncing =>
    \A id \in Numbers : (\E e \in authored : e.id = id) ~>
      \E e \in authored :
        /\ e.id = id
        /\ \A d \in Devices : e \in disk[d]
        /\ \A s \in Servers : e \in server[s]
=============================================================================
