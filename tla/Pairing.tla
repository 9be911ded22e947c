------------------------------ MODULE Pairing ------------------------------
(* Pairing a device with an identity.  A device that holds a rotation key,  *)
(* the issuer, opens a session on a server and shows its code; claimers     *)
(* scan it and join; the user approves one on the issuer, which adds its    *)
(* key to the identity document and updates the session; the claimer sees   *)
(* that, verifies the chain, adopts the identity and republishes the        *)
(* document under its own key.  Both hooks are Harbor's                     *)
(* (features/identity-pairing/hooks), the documents are published by        *)
(* js-core's identity manager, the chain is IdentityChain's.                *)
(*                                                                          *)
(* One server, which holds whatever identity events reach it.  A device is  *)
(* named by its key.  A step ends where the code awaits a call to the       *)
(* server; what a flow does locally between two calls is one step.          *)
EXTENDS IdentityChain, PairingServer

CONSTANTS
  Issuer,      \* the device of the genesis document
  Claimers,    \* devices to pair
  MaxSessions, \* bound on the sessions opened
  Settings     \* the settings to check, see Setting

\* Bounds and choices of a run: sessions opened, claimers that take part,
\* roles the user grants, changes made in the settings screen meanwhile,
\* whether sessions expire and claimers go back, calls that fail, and the
\* length of the chain.  Nothing in the code bounds sessions, failures or
\* the chain.
Setting(s) ==
  /\ s.sessions \in 0..MaxSessions /\ s.claimers \subseteq Claimers
  /\ s.roles \subseteq {"rotation", "signing"}
  /\ s.edits \subseteq {"add_server", "remove_server", "remove_key"}
  /\ s.mishaps \subseteq {"expiry", "going_back"}
  /\ s.failures \in Nat /\ s.length \in Nat

ASSUME DeviceAssumption ==
  /\ MaxSessions \in Nat
  /\ Issuer \in Keys /\ Claimers \subseteq Keys \ {Issuer}
  /\ \A s \in Settings : Setting(s)

\* Documents are closed under the changes of the identity manager.  The
\* server list is 0 as it was at first, 1 with one more server.
ASSUME DocsClosed ==
  /\ \A R, S \in SUBSET Claimers, servers \in {0, 1} :
       \E d \in Docs : d.rotation_keys = {Issuer} \cup R /\ d.signing_keys = S
                       /\ d.rest = servers
  /\ \E d \in Docs : d.hash = Identity /\ d.rotation_keys = {Issuer}
                     /\ d.signing_keys = {} /\ d.rest = 0

Sessions == 1..MaxSessions

VARIABLES
  setting,   \* the setting of this run
  known,     \* identity events in the core of each device
  served,    \* identity events on the server
  hooks,     \* usePairIdentityIssuer, one per session: the screen was opened
  claimers,  \* usePairIdentityClaimer of each claimer
  active,    \* has the claimer the identity as its active one
  edit,      \* a change of the settings screen under way on the issuer
  expired,   \* sessions whose time is over
  failures,  \* calls that failed
  approved,  \* history: <<session, key>> the user approved
  scanned    \* history: <<session, key>> whose code was scanned

coreVars == <<known, served>>
claimVars == <<claimers, active>>
history == <<approved, scanned>>
vars == <<setting, coreVars, serverVars, hooks, claimVars, edit, expired, failures, history>>

----------------------------------------------------------------------------
(* The identity.                                                            *)

Chain(events) == resolve_chain(SetToSeq(events))

Latest(events) == Last(Chain(events))

Authorizes(events, key) == authorizes_signer(Latest(events).document, key)

\* A document with these keys and servers; other fields stay as they are.
DocumentWith(rotation, signing, servers) ==
  CHOOSE d \in Docs : d.rotation_keys = rotation /\ d.signing_keys = signing
                      /\ d.rest = servers

GenesisDocument == CHOOSE d \in Docs : d.hash = Identity

GenesisEvent ==
  [sequence |-> 1, signer |-> Issuer, document |-> GenesisDocument, intact |-> TRUE]

\* addSigningKey, addRotationKey
(* Slip: the list of signing keys is replaced, not extended.                *)
WithOnlyKey(doc, key, role) ==
  IF role = "signing" THEN DocumentWith(doc.rotation_keys, {key}, doc.rest)
  ELSE DocumentWith(doc.rotation_keys \cup {key}, doc.signing_keys, doc.rest)

WithKey(doc, key, role) ==
  IF role = "signing" THEN DocumentWith(doc.rotation_keys, doc.signing_keys \cup {key}, doc.rest)
  ELSE DocumentWith(doc.rotation_keys \cup {key}, doc.signing_keys, doc.rest)

\* removeSigningKey, removeRotationKey
WithoutKey(doc, key) ==
  DocumentWith(doc.rotation_keys \ {key}, doc.signing_keys \ {key}, doc.rest)

WithServers(doc, servers) == DocumentWith(doc.rotation_keys, doc.signing_keys, servers)

\* publish up to commitEvent: the event follows the head the device knows.
Published(events, signer, doc) ==
  events \cup {[sequence |-> Latest(events).sequence + 1, signer |-> signer,
                document |-> doc, intact |-> TRUE]}

\* What the server holds once a device has pushed: one event per signer and
\* sequence number.
Pushed(events) ==
  served \cup {e \in events : \A f \in served : f.signer # e.signer \/ f.sequence # e.sequence}

----------------------------------------------------------------------------
NewHook == [stage |-> "unopened", canceled |-> FALSE, pc |-> "idle", claimers |-> {},
            key |-> NoKey, role |-> "signing", sequence |-> 1, document |-> GenesisDocument,
            response |-> 0]

NewClaimer == [stage |-> "unstarted", pc |-> "idle", session |-> 0]

Init ==
  /\ setting \in Settings
  /\ known = [d \in {Issuer} \cup Claimers |-> IF d = Issuer THEN {GenesisEvent} ELSE {}]
  /\ served = {GenesisEvent}
  /\ ServerInit(GenesisDocument)
  /\ hooks = [s \in Sessions |-> NewHook]
  /\ claimers = [c \in Claimers |-> NewClaimer]
  /\ active = [c \in Claimers |-> FALSE]
  /\ edit = [pc |-> "idle", document |-> GenesisDocument]
  /\ expired = {}
  /\ failures = 0
  /\ approved = {}
  /\ scanned = {}

MayFail == failures < setting.failures /\ failures' = failures + 1

MayPublish == Latest(known[Issuer]).sequence < setting.length

----------------------------------------------------------------------------
(* The issuer's hook.                                                       *)

\* putState: the document that goes with the session is the head known now.
Putting(hook, events, sequence) ==
  [hook EXCEPT !.pc = "put", !.sequence = sequence, !.document = Latest(events).document]

Failed(hook) == [hook EXCEPT !.stage = "error", !.pc = "idle"]

\* The screen opens: createAndWatchSession.
OpenScreen(s) ==
  /\ hooks[s].stage = "unopened"
  /\ s <= setting.sessions /\ \A t \in Sessions : t < s => hooks[t].canceled
  /\ hooks' = [hooks EXCEPT ![s] = Putting([@ EXCEPT !.stage = "creating"], known[Issuer], 1)]
  /\ UNCHANGED <<setting, coreVars, serverVars, claimVars, edit, expired, failures, history>>

\* The screen closes; a flow under way goes on and finds out when it checks.
CloseScreen(s) ==
  /\ hooks[s].stage # "unopened" /\ ~ hooks[s].canceled
  /\ hooks' = [hooks EXCEPT ![s].canceled = TRUE]
  /\ UNCHANGED <<setting, coreVars, serverVars, claimVars, edit, expired, failures, history>>

\* put_pairing_session on the server.  The signer's authorization is read
\* before the transaction; no step here removes the issuer's key, so the
\* refusal does not occur.
PutPairingSession(s) ==
  /\ hooks[s].pc = "put"
  /\ authorizes_rotation(Latest(served).document, Issuer)
  /\ PutIssuerState(s, hooks[s].sequence, hooks[s].document)
  /\ hooks' = [hooks EXCEPT ![s].pc = "load",
                            ![s].response = IF is_stale(s, hooks[s].sequence)
                                            THEN row.session ELSE s]
  /\ UNCHANGED <<setting, coreVars, claimVars, edit, expired, failures, history>>

\* load_session_state after the commit, and open_state on the device.
PutAnswered(s) ==
  LET hook == hooks[s]
      ok   == /\ hook.response = s /\ get_pairing_session(s)
              /\ row.sequence >= hook.sequence /\ s \notin expired
  IN /\ hook.pc = "load"
     /\ hooks' = [hooks EXCEPT ![s] =
          CASE ~ ok -> Failed(hook)
            [] ok /\ hook.stage = "approving" -> [hook EXCEPT !.stage = "done", !.pc = "idle"]
            [] ok /\ hook.stage = "creating" ->
                 [hook EXCEPT !.stage = IF hook.canceled THEN @ ELSE "polling", !.pc = "idle"]]
     /\ UNCHANGED <<setting, coreVars, serverVars, claimVars, edit, expired, failures,
                    history>>

\* A put whose request or answer is lost, or that the server refuses
\* because it comes more than a minute late.
PutFails(s) ==
  /\ hooks[s].pc \in {"put", "load"} /\ MayFail
  /\ hooks' = [hooks EXCEPT ![s] = Failed(@)]
  /\ UNCHANGED <<setting, coreVars, serverVars, claimVars, edit, expired, history>>

\* pollForClaimers: any failure while polling ends the hook.
PollForClaimers(s) ==
  LET hook == hooks[s]
      ok   == get_pairing_session(s) /\ s \notin expired
  IN /\ hook.stage = "polling" /\ ~ hook.canceled
     /\ \/ ok /\ hooks' = [hooks EXCEPT ![s].claimers = @ \cup list_claimers(s)]
        \/ ~ ok /\ hooks' = [hooks EXCEPT ![s] = Failed(@)]
     /\ UNCHANGED <<setting, coreVars, serverVars, claimVars, edit, expired, failures,
                    history>>

PollForClaimersFails(s) ==
  /\ hooks[s].stage = "polling" /\ ~ hooks[s].canceled /\ MayFail
  /\ hooks' = [hooks EXCEPT ![s] = Failed(@)]
  /\ UNCHANGED <<setting, coreVars, serverVars, claimVars, edit, expired, history>>

\* approveClaimer, up to the pull.
Approve(s, key, role) ==
  /\ hooks[s].stage = "polling" /\ ~ hooks[s].canceled /\ s \notin expired
  /\ key \in hooks[s].claimers /\ MayPublish
  /\ hooks' = [hooks EXCEPT ![s].stage = "approving", ![s].pc = "pull",
                            ![s].key = key, ![s].role = role]
  /\ approved' = approved \cup {<<s, key>>}
  /\ UNCHANGED <<setting, coreVars, serverVars, claimVars, edit, expired, failures, scanned>>

(* Slip: the state goes out with the number of the stored one.              *)
NextStateSame(hook, events) == Putting(hook, events, hook.sequence)

(* Slip: the number is advanced here and again by the caller.               *)
NextStateTwice(hook, events) == Putting(hook, events, hook.sequence + 2)

\* updatePairingSession: the state after the stored one.
NextState(hook, events) == Putting(hook, events, hook.sequence + 1)

(* Slip: the session is updated without waiting for the push.               *)
AfterCommitPut(hook, events) == NextState(hook, events)

AfterCommit(hook, events) == [hook EXCEPT !.pc = "push"]

\* The pull ends: the key is added, unless the screen is closed or the key
\* is authorized already.
ApprovePulled(s) ==
  LET hook   == hooks[s]
      pulled == known[Issuer] \cup served
      doc    == Latest(pulled).document
      events == Published(pulled, Issuer, WithKey(doc, hook.key, hook.role))
  IN /\ hook.pc = "pull"
     /\ \/ /\ hook.canceled
           /\ known' = [known EXCEPT ![Issuer] = pulled]
           /\ hooks' = [hooks EXCEPT ![s].pc = "idle"]
        \/ /\ ~ hook.canceled /\ authorizes_signer(doc, hook.key)
           /\ known' = [known EXCEPT ![Issuer] = pulled]
           /\ hooks' = [hooks EXCEPT ![s] = NextState(hook, pulled)]
        \/ /\ ~ hook.canceled /\ ~ authorizes_signer(doc, hook.key)
           /\ authorizes_rotation(doc, Issuer)
           /\ known' = [known EXCEPT ![Issuer] = events]
           /\ hooks' = [hooks EXCEPT ![s] = AfterCommit(hook, events)]
     /\ UNCHANGED <<setting, served, serverVars, claimVars, edit, expired, failures, history>>

ApprovePullFails(s) ==
  /\ hooks[s].pc = "pull" /\ MayFail
  /\ hooks' = [hooks EXCEPT ![s] = Failed(@)]
  /\ UNCHANGED <<setting, coreVars, serverVars, claimVars, edit, expired, history>>

\* The push ends; a failed one is only logged.
ApprovePushed(s) ==
  /\ hooks[s].pc = "push"
  /\ \/ served' = Pushed(known[Issuer]) /\ UNCHANGED failures
     \/ MayFail /\ UNCHANGED served
  /\ hooks' = [hooks EXCEPT ![s] = NextState(@, known[Issuer])]
  /\ UNCHANGED <<setting, known, serverVars, claimVars, edit, expired, history>>

----------------------------------------------------------------------------
(* The claimer's hook.                                                      *)

Advance(c, stage, pc) == claimers' = [claimers EXCEPT ![c].stage = stage, ![c].pc = pc]

\* The code on the issuer's screen is scanned.
Scan(c, s) ==
  /\ claimers[c].stage = "unstarted"
  /\ hooks[s].stage \in {"polling", "approving"} /\ ~ hooks[s].canceled
  /\ claimers' = [claimers EXCEPT ![c] = [stage |-> "joining", pc |-> "get", session |-> s]]
  /\ scanned' = scanned \cup {<<s, c>>}
  /\ UNCHANGED <<setting, coreVars, serverVars, hooks, active, edit, expired, failures,
                 approved>>

\* getPairingSession, then the lookup of join_pairing_session: both need the
\* session to be the stored one.
JoinLooksUp(c) ==
  LET ok == get_pairing_session(claimers[c].session)
  IN /\ claimers[c].pc \in {"get", "lookup"}
     /\ \/ ok /\ claimers[c].pc = "get" /\ claimers[c].session \notin expired
           /\ Advance(c, "joining", "lookup")
        \/ ok /\ claimers[c].pc = "lookup" /\ Advance(c, "joining", "add")
        \/ /\ ~ ok \/ (claimers[c].pc = "get" /\ claimers[c].session \in expired)
           /\ Advance(c, "error", "join")
     /\ UNCHANGED <<setting, coreVars, serverVars, hooks, active, edit, expired, failures,
                    history>>

\* The row of join_pairing_session, whatever became of the session since the
\* lookup.
JoinAdds(c) ==
  /\ claimers[c].pc = "add"
  /\ AddClaimer(claimers[c].session, c)
  /\ Advance(c, "joining", "listed")
  /\ UNCHANGED <<setting, coreVars, hooks, active, edit, expired, failures, history>>

\* Its answer, with the claimers listed by a statement of its own, and
\* open_state and the look for the own key on the device: a newer session may
\* have cleared the row in between.
JoinListed(c) ==
  LET ok == c \in list_claimers(claimers[c].session) /\ claimers[c].session \notin expired
  IN /\ claimers[c].pc = "listed"
     /\ \/ ok /\ Advance(c, "polling", "idle")
        \/ ~ ok /\ Advance(c, "error", "join")
     /\ UNCHANGED <<setting, coreVars, serverVars, hooks, active, edit, expired, failures,
                    history>>

JoinFails(c) ==
  /\ claimers[c].stage = "joining" /\ MayFail
  /\ Advance(c, "error", "join")
  /\ UNCHANGED <<setting, coreVars, serverVars, hooks, active, edit, expired, history>>

\* pollForAuthorization: does_issuer_authorize on the stored document.  A
\* poll that fails, finds no session or no authorization changes nothing.
PollForAuthorization(c) ==
  /\ claimers[c].stage = "polling"
  /\ get_pairing_session(claimers[c].session) /\ claimers[c].session \notin expired
  /\ authorizes_signer(row.document, c)
  /\ Advance(c, "claiming", "list")
  /\ UNCHANGED <<setting, coreVars, serverVars, hooks, active, edit, expired, failures,
                 history>>

(* Slip: what the claim changed stays.                                      *)
RolledBackKept(c) == active

\* The catch of claim: the previous identity is made active again.
RolledBack(c) == [active EXCEPT ![c] = FALSE]

\* claim: the chain is listed, then events are pulled; each time the key
\* must be authorized by what the device knows then.  setActiveIdentityKey
\* follows the first check, the publication of the login the second.
ClaimListed(c) ==
  LET events == known[c] \cup served
  IN /\ claimers[c].pc = "list"
     /\ \/ /\ Authorizes(events, c)
           /\ active' = [active EXCEPT ![c] = TRUE]
           /\ Advance(c, "claiming", "pull")
        \/ /\ ~ Authorizes(events, c)
           /\ active' = RolledBack(c)
           /\ Advance(c, "error", "claim")
     /\ known' = [known EXCEPT ![c] = events]
     /\ UNCHANGED <<setting, served, serverVars, hooks, edit, expired, failures, history>>

ClaimPulled(c) ==
  LET events == known[c] \cup served
  IN /\ claimers[c].pc = "pull"
     /\ \/ /\ Authorizes(events, c)
           /\ known' = [known EXCEPT ![c] =
                           Published(events, c, Latest(events).document)]
           /\ Advance(c, "claiming", "push")
           /\ UNCHANGED active
        \/ /\ ~ Authorizes(events, c)
           /\ known' = [known EXCEPT ![c] = events]
           /\ active' = RolledBack(c)
           /\ Advance(c, "error", "claim")
     /\ UNCHANGED <<setting, served, serverVars, hooks, edit, expired, failures, history>>

ClaimFails(c) ==
  /\ claimers[c].pc \in {"list", "pull"} /\ MayFail
  /\ active' = RolledBack(c)
  /\ Advance(c, "error", "claim")
  /\ UNCHANGED <<setting, coreVars, serverVars, hooks, edit, expired, history>>

\* The push of the login ends, or fails and is only logged.
ClaimPushed(c) ==
  /\ claimers[c].pc = "push"
  /\ \/ served' = Pushed(known[c]) /\ UNCHANGED failures
     \/ MayFail /\ UNCHANGED served
  /\ Advance(c, "done", "idle")
  /\ UNCHANGED <<setting, known, serverVars, hooks, active, edit, expired, history>>

\* Going back after an error, or leaving the screen while it waits.
GoBack(c) ==
  /\ claimers[c].stage \in {"polling", "error"} /\ "going_back" \in setting.mishaps
  /\ claimers' = [claimers EXCEPT ![c] = NewClaimer]
  /\ UNCHANGED <<setting, coreVars, serverVars, hooks, active, edit, expired, failures,
                 history>>

----------------------------------------------------------------------------
(* The settings screen of the issuer, meanwhile.                            *)

\* addServer reads the document, then waits for the new server's GetInfo.
AddServer ==
  /\ "add_server" \in setting.edits /\ edit.pc = "idle"
  /\ Latest(known[Issuer]).document.rest = 0
  /\ edit' = [pc |-> "info", document |-> Latest(known[Issuer]).document]
  /\ UNCHANGED <<setting, coreVars, serverVars, hooks, claimVars, expired, failures, history>>

EditPublishes(doc) ==
  /\ MayPublish
  /\ authorizes_rotation(Latest(known[Issuer]).document, Issuer)
  /\ known' = [known EXCEPT ![Issuer] = Published(@, Issuer, doc)]
  /\ edit' = [edit EXCEPT !.pc = "push"]
  /\ UNCHANGED <<setting, served, serverVars, hooks, claimVars, expired, failures, history>>

ServerAnswers == edit.pc = "info" /\ EditPublishes(WithServers(edit.document, 1))

ServerFails ==
  /\ edit.pc = "info" /\ MayFail
  /\ edit' = [edit EXCEPT !.pc = "idle"]
  /\ UNCHANGED <<setting, coreVars, serverVars, hooks, claimVars, expired, history>>

RemoveServer ==
  /\ "remove_server" \in setting.edits /\ edit.pc = "idle"
  /\ Latest(known[Issuer]).document.rest = 1
  /\ EditPublishes(WithServers(Latest(known[Issuer]).document, 0))

RemoveKey(key) ==
  /\ "remove_key" \in setting.edits /\ edit.pc = "idle"
  /\ Authorizes(known[Issuer], key)
  /\ EditPublishes(WithoutKey(Latest(known[Issuer]).document, key))

EditPushed ==
  /\ edit.pc = "push"
  /\ \/ served' = Pushed(known[Issuer]) /\ UNCHANGED failures
     \/ MayFail /\ UNCHANGED served
  /\ edit' = [edit EXCEPT !.pc = "idle"]
  /\ UNCHANGED <<setting, known, serverVars, hooks, claimVars, expired, history>>

\* Five minutes after a session was created.
Expire(s) ==
  /\ hooks[s].stage # "unopened" /\ s \notin expired /\ "expiry" \in setting.mishaps
  /\ expired' = expired \cup {s}
  /\ UNCHANGED <<setting, coreVars, serverVars, hooks, claimVars, edit, failures, history>>

----------------------------------------------------------------------------
IssuerWorks(s) ==
  PutPairingSession(s) \/ PutAnswered(s) \/ ApprovePulled(s) \/ ApprovePushed(s)

ClaimerWorks(c) ==
  \/ JoinLooksUp(c) \/ JoinAdds(c) \/ JoinListed(c) \/ PollForAuthorization(c)
  \/ ClaimListed(c) \/ ClaimPulled(c) \/ ClaimPushed(c)

Next ==
  \/ \E s \in Sessions :
       \/ IssuerWorks(s) \/ OpenScreen(s) \/ CloseScreen(s) \/ PutFails(s)
       \/ PollForClaimers(s) \/ PollForClaimersFails(s) \/ ApprovePullFails(s) \/ Expire(s)
       \/ \E c \in setting.claimers, role \in setting.roles : Approve(s, c, role)
       \/ \E c \in setting.claimers : Scan(c, s)
  \/ \E c \in setting.claimers :
       ClaimerWorks(c) \/ JoinFails(c) \/ ClaimFails(c) \/ GoBack(c) \/ RemoveKey(c)
  \/ AddServer \/ ServerAnswers \/ ServerFails \/ RemoveServer \/ EditPushed

Spec == Init /\ [][Next]_vars

\* A waiting claimer polls every two seconds, whatever happens to single
\* polls.
FairSpec == Spec /\ \A c \in Claimers : WF_vars(PollForAuthorization(c))

----------------------------------------------------------------------------
(* Properties.                                                              *)

Devices == {Issuer} \cup Claimers

TypeOK ==
  /\ setting \in Settings
  /\ known \in [Devices -> SUBSET Candidate] /\ served \subseteq Candidate
  /\ row \in [session : 0..MaxSessions, sequence : 1..2, document : Docs]
  /\ joined \subseteq Sessions \X Claimers
  /\ hooks \in [Sessions ->
       [stage : {"unopened", "creating", "polling", "approving", "done", "error"},
        canceled : BOOLEAN, pc : {"idle", "put", "load", "pull", "push"},
        claimers : SUBSET Claimers, key : Claimers \cup {NoKey},
        role : {"rotation", "signing"}, sequence : 1..2, document : Docs,
        response : 0..MaxSessions]]
  /\ claimers \in [Claimers ->
       [stage : {"unstarted", "joining", "polling", "claiming", "done", "error"},
        pc : {"idle", "get", "lookup", "add", "listed", "list", "pull", "push", "join",
              "claim"},
        session : 0..MaxSessions]]
  /\ active \in [Claimers -> BOOLEAN]
  /\ edit \in [pc : {"idle", "info", "push"}, document : Docs]
  /\ expired \subseteq Sessions /\ failures \in Nat
  /\ approved \subseteq Sessions \X Claimers /\ scanned \subseteq Sessions \X Claimers

ApprovedKeys == {a[2] : a \in approved}

DocumentKeys(doc) == doc.rotation_keys \cup doc.signing_keys

\* Nobody gets into the identity but by a code he scanned and an approval in
\* that very session: joins that arrive late, when another session has taken
\* the place of theirs, never show up in it (clear_claimers, list_claimers),
\* and every key of every document any device or the server holds, and every
\* device that completed a claim, was approved so.
OnlyApprovedPaired ==
  /\ approved \subseteq scanned
  /\ \A e \in served \cup UNION {known[d] : d \in Devices} :
       DocumentKeys(e.document) \subseteq {Issuer} \cup ApprovedKeys
  /\ DocumentKeys(row.document) \subseteq {Issuer} \cup ApprovedKeys
  /\ \A c \in Claimers : claimers[c].stage = "done" => c \in ApprovedKeys

\* What the server has answered to the issuer stays so, however late the puts
\* of sessions that were given up arrive: an older session never takes the
\* place of one that is shown, and while the row is that of a session whose
\* screen says done, it has the document that screen has put (is_stale).
AnsweredStands ==
  \A s \in Sessions :
    /\ hooks[s].stage \in {"polling", "approving", "done"} => row.session >= s
    /\ hooks[s].stage = "done" /\ get_pairing_session(s) => row.document = hooks[s].document

\* The claim leaves the device with the identity active exactly when it has
\* completed, or is past the check that adopts it; an error at any point
\* gives the previous identity back (the catch of claim).  A device that has
\* completed holds an identity event of its own that authorizes it, without
\* which it cannot build events ("broken pairing?", polycentric-client.ts).
ActiveIffClaimed ==
  \A c \in Claimers :
    /\ active[c] <=> \/ claimers[c].stage = "done"
                     \/ claimers[c].stage = "claiming" /\ claimers[c].pc # "list"
    /\ claimers[c].stage = "done" =>
         \E e \in known[c] : e.signer = c /\ authorizes_signer(e.document, c)

\* No change of the settings screen interferes, and no claimer gets a
\* rotation key (whose login counts as a rotation).
PairingAlone == setting.edits = {} /\ setting.roles \subseteq {"signing"}

\* An approval the issuer reports as done stays in the identity, whatever
\* logins of other claimers arrive meanwhile or later, and whatever sessions
\* follow or are given up.
ApprovalKept ==
  PairingAlone =>
    \A s \in Sessions :
      hooks[s].stage = "done" => Authorizes(known[Issuer] \cup served, hooks[s].key)

\* The issuer publishes the key before it updates the session: as long as no
\* call fails, a claimer that has seen the approval is never told that it is
\* not authorized ("Unable to verify authorization", identity-manager.ts).
\* The exception is one approved in an earlier session, too: the document of
\* a new session may be ahead of the push that the old one waits for.
ApprovalPublishedFirst ==
  PairingAlone /\ failures = 0 =>
    \A c \in Claimers :
      claimers[c].stage = "error" /\ claimers[c].pc = "claim" =>
        \E t \in Sessions : t < claimers[c].session /\ <<t, c>> \in approved

\* A login by a signing key never changes what the identity says, however
\* late it arrives and whatever was published meanwhile (a republication has
\* the lowest precedence among successors, identity.rs), while the issuer
\* holds the only rotation key: the login of another rotation key counts as
\* a rotation, and a later login may join events that follow it to the chain.
LoginKeepsIdentity ==
  [][ LET new == served' \ served
          doc == Latest(served).document
      IN (/\ new # {} /\ \A e \in new : e.signer \in doc.signing_keys
          /\ \A e \in served : e.document.rotation_keys = {Issuer})
           => IdentityContent(Latest(served').document) = IdentityContent(doc) ]_vars

\* When the issuer says that a waiting claimer is paired ("Your other device
\* should see the approval soon", PairIdentityIssuerScreen.tsx), the claimer
\* is told, unless the session expires or another takes its place.
PairingSettles ==
  \A s \in Sessions, c \in Claimers :
    (/\ PairingAlone
     /\ hooks[s].stage = "done" /\ hooks[s].key = c
     /\ claimers[c].stage = "polling" /\ claimers[c].session = s)
      ~> claimers[c].stage # "polling" \/ s \in expired \/ ~ get_pairing_session(s)
============================================================================
