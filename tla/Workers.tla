------------------------------ MODULE Workers ------------------------------
(* What happens to an event after it is stored.  put_events sends it to    *)
(* the events topic of a message broker, which two workers of the server   *)
(* consume: one counts reactions to addresses outside the network          *)
(* (stats/worker.rs), one writes notifications (notifications/worker.rs)   *)
(* and sends each on to the notifications topic, which the push service    *)
(* consumes to call the devices of the recipient (push-notifications).     *)
(* All three run the same loop: receive, handle, commit the offset, or     *)
(* seek back and try again a few times.                                    *)
(*                                                                         *)
(* A queue is the part of a topic its consumer acts on, in order of        *)
(* arrival.  Messages with nothing to do are committed at once and left    *)
(* out; no message concerns both workers.  Topics have one partition here, *)
(* in which messages of different events come in any order.  The read-only *)
(* database the handlers read is in step with the other.                   *)
EXTENDS CacheTables, Functions, Sequences

CONSTANTS
  Tokens,     \* push tokens a device may have
  KeysOf,     \* identity -> the keys of its devices that take pushes
  MaxRetries, \* MAX_RETRIES
  Settings,   \* what clients put, tokens, a broker, how many restarts
  NoToken

Groups == {"stats", "notifications", "push"}
Identities == DOMAIN KeysOf
DeviceKeys == UNION {KeysOf[i] : i \in Identities}

ASSUME WorkersAssumption ==
  /\ MaxRetries \in Nat /\ NoToken \notin Tokens
  /\ \A e \in Events : e.to \subseteq Identities
  /\ \A s \in Settings : /\ s.puts \subseteq Events /\ s.tokens \subseteq Tokens
                         /\ s.broker \in BOOLEAN /\ s.crashes \in Nat

VARIABLES
  setting,   \* fixed at the start
  sending,   \* spawned sends of stored events
  queue,     \* per group, the messages it acts on
  position,  \* messages received and dealt with
  committed, \* the offset a restarted consumer begins at
  attempts,  \* failures of the message at position
  job,       \* per group, the handler under way
  counts,    \* attributed_to_reaction_summaries of one address, by sign
  dealt,     \* history: messages of the statistics queue counted or passed
  slips,     \* history: those passed uncounted, and those counted again
  notified,  \* notification table: <<recipient, event>>
  push_token,\* the token of a device key
  current,   \* the token the device of a key works with
  dead,      \* tokens whose device is gone
  missed,    \* <<group, index>> passed without having been handled
  crashes

serverVars == <<tableVars, setting, sending>>
offsets == <<position, committed, attempts, missed, crashes>>
stats == <<counts, dealt, slips>>
results == <<stats, notified>>
deviceVars == <<push_token, current, dead>>
workerVars == <<queue, job, offsets, results, deviceVars>>
vars == <<serverVars, workerVars>>

-----------------------------------------------------------------------------
(* Who acts on what.                                                       *)

\* build_notifications; nobody is notified of what he does himself.
Recipients(e) ==
  (CASE e.kind = "post" -> IF e.reply # NoKey THEN {e.reply.identity}
                           ELSE IF e.quote # NoKey THEN {e.quote.identity} ELSE {}
     [] e.kind \in {"repost", "reaction", "verification_verify"} -> {e.ref.identity}
     [] e.kind \in {"follow", "verification_target"} -> e.to
     [] OTHER -> {}) \ {Author(e)}

Concerns(g, e) ==
  \/ g = "stats" /\ e.kind \in {"url_reaction", "delete"}
  \/ g = "notifications" /\ Recipients(e) # {}

\* render: a repost and a quote make no push.
Renders(e) == e.kind # "repost" /\ ~ (e.kind = "post" /\ e.reply = NoKey)

IdleJob == [pc |-> "idle", to |-> {}, left |-> {}]

Init ==
  /\ InitTables
  /\ setting \in Settings
  /\ sending = {} /\ notified = {} /\ dead = {} /\ missed = {}
  /\ queue = [g \in Groups |-> <<>>]
  /\ position = [g \in Groups |-> 0]
  /\ committed = [g \in Groups |-> 0]
  /\ attempts = [g \in Groups |-> 0]
  /\ job = [g \in Groups |-> IdleJob]
  /\ counts = [sign \in BOOLEAN |-> 0]
  /\ push_token = [k \in DeviceKeys |-> NoToken]
  /\ current = [k \in DeviceKeys |-> NoToken]
  /\ crashes = 0 /\ dealt = 0 /\ slips = 0

-----------------------------------------------------------------------------
(* The server.                                                             *)

StartPut ==
  /\ \E e \in setting.puts : Start(e)
  /\ UNCHANGED <<setting, sending, workerVars>>

\* A send that no broker answers has no effect.
EndPut(s) ==
  /\ add_event(s)
  /\ sending' = IF setting.broker THEN sending \cup {s.event} ELSE sending
  /\ UNCHANGED <<setting, queue, offsets, job, results, deviceVars>>

AbandonPut(s) == Abandon(s) /\ UNCHANGED <<setting, sending, workerVars>>

\* The spawned sends end in any order.
Publish(e) ==
  /\ e \in sending
  /\ sending' = sending \ {e}
  /\ queue' = [g \in Groups |-> IF Concerns(g, e) THEN Append(queue[g], e) ELSE queue[g]]
  /\ UNCHANGED <<tableVars, setting, offsets, job, results, deviceVars>>

\* The broker does not answer, or the server is stopped before it sends.
LosePublish(e) ==
  /\ e \in sending
  /\ sending' = sending \ {e}
  /\ UNCHANGED <<tableVars, setting, queue, offsets, job, results, deviceVars>>

-----------------------------------------------------------------------------
(* run_consumer.                                                           *)

Message(g) == queue[g][position[g] + 1]
Handling(g, pc) == job[g].pc = pc

(* Slip: the offset is committed on receipt.                              *)
ReceiveCommitted(g) ==
  /\ Handling(g, "idle") /\ position[g] < Len(queue[g])
  /\ job' = [job EXCEPT ![g].pc = "begin"]
  /\ committed' = [committed EXCEPT ![g] = position[g] + 1]
  /\ UNCHANGED <<serverVars, queue, position, attempts, missed, crashes, results, deviceVars>>

Receive(g) ==
  /\ Handling(g, "idle") /\ position[g] < Len(queue[g])
  /\ job' = [job EXCEPT ![g].pc = "begin"]
  /\ UNCHANGED <<serverVars, queue, offsets, results, deviceVars>>

Pass(g) ==
  /\ position' = [position EXCEPT ![g] = @ + 1]
  /\ attempts' = [attempts EXCEPT ![g] = 0]
  /\ job' = [job EXCEPT ![g] = IdleJob]

\* The commit is not waited for and may be lost.
CommitOffset(g) ==
  \E offset \in {committed[g], position[g] + 1} :
    committed' = [committed EXCEPT ![g] = offset]

\* Outcome::Commit.
Commit(g) ==
  /\ Handling(g, "done")
  /\ Pass(g) /\ CommitOffset(g)
  /\ UNCHANGED <<serverVars, queue, results, deviceVars, missed, crashes>>

\* The statistics worker is now behind its first n messages.
PassBy(n) ==
  /\ dealt' = IF n > dealt THEN n ELSE dealt
  /\ slips' = slips + (dealt' - dealt)

PassOver(g) ==
  /\ Pass(g)
  /\ missed' = missed \cup {<<g, position[g] + 1>>}
  /\ PassBy(IF g = "stats" THEN position[g] + 1 ELSE 0)

\* Outcome::Retry: any call of the handler fails, the last one also after
\* it had its effect.  record_failure counts; after MAX_RETRIES the message
\* is given up.
Skip(g) ==
  /\ job[g].pc \notin {"idle", "done"} /\ attempts[g] + 1 > MaxRetries
  /\ PassOver(g) /\ CommitOffset(g)
  /\ UNCHANGED <<serverVars, queue, counts, notified, deviceVars, crashes>>

(* Slip: without counting.                                                *)
BackoffUncounted(g) ==
  /\ job[g].pc \notin {"idle", "done"}
  /\ job' = [job EXCEPT ![g] = IdleJob]
  /\ UNCHANGED <<serverVars, queue, offsets, results, deviceVars>>

Backoff(g) ==
  /\ job[g].pc \notin {"idle", "done"} /\ attempts[g] + 1 <= MaxRetries
  /\ attempts' = [attempts EXCEPT ![g] = @ + 1]
  /\ job' = [job EXCEPT ![g] = IdleJob]
  /\ UNCHANGED <<serverVars, queue, position, committed, results, deviceVars, missed,
                 crashes>>

\* The seek fails, which is logged: the next message is received instead,
\* and its commit covers the failed one.
BackoffLost(g) ==
  /\ job[g].pc \notin {"idle", "done"} /\ attempts[g] + 1 <= MaxRetries
  /\ PassOver(g)
  /\ UNCHANGED <<serverVars, queue, committed, counts, notified, deviceVars, crashes>>

Failure(g) == Skip(g) \/ Backoff(g) \/ BackoffLost(g)

\* A process ends and is restarted; the two workers run as one process or
\* each on its own, and a group is also taken over by another instance.  A
\* group begins at its committed offset.  One that has none begins at the
\* end (auto.offset.reset is latest); one whose first commit was of a
\* message not in the model begins with the first that is.  Restarts that
\* change nothing are left out.
Processes == {{"stats", "notifications"}} \cup {{g} : g \in Groups}

Crash(groups) ==
  /\ crashes < setting.crashes
  /\ crashes' = crashes + 1
  /\ \E fresh \in SUBSET {g \in groups : committed[g] = 0} :
       position' = [g \in Groups |-> IF g \in fresh THEN Len(queue[g])
                                     ELSE IF g \in groups THEN committed[g] ELSE position[g]]
  /\ missed' = missed \cup UNION {{g} \X (position[g] + 1 .. position'[g]) : g \in Groups}
  /\ PassBy(position'["stats"])
  /\ attempts' = [g \in Groups |-> IF g \in groups THEN 0 ELSE attempts[g]]
  /\ job' = [g \in Groups |-> IF g \in groups THEN IdleJob ELSE job[g]]
  /\ <<position, attempts, job>>' # <<position, attempts, job>>
  /\ UNCHANGED <<serverVars, queue, committed, counts, notified, deviceVars>>

-----------------------------------------------------------------------------
(* The statistics worker.  Reading the content of the deleted event and    *)
(* changing the counter are one step: stored events do not change.         *)

Count(e) == [counts EXCEPT ![e.positive] = @ + 1]

(* Slip: below zero.                                                      *)
UncountBelow(e) == [counts EXCEPT ![e.positive] = @ - 1]

Uncount(e) == [counts EXCEPT ![e.positive] = IF @ > 0 THEN @ - 1 ELSE @]

(* Slip: whoever put the delete.                                          *)
TakenBackByAnyone(d) == {e \in select_event_id(events, d.ref) : e.kind = "url_reaction"}

\* The reaction a delete of its author takes back, if it is stored.
TakenBack(d) ==
  {e \in select_event_id(events, d.ref) :
     e.kind = "url_reaction" /\ d.ref.identity = Author(d)}

\* The counter is changed, now or once more.
Change(to) ==
  LET n == position["stats"] + 1 IN
  /\ counts' = to
  /\ dealt' = IF n > dealt THEN n ELSE dealt
  /\ slips' = IF n > dealt THEN slips ELSE slips + 1
  /\ job' = [job EXCEPT !["stats"].pc = "applied"]

NoChange ==
  /\ dealt' = IF position["stats"] < dealt THEN dealt ELSE position["stats"] + 1
  /\ job' = [job EXCEPT !["stats"].pc = "done"]
  /\ UNCHANGED <<counts, slips>>

StatsHandle ==
  LET e == Message("stats") IN
  /\ Handling("stats", "begin")
  /\ \/ e.kind = "url_reaction" /\ Change(Count(e))
     \/ e.kind = "delete" /\ \E u \in TakenBack(e) : Change(Uncount(u))
     \/ e.kind = "delete" /\ TakenBack(e) = {} /\ NoChange
  /\ UNCHANGED <<serverVars, queue, offsets, notified, deviceVars>>

-----------------------------------------------------------------------------
(* The notification worker.                                                *)

NotificationJob(pc, to) ==
  job' = [job EXCEPT !["notifications"] = [pc |-> pc, to |-> to, left |-> to]]

was_verification_requested(db, e) ==
  \E v \in db : /\ v.kind = "verification_target" /\ v.ref = e.ref
                /\ Author(e) \in v.to /\ Author(v) = e.ref.identity

\* A verification nobody asked for notifies nobody.
CheckRequested ==
  LET e == Message("notifications") IN
  /\ Handling("notifications", "begin") /\ e.kind = "verification_verify"
  /\ NotificationJob(IF was_verification_requested(events, e) THEN "blocks" ELSE "done", {})
  /\ UNCHANGED <<serverVars, queue, offsets, results, deviceVars>>

Blocks(b, i, author) == b.kind = "block" /\ Author(b) = i /\ author \in b.to

(* Slip: everyone.                                                        *)
all_recipients(e) == Recipients(e)

\* identities_blocking reads the block table.
unblocked_recipients(e) ==
  {i \in Recipients(e) :
     ~ \E b \in events : <<"block", b>> \in rows /\ Blocks(b, i, Author(e))}

CheckBlocks ==
  LET e == Message("notifications") IN
  /\ \/ Handling("notifications", "begin") /\ e.kind # "verification_verify"
     \/ Handling("notifications", "blocks")
  /\ NotificationJob(IF unblocked_recipients(e) = {} THEN "done" ELSE "insert",
                     unblocked_recipients(e))
  /\ UNCHANGED <<serverVars, queue, offsets, results, deviceVars>>

\* One row per recipient, then one message per recipient.
Insert(i) ==
  LET j == job["notifications"] IN
  /\ Handling("notifications", "insert") /\ i \in j.left
  /\ notified' = notified \cup {<<i, Message("notifications")>>}
  /\ job' = [job EXCEPT !["notifications"] =
               IF j.left = {i} THEN [j EXCEPT !.pc = "emit", !.left = j.to]
                               ELSE [j EXCEPT !.left = j.left \ {i}]]
  /\ UNCHANGED <<serverVars, queue, offsets, stats, deviceVars>>

emit(i) ==
  LET j == job["notifications"]  e == Message("notifications") IN
  /\ Handling("notifications", "emit") /\ i \in j.left
  /\ queue' = [queue EXCEPT !["push"] = IF Renders(e) THEN Append(@, <<i, e>>) ELSE @]
  /\ job' = [job EXCEPT !["notifications"] =
               IF j.left = {i} THEN [j EXCEPT !.pc = "applied", !.left = {}]
                               ELSE [j EXCEPT !.left = j.left \ {i}]]
  /\ UNCHANGED <<serverVars, offsets, results, deviceVars>>

NotificationsHandle ==
  CheckRequested \/ CheckBlocks \/ \E i \in Identities : Insert(i) \/ emit(i)

-----------------------------------------------------------------------------
(* The push service.                                                       *)

PushJob(pc, left, end) ==
  job' = [job EXCEPT !["push"] = [pc |-> IF left = {} THEN end ELSE pc, to |-> {},
                                  left |-> left]]

\* No server answers: no keys.
authorized_keys(i) == {KeysOf[i], {}}

\* token_for_public_key, for every key of the recipient.
ReadTokens ==
  /\ Handling("push", "begin")
  /\ \E keys \in authorized_keys(Message("push")[1]) :
       PushJob("post", {<<k, push_token[k]>> : k \in {l \in keys : push_token[l] # NoToken}},
               "done")
  /\ UNCHANGED <<serverVars, queue, offsets, results, deviceVars>>

\* Expo reports devices that are gone, sooner or later; an answer that does
\* not have a ticket for each token is not looked at.
PostRequests ==
  /\ Handling("push", "post")
  /\ \E reported \in SUBSET {kt \in job["push"].left : kt[2] \in dead} :
       PushJob("clean", reported, "done")
  /\ UNCHANGED <<serverVars, queue, offsets, results, deviceVars>>

(* Slip: whatever token it has.                                           *)
unregister_key(k, t) == push_token' = [push_token EXCEPT ![k] = NoToken]

\* The row of a key is deleted if it still has that token.
unregister(k, t) ==
  push_token' = [push_token EXCEPT ![k] = IF @ = t THEN NoToken ELSE @]

CleanToken(k, t) ==
  /\ Handling("push", "clean") /\ <<k, t>> \in job["push"].left
  /\ unregister(k, t)
  /\ PushJob("clean", job["push"].left \ {<<k, t>>}, "applied")
  /\ UNCHANGED <<serverVars, queue, offsets, results, current, dead>>

PushHandle ==
  ReadTokens \/ PostRequests
    \/ \E k \in DeviceKeys, t \in Tokens : CleanToken(k, t)

\* register_push_notifications and its counterpart, called by a device.
Register(k, t) ==
  /\ t \in setting.tokens
  /\ push_token' = [push_token EXCEPT ![k] = t]
  /\ current' = [current EXCEPT ![k] = t]
  /\ UNCHANGED <<serverVars, queue, offsets, job, results, dead>>

Unregister(k, t) ==
  /\ t \in setting.tokens
  /\ unregister(k, t)
  /\ current' = [current EXCEPT ![k] = IF @ = t THEN NoToken ELSE @]
  /\ UNCHANGED <<serverVars, queue, offsets, job, results, dead>>

\* The application is removed, or the platform issues another token.
TokenDies(t) ==
  /\ t \in setting.tokens \ dead
  /\ dead' = dead \cup {t}
  /\ UNCHANGED <<serverVars, queue, offsets, job, results, push_token, current>>

-----------------------------------------------------------------------------

\* The call that had the last effect of a handler is answered.
Answered(g) ==
  /\ Handling(g, "applied")
  /\ job' = [job EXCEPT ![g].pc = "done"]
  /\ UNCHANGED <<serverVars, queue, offsets, results, deviceVars>>

Handle(g) ==
  \/ g = "stats" /\ StatsHandle
  \/ g = "notifications" /\ NotificationsHandle
  \/ g = "push" /\ PushHandle
  \/ Answered(g)

Next ==
  \/ StartPut \/ \E s \in statements : EndPut(s) \/ AbandonPut(s)
  \/ \E e \in Events : Publish(e) \/ LosePublish(e)
  \/ \E g \in Groups : Receive(g) \/ Handle(g) \/ Commit(g) \/ Failure(g)
  \/ \E p \in Processes : Crash(p)
  \/ \E k \in DeviceKeys, t \in Tokens : Register(k, t) \/ Unregister(k, t)
  \/ \E t \in Tokens : TokenDies(t)

\* The loop of a consumer never ends, and the runtime polls a handler whose
\* call was answered.  Calls may fail for ever.
Spec ==
  /\ Init /\ [][Next]_vars
  /\ \A g \in Groups : WF_vars(Receive(g) \/ Handle(g) \/ Commit(g))

-----------------------------------------------------------------------------
(* Properties.                                                             *)

TypeOK ==
  /\ TablesOK
  /\ setting \in Settings /\ sending \subseteq events
  /\ \A g \in {"stats", "notifications"} : queue[g] \in Seq(events)
  /\ queue["push"] \in Seq(Identities \X events)
  /\ \A g \in Groups : /\ 0 <= committed[g] /\ committed[g] <= Len(queue[g])
                       /\ 0 <= position[g] /\ position[g] <= Len(queue[g])
                       /\ job[g].pc # "idle" => position[g] < Len(queue[g])
  /\ attempts \in [Groups -> 0..MaxRetries]
  /\ counts \in [BOOLEAN -> Nat] /\ dealt \in 0..Len(queue["stats"]) /\ slips \in Nat
  /\ notified \subseteq Identities \X events
  /\ push_token \in [DeviceKeys -> Tokens \cup {NoToken}]
  /\ current \in [DeviceKeys -> Tokens \cup {NoToken}]
  /\ dead \subseteq Tokens /\ crashes \in 0..setting.crashes

\* Those an event is to notify: they never blocked its author, and a
\* verification was asked for before it was made.
Due(e) ==
  {i \in Recipients(e) :
     /\ ~ \E b \in events : Blocks(b, i, Author(e))
     /\ e.kind = "verification_verify" => was_verification_requested(seen[e], e)}

(* A notification is lost in three ways only: its message was given up     *)
(* after MAX_RETRIES, the seek back to it failed, or the consumer was      *)
(* restarted before its group had committed anything.  Behind the          *)
(* committed offset, every other message has its row and its push for      *)
(* every recipient, however many failures and restarts came between.       *)
NothingLost ==
  \A n \in 1..committed["notifications"] : <<"notifications", n>> \notin missed =>
    LET e == queue["notifications"][n] IN
    \A i \in Due(e) : /\ <<i, e>> \in notified
                      /\ Renders(e) => <<i, e>> \in Range(queue["push"])

(* A recipient who had blocked the author when the event was stored, and   *)
(* still does, gets neither a notification nor a push, and nobody gets one *)
(* of a verification he did not ask for.                                   *)
BlockedStaysQuiet ==
  \A n \in notified \cup Range(queue["push"]) :
    /\ ~ \E b \in seen[n[2]] : Blocks(b, n[1], Author(n[2])) /\ ~ Deleted(b)
    /\ n[2].kind = "verification_verify" => was_verification_requested(events, n[2])

\* The first messages of a queue, and the reactions that stand among them.
First(q, h) == {q[n] : n \in 1..h}
Standing(q, h, sign) ==
  {e \in First(q, h) : /\ e.kind = "url_reaction" /\ e.positive = sign
                       /\ ~ \E d \in First(q, h) : Deletes(d) /\ d.ref = e.key}

\* Those that came too early or too late to be counted right: a reaction
\* behind its deletion, and a deletion of a reaction that is not before it
\* or was deleted before.
OutOfTurn(q, h) ==
  LET DeletedBefore(n, key) == \E m \in 1..(n - 1) : Deletes(q[m]) /\ q[m].ref = key IN
  {n \in 1..h :
     \/ q[n].kind = "url_reaction" /\ DeletedBefore(n, q[n].key)
     \/ /\ q[n].kind = "delete" /\ TakenBack(q[n]) # {}
        /\ \/ DeletedBefore(n, q[n].ref)
           \/ ~ \E m \in 1..(n - 1) : q[m].key = q[n].ref}

(* A counter of reactions is never further from the reactions that stand   *)
(* than by one for each message passed over uncounted (given up, a failed  *)
(* seek, a restart without an offset), one for each time a message was     *)
(* counted again (its answer was lost, or a restart went back behind it)   *)
(* and one for each that came out of turn; without these it is exact.  A   *)
(* deletion by someone else, a failure before the counter was changed and  *)
(* an offset lost without a restart change nothing.                        *)
CountsStanding ==
  LET q == queue["stats"]
      slack == slips + Cardinality(OutOfTurn(q, Len(q)))
      stand(sign) == Cardinality(Standing(q, Len(q), sign))
  IN position["stats"] = Len(q) =>
       \A sign \in BOOLEAN : /\ stand(sign) - slack <= counts[sign]
                             /\ counts[sign] <= stand(sign) + slack

(* A device that works and has registered its token stays registered: the  *)
(* cleaning up after a push to an older token of it does not remove it.    *)
LiveTokenKept ==
  \A k \in DeviceKeys : current[k] \notin dead \cup {NoToken} => push_token[k] = current[k]

(* Every consumer catches up: a message whose handling always fails holds  *)
(* up the others for a while only.                                         *)
ConsumersCatchUp == <>[] \A g \in Groups : position[g] = Len(queue[g])
=============================================================================
