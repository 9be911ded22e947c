--------------------------- MODULE WorkersProofs ---------------------------
(* What the server's tables, the two workers and the push service keep to, *)
(* for any number of events, statements under way, identities, devices,    *)
(* tokens, failures and restarts.                                          *)
EXTENDS Workers, CacheTablesProofs, SequenceTheorems, TLAPS

-----------------------------------------------------------------------------
(* Types, and what grows.                                                  *)

\* The tables and the sends of put_events.
Served == Snapshots /\ TallyTyped /\ setting \in Settings /\ sending \subseteq events

Queues ==
  /\ queue = [g \in Groups |-> queue[g]]
  /\ \A g \in {"stats", "notifications"} : queue[g] \in Seq(events)
  /\ queue["push"] \in Seq(Identities \X events)

Jobs ==
  /\ DOMAIN job = Groups
  /\ \A g \in Groups : job[g] = [pc |-> job[g].pc, to |-> job[g].to, left |-> job[g].left]

Offsets ==
  /\ position \in [Groups -> Nat] /\ committed \in [Groups -> Nat]
  /\ attempts \in [Groups -> 0..MaxRetries]
  /\ \A g \in Groups : /\ committed[g] <= Len(queue[g]) /\ position[g] <= Len(queue[g])
                       /\ job[g].pc # "idle" => position[g] < Len(queue[g])

Results ==
  /\ counts \in [BOOLEAN -> Nat] /\ notified \subseteq Identities \X events
  /\ crashes \in 0..setting.crashes /\ dealt \in Nat /\ slips \in Nat

\* One queue continues another.
Continues(q, r) == Len(q) <= Len(r) /\ \A n \in 1..Len(q) : r[n] = q[n]

\* A sequence of stored events stays one.
LEMMA SeqSubset ==
  ASSUME NEW S, NEW T, S \subseteq T, NEW q \in Seq(S)
  PROVE  q \in Seq(T) /\ Continues(q, q)
  BY DEF Continues

\* So it does when it gets one more.
LEMMA SeqAppend ==
  ASSUME NEW T, NEW q \in Seq(T), NEW x \in T
  PROVE  Append(q, x) \in Seq(T) /\ Continues(q, Append(q, x))
  BY DEF Continues

\* The statements and the sends change the tables, nothing else does.
LEMMA ServerStep ==
  ASSUME Served, [Next]_vars
  PROVE  TableStep /\ setting' = setting /\ sending' \subseteq events'
<1> USE DEF Served
<1>1. CASE StartPut
  BY <1>1, WorkersAssumption DEF StartPut, TableStep, Start
<1>2. CASE \E s \in statements : EndPut(s) \/ AbandonPut(s)
  BY <1>2 DEF EndPut, AbandonPut, TableStep, add_event, Abandon
<1>3. CASE \E e \in Events : Publish(e) \/ LosePublish(e)
  BY <1>3 DEF Publish, LosePublish, TableStep, tableVars
<1>4. CASE UNCHANGED serverVars
  BY <1>4 DEF serverVars, TableStep, tableVars
<1>5. ASSUME NEW g \in Groups, Receive(g) \/ Handle(g) \/ Commit(g) \/ Failure(g)
      PROVE  UNCHANGED serverVars
  BY <1>5 DEF Receive, Commit, Failure, Skip, Backoff, BackoffLost, Handle, StatsHandle,
     NotificationsHandle, CheckRequested, CheckBlocks, Insert, emit, PushHandle, ReadTokens,
     PostRequests, CleanToken, Answered
<1>6. ASSUME \/ \E p \in Processes : Crash(p)
             \/ \E k \in DeviceKeys, t \in Tokens : Register(k, t) \/ Unregister(k, t)
             \/ \E t \in Tokens : TokenDies(t)
      PROVE  UNCHANGED serverVars
  BY <1>6 DEF Crash, Register, Unregister, TokenDies
<1>7. CASE UNCHANGED vars
  BY <1>7, <1>4 DEF vars
<1> QED
  BY <1>1, <1>2, <1>3, <1>4, <1>5, <1>6, <1>7 DEF Next

\* Steps that leave the queues alone.
QuietStep ==
  \/ StartPut \/ \E s \in statements : EndPut(s) \/ AbandonPut(s)
  \/ \E e \in Events : LosePublish(e)
  \/ \E g \in Groups : Receive(g) \/ Commit(g) \/ Failure(g) \/ Answered(g)
  \/ StatsHandle \/ CheckRequested \/ CheckBlocks \/ (\E i \in Identities : Insert(i))
  \/ PushHandle
  \/ \E p \in Processes : Crash(p)
  \/ \E k \in DeviceKeys, t \in Tokens : Register(k, t) \/ Unregister(k, t)
  \/ \E t \in Tokens : TokenDies(t)
  \/ UNCHANGED vars

\* The others are a send that arrives and a notification sent on.
LEMMA QueueSteps ==
  ASSUME [Next]_vars
  PROVE  \/ QuietStep \/ (\E e \in Events : Publish(e)) \/ (\E i \in Identities : emit(i))
  BY DEF Next, QuietStep, Handle, NotificationsHandle

\* They leave them alone.
LEMMA QuietQueues ==
  ASSUME QuietStep
  PROVE  queue' = queue
<1>1. CASE \/ StartPut \/ \E s \in statements : EndPut(s) \/ AbandonPut(s)
           \/ \E e \in Events : LosePublish(e)
  BY <1>1 DEF StartPut, EndPut, AbandonPut, LosePublish, workerVars
<1>2. CASE \E g \in Groups : Receive(g) \/ Commit(g) \/ Failure(g) \/ Answered(g)
  BY <1>2 DEF Receive, Commit, Failure, Skip, Backoff, BackoffLost, Answered
<1>3. CASE StatsHandle \/ CheckRequested \/ CheckBlocks \/ (\E i \in Identities : Insert(i))
  BY <1>3 DEF StatsHandle, CheckRequested, CheckBlocks, Insert
<1>4. CASE PushHandle
  BY <1>4 DEF PushHandle, ReadTokens, PostRequests, CleanToken
<1>5. CASE \/ \E p \in Processes : Crash(p)
           \/ \E k \in DeviceKeys, t \in Tokens : Register(k, t) \/ Unregister(k, t)
           \/ \E t \in Tokens : TokenDies(t)
           \/ UNCHANGED vars
  BY <1>5 DEF Crash, Register, Unregister, TokenDies, vars, workerVars
<1> QED
  BY <1>1, <1>2, <1>3, <1>4, <1>5 DEF QuietStep

\* The message a handler works on.
LEMMA MessageTyped ==
  ASSUME Queues, Offsets, NEW g \in {"stats", "notifications"}, ~ Handling(g, "idle")
  PROVE  Message(g) \in events /\ position[g] + 1 \in 1..Len(queue[g])
<1>1. /\ queue[g] \in Seq(events) /\ position[g] \in Nat /\ position[g] < Len(queue[g])
      /\ Len(queue[g]) \in Nat
  BY DEF Queues, Offsets, Handling, Groups
<1>2. position[g] + 1 \in 1..Len(queue[g])
  BY <1>1
<1> QED
  BY <1>1, <1>2 DEF Message

\* Queues only grow, by stored events.
LEMMA QueuesStep ==
  ASSUME Served, Queues, Offsets, events \subseteq events', [Next]_vars
  PROVE  Queues' /\ \A g \in Groups : Continues(queue[g], queue'[g])
<1>0. /\ \A g \in {"stats", "notifications"} :
           queue[g] \in Seq(events') /\ Continues(queue[g], queue[g])
      /\ queue["push"] \in Seq(Identities \X events') /\ Continues(queue["push"], queue["push"])
  BY SeqSubset DEF Queues
<1>1. CASE QuietStep
  BY <1>0, <1>1, QuietQueues DEF Queues, Groups
<1>2. ASSUME NEW e \in Events, Publish(e)
      PROVE  Queues' /\ \A g \in Groups : Continues(queue[g], queue'[g])
  <2>1. /\ queue' = [g \in Groups |-> IF Concerns(g, e) THEN Append(queue[g], e) ELSE queue[g]]
        /\ e \in events'
    BY <1>2 DEF Publish, Served
  <2>2. queue'["push"] = queue["push"]
    BY <2>1 DEF Groups, Concerns
  <2>3. \A g \in {"stats", "notifications"} :
          queue'[g] \in Seq(events') /\ Continues(queue[g], queue'[g])
    <3> TAKE g \in {"stats", "notifications"}
    <3>1. Append(queue[g], e) \in Seq(events') /\ Continues(queue[g], Append(queue[g], e))
      BY <1>0, <2>1, SeqAppend
    <3>2. queue'[g] = Append(queue[g], e) \/ queue'[g] = queue[g]
      BY <2>1 DEF Groups
    <3> QED
      BY <1>0, <3>1, <3>2
  <2>4. queue' = [g \in Groups |-> queue'[g]]
    BY <2>1
  <2> QED
    BY <1>0, <2>2, <2>3, <2>4 DEF Queues, Groups
<1>3. ASSUME NEW i \in Identities, emit(i)
      PROVE  Queues' /\ \A g \in Groups : Continues(queue[g], queue'[g])
  <2> DEFINE e == Message("notifications")
  <2>1. queue' = [queue EXCEPT !["push"] = IF Renders(e) THEN Append(@, <<i, e>>) ELSE @]
    BY <1>3 DEF emit
  <2>2. <<i, e>> \in Identities \X events'
    BY <1>3, MessageTyped DEF emit, Handling
  <2>3. /\ queue' = [g \in Groups |-> queue'[g]]
        /\ \A g \in {"stats", "notifications"} : queue'[g] = queue[g]
        /\ queue'["push"] = Append(queue["push"], <<i, e>>) \/ queue'["push"] = queue["push"]
    BY <2>1 DEF Queues, Groups
  <2>4. Append(queue["push"], <<i, e>>) \in Seq(Identities \X events')
          /\ Continues(queue["push"], Append(queue["push"], <<i, e>>))
    BY <1>0, <2>2, SeqAppend
  <2> QED
    BY <1>0, <2>3, <2>4 DEF Queues, Groups
<1> QED
  BY <1>1, <1>2, <1>3, QueueSteps

\* A handler's step replaces its own job, which is not idle, and no offset.
LEMMA HandlerSteps ==
  ASSUME Jobs, NEW g \in Groups, Handle(g)
  PROVE  /\ job[g].pc # "idle" /\ UNCHANGED offsets
         /\ Jobs' /\ \A h \in Groups \ {g} : job'[h] = job[h]
<1>1. ASSUME g = "stats", StatsHandle
      PROVE  /\ job[g].pc # "idle" /\ UNCHANGED offsets
             /\ Jobs' /\ \A h \in Groups \ {g} : job'[h] = job[h]
  <2>1. /\ \E pc : job' = [job EXCEPT !["stats"].pc = pc]
        /\ job["stats"].pc = "begin" /\ UNCHANGED offsets
    BY <1>1 DEF StatsHandle, Handling, Change, NoChange
  <2> QED
    BY <1>1, <2>1 DEF Jobs
<1>2. ASSUME g = "notifications", CheckRequested \/ CheckBlocks
      PROVE  /\ job[g].pc # "idle" /\ UNCHANGED offsets
             /\ Jobs' /\ \A h \in Groups \ {g} : job'[h] = job[h]
  <2>1. PICK pc, to : NotificationJob(pc, to)
    BY <1>2 DEF CheckRequested, CheckBlocks
  <2>2. job' = [job EXCEPT !["notifications"] = [pc |-> pc, to |-> to, left |-> to]]
    BY <2>1 DEF NotificationJob
  <2>3. job["notifications"].pc # "idle" /\ UNCHANGED offsets
    BY <1>2 DEF CheckRequested, CheckBlocks, Handling
  <2> QED
    BY <1>2, <2>2, <2>3 DEF Jobs
<1>3. ASSUME g = "notifications", NEW i \in Identities, Insert(i) \/ emit(i)
      PROVE  /\ job[g].pc # "idle" /\ UNCHANGED offsets
             /\ Jobs' /\ \A h \in Groups \ {g} : job'[h] = job[h]
  <2> DEFINE j == job["notifications"]
  <2>1. CASE Insert(i)
    <3>1. /\ job' = [job EXCEPT !["notifications"] =
                       IF j.left = {i} THEN [j EXCEPT !.pc = "emit", !.left = j.to]
                                       ELSE [j EXCEPT !.left = j.left \ {i}]]
          /\ job["notifications"].pc = "insert" /\ UNCHANGED offsets
      BY <2>1 DEF Insert, Handling
    <3> QED
      BY <1>3, <3>1 DEF Jobs
  <2>2. CASE emit(i)
    <3>1. /\ job' = [job EXCEPT !["notifications"] =
                       IF j.left = {i} THEN [j EXCEPT !.pc = "applied", !.left = {}]
                                       ELSE [j EXCEPT !.left = j.left \ {i}]]
          /\ job["notifications"].pc = "emit" /\ UNCHANGED offsets
      BY <2>2 DEF emit, Handling
    <3> QED
      BY <1>3, <3>1 DEF Jobs
  <2> QED
    BY <1>3, <2>1, <2>2
<1>4. ASSUME g = "push", PushHandle
      PROVE  /\ job[g].pc # "idle" /\ UNCHANGED offsets
             /\ Jobs' /\ \A h \in Groups \ {g} : job'[h] = job[h]
  <2>1. PICK pc, left, end : PushJob(pc, left, end)
    BY <1>4 DEF PushHandle, ReadTokens, PostRequests, CleanToken
  <2>2. job' = [job EXCEPT !["push"] = [pc |-> IF left = {} THEN end ELSE pc, to |-> {},
                                        left |-> left]]
    BY <2>1 DEF PushJob
  <2>3. job["push"].pc # "idle" /\ UNCHANGED offsets
    BY <1>4 DEF PushHandle, ReadTokens, PostRequests, CleanToken, Handling
  <2> QED
    BY <1>4, <2>2, <2>3 DEF Jobs
<1>5. ASSUME Answered(g)
      PROVE  /\ job[g].pc # "idle" /\ UNCHANGED offsets
             /\ Jobs' /\ \A h \in Groups \ {g} : job'[h] = job[h]
  BY <1>5 DEF Answered, Handling, Jobs
<1> QED
  BY <1>1, <1>2, <1>3, <1>4, <1>5 DEF Handle, NotificationsHandle

\* The ends of a job: its message is passed or kept, and the offset a
\* restart begins at stays or moves behind it.
LEMMA LoopEnds ==
  ASSUME Offsets, NEW g \in Groups, Commit(g) \/ Failure(g)
  PROVE  /\ job[g].pc # "idle" /\ job' = [job EXCEPT ![g] = IdleJob]
         /\ \/ /\ position' = [position EXCEPT ![g] = @ + 1]
               /\ attempts' = [attempts EXCEPT ![g] = 0]
               /\ \/ job[g].pc = "done" /\ missed' = missed
                  \/ missed' = missed \cup {<<g, position[g] + 1>>}
            \/ /\ UNCHANGED <<position, committed, missed>> /\ attempts[g] + 1 <= MaxRetries
               /\ attempts' = [attempts EXCEPT ![g] = @ + 1]
         /\ \/ committed' = committed
            \/ /\ committed' = [committed EXCEPT ![g] = position[g] + 1]
               /\ position' = [position EXCEPT ![g] = @ + 1]
         /\ crashes' = crashes /\ UNCHANGED <<serverVars, queue, counts, notified, deviceVars>>
         /\ \/ UNCHANGED <<dealt, slips>> /\ (Commit(g) \/ position' = position)
            \/ PassBy(IF g = "stats" THEN position[g] + 1 ELSE 0)
<1> USE DEF stats, results
<1>1. CASE Commit(g)
  <2>1. \/ committed' = committed
        \/ committed' = [committed EXCEPT ![g] = position[g] + 1]
    BY <1>1 DEF Commit, CommitOffset, Offsets
  <2> QED
    BY <1>1, <2>1 DEF Commit, Pass, Handling
<1>2. CASE Skip(g)
  <2>1. \/ committed' = committed
        \/ committed' = [committed EXCEPT ![g] = position[g] + 1]
    BY <1>2 DEF Skip, CommitOffset, Offsets
  <2> QED
    BY <1>2, <2>1 DEF Skip, PassOver, Pass
<1>3. CASE Backoff(g)
  BY <1>3 DEF Backoff
<1>4. CASE BackoffLost(g)
  BY <1>4 DEF BackoffLost, PassOver, Pass
<1> QED
  BY <1>1, <1>2, <1>3, <1>4 DEF Failure

\* put_events and its sends, and devices, touch neither jobs nor offsets.
LEMMA OutsideSteps ==
  ASSUME \/ StartPut \/ \E s \in statements : EndPut(s) \/ AbandonPut(s)
         \/ \E e \in Events : Publish(e) \/ LosePublish(e)
         \/ \E k \in DeviceKeys, t \in Tokens : Register(k, t) \/ Unregister(k, t)
         \/ \E t \in Tokens : TokenDies(t)
         \/ UNCHANGED vars
  PROVE  UNCHANGED <<job, offsets, results>>
  BY DEF StartPut, EndPut, AbandonPut, Publish, LosePublish, Register, Unregister, TokenDies,
     vars, workerVars

\* Next, for what concerns jobs and offsets.
LEMMA NextSteps ==
  ASSUME [Next]_vars
  PROVE  \/ UNCHANGED <<job, offsets, results>>
         \/ \E g \in Groups : Receive(g) \/ Handle(g) \/ Commit(g) \/ Failure(g)
         \/ \E p \in Processes : Crash(p)
  BY OutsideSteps DEF Next

\* A restarted group begins at its committed offset or, without one, at the
\* end of its queue, and what it does not come back to is missed.
LEMMA Restarts ==
  ASSUME Offsets, Queues, NEW p \in Processes, Crash(p)
  PROVE  /\ position' \in [Groups -> Nat]
         /\ \A g \in Groups : position'[g] <= Len(queue[g])
         /\ \A g \in Groups : job'[g] = IdleJob \/ (position'[g] = position[g] /\ job'[g] = job[g])
         /\ DOMAIN job' = Groups
         /\ attempts' \in [Groups -> 0..MaxRetries]
         /\ \A g \in Groups, n \in Nat :
              position[g] < n /\ n <= position'[g] => <<g, n>> \in missed'
         /\ missed \subseteq missed' /\ PassBy(position'["stats"])
         /\ \A g \in Groups : committed[g] <= position[g] => committed'[g] <= position'[g]
         /\ crashes < setting.crashes /\ crashes' = crashes + 1
         /\ UNCHANGED <<serverVars, queue, committed, counts, notified, deviceVars>>
<1>1. PICK fresh \in SUBSET {g \in p : committed[g] = 0} :
        position' = [g \in Groups |-> IF g \in fresh THEN Len(queue[g])
                                      ELSE IF g \in p THEN committed[g] ELSE position[g]]
  BY DEF Crash
<1>2. /\ attempts' = [g \in Groups |-> IF g \in p THEN 0 ELSE attempts[g]]
      /\ job' = [g \in Groups |-> IF g \in p THEN IdleJob ELSE job[g]]
      /\ missed' = missed \cup UNION {{g} \X (position[g] + 1 .. position'[g]) : g \in Groups}
      /\ PassBy(position'["stats"]) /\ crashes < setting.crashes /\ crashes' = crashes + 1
      /\ UNCHANGED <<serverVars, queue, committed, counts, notified, deviceVars>>
  BY DEF Crash
<1>3. \A g \in Groups : Len(queue[g]) \in Nat
  BY DEF Queues, Groups
<1>4. position' \in [Groups -> Nat] /\ \A g \in Groups : position'[g] <= Len(queue[g])
  BY <1>1, <1>3 DEF Offsets
<1>5. attempts' \in [Groups -> 0..MaxRetries]
  BY <1>2, WorkersAssumption DEF Offsets
<1>6. ASSUME NEW g \in Groups, NEW n \in Nat, position[g] < n, n <= position'[g]
      PROVE  <<g, n>> \in missed'
  <2>1. n \in (position[g] + 1 .. position'[g])
    BY <1>4, <1>6 DEF Offsets
  <2>2. <<g, n>> \in {g} \X (position[g] + 1 .. position'[g])
    BY <2>1
  <2> QED
    BY <1>2, <2>2
<1>7. \A g \in Groups : committed[g] <= position[g] => committed'[g] <= position'[g]
  BY <1>1, <1>2, <1>3 DEF Offsets
<1> QED
  BY <1>1, <1>2, <1>4, <1>5, <1>6, <1>7

\* Jobs stay records.
LEMMA JobsStep ==
  ASSUME Jobs, Offsets, [Next]_vars
  PROVE  Jobs'
<1>1. CASE UNCHANGED job
  BY <1>1 DEF Jobs
<1>2. ASSUME NEW g \in Groups, Receive(g) PROVE Jobs'
  <2>1. job' = [job EXCEPT ![g].pc = "begin"]
    BY <1>2 DEF Receive
  <2> QED
    BY <2>1 DEF Jobs
<1>3. ASSUME NEW g \in Groups, Commit(g) \/ Failure(g) PROVE Jobs'
  <2>1. job' = [job EXCEPT ![g] = IdleJob]
    BY <1>3, LoopEnds
  <2> QED
    BY <2>1 DEF Jobs, IdleJob
<1>4. ASSUME NEW p \in Processes, Crash(p) PROVE Jobs'
  <2>1. job' = [g \in Groups |-> IF g \in p THEN IdleJob ELSE job[g]]
    BY <1>4 DEF Crash
  <2> QED
    BY <2>1 DEF Jobs, IdleJob
<1> QED
  BY <1>1, <1>2, <1>3, <1>4, HandlerSteps, NextSteps

\* No consumer is beyond the end of its queue, nor handles what is not there.
LEMMA OffsetsStep ==
  ASSUME Served, Queues, Jobs, Offsets, Queues',
         \A g \in Groups : Continues(queue[g], queue'[g]), [Next]_vars
  PROVE  Offsets'
<1>0. \A g \in Groups : /\ Len(queue[g]) \in Nat /\ Len(queue'[g]) \in Nat
                        /\ Len(queue[g]) <= Len(queue'[g])
  BY DEF Queues, Continues, Groups
<1>1. CASE UNCHANGED <<job, offsets, results>>
  BY <1>0, <1>1 DEF Offsets, offsets
<1>2. ASSUME NEW g \in Groups, Receive(g) PROVE Offsets'
  <2>1. /\ job' = [job EXCEPT ![g].pc = "begin"] /\ position[g] < Len(queue[g])
        /\ UNCHANGED <<queue, position, committed, attempts>>
    BY <1>2 DEF Receive, offsets
  <2>2. \A h \in Groups \ {g} : job'[h] = job[h]
    BY <2>1 DEF Jobs
  <2> QED
    BY <2>1, <2>2 DEF Offsets
<1>3. ASSUME NEW g \in Groups, Handle(g) PROVE Offsets'
  <2>1. /\ job[g].pc # "idle" /\ UNCHANGED <<position, committed, attempts>>
        /\ \A h \in Groups \ {g} : job'[h] = job[h]
    BY <1>3, HandlerSteps DEF offsets
  <2>2. \A h \in Groups : job'[h].pc # "idle" => job[h].pc # "idle"
    BY <2>1
  <2>3. \A h \in Groups : /\ committed'[h] <= Len(queue'[h]) /\ position'[h] <= Len(queue'[h])
                          /\ job'[h].pc # "idle" => position'[h] < Len(queue'[h])
    BY <1>0, <2>1, <2>2 DEF Offsets
  <2> QED
    BY <2>1, <2>3 DEF Offsets
<1>4. ASSUME NEW g \in Groups, Commit(g) \/ Failure(g) PROVE Offsets'
  <2>1. /\ queue' = queue /\ job' = [job EXCEPT ![g] = IdleJob] /\ position[g] < Len(queue[g])
        /\ \/ position' = [position EXCEPT ![g] = @ + 1] \/ position' = position
        /\ \/ attempts' = [attempts EXCEPT ![g] = 0]
           \/ attempts[g] + 1 <= MaxRetries /\ attempts' = [attempts EXCEPT ![g] = @ + 1]
        /\ \/ committed' = [committed EXCEPT ![g] = position[g] + 1] \/ committed' = committed
    BY <1>4, LoopEnds DEF Offsets
  <2>2. attempts' \in [Groups -> 0..MaxRetries]
    BY <2>1, WorkersAssumption DEF Offsets
  <2>3. /\ position' \in [Groups -> Nat] /\ committed' \in [Groups -> Nat]
        /\ \A h \in Groups : position'[h] <= Len(queue[h]) /\ committed'[h] <= Len(queue[h])
    <3>1. position[g] + 1 <= Len(queue[g]) /\ position[g] + 1 \in Nat
      BY <1>0, <2>1 DEF Offsets
    <3>2. position' \in [Groups -> Nat] /\ \A h \in Groups : position'[h] <= Len(queue[h])
      BY <2>1, <3>1 DEF Offsets
    <3>3. committed' \in [Groups -> Nat] /\ \A h \in Groups : committed'[h] <= Len(queue[h])
      BY <2>1, <3>1 DEF Offsets
    <3> QED
      BY <3>2, <3>3
  <2>4. job'[g].pc = "idle" /\ \A h \in Groups \ {g} : job'[h] = job[h] /\ position'[h] = position[h]
    BY <2>1 DEF Jobs, IdleJob, Offsets
  <2> QED
    BY <2>1, <2>2, <2>3, <2>4 DEF Offsets
<1>5. ASSUME NEW p \in Processes, Crash(p) PROVE Offsets'
  <2>1. /\ position' \in [Groups -> Nat] /\ attempts' \in [Groups -> 0..MaxRetries]
        /\ \A g \in Groups : position'[g] <= Len(queue[g])
        /\ \A g \in Groups : job'[g] = IdleJob \/ (position'[g] = position[g] /\ job'[g] = job[g])
        /\ UNCHANGED <<queue, committed>>
    BY <1>5, Restarts
  <2>2. ASSUME NEW g \in Groups, job'[g].pc # "idle" PROVE position'[g] < Len(queue'[g])
    <3>1. IdleJob.pc = "idle"
      BY DEF IdleJob
    <3>2. position'[g] = position[g] /\ job'[g] = job[g]
      BY <2>1, <2>2, <3>1
    <3> QED
      BY <2>1, <2>2, <3>2 DEF Offsets
  <2>3. \A g \in Groups : /\ committed'[g] <= Len(queue'[g]) /\ position'[g] <= Len(queue'[g])
                          /\ job'[g].pc # "idle" => position'[g] < Len(queue'[g])
    BY <2>1, <2>2 DEF Offsets
  <2> QED
    BY <2>1, <2>3 DEF Offsets
<1> QED
  BY <1>1, <1>2, <1>3, <1>4, <1>5, NextSteps

\* The counters stay natural numbers, the notifications about stored events.
LEMMA ResultsStep ==
  ASSUME Served, Queues, Offsets, Jobs, Results, events \subseteq events', setting' = setting,
         [Next]_vars
  PROVE  Results'
<1>0. setting.crashes \in Nat /\ events \subseteq Events
  BY WorkersAssumption DEF Served, Snapshots
<1> USE DEF stats, results
<1>1. CASE UNCHANGED <<results, crashes>>
  BY <1>1 DEF Results
<1>2. CASE StatsHandle
  <2>1. UNCHANGED <<notified, crashes>>
    BY <1>2 DEF StatsHandle, offsets
  <2>2. Message("stats") \in Events
    BY <1>0, <1>2, MessageTyped DEF StatsHandle, Handling
  <2>3. \A u \in TakenBack(Message("stats")) : u \in Events
    BY <1>0 DEF TakenBack, select_event_id
  <2>4. \A u \in Events : Count(u) \in [BOOLEAN -> Nat] /\ Uncount(u) \in [BOOLEAN -> Nat]
    BY EventsAssumption DEF Count, Uncount, Results
  <2>5. counts' \in [BOOLEAN -> Nat]
    BY <1>2, <2>2, <2>3, <2>4 DEF StatsHandle, Results, Change, NoChange
  <2>6. position["stats"] \in Nat
    BY DEF Offsets, Groups
  <2>7. dealt' \in Nat /\ slips' \in Nat
    BY <1>2, <2>6 DEF StatsHandle, Results, Change, NoChange
  <2> QED
    BY <2>1, <2>5, <2>7 DEF Results
<1>3. ASSUME NEW i \in Identities, Insert(i) PROVE Results'
  <2>1. notified' = notified \cup {<<i, Message("notifications")>>} /\ UNCHANGED <<stats, crashes>>
    BY <1>3 DEF Insert, offsets
  <2>2. Message("notifications") \in events
    BY <1>3, MessageTyped DEF Insert, Handling
  <2> QED
    BY <2>1, <2>2 DEF Results
<1>4. ASSUME NEW g \in Groups, Handle(g)
      PROVE  StatsHandle \/ (\E i \in Identities : Insert(i)) \/ UNCHANGED <<results, crashes>>
  BY <1>4 DEF Handle, NotificationsHandle, CheckRequested, CheckBlocks, emit, PushHandle,
     ReadTokens, PostRequests, CleanToken, Answered, offsets
<1>5. ASSUME NEW n \in Nat, PassBy(n), UNCHANGED <<counts, notified>>, crashes' \in 0..setting.crashes
      PROVE  Results'
  <2>1. dealt' \in Nat /\ slips' \in Nat
    BY <1>5 DEF PassBy, Results
  <2> QED
    BY <1>5, <2>1 DEF Results
<1>6. ASSUME NEW p \in Processes, Crash(p) PROVE Results'
  <2>1. /\ crashes < setting.crashes /\ crashes' = crashes + 1 /\ UNCHANGED <<counts, notified>>
        /\ position' \in [Groups -> Nat] /\ PassBy(position'["stats"])
    BY <1>6, Restarts
  <2>2. position'["stats"] \in Nat /\ crashes' \in 0..setting.crashes
    BY <1>0, <2>1 DEF Results, Groups
  <2> QED
    BY <1>5, <2>1, <2>2
<1>7. ASSUME NEW g \in Groups, Commit(g) \/ Failure(g) PROVE Results'
  <2>1. /\ crashes' = crashes /\ UNCHANGED <<counts, notified>>
        /\ UNCHANGED <<dealt, slips>> \/ PassBy(IF g = "stats" THEN position[g] + 1 ELSE 0)
    BY <1>7, LoopEnds
  <2>2. (IF g = "stats" THEN position[g] + 1 ELSE 0) \in Nat
    BY DEF Offsets
  <2> QED
    BY <1>1, <1>5, <2>1, <2>2 DEF Results
<1>8. ASSUME NEW g \in Groups, Receive(g) PROVE UNCHANGED <<results, crashes>>
  BY <1>8 DEF Receive, offsets
<1> QED
  BY <1>1, <1>2, <1>3, <1>4, <1>6, <1>7, <1>8, NextSteps DEF offsets

SysInv == Served /\ Queues /\ Jobs /\ Offsets /\ Results

\* Nothing is stored, sent or handled at the start.
LEMMA SysInit == Init => SysInv
<1> SUFFICES ASSUME Init PROVE SysInv
  OBVIOUS
<1>1. Served
  BY SnapshotsInit, TallyInit DEF Init, Served
<1>2. Queues /\ Jobs
  BY DEF Init, Queues, Jobs, IdleJob, Groups
<1>3. Offsets
  BY WorkersAssumption DEF Init, Offsets, IdleJob, Groups
<1>4. Results
  BY WorkersAssumption DEF Init, Results
<1> QED
  BY <1>1, <1>2, <1>3, <1>4 DEF SysInv

\* What the tables keep to: their rows and tallies are exact.
TablesInv == SysInv /\ RowsExact /\ TallyMatches

\* Every step keeps it; stored events and queues stay as they are.
LEMMA SysStep ==
  ASSUME TablesInv, [Next]_vars
  PROVE  /\ TablesInv' /\ events \subseteq events' /\ setting' = setting
         /\ \A e \in events : seen'[e] = seen[e]
         /\ \A g \in Groups : Continues(queue[g], queue'[g])
<1> USE DEF TablesInv, SysInv
<1>1. TableStep /\ setting' = setting /\ sending' \subseteq events'
  BY ServerStep
<1>2. Snapshots' /\ events \subseteq events' /\ \A e \in events : seen'[e] = seen[e]
  BY <1>1, SnapshotsStep DEF Served
<1>3. RowsExact' /\ TallyTyped' /\ TallyMatches'
  BY <1>1, RowsStep, TallyStep DEF Served
<1>4. Served'
  BY <1>1, <1>2, <1>3 DEF Served
<1>5. Queues' /\ \A g \in Groups : Continues(queue[g], queue'[g])
  BY <1>2, QueuesStep
<1>6. Jobs'
  BY JobsStep
<1>7. Offsets'
  BY <1>5, OffsetsStep
<1>8. Results'
  BY <1>1, <1>2, ResultsStep
<1> QED
  BY <1>1, <1>2, <1>3, <1>4, <1>5, <1>6, <1>7, <1>8

\* So it always holds.
LEMMA TablesExact == Spec => []TablesInv
<1>1. Init => TablesInv
  BY SysInit, RowsInit, TallyInit DEF Init, TablesInv
<1>2. TablesInv /\ [Next]_vars => TablesInv'
  BY SysStep
<1> QED
  BY <1>1, <1>2, PTL DEF Spec

(* The tally of a post counts its rows in the reaction table, however the  *)
(* statements of add_event overlap, fail and repeat.                       *)
THEOREM TalliesMatch == Spec => []TallyMatches
<1>1. TablesInv => TallyMatches
  BY DEF TablesInv
<1> QED
  BY <1>1, TablesExact, PTL

(* The rows of the cache tables are those the stored events and their      *)
(* snapshots determine: made by the statement of their event, and not      *)
(* taken away by the delete_query or profile_update_query of another that  *)
(* saw the event.                                                          *)
THEOREM RowsAreExact == Spec => []RowsExact
<1>1. TablesInv => RowsExact
  BY DEF TablesInv
<1> QED
  BY <1>1, TablesExact, PTL

(* The cache tables follow the events: one profile, and, if events arrive  *)
(* after those they name, a row for each event that stands and none for a  *)
(* deleted one.                                                            *)
THEOREM CachesFollowEvents == Spec => []CacheFollowsEvents
<1>1. TablesInv => CacheFollowsEvents
  BY TablesFollow DEF TablesInv, SysInv, Served
<1> QED
  BY <1>1, TablesExact, PTL

-----------------------------------------------------------------------------
(* The notification worker.                                                *)

\* Neither a blocked author nor a verification nobody asked for.
QuietFor(i, e) ==
  /\ ~ \E b \in seen[e] : Blocks(b, i, Author(e)) /\ ~ Deleted(b)
  /\ e.kind = "verification_verify" => was_verification_requested(events, e)

\* Those a message is due to have their row and their push.
Pushed(i, e) == Renders(e) => <<i, e>> \in Range(queue["push"])
Delivered(e) == \A i \in Due(e) : <<i, e>> \in notified /\ Pushed(i, e)

\* What the worker knows of its message while it handles it.
Underway ==
  LET j == job["notifications"]  e == Message("notifications") IN
  /\ j.pc = "blocks" => was_verification_requested(events, e)
  /\ j.pc \in {"insert", "emit"} => \A i \in j.to \cup j.left : QuietFor(i, e)
  /\ j.pc = "insert" => \A i \in Due(e) : i \in j.to /\ (i \in j.left \/ <<i, e>> \in notified)
  /\ j.pc = "emit" => \A i \in Due(e) : <<i, e>> \in notified /\ (i \in j.left \/ Pushed(i, e))
  /\ j.pc \in {"applied", "done"} => Delivered(e)

\* Not only what is committed: all that was passed since the last restart.
PassedDelivered ==
  /\ committed["notifications"] <= position["notifications"]
  /\ \A n \in 1..position["notifications"] :
       <<"notifications", n>> \notin missed => Delivered(queue["notifications"][n])

NotifyInv == TablesInv /\ Underway /\ PassedDelivered /\ BlockedStaysQuiet

\* A block that is not taken back has its row, however its statement and
\* others overlapped.
LEMMA BlockRows ==
  ASSUME Snapshots, RowsExact, NEW b \in events, b.kind = "block", ~ Deleted(b)
  PROVE  <<"block", b>> \in rows
<1>1. event_is_authorised(b)
  BY DEF event_is_authorised
<1>2. <<"block", b>> \in Inserted(b, seen[b]) /\ "block" \in Tables
  BY InsertedMeans, PointsMeans DEF Tables
<1>3. ASSUME NEW f \in events, Takes(f, seen[f], <<"block", b>>)
      PROVE  FALSE
  BY <1>3 DEF Takes, delete_query, profile_update_query, Deleted
<1> QED
  BY <1>1, <1>2, <1>3 DEF RowsExact

\* The range of a queue that continues another.
LEMMA RangeGrows ==
  ASSUME NEW S, NEW T, NEW q \in Seq(S), NEW r \in Seq(T), Continues(q, r)
  PROVE  Range(q) \subseteq Range(r)
  BY DEF Continues, Range

\* Notifications, pushes and what was given up are never taken back.
LEMMA ResultsGrow ==
  ASSUME TablesInv, [Next]_vars
  PROVE  notified \subseteq notified' /\ missed \subseteq missed'
<1>1. CASE UNCHANGED <<notified, missed>>
  BY <1>1
<1>2. ASSUME NEW g \in Groups, Commit(g) \/ Failure(g)
      PROVE  notified \subseteq notified' /\ missed \subseteq missed'
  BY <1>2, LoopEnds DEF TablesInv, SysInv, results
<1>3. ASSUME NEW g \in Groups, Receive(g) PROVE UNCHANGED <<notified, missed>>
  BY <1>3 DEF Receive, offsets, results
<1>4. ASSUME NEW g \in Groups, Handle(g)
      PROVE  notified \subseteq notified' /\ missed' = missed
  <2>1. missed' = missed
    BY <1>4, HandlerSteps DEF TablesInv, SysInv, offsets
  <2>2. notified \subseteq notified'
    BY <1>4 DEF Handle, StatsHandle, NotificationsHandle, CheckRequested, CheckBlocks, Insert,
       emit, PushHandle, ReadTokens, PostRequests, CleanToken, Answered, results
  <2> QED
    BY <2>1, <2>2
<1>5. ASSUME NEW p \in Processes, Crash(p) PROVE notified' = notified /\ missed \subseteq missed'
  BY <1>5, Restarts DEF TablesInv, SysInv
<1> QED
  BY <1>1, <1>2, <1>3, <1>4, <1>5, NextSteps DEF offsets, results

\* What is known of a stored event stays true: fewer are due, more is done.
LEMMA KnowledgeKept ==
  ASSUME TablesInv, [Next]_vars, NEW e \in events
  PROVE  /\ was_verification_requested(events, e) => was_verification_requested(events', e)
         /\ \A i : QuietFor(i, e) => QuietFor(i, e)'
         /\ Due(e)' \subseteq Due(e)
         /\ \A i : <<i, e>> \in notified => <<i, e>> \in notified'
         /\ \A i : Pushed(i, e) => Pushed(i, e)'
         /\ Delivered(e) => Delivered(e)'
<1>1. /\ events \subseteq events' /\ seen'[e] = seen[e]
      /\ Continues(queue["push"], queue'["push"]) /\ Queues /\ Queues'
  BY SysStep DEF TablesInv, SysInv, Groups
<1>2. was_verification_requested(events, e) => was_verification_requested(events', e)
  BY <1>1 DEF was_verification_requested
<1>3. \A b : Deleted(b) => Deleted(b)'
  BY <1>1 DEF Deleted
<1>4. \A i : QuietFor(i, e) => QuietFor(i, e)'
  BY <1>1, <1>2, <1>3 DEF QuietFor
<1>5. Due(e)' \subseteq Due(e)
  BY <1>1 DEF Due
<1>6. Range(queue["push"]) \subseteq Range(queue'["push"])
  BY <1>1, RangeGrows DEF Queues
<1>7. \A i : Pushed(i, e) => Pushed(i, e)'
  BY <1>6 DEF Pushed
<1>8. notified \subseteq notified'
  BY ResultsGrow
<1>9. Delivered(e) => Delivered(e)'
  BY <1>5, <1>7, <1>8 DEF Delivered
<1> QED
  BY <1>2, <1>4, <1>5, <1>7, <1>8, <1>9

\* The message a worker handles does not change under its hands.
LEMMA MessageKept ==
  ASSUME TablesInv, [Next]_vars, ~ Handling("notifications", "idle"),
         position'["notifications"] = position["notifications"]
  PROVE  /\ Message("notifications") \in events
         /\ Message("notifications")' = Message("notifications")
<1>1. Continues(queue["notifications"], queue'["notifications"])
  BY SysStep DEF Groups
<1>2. /\ Message("notifications") \in events
      /\ position["notifications"] + 1 \in 1..Len(queue["notifications"])
  BY MessageTyped DEF TablesInv, SysInv
<1> QED
  BY <1>1, <1>2 DEF Message, Continues

\* Steps of others keep what the worker knows.
LEMMA UnderwayKept ==
  ASSUME NotifyInv, [Next]_vars, job'["notifications"] = job["notifications"],
         position'["notifications"] = position["notifications"]
  PROVE  Underway'
<1>1. CASE Handling("notifications", "idle")
  BY <1>1 DEF Underway, Handling
<1>2. CASE ~ Handling("notifications", "idle")
  <2> DEFINE j == job["notifications"]
  <2>1. PICK e \in events : Message("notifications") = e /\ Message("notifications")' = e
    BY <1>2, MessageKept DEF NotifyInv
  <2>2. /\ was_verification_requested(events, e) => was_verification_requested(events', e)
        /\ \A i : QuietFor(i, e) => QuietFor(i, e)'
        /\ Due(e)' \subseteq Due(e)
        /\ \A i : <<i, e>> \in notified => <<i, e>> \in notified'
        /\ \A i : Pushed(i, e) => Pushed(i, e)'
        /\ Delivered(e) => Delivered(e)'
    BY KnowledgeKept DEF NotifyInv
  <2>3. /\ j.pc = "blocks" => was_verification_requested(events, e)
        /\ j.pc \in {"insert", "emit"} => \A i \in j.to \cup j.left : QuietFor(i, e)
        /\ j.pc = "insert" => \A i \in Due(e) : i \in j.to /\ (i \in j.left \/ <<i, e>> \in notified)
        /\ j.pc = "emit" => \A i \in Due(e) : <<i, e>> \in notified /\ (i \in j.left \/ Pushed(i, e))
        /\ j.pc \in {"applied", "done"} => Delivered(e)
    BY <2>1 DEF NotifyInv, Underway
  <2>4. /\ j.pc = "blocks" => was_verification_requested(events', e)
        /\ j.pc \in {"insert", "emit"} => \A i \in j.to \cup j.left : QuietFor(i, e)'
        /\ j.pc = "insert" => \A i \in Due(e)' : i \in j.to /\ (i \in j.left \/ <<i, e>> \in notified')
        /\ j.pc = "emit" => \A i \in Due(e)' : <<i, e>> \in notified' /\ (i \in j.left \/ Pushed(i, e)')
        /\ j.pc \in {"applied", "done"} => Delivered(e)'
    BY <2>2, <2>3
  <2> QED
    BY <2>1, <2>4 DEF Underway
<1> QED
  BY <1>1, <1>2

\* What was passed stays delivered.
LEMMA PassedKept ==
  ASSUME NotifyInv, [Next]_vars,
         NEW n \in 1..position["notifications"], <<"notifications", n>> \notin missed'
  PROVE  Delivered(queue["notifications"][n])' /\ queue'["notifications"][n] = queue["notifications"][n]
<1>1. /\ TablesInv /\ Continues(queue["notifications"], queue'["notifications"])
      /\ missed \subseteq missed'
  BY SysStep, ResultsGrow DEF NotifyInv, Groups
<1>2. /\ queue["notifications"] \in Seq(events) /\ position["notifications"] \in Nat
      /\ position["notifications"] <= Len(queue["notifications"])
      /\ Len(queue["notifications"]) \in Nat
  BY <1>1 DEF TablesInv, SysInv, Queues, Offsets, Groups
<1>3. n \in 1..Len(queue["notifications"])
  BY <1>2
<1>4. queue["notifications"][n] \in events
  BY <1>2, <1>3
<1>5. Delivered(queue["notifications"][n])
  BY <1>1 DEF NotifyInv, PassedDelivered
<1>6. queue'["notifications"][n] = queue["notifications"][n]
  BY <1>1, <1>3 DEF Continues
<1>7. \A e \in events : Delivered(e) => Delivered(e)'
  BY <1>1, KnowledgeKept
<1> QED
  BY <1>4, <1>5, <1>6, <1>7

\* was_verification_requested and identities_blocking, read by the handler.
LEMMA ChecksStep ==
  ASSUME NotifyInv, CheckRequested \/ CheckBlocks
  PROVE  Underway' /\ UNCHANGED <<notified, queue>>
<1>1. /\ UNCHANGED <<events, rows, seen, queue, position, notified>>
      /\ UNCHANGED Message("notifications") /\ ~ Handling("notifications", "idle")
  BY DEF CheckRequested, CheckBlocks, serverVars, tableVars, offsets, results, Message, Handling
<1>2. PICK e \in events : Message("notifications") = e /\ Message("notifications")' = e
  BY <1>1, MessageTyped DEF NotifyInv, TablesInv, SysInv
<1>3. seen[e] \subseteq events /\ Snapshots /\ RowsExact
  BY DEF NotifyInv, TablesInv, SysInv, Served, Snapshots
<1>4. Due(e)' = Due(e)
  BY <1>1 DEF Due
<1>5. \A i : QuietFor(i, e)' <=> QuietFor(i, e)
  BY <1>1 DEF QuietFor, Deleted
<1>6. CASE CheckRequested
  <2>1. /\ e.kind = "verification_verify"
        /\ job' = [job EXCEPT !["notifications"] =
                     [pc |-> IF was_verification_requested(events, e) THEN "blocks" ELSE "done",
                      to |-> {}, left |-> {}]]
    BY <1>2, <1>6 DEF CheckRequested, NotificationJob
  <2>2. job'["notifications"].pc =
          IF was_verification_requested(events, e) THEN "blocks" ELSE "done"
    BY <2>1 DEF NotifyInv, TablesInv, SysInv, Jobs, Groups
  <2>3. ~ was_verification_requested(events, e) => Due(e) = {}
    BY <1>3, <2>1 DEF Due, was_verification_requested
  <2>4. ~ was_verification_requested(events, e) => Delivered(e)'
    BY <1>4, <2>3 DEF Delivered
  <2> QED
    BY <1>1, <1>2, <2>2, <2>4 DEF Underway
<1>7. CASE CheckBlocks
  <2> DEFINE to == unblocked_recipients(e)
             pc == IF to = {} THEN "done" ELSE "insert"
  <2>1. /\ job' = [job EXCEPT !["notifications"] = [pc |-> pc, to |-> to, left |-> to]]
        /\ \/ Handling("notifications", "begin") /\ e.kind # "verification_verify"
           \/ Handling("notifications", "blocks")
    BY <1>2, <1>7 DEF CheckBlocks, NotificationJob
  <2>2. job'["notifications"] = [pc |-> pc, to |-> to, left |-> to]
    BY <2>1 DEF NotifyInv, TablesInv, SysInv, Jobs, Groups
  <2>3. e.kind = "verification_verify" => was_verification_requested(events, e)
    BY <1>2, <2>1 DEF NotifyInv, Underway, Handling
  <2>4. \A i \in to : QuietFor(i, e)
    <3> SUFFICES ASSUME NEW i \in to, NEW b \in seen[e], Blocks(b, i, Author(e)), ~ Deleted(b)
                 PROVE  FALSE
      BY <2>3 DEF QuietFor
    <3>1. b \in events /\ <<"block", b>> \in rows
      BY <1>3, BlockRows DEF Blocks
    <3> QED
      BY <3>1 DEF unblocked_recipients
  <2>5. Due(e) \subseteq to
    BY DEF Due, unblocked_recipients
  <2>6. to = {} => Delivered(e)'
    BY <1>4, <2>5 DEF Delivered
  <2> HIDE DEF to
  <2>7. /\ job'["notifications"].pc \in {"insert", "done"}
        /\ job'["notifications"].pc = "done" => to = {}
        /\ job'["notifications"].to = to /\ job'["notifications"].left = to
    BY <2>2
  <2> QED
    BY <1>1, <1>2, <1>4, <1>5, <2>4, <2>5, <2>6, <2>7 DEF Underway
<1> QED
  BY <1>1, <1>6, <1>7

\* One row per recipient.
LEMMA InsertStep ==
  ASSUME NotifyInv, NEW i \in Identities, Insert(i)
  PROVE  Underway' /\ BlockedStaysQuiet'
<1> DEFINE j == job["notifications"]
<1>1. /\ UNCHANGED <<events, rows, seen, queue, position>>
      /\ UNCHANGED Message("notifications") /\ ~ Handling("notifications", "idle")
      /\ i \in j.left /\ j.pc = "insert"
  BY DEF Insert, serverVars, tableVars, offsets, Message, Handling
<1>2. PICK e \in events : Message("notifications") = e /\ Message("notifications")' = e
  BY <1>1, MessageTyped DEF NotifyInv, TablesInv, SysInv
<1>3. notified' = notified \cup {<<i, e>>}
  BY <1>2 DEF Insert
<1>4. Due(e)' = Due(e)
  BY <1>1 DEF Due
<1>5. \A f, k : QuietFor(k, f)' <=> QuietFor(k, f)
  BY <1>1 DEF QuietFor, Deleted
<1>6. /\ \A k \in j.to \cup j.left : QuietFor(k, e)
      /\ \A k \in Due(e) : k \in j.to /\ (k \in j.left \/ <<k, e>> \in notified)
  BY <1>1, <1>2 DEF NotifyInv, Underway
<1>7. BlockedStaysQuiet'
  <2>1. \A n \in notified \cup Range(queue["push"]) : QuietFor(n[1], n[2])
    BY DEF NotifyInv, BlockedStaysQuiet, QuietFor
  <2>2. \A n \in notified' \cup Range(queue'["push"]) : QuietFor(n[1], n[2])
    BY <1>1, <1>3, <1>6, <2>1
  <2>3. \A n \in notified' \cup Range(queue'["push"]) : QuietFor(n[1], n[2])'
    BY <1>5, <2>2
  <2> QED
    BY <2>3 DEF BlockedStaysQuiet, QuietFor
<1>8. j = [pc |-> j.pc, to |-> j.to, left |-> j.left] /\ "notifications" \in DOMAIN job
  BY DEF NotifyInv, TablesInv, SysInv, Jobs, Groups
<1>9. /\ j.left = {i} => job'["notifications"] = [pc |-> "emit", to |-> j.to, left |-> j.to]
      /\ j.left # {i} => job'["notifications"] = [pc |-> j.pc, to |-> j.to, left |-> j.left \ {i}]
  <2>1. job' = [job EXCEPT !["notifications"] =
                  IF j.left = {i} THEN [j EXCEPT !.pc = "emit", !.left = j.to]
                                  ELSE [j EXCEPT !.left = j.left \ {i}]]
    BY DEF Insert
  <2> QED
    BY <1>8, <2>1
<1> HIDE DEF j
<1>10. CASE j.left = {i}
  <2>1. /\ job'["notifications"].pc = "emit" /\ job'["notifications"].left = j.to
        /\ job'["notifications"].to = j.to
    BY <1>9, <1>10
  <2>2. \A k \in Due(e) : <<k, e>> \in notified' /\ k \in j.to
    BY <1>3, <1>6, <1>10
  <2> QED
    BY <1>2, <1>4, <1>5, <1>6, <1>7, <2>1, <2>2 DEF Underway
<1>11. CASE j.left # {i}
  <2>1. /\ job'["notifications"].pc = "insert" /\ job'["notifications"].left = j.left \ {i}
        /\ job'["notifications"].to = j.to
    BY <1>1, <1>9, <1>11 DEF j
  <2>2. \A k \in Due(e) : k \in j.to /\ (k \in j.left \ {i} \/ <<k, e>> \in notified')
    BY <1>3, <1>6
  <2> QED
    BY <1>2, <1>4, <1>5, <1>6, <1>7, <2>1, <2>2 DEF Underway
<1> QED
  BY <1>7, <1>10, <1>11

\* One message per recipient, for the push service.
LEMMA EmitStep ==
  ASSUME NotifyInv, NEW i \in Identities, emit(i)
  PROVE  Underway' /\ BlockedStaysQuiet'
<1> DEFINE j == job["notifications"]
<1>1. /\ UNCHANGED <<events, rows, seen, position, notified>>
      /\ queue'["notifications"] = queue["notifications"] /\ ~ Handling("notifications", "idle")
      /\ i \in j.left /\ j.pc = "emit"
  BY DEF emit, serverVars, tableVars, offsets, results, Handling, NotifyInv, TablesInv, SysInv,
     Queues, Groups
<1>2. PICK e \in events : Message("notifications") = e /\ Message("notifications")' = e
  BY <1>1, MessageTyped DEF NotifyInv, TablesInv, SysInv, Message
<1>3. /\ Range(queue["push"]) \subseteq Range(queue'["push"])
      /\ Range(queue'["push"]) \subseteq Range(queue["push"]) \cup {<<i, e>>}
      /\ Renders(e) => <<i, e>> \in Range(queue'["push"])
  <2>1. queue'["push"] = IF Renders(e) THEN Append(queue["push"], <<i, e>>) ELSE queue["push"]
    BY <1>2 DEF emit, NotifyInv, TablesInv, SysInv, Queues, Groups
  <2>2. queue["push"] \in Seq(Identities \X events)
    BY DEF NotifyInv, TablesInv, SysInv, Queues
  <2>3. Range(Append(queue["push"], <<i, e>>)) = Range(queue["push"]) \cup {<<i, e>>}
    <3> DEFINE q == queue["push"]  x == <<i, e>>
    <3>1. x \in Identities \X events
      OBVIOUS
    <3>2. /\ DOMAIN Append(q, x) = 1..(Len(q) + 1) /\ DOMAIN q = 1..Len(q) /\ Len(q) \in Nat
          /\ Append(q, x)[Len(q) + 1] = x /\ \A n \in 1..Len(q) : Append(q, x)[n] = q[n]
      BY <2>2, <3>1
    <3> HIDE DEF q, x
    <3>3. ASSUME NEW y \in Range(Append(q, x)) PROVE y \in Range(q) \cup {x}
      <4>1. PICK n \in 1..(Len(q) + 1) : y = Append(q, x)[n]
        BY <3>2, <3>3 DEF Range
      <4>2. n \in 1..Len(q) \/ n = Len(q) + 1
        BY <3>2
      <4> QED
        BY <3>2, <4>1, <4>2 DEF Range
    <3>4. ASSUME NEW y \in Range(q) \cup {x} PROVE y \in Range(Append(q, x))
      <4>1. CASE y = x
        <5>1. Len(q) + 1 \in 1..(Len(q) + 1)
          BY <3>2
        <5> QED
          BY <3>2, <4>1, <5>1 DEF Range
      <4>2. CASE y \in Range(q)
        <5>1. PICK n \in 1..Len(q) : y = q[n]
          BY <3>2, <4>2 DEF Range
        <5>2. n \in 1..(Len(q) + 1)
          BY <3>2
        <5> QED
          BY <3>2, <5>1, <5>2 DEF Range
      <4> QED
        BY <3>4, <4>1, <4>2
    <3>5. Range(Append(q, x)) = Range(q) \cup {x}
      BY <3>3, <3>4
    <3> QED
      BY <3>5 DEF q, x
  <2> QED
    BY <2>1, <2>3
<1>4. Due(e)' = Due(e)
  BY <1>1 DEF Due
<1>5. \A f, k : QuietFor(k, f)' <=> QuietFor(k, f)
  BY <1>1 DEF QuietFor, Deleted
<1>6. /\ \A k \in j.to \cup j.left : QuietFor(k, e)
      /\ \A k \in Due(e) : <<k, e>> \in notified /\ (k \in j.left \/ Pushed(k, e))
  BY <1>1, <1>2 DEF NotifyInv, Underway
<1>7. BlockedStaysQuiet'
  <2>1. \A n \in notified \cup Range(queue["push"]) : QuietFor(n[1], n[2])
    BY DEF NotifyInv, BlockedStaysQuiet, QuietFor
  <2>2. \A n \in notified' \cup Range(queue'["push"]) : QuietFor(n[1], n[2])
    BY <1>1, <1>3, <1>6, <2>1
  <2>3. \A n \in notified' \cup Range(queue'["push"]) : QuietFor(n[1], n[2])'
    BY <1>5, <2>2
  <2> QED
    BY <2>3 DEF BlockedStaysQuiet, QuietFor
<1>8. j = [pc |-> j.pc, to |-> j.to, left |-> j.left] /\ "notifications" \in DOMAIN job
  BY DEF NotifyInv, TablesInv, SysInv, Jobs, Groups
<1>9. /\ j.left = {i} => job'["notifications"] = [pc |-> "applied", to |-> j.to, left |-> {}]
      /\ j.left # {i} => job'["notifications"] = [pc |-> j.pc, to |-> j.to, left |-> j.left \ {i}]
  <2>1. job' = [job EXCEPT !["notifications"] =
                  IF j.left = {i} THEN [j EXCEPT !.pc = "applied", !.left = {}]
                                  ELSE [j EXCEPT !.left = j.left \ {i}]]
    BY DEF emit
  <2> QED
    BY <1>8, <2>1
<1>10. \A k \in Due(e) : <<k, e>> \in notified' /\ (k \in j.left \ {i} \/ Pushed(k, e)')
  BY <1>1, <1>3, <1>6 DEF Pushed
<1> HIDE DEF j
<1>11. CASE j.left = {i}
  <2>1. job'["notifications"].pc = "applied"
    BY <1>9, <1>11
  <2>2. Delivered(e)'
    BY <1>4, <1>10, <1>11 DEF Delivered
  <2> QED
    BY <1>2, <1>7, <2>1, <2>2 DEF Underway
<1>12. CASE j.left # {i}
  <2>1. /\ job'["notifications"].pc = "emit" /\ job'["notifications"].left = j.left \ {i}
        /\ job'["notifications"].to = j.to
    BY <1>1, <1>9, <1>12 DEF j
  <2> QED
    BY <1>2, <1>4, <1>5, <1>6, <1>7, <1>10, <2>1 DEF Underway
<1> QED
  BY <1>11, <1>12

\* Steps other than the worker's own leave its results alone.
LEMMA OthersQuiet ==
  ASSUME NotifyInv, [Next]_vars, UNCHANGED notified, queue'["push"] = queue["push"]
  PROVE  BlockedStaysQuiet'
<1>1. \A n \in notified \cup Range(queue["push"]) : n[2] \in events /\ QuietFor(n[1], n[2])
  <2>1. \A n \in notified \cup Range(queue["push"]) : n \in Identities \X events
    BY DEF NotifyInv, TablesInv, SysInv, Results, Queues, Range
  <2> QED
    BY <2>1 DEF NotifyInv, BlockedStaysQuiet, QuietFor
<1>2. \A e \in events : \A i : QuietFor(i, e) => QuietFor(i, e)'
  BY KnowledgeKept DEF NotifyInv
<1>3. \A n \in notified' \cup Range(queue'["push"]) : QuietFor(n[1], n[2])'
  BY <1>1, <1>2
<1> QED
  BY <1>3 DEF BlockedStaysQuiet, QuietFor

\* The offsets of the worker move when it ends a job or is restarted.
LEMMA PassedStep ==
  ASSUME NotifyInv, [Next]_vars
  PROVE  PassedDelivered'
<1>0. /\ TablesInv /\ position \in [Groups -> Nat] /\ committed \in [Groups -> Nat]
      /\ committed["notifications"] <= position["notifications"]
  BY DEF NotifyInv, TablesInv, SysInv, Offsets, PassedDelivered
<1>1. ASSUME position'["notifications"] \in Nat,
             position'["notifications"] <= position["notifications"],
             committed'["notifications"] <= position'["notifications"]
      PROVE  PassedDelivered'
  <2>1. ASSUME NEW n \in 1..position'["notifications"], <<"notifications", n>> \notin missed'
        PROVE  Delivered(queue["notifications"][n])'
    <3>1. n \in 1..position["notifications"]
      BY <1>0, <1>1 DEF Groups
    <3> QED
      BY <2>1, <3>1, PassedKept
  <2> QED
    BY <1>1, <2>1 DEF PassedDelivered
<1>2. CASE UNCHANGED <<position, committed>>
  BY <1>0, <1>1, <1>2 DEF Groups
<1>3. ASSUME NEW p \in Processes, Crash(p)
      PROVE  PassedDelivered'
  <2> DEFINE g == "notifications"
  <2>1. /\ position' \in [Groups -> Nat] /\ committed'[g] <= position'[g] /\ g \in Groups
        /\ \A n \in Nat : position[g] < n /\ n <= position'[g] => <<g, n>> \in missed'
    <3>1. g \in Groups
      BY DEF Groups
    <3> QED
      BY <1>0, <1>3, <3>1, Restarts DEF TablesInv, SysInv
  <2>2. ASSUME NEW n \in 1..position'[g], <<g, n>> \notin missed'
        PROVE  Delivered(queue[g][n])'
    <3>1. n \in 1..position[g]
      BY <1>0, <2>1, <2>2
    <3> QED
      BY <2>2, <3>1, PassedKept
  <2> QED
    BY <2>1, <2>2 DEF PassedDelivered
<1>4. ASSUME NEW g \in Groups, Receive(g) \/ Handle(g)
      PROVE  UNCHANGED <<position, committed>>
  BY <1>4, HandlerSteps DEF Receive, offsets, NotifyInv, TablesInv, SysInv
<1>5. ASSUME NEW g \in Groups \ {"notifications"}, Commit(g) \/ Failure(g)
      PROVE  PassedDelivered'
  <2>1. /\ position' = [position EXCEPT ![g] = @ + 1] \/ position' = position
        /\ committed' = [committed EXCEPT ![g] = position[g] + 1] \/ committed' = committed
    BY <1>5, LoopEnds DEF NotifyInv, TablesInv, SysInv
  <2>2. /\ position'["notifications"] = position["notifications"]
        /\ committed'["notifications"] = committed["notifications"]
    BY <1>0, <2>1 DEF Groups
  <2> QED
    BY <1>0, <1>1, <2>2 DEF Groups
<1>6. ASSUME Commit("notifications") \/ Failure("notifications")
      PROVE  PassedDelivered'
  <2> DEFINE g == "notifications"
             m == position["notifications"] + 1
  <2>1. /\ job[g].pc # "idle"
        /\ \/ /\ position' = [position EXCEPT ![g] = @ + 1]
              /\ \/ job[g].pc = "done" /\ missed' = missed
                 \/ missed' = missed \cup {<<g, position[g] + 1>>}
           \/ position' = position /\ committed' = committed
        /\ \/ committed' = committed
           \/ /\ committed' = [committed EXCEPT ![g] = position[g] + 1]
              /\ position' = [position EXCEPT ![g] = @ + 1]
        /\ UNCHANGED queue /\ events' = events /\ seen' = seen /\ notified' = notified
    <3>1. g \in Groups
      BY DEF Groups
    <3> QED
      BY <1>6, <3>1, LoopEnds DEF NotifyInv, TablesInv, SysInv, serverVars, tableVars, results
  <2>2. CASE position' = position
    BY <1>0, <1>1, <1>2, <2>1, <2>2 DEF Groups
  <2>3. CASE position' = [position EXCEPT ![g] = @ + 1]
    <3>1. position'[g] = m /\ m \in Nat /\ committed'[g] <= m
      BY <1>0, <2>1, <2>3 DEF Groups
    <3>2. ASSUME NEW n \in 1..m, <<g, n>> \notin missed'
          PROVE  Delivered(queue[g][n])'
      <4>1. CASE n \in 1..position[g]
        BY <3>2, <4>1, PassedKept
      <4>2. CASE n = m
        <5>1. job[g].pc = "done"
          BY <1>0, <2>1, <2>3, <3>1, <3>2, <4>2 DEF Groups
        <5>2. Delivered(queue[g][n])
          BY <4>2, <5>1 DEF NotifyInv, Underway, Message
        <5> QED
          BY <2>1, <5>2 DEF Delivered, Due, Pushed
      <4> QED
        BY <1>0, <4>1, <4>2 DEF Groups
    <3> QED
      BY <3>1, <3>2 DEF PassedDelivered
  <2> QED
    BY <2>1, <2>2, <2>3
<1> QED
  BY <1>2, <1>3, <1>4, <1>5, <1>6, NextSteps DEF offsets

\* Every step keeps what is known of messages, and their results.
LEMMA NotifyStep ==
  ASSUME NotifyInv, [Next]_vars
  PROVE  NotifyInv'
<1> DEFINE Own == CheckRequested \/ CheckBlocks \/ (\E i \in Identities : Insert(i) \/ emit(i))
<1>1. TablesInv' /\ PassedDelivered'
  BY SysStep, PassedStep DEF NotifyInv
<1>2. ASSUME ~ Own
      PROVE  queue'["push"] = queue["push"] /\ UNCHANGED notified
  <2>1. ~ (\E i \in Identities : emit(i)) /\ ~ (\E i \in Identities : Insert(i))
    BY <1>2
  <2>2. queue'["push"] = queue["push"]
    <3>1. \A e : ~ Concerns("push", e)
      BY DEF Concerns
    <3>2. ASSUME NEW e \in Events, Publish(e) PROVE queue'["push"] = queue["push"]
      BY <3>1, <3>2 DEF Publish, Groups
    <3> QED
      BY <2>1, <3>2, QueueSteps, QuietQueues
  <2>3. ASSUME NEW g \in Groups, Receive(g) \/ Handle(g) \/ Commit(g) \/ Failure(g)
        PROVE  UNCHANGED notified
    BY <2>1, <2>3 DEF Receive, Commit, Failure, Skip, Backoff, BackoffLost, Handle, StatsHandle,
       NotificationsHandle, CheckRequested, CheckBlocks, emit, PushHandle, ReadTokens,
       PostRequests, CleanToken, Answered, results
  <2>4. ASSUME NEW p \in Processes, Crash(p) PROVE UNCHANGED notified
    BY <2>4 DEF Crash
  <2> QED
    BY <2>2, <2>3, <2>4, NextSteps DEF results
<1>3. CASE CheckRequested \/ CheckBlocks
  <2>1. Underway' /\ UNCHANGED <<notified, queue>>
    BY <1>3, ChecksStep
  <2> QED
    BY <1>1, <2>1, OthersQuiet DEF NotifyInv
<1>4. CASE \E i \in Identities : Insert(i) \/ emit(i)
  BY <1>1, <1>4, InsertStep, EmitStep DEF NotifyInv
<1>5. CASE ~ Own
  <2>1. BlockedStaysQuiet'
    BY <1>2, <1>5, OthersQuiet
  <2>2. Underway'
    <3>1. ASSUME job'["notifications"].pc \in {"idle", "begin"} PROVE Underway'
      BY <3>1 DEF Underway
    <3>2. CASE UNCHANGED <<job, offsets, results>>
      BY <3>2, UnderwayKept DEF offsets
    <3>3. ASSUME NEW g \in Groups, Receive(g) PROVE Underway'
      <4>1. job' = [job EXCEPT ![g].pc = "begin"] /\ UNCHANGED position
        BY <3>3 DEF Receive, offsets
      <4>2. CASE g = "notifications"
        BY <3>1, <4>1, <4>2 DEF NotifyInv, TablesInv, SysInv, Jobs
      <4>3. CASE g # "notifications"
        BY <4>1, <4>3, UnderwayKept DEF NotifyInv, TablesInv, SysInv, Jobs, Groups
      <4> QED
        BY <4>2, <4>3
    <3>4. ASSUME NEW g \in Groups, Handle(g) PROVE Underway'
      <4>1. g # "notifications" \/ Answered("notifications")
        BY <1>5, <3>4 DEF Handle, NotificationsHandle
      <4>2. CASE g # "notifications"
        <5>1. job'["notifications"] = job["notifications"] /\ UNCHANGED position
          BY <3>4, <4>2, HandlerSteps DEF NotifyInv, TablesInv, SysInv, offsets, Groups
        <5> QED
          BY <5>1, UnderwayKept
      <4>3. CASE Answered("notifications")
        <5>1. /\ job["notifications"].pc = "applied" /\ job'["notifications"].pc = "done"
              /\ UNCHANGED <<queue, position, events, seen, notified>>
          BY <4>3 DEF Answered, Handling, NotifyInv, TablesInv, SysInv, Jobs, Groups, offsets,
             results, serverVars, tableVars
        <5>2. Delivered(Message("notifications"))
          BY <5>1 DEF NotifyInv, Underway
        <5>3. Delivered(Message("notifications"))'
          BY <5>1, <5>2 DEF Delivered, Due, Pushed, Message
        <5> QED
          BY <5>1, <5>3 DEF Underway
      <4> QED
        BY <4>1, <4>2, <4>3
    <3>5. ASSUME NEW g \in Groups, Commit(g) \/ Failure(g) PROVE Underway'
      <4>1. /\ job' = [job EXCEPT ![g] = IdleJob]
            /\ position' = [position EXCEPT ![g] = @ + 1] \/ position' = position
        BY <3>5, LoopEnds DEF NotifyInv, TablesInv, SysInv
      <4>2. CASE g = "notifications"
        BY <3>1, <4>1, <4>2 DEF NotifyInv, TablesInv, SysInv, Jobs, IdleJob
      <4>3. CASE g # "notifications"
        <5>1. /\ job'["notifications"] = job["notifications"]
              /\ position'["notifications"] = position["notifications"]
          BY <4>1, <4>3 DEF NotifyInv, TablesInv, SysInv, Jobs, Offsets, Groups
        <5> QED
          BY <5>1, UnderwayKept
      <4> QED
        BY <4>2, <4>3
    <3>6. ASSUME NEW p \in Processes, Crash(p) PROVE Underway'
      <4>1. \/ job'["notifications"] = IdleJob
            \/ /\ position'["notifications"] = position["notifications"]
               /\ job'["notifications"] = job["notifications"]
        BY <3>6, Restarts DEF NotifyInv, TablesInv, SysInv, Groups
      <4> QED
        BY <3>1, <4>1, UnderwayKept DEF IdleJob
    <3> QED
      BY <3>2, <3>3, <3>4, <3>5, <3>6, NextSteps
  <2> QED
    BY <1>1, <2>1, <2>2 DEF NotifyInv
<1> QED
  BY <1>3, <1>4, <1>5

\* So it always holds.
LEMMA NotifyInvariant == Spec => []NotifyInv
<1>1. Init => NotifyInv
  <2> SUFFICES ASSUME Init PROVE NotifyInv
    OBVIOUS
  <2>1. TablesInv
    BY SysInit, RowsInit, TallyInit DEF Init, TablesInv
  <2>2. Underway /\ PassedDelivered
    BY DEF Init, Underway, PassedDelivered, IdleJob, Groups
  <2>3. BlockedStaysQuiet
    BY DEF Init, BlockedStaysQuiet, Range, Groups
  <2> QED
    BY <2>1, <2>2, <2>3 DEF NotifyInv
<1>2. NotifyInv /\ [Next]_vars => NotifyInv'
  BY NotifyStep
<1> QED
  BY <1>1, <1>2, PTL DEF Spec

(* A recipient who had blocked the author when the event was stored, and   *)
(* still does, gets neither a notification nor a push, and nobody gets one *)
(* of a verification he did not ask for (identities_blocking and           *)
(* was_verification_requested of the notification worker), whatever else   *)
(* is put, fails or restarts meanwhile.                                    *)
THEOREM BlockedStayQuiet == Spec => []BlockedStaysQuiet
<1>1. NotifyInv => BlockedStaysQuiet
  BY DEF NotifyInv
<1> QED
  BY <1>1, NotifyInvariant, PTL

(* Behind the committed offset of the notification worker every message    *)
(* that was not given up has its row and its push for every recipient it   *)
(* is due to, whatever the failures, retries and restarts.                 *)
THEOREM NotificationsNotLost == Spec => []NothingLost
<1>1. NotifyInv => NothingLost
  <2> SUFFICES ASSUME NotifyInv, NEW n \in 1..committed["notifications"],
                      <<"notifications", n>> \notin missed
               PROVE  Delivered(queue["notifications"][n])
    BY DEF NothingLost, Delivered, Pushed
  <2>1. n \in 1..position["notifications"]
    BY DEF NotifyInv, TablesInv, SysInv, Offsets, PassedDelivered, Groups
  <2> QED
    BY <2>1 DEF NotifyInv, PassedDelivered
<1> QED
  BY <1>1, NotifyInvariant, PTL

-----------------------------------------------------------------------------
(* The statistics worker.                                                  *)

\* An event is sent once.
Once(q) == \A n, m \in 1..Len(q) : q[n] = q[m] => n = m
SentOnce == Once(queue["stats"]) /\ sending \cap First(queue["stats"], Len(queue["stats"])) = {}

\* One number is within a margin of another.
Near(a, b, margin) == a <= b + margin /\ b <= a + margin

\* How far a counter is from the reactions that stand among the messages
\* dealt with, which include those before the one the worker is at.
Bounded ==
  /\ dealt <= Len(queue["stats"]) /\ position["stats"] <= dealt
  /\ job["stats"].pc \in {"applied", "done"} => position["stats"] < dealt
  /\ \A sign \in BOOLEAN :
       Near(counts[sign], Cardinality(Standing(queue["stats"], dealt, sign)),
            slips + Cardinality(OutOfTurn(queue["stats"], dealt)))

\* A deletion takes back one reaction, of its author: keys are unique.
LEMMA OneTakenBack ==
  ASSUME Snapshots, NEW d, NEW u
  PROVE  u \in TakenBack(d) <=> /\ u \in events /\ u.key = d.ref /\ u.kind = "url_reaction"
                                /\ d.ref.identity = Author(d) /\ TakenBack(d) = {u}
<1>1. \A v \in TakenBack(d) : v \in Events /\ v.key = d.ref
  BY DEF TakenBack, select_event_id, Snapshots
<1>2. ASSUME u \in TakenBack(d) PROVE TakenBack(d) = {u}
  BY <1>1, <1>2, EventsAssumption
<1> QED
  BY <1>2 DEF TakenBack, select_event_id

\* The deletions that count are those of the author.
LEMMA DeletesMeans ==
  ASSUME NEW d
  PROVE  Deletes(d) <=> d.kind = "delete" /\ d.ref.identity = Author(d)
  BY DEF Deletes, event_is_authorised

\* The first messages, and one more.
LEMMA FirstNext ==
  ASSUME NEW q, NEW h \in Nat
  PROVE  First(q, h + 1) = First(q, h) \cup {q[h + 1]}
<1>1. 1..(h + 1) = (1..h) \cup {h + 1}
  OBVIOUS
<1> QED
  BY <1>1 DEF First

\* There are finitely many.
LEMMA StandingFinite ==
  ASSUME NEW q, NEW h \in Nat, NEW sign
  PROVE  IsFiniteSet(Standing(q, h, sign)) /\ Cardinality(Standing(q, h, sign)) \in Nat
<1>1. IsFiniteSet(1..h)
  BY FS_Interval
<1> DEFINE f == [n \in 1..h |-> q[n]]
<1>2. First(q, h) = Range(f)
  BY DEF First, Range
<1>3. f \in Surjection(1..h, Range(f))
  BY DEF Surjection, Range
<1>4. IsFiniteSet(First(q, h))
  BY <1>1, <1>2, <1>3, FS_Surjection
<1>5. IsFiniteSet(Standing(q, h, sign))
  BY <1>4, FS_Subset DEF Standing
<1> QED
  BY <1>5, FS_CardinalityType

\* Messages out of turn are finitely many, and stay so.
LEMMA OutOfTurnFinite ==
  ASSUME NEW q, NEW h \in Nat
  PROVE  /\ IsFiniteSet(OutOfTurn(q, h)) /\ Cardinality(OutOfTurn(q, h)) \in Nat
         /\ OutOfTurn(q, h) \subseteq 1..h
<1>1. IsFiniteSet(1..h) /\ OutOfTurn(q, h) \subseteq 1..h
  BY FS_Interval DEF OutOfTurn
<1>2. IsFiniteSet(OutOfTurn(q, h))
  BY <1>1, FS_Subset
<1> QED
  BY <1>1, <1>2, FS_CardinalityType

\* Further messages, dealt with or not, leave the earlier ones in or out of
\* turn.
LEMMA OutOfTurnMore ==
  ASSUME NEW q, NEW h \in Nat, NEW r \in Nat, h <= r
  PROVE  /\ OutOfTurn(q, h) \subseteq OutOfTurn(q, r)
         /\ Cardinality(OutOfTurn(q, h)) <= Cardinality(OutOfTurn(q, r))
<1>1. \A n \in 1..h : n \in 1..r
  OBVIOUS
<1>2. OutOfTurn(q, h) \subseteq OutOfTurn(q, r)
  BY <1>1 DEF OutOfTurn
<1> QED
  BY <1>2, OutOfTurnFinite, FS_Subset

\* What the next message does to the reactions that stand, in turn.
LEMMA NextStands ==
  ASSUME Snapshots, NEW q \in Seq(events), Once(q), NEW h \in Nat, h < Len(q),
         h + 1 \notin OutOfTurn(q, h + 1), NEW sign
  PROVE  LET e == q[h + 1] IN
         /\ e.kind = "url_reaction" =>
              /\ Standing(q, h + 1, sign) = Standing(q, h, sign) \cup {x \in {e} : e.positive = sign}
              /\ e \notin Standing(q, h, sign)
         /\ \A u \in TakenBack(e) : e.kind = "delete" =>
              /\ Standing(q, h + 1, sign) = Standing(q, h, sign) \ {u}
              /\ u.positive = sign <=> u \in Standing(q, h, sign)
<1> DEFINE e == q[h + 1]
<1>1. /\ Len(q) \in Nat /\ 1..h \subseteq 1..Len(q) /\ h + 1 \in 1..Len(q) /\ h + 1 \in 1..(h + 1)
      /\ h + 1 \notin 1..h /\ (h + 1) - 1 = h
  OBVIOUS
<1>2. /\ \A n \in 1..Len(q) : q[n] \in events
      /\ events \subseteq Events
  BY DEF Snapshots
<1>3. First(q, h + 1) = First(q, h) \cup {e}
  BY FirstNext
<1>4. e \notin First(q, h) /\ e \in events /\ First(q, h) \subseteq events
  BY <1>1, <1>2 DEF First, Once
<1>5. CASE e.kind = "url_reaction"
  <2>1. ~ Deletes(e)
    BY <1>5, DeletesMeans
  <2>2. ~ \E m \in 1..h : Deletes(q[m]) /\ q[m].ref = e.key
    BY <1>1, <1>5 DEF OutOfTurn
  <2>3. ~ \E d \in First(q, h + 1) : Deletes(d) /\ d.ref = e.key
    BY <1>3, <2>1, <2>2 DEF First
  <2>4. Standing(q, h + 1, sign) = Standing(q, h, sign) \cup {x \in {e} : e.positive = sign}
    BY <1>3, <1>5, <2>1, <2>3 DEF Standing
  <2> QED
    BY <1>4, <1>5, <2>4 DEF Standing
<1>6. ASSUME e.kind = "delete", NEW u \in TakenBack(e)
      PROVE  /\ Standing(q, h + 1, sign) = Standing(q, h, sign) \ {u}
             /\ u.positive = sign <=> u \in Standing(q, h, sign)
  <2>1. /\ u \in events /\ u.key = e.ref /\ u.kind = "url_reaction" /\ Deletes(e)
        /\ TakenBack(e) = {u}
    BY <1>6, OneTakenBack, DeletesMeans
  <2>2. /\ \E m \in 1..h : q[m].key = e.ref
        /\ ~ \E m \in 1..h : Deletes(q[m]) /\ q[m].ref = e.ref
    BY <1>1, <1>6, <2>1 DEF OutOfTurn
  <2>3. \A x \in First(q, h) : e.ref = x.key <=> x = u
    BY <1>2, <1>4, <2>1, EventsAssumption
  <2>4. u \in First(q, h)
    BY <2>2, <2>3 DEF First
  <2>5. ~ \E d \in First(q, h) : Deletes(d) /\ d.ref = u.key
    BY <2>1, <2>2 DEF First
  <2>6. Standing(q, h + 1, sign) = Standing(q, h, sign) \ {u}
    BY <1>3, <1>6, <2>1, <2>3 DEF Standing
  <2> QED
    BY <2>1, <2>4, <2>5, <2>6 DEF Standing
<1> QED
  BY <1>5, <1>6

\* Out of turn, or without anything to take back, it does nothing to them.
LEMMA NextStill ==
  ASSUME Snapshots, NEW q \in Seq(events), NEW h \in Nat, h < Len(q),
         \/ h + 1 \in OutOfTurn(q, h + 1)
         \/ q[h + 1].kind = "delete" /\ TakenBack(q[h + 1]) = {},
         NEW sign
  PROVE  Standing(q, h + 1, sign) = Standing(q, h, sign)
<1> DEFINE e == q[h + 1]
<1>1. /\ Len(q) \in Nat /\ 1..h \subseteq 1..Len(q) /\ h + 1 \in 1..Len(q) /\ (h + 1) - 1 = h
  OBVIOUS
<1>2. First(q, h + 1) = First(q, h) \cup {e}
  BY FirstNext
<1>3. e \in Events /\ First(q, h) \subseteq events /\ events \subseteq Events
  BY <1>1 DEF First, Snapshots
<1>4. CASE e.kind = "url_reaction"
  <2>1. ~ Deletes(e)
    BY <1>4, DeletesMeans
  <2>2. \E m \in 1..h : Deletes(q[m]) /\ q[m].ref = e.key
    BY <1>1, <1>4 DEF OutOfTurn
  <2>3. \E d \in First(q, h) : Deletes(d) /\ d.ref = e.key
    BY <2>2 DEF First
  <2> QED
    BY <1>2, <2>1, <2>3 DEF Standing
<1>5. CASE e.kind = "delete"
  <2> SUFFICES ASSUME NEW x \in Standing(q, h, sign), Deletes(e), e.ref = x.key
               PROVE  FALSE
    BY <1>2, <1>5 DEF Standing
  <2>1. /\ x \in First(q, h) /\ x.kind = "url_reaction" /\ x \in events
        /\ ~ \E d \in First(q, h) : Deletes(d) /\ d.ref = x.key
    BY <1>3 DEF Standing
  <2>2. x \in TakenBack(e)
    BY <1>5, <2>1, DeletesMeans DEF TakenBack, select_event_id
  <2>3. \/ \E m \in 1..h : Deletes(q[m]) /\ q[m].ref = e.ref
        \/ ~ \E m \in 1..h : q[m].key = e.ref
    BY <1>1, <1>5, <2>2 DEF OutOfTurn
  <2>4. PICK m \in 1..h : q[m] = x
    BY <2>1 DEF First
  <2> QED
    BY <2>1, <2>3, <2>4 DEF First
<1>6. e.kind \in {"url_reaction", "delete"}
  BY DEF OutOfTurn
<1> QED
  BY <1>4, <1>5, <1>6

\* A set that another and one value for each number of an interval cover.
LEMMA Covered ==
  ASSUME NEW A, IsFiniteSet(A), NEW B, IsFiniteSet(B), NEW h \in Nat, NEW r \in Nat, h <= r,
         NEW f, B \subseteq A \cup {f[n] : n \in (h + 1)..r}
  PROVE  Cardinality(B) <= Cardinality(A) + (r - h)
<1> DEFINE I == (h + 1)..r
           g == [n \in I |-> f[n]]
           T == {f[n] : n \in I}
<1>1. IsFiniteSet(I) /\ Cardinality(I) = r - h
  <2>1. h + 1 \in Int /\ r \in Int
    OBVIOUS
  <2>2. IsFiniteSet(I) /\ Cardinality(I) = IF h + 1 > r THEN 0 ELSE r - (h + 1) + 1
    BY <2>1, FS_Interval
  <2> QED
    BY <2>2
<1>2. g \in Surjection(I, T)
  BY DEF Surjection
<1>3. IsFiniteSet(T) /\ Cardinality(T) <= Cardinality(I)
  BY <1>1, <1>2, FS_Surjection
<1> HIDE DEF T, I
<1>4. /\ IsFiniteSet(A \cup T)
      /\ Cardinality(A \cup T) = Cardinality(A) + Cardinality(T) - Cardinality(A \cap T)
  BY <1>3, FS_Union
<1>5. IsFiniteSet(A \cap T)
  BY <1>3, FS_Subset
<1>6. /\ Cardinality(A) \in Nat /\ Cardinality(T) \in Nat /\ Cardinality(A \cap T) \in Nat
      /\ Cardinality(B) \in Nat
  BY <1>3, <1>5, FS_CardinalityType
<1>7. Cardinality(B) <= Cardinality(A \cup T)
  BY <1>4, FS_Subset DEF T, I
<1> QED
  BY <1>1, <1>3, <1>4, <1>6, <1>7

\* Each message makes one reaction stand, or one fall, at most.
LEMMA StandingMoves ==
  ASSUME Snapshots, NEW q \in Seq(events), NEW h \in Nat, NEW r \in Nat, h <= r, r <= Len(q),
         NEW sign
  PROVE  Near(Cardinality(Standing(q, h, sign)), Cardinality(Standing(q, r, sign)), r - h)
<1> DEFINE A == Standing(q, h, sign)
           B == Standing(q, r, sign)
           I == (h + 1)..r
           f == [n \in I |-> CHOOSE u \in A : u.key = q[n].ref]
<1>1. /\ \A n \in 1..r : n \in 1..h \/ n \in I
      /\ 1..h \subseteq 1..r /\ 1..h \subseteq 1..Len(q) /\ I \subseteq 1..r
  OBVIOUS
<1>2. First(q, r) = First(q, h) \cup {q[n] : n \in I}
  BY <1>1 DEF First
<1>3. IsFiniteSet(A) /\ IsFiniteSet(B)
  BY StandingFinite
<1>4. B \subseteq A \cup {q[n] : n \in I}
  BY <1>2 DEF Standing
<1>5. A \subseteq Events
  BY <1>1 DEF Standing, First, Snapshots
<1>6. \A u, v \in A : u.key = v.key => u = v
  BY <1>5, EventsAssumption
<1>7. ASSUME NEW x \in A, x \notin B PROVE x \in {f[n] : n \in I}
  <2>1. PICK n \in I : q[n].ref = x.key
    BY <1>2, <1>7 DEF Standing
  <2>2. (CHOOSE u \in A : u.key = q[n].ref) = x
    BY <1>6, <2>1
  <2> QED
    BY <2>1, <2>2
<1>8. A \subseteq B \cup {f[n] : n \in I}
  BY <1>7
<1> HIDE DEF A, B, f
<1>9. Cardinality(B) <= Cardinality(A) + (r - h)
  BY <1>3, <1>4, Covered
<1>10. Cardinality(A) <= Cardinality(B) + (r - h)
  BY <1>3, <1>8, Covered
<1> QED
  BY <1>9, <1>10 DEF Near, A, B

StatsInv == TablesInv /\ SentOnce /\ Bounded

\* put_events spawns one send for an event it stores for the first time.
LEMMA SentOnceStep ==
  ASSUME TablesInv, SentOnce, [Next]_vars
  PROVE  SentOnce'
<1> DEFINE q == queue["stats"]
<1>1. q \in Seq(events) /\ Len(q) \in Nat /\ (\A n \in 1..Len(q) : q[n] \in events)
  BY DEF TablesInv, SysInv, Queues
<1>2. ASSUME queue'["stats"] = q, sending' \cap First(q, Len(q)) = {}
      PROVE  SentOnce'
  BY <1>2 DEF SentOnce
<1>3. ASSUME sending' \subseteq sending, queue'["stats"] = q
      PROVE  SentOnce'
  BY <1>2, <1>3 DEF SentOnce
<1>4. ASSUME NEW s \in statements, EndPut(s)
      PROVE  SentOnce'
  <2>1. sending' \subseteq sending \cup {s.event} /\ s.event \notin events /\ queue' = queue
    BY <1>4 DEF EndPut, add_event
  <2>2. First(q, Len(q)) \subseteq events
    BY <1>1 DEF First
  <2> QED
    BY <1>2, <2>1, <2>2 DEF SentOnce
<1>5. ASSUME NEW e \in Events, Publish(e)
      PROVE  SentOnce'
  <2>1. e \in sending /\ sending' = sending \ {e}
    BY <1>5 DEF Publish
  <2>2. queue'["stats"] = Append(q, e) \/ queue'["stats"] = q
    BY <1>5 DEF Publish, Groups
  <2>3. CASE queue'["stats"] = q
    BY <1>3, <2>1, <2>3
  <2>4. CASE queue'["stats"] = Append(q, e)
    <3> DEFINE r == Append(q, e)
    <3>1. /\ Len(r) = Len(q) + 1 /\ r[Len(q) + 1] = e /\ \A n \in 1..Len(q) : r[n] = q[n]
      BY <1>1
    <3>2. \A n \in 1..Len(r) : n = Len(q) + 1 \/ n \in 1..Len(q)
      BY <1>1, <3>1
    <3>3. First(r, Len(r)) \subseteq First(q, Len(q)) \cup {e}
      BY <3>1, <3>2 DEF First
    <3>4. \A n \in 1..Len(q) : q[n] # e
      BY <2>1 DEF SentOnce, First
    <3>5. Once(r)
      BY <3>1, <3>2, <3>4 DEF SentOnce, Once
    <3>6. sending' \cap First(r, Len(r)) = {}
      BY <2>1, <3>3 DEF SentOnce
    <3> HIDE DEF r
    <3>7. queue'["stats"] = r
      BY <2>4 DEF r
    <3> QED
      BY <3>5, <3>6, <3>7 DEF SentOnce
  <2> QED
    BY <2>2, <2>3, <2>4
<1>6. CASE UNCHANGED serverVars
  <2>1. queue'["stats"] = q
    <3>1. ASSUME NEW i \in Identities, emit(i) PROVE queue'["stats"] = q
      BY <3>1 DEF emit, TablesInv, SysInv, Queues, Groups
    <3>2. ASSUME NEW e \in Events, Publish(e) PROVE FALSE
      BY <1>6, <3>2 DEF Publish, serverVars
    <3> QED
      BY <3>1, <3>2, QueueSteps, QuietQueues
  <2> QED
    BY <1>3, <1>6, <2>1 DEF serverVars
<1>7. ASSUME \/ StartPut \/ (\E s \in statements : AbandonPut(s))
             \/ \E e \in Events : LosePublish(e)
      PROVE  sending' \subseteq sending /\ queue' = queue
  BY <1>7 DEF StartPut, AbandonPut, LosePublish, workerVars
<1>8. ASSUME \/ \E g \in Groups : Receive(g) \/ Handle(g) \/ Commit(g) \/ Failure(g)
             \/ \E p \in Processes : Crash(p)
             \/ \E k \in DeviceKeys, t \in Tokens : Register(k, t) \/ Unregister(k, t)
             \/ \E t \in Tokens : TokenDies(t)
             \/ UNCHANGED vars
      PROVE  UNCHANGED serverVars
  BY <1>8 DEF Receive, Commit, Failure, Skip, Backoff, BackoffLost, Handle, StatsHandle,
     NotificationsHandle, CheckRequested, CheckBlocks, Insert, emit, PushHandle, ReadTokens,
     PostRequests, CleanToken, Answered, Crash, Register, Unregister, TokenDies, vars
<1> QED
  BY <1>3, <1>4, <1>5, <1>6, <1>7, <1>8 DEF Next

\* New events and new messages change nothing about the reactions among the
\* messages dealt with, and put none of these back in turn.
LEMMA StandingKept ==
  ASSUME TablesInv, TablesInv', events \subseteq events',
         Continues(queue["stats"], queue'["stats"]), NEW h \in Nat, h <= Len(queue["stats"])
  PROVE  /\ \A sign : Standing(queue'["stats"], h, sign) = Standing(queue["stats"], h, sign)
         /\ OutOfTurn(queue["stats"], h) \subseteq OutOfTurn(queue["stats"], h)'
<1> DEFINE q == queue["stats"]
           r == queue'["stats"]
<1>1. /\ \A n \in 1..h : r[n] = q[n]
      /\ \A n \in 1..h : \A m \in 1..(n - 1) : m \in 1..h
  <2>1. q \in Seq(events) /\ Len(q) \in Nat
    BY DEF TablesInv, SysInv, Queues
  <2>2. \A n \in 1..h : n \in 1..Len(q)
    BY <2>1
  <2> QED
    BY <2>2 DEF Continues
<1>2. First(r, h) = First(q, h)
  BY <1>1 DEF First
<1>3. \A d : TakenBack(d) # {} => TakenBack(d)' # {}
  BY DEF TakenBack, select_event_id
<1>4. \A n \in 1..h : TakenBack(q[n]) # {} => TakenBack(queue["stats"][n])' # {}
  <2> SUFFICES ASSUME NEW n \in 1..h, TakenBack(q[n]) # {}
               PROVE  TakenBack(queue["stats"][n])' # {}
    OBVIOUS
  <2>1. PICK d : d = q[n] /\ d = r[n]
    BY <1>1
  <2>2. TakenBack(d)' # {}
    BY <1>3, <2>1
  <2> QED
    BY <2>1, <2>2
<1>5. OutOfTurn(queue["stats"], h) \subseteq OutOfTurn(queue["stats"], h)'
  BY <1>1, <1>4 DEF OutOfTurn
<1> QED
  BY <1>2, <1>5 DEF Standing

\* Margins add up.
LEMMA NearFar ==
  ASSUME NEW a \in Nat, NEW b \in Nat, NEW k \in Nat, NEW o \in Nat, NEW v \in Nat,
         Near(a, b, k + o), o <= v
  PROVE  Near(a, b, k + v)
  BY DEF Near

LEMMA NearMoved ==
  ASSUME NEW a \in Nat, NEW b \in Nat, NEW c \in Nat, NEW k \in Nat, NEW o \in Nat,
         NEW v \in Nat, NEW h \in Nat, NEW l \in Nat,
         Near(a, b, k + o), Near(b, c, l - h), h <= l, o <= v
  PROVE  Near(a, c, (k + (l - h)) + v)
  BY DEF Near

LEMMA NearAgain ==
  ASSUME NEW a \in Nat, NEW b \in Nat, NEW c \in Nat, NEW k \in Nat, NEW o \in Nat,
         Near(a, b, 1), Near(b, c, k + o)
  PROVE  Near(a, c, (k + 1) + o)
  BY DEF Near

LEMMA NearLate ==
  ASSUME NEW a \in Nat, NEW b \in Nat, NEW c \in Nat, NEW k \in Nat, NEW o \in Nat,
         NEW v \in Nat, Near(a, b, 1), Near(b, c, k + o), o + 1 <= v
  PROVE  Near(a, c, k + v)
  BY DEF Near

\* The numbers of the bound.
LEMMA StatsTyped ==
  ASSUME StatsInv
  PROVE  /\ Snapshots /\ queue["stats"] \in Seq(events) /\ Once(queue["stats"])
         /\ Len(queue["stats"]) \in Nat /\ position["stats"] \in Nat /\ "stats" \in Groups
         /\ dealt \in Nat /\ slips \in Nat /\ counts \in [BOOLEAN -> Nat]
         /\ dealt <= Len(queue["stats"]) /\ position["stats"] <= dealt
         /\ \A h \in Nat : Cardinality(OutOfTurn(queue["stats"], h)) \in Nat
         /\ \A h \in Nat, sign \in BOOLEAN : /\ Cardinality(Standing(queue["stats"], h, sign)) \in Nat
                                             /\ IsFiniteSet(Standing(queue["stats"], h, sign))
<1>1. /\ Snapshots /\ queue["stats"] \in Seq(events) /\ Once(queue["stats"])
      /\ position["stats"] \in Nat /\ "stats" \in Groups
      /\ dealt \in Nat /\ slips \in Nat /\ counts \in [BOOLEAN -> Nat]
      /\ dealt <= Len(queue["stats"]) /\ position["stats"] <= dealt
  BY DEF StatsInv, TablesInv, SysInv, Served, Queues, Offsets, Results, SentOnce, Bounded, Groups
<1>2. Len(queue["stats"]) \in Nat
  BY <1>1
<1> QED
  BY <1>1, <1>2, OutOfTurnFinite, StandingFinite

\* Steps that leave the counters.
LEMMA BoundKept ==
  ASSUME StatsInv, [Next]_vars, UNCHANGED stats, position'["stats"] <= dealt,
         job'["stats"].pc \in {"applied", "done"} => position'["stats"] < dealt
  PROVE  Bounded'
<1>1. /\ TablesInv /\ TablesInv' /\ events \subseteq events'
      /\ Continues(queue["stats"], queue'["stats"])
  BY SysStep DEF StatsInv, Groups
<1>2. /\ dealt \in Nat /\ slips \in Nat /\ dealt <= Len(queue["stats"]) /\ counts \in [BOOLEAN -> Nat]
      /\ Cardinality(OutOfTurn(queue["stats"], dealt)) \in Nat /\ Len(queue["stats"]) \in Nat
      /\ \A sign \in BOOLEAN : Cardinality(Standing(queue["stats"], dealt, sign)) \in Nat
  BY StatsTyped
<1>3. PICK h \in Nat : h = dealt
  BY <1>2
<1>4. /\ \A sign : Standing(queue'["stats"], h, sign) = Standing(queue["stats"], h, sign)
      /\ OutOfTurn(queue["stats"], h) \subseteq OutOfTurn(queue["stats"], h)'
  BY <1>1, <1>2, <1>3, StandingKept
<1>5. /\ IsFiniteSet(OutOfTurn(queue["stats"], h)')
      /\ Cardinality(OutOfTurn(queue["stats"], h)') \in Nat
  <2>1. OutOfTurn(queue["stats"], h)' \subseteq 1..h /\ IsFiniteSet(1..h)
    BY FS_Interval DEF OutOfTurn
  <2>2. IsFiniteSet(OutOfTurn(queue["stats"], h)')
    BY <2>1, FS_Subset
  <2> QED
    BY <2>2, FS_CardinalityType
<1>6. Cardinality(OutOfTurn(queue["stats"], h)) <= Cardinality(OutOfTurn(queue["stats"], h)')
  BY <1>4, <1>5, FS_Subset
<1>7. dealt' = h /\ slips' = slips /\ counts' = counts
  BY <1>3 DEF stats
<1>8. dealt' <= Len(queue'["stats"]) /\ position'["stats"] <= dealt'
  <2>1. Len(queue'["stats"]) \in Nat
    BY <1>1 DEF TablesInv, SysInv, Queues
  <2> QED
    BY <1>1, <1>2, <1>3, <1>7, <2>1 DEF Continues
<1>9. ASSUME NEW sign \in BOOLEAN
      PROVE  Near(counts'[sign], Cardinality(Standing(queue'["stats"], dealt', sign)),
                  slips' + Cardinality(OutOfTurn(queue["stats"], dealt)'))
  <2>1. Near(counts[sign], Cardinality(Standing(queue["stats"], h, sign)),
             slips + Cardinality(OutOfTurn(queue["stats"], h)))
    BY <1>3 DEF StatsInv, Bounded
  <2>2. OutOfTurn(queue["stats"], dealt)' = OutOfTurn(queue["stats"], h)'
    BY <1>7
  <2>3. Near(counts[sign], Cardinality(Standing(queue["stats"], h, sign)),
             slips + Cardinality(OutOfTurn(queue["stats"], h)'))
    BY <1>2, <1>3, <1>5, <1>6, <2>1 DEF Near
  <2> QED
    BY <1>4, <1>7, <2>2, <2>3
<1> QED
  BY <1>3, <1>7, <1>8, <1>9 DEF Bounded

\* In steps that store and send nothing, the bound is about the same queue.
LEMMA SameQueue ==
  ASSUME UNCHANGED <<events, queue>>, dealt' <= Len(queue["stats"]),
         position'["stats"] <= dealt',
         job'["stats"].pc \in {"applied", "done"} => position'["stats"] < dealt',
         \A sign \in BOOLEAN :
           Near(counts'[sign], Cardinality(Standing(queue["stats"], dealt', sign)),
                slips' + Cardinality(OutOfTurn(queue["stats"], dealt')))
  PROVE  Bounded'
<1>1. \A h : OutOfTurn(queue["stats"], h)' = OutOfTurn(queue["stats"], h)
  BY DEF OutOfTurn, TakenBack
<1>2. PICK d : d = dealt'
  OBVIOUS
<1>3. OutOfTurn(queue["stats"], dealt)' = OutOfTurn(queue["stats"], d)
  <2>1. OutOfTurn(queue["stats"], dealt)' = OutOfTurn(queue["stats"], d)'
    BY <1>2
  <2> QED
    BY <1>1, <2>1
<1> QED
  BY <1>2, <1>3 DEF Bounded

\* Messages passed by.
LEMMA PassByStep ==
  ASSUME StatsInv, UNCHANGED <<events, queue, counts>>, NEW n \in Nat, n <= Len(queue["stats"]),
         PassBy(n), position'["stats"] <= dealt',
         job'["stats"].pc \in {"applied", "done"} => position'["stats"] < dealt'
  PROVE  Bounded'
<1> DEFINE q == queue["stats"]
<1>1. /\ Snapshots /\ q \in Seq(events) /\ counts \in [BOOLEAN -> Nat]
      /\ \A h \in Nat : Cardinality(OutOfTurn(q, h)) \in Nat
      /\ \A h \in Nat, sign \in BOOLEAN : Cardinality(Standing(q, h, sign)) \in Nat
  BY StatsTyped
<1>n. dealt \in Nat /\ slips \in Nat /\ dealt <= Len(q) /\ Len(q) \in Nat
  BY StatsTyped
<1>a. dealt' \in Nat /\ dealt <= dealt' /\ dealt' <= Len(q) /\ slips' = slips + (dealt' - dealt)
  <2> HIDE DEF q
  <2>1. n <= Len(q)
    BY DEF q
  <2> QED
    BY <1>n, <2>1 DEF PassBy
<1>2. PICK d \in Nat : d = dealt' /\ dealt <= d /\ d <= Len(q) /\ slips' = slips + (d - dealt)
  BY <1>a
<1>3. Cardinality(OutOfTurn(q, dealt)) <= Cardinality(OutOfTurn(q, d))
  BY <1>n, <1>2, OutOfTurnMore
<1>4. ASSUME NEW sign \in BOOLEAN
      PROVE  Near(counts[sign], Cardinality(Standing(q, d, sign)),
                  slips' + Cardinality(OutOfTurn(q, d)))
  <2>1. Near(counts[sign], Cardinality(Standing(q, dealt, sign)),
             slips + Cardinality(OutOfTurn(q, dealt)))
    BY DEF StatsInv, Bounded
  <2>2. Near(Cardinality(Standing(q, dealt, sign)), Cardinality(Standing(q, d, sign)), d - dealt)
    BY <1>1, <1>n, <1>2, StandingMoves
  <2>a. /\ counts[sign] \in Nat /\ Cardinality(Standing(q, dealt, sign)) \in Nat
        /\ Cardinality(Standing(q, d, sign)) \in Nat
        /\ Cardinality(OutOfTurn(q, d)) \in Nat /\ Cardinality(OutOfTurn(q, dealt)) \in Nat
    BY <1>1, <1>n
  <2> HIDE DEF q
  <2>3. Near(counts[sign], Cardinality(Standing(q, d, sign)),
             (slips + (d - dealt)) + Cardinality(OutOfTurn(q, d)))
    BY <1>n, <1>2, <1>3, <2>1, <2>2, <2>a, NearMoved
  <2> QED
    BY <1>2, <2>3
<1> HIDE DEF q
<1>5. \A sign \in BOOLEAN : Near(counts'[sign], Cardinality(Standing(q, dealt', sign)),
                                 slips' + Cardinality(OutOfTurn(q, dealt')))
  BY <1>2, <1>4
<1> QED
  BY <1>2, <1>5, SameQueue DEF q

\* The two changes of a counter.
LEMMA CountMeans ==
  ASSUME counts \in [BOOLEAN -> Nat], NEW e \in Events, NEW sign \in BOOLEAN
  PROVE  /\ Count(e)[sign] = IF e.positive = sign THEN counts[sign] + 1 ELSE counts[sign]
         /\ Uncount(e)[sign] =
              IF e.positive = sign /\ counts[sign] > 0 THEN counts[sign] - 1 ELSE counts[sign]
         /\ Near(Count(e)[sign], counts[sign], 1) /\ Near(Uncount(e)[sign], counts[sign], 1)
<1>1. e.positive \in BOOLEAN
  BY EventsAssumption
<1>2. Count(e)[sign] = IF e.positive = sign THEN counts[sign] + 1 ELSE counts[sign]
  BY <1>1 DEF Count
<1>3. Uncount(e)[sign] =
        IF e.positive = sign /\ counts[sign] > 0 THEN counts[sign] - 1 ELSE counts[sign]
  BY <1>1 DEF Uncount
<1> QED
  BY <1>2, <1>3 DEF Near

\* A message in turn is counted exactly.
LEMMA InTurn ==
  ASSUME StatsInv, dealt < Len(queue["stats"]),
         dealt + 1 \notin OutOfTurn(queue["stats"], dealt + 1),
         NEW e, e = queue["stats"][dealt + 1], NEW to,
         \/ e.kind = "url_reaction" /\ to = Count(e)
         \/ e.kind = "delete" /\ \E u \in TakenBack(e) : to = Uncount(u),
         NEW sign \in BOOLEAN, NEW m \in Nat,
         Near(counts[sign], Cardinality(Standing(queue["stats"], dealt, sign)), m)
  PROVE  Near(to[sign], Cardinality(Standing(queue["stats"], dealt + 1, sign)), m)
<1> DEFINE q == queue["stats"]
           S == Standing(q, dealt, sign)
           T == Standing(q, dealt + 1, sign)
<1>1. /\ Snapshots /\ q \in Seq(events) /\ Once(q) /\ dealt \in Nat /\ counts \in [BOOLEAN -> Nat]
      /\ Cardinality(S) \in Nat /\ IsFiniteSet(S) /\ Len(q) \in Nat
  BY StatsTyped
<1>2. e \in Events /\ events \subseteq Events
  BY <1>1 DEF Snapshots
<1>3. /\ e.kind = "url_reaction" => T = S \cup {x \in {e} : e.positive = sign} /\ e \notin S
      /\ \A u \in TakenBack(e) :
           e.kind = "delete" => T = S \ {u} /\ (u.positive = sign <=> u \in S)
  BY <1>1, NextStands
<1> HIDE DEF S, T
<1>4. CASE e.kind = "url_reaction" /\ to = Count(e)
  <2>1. to[sign] = IF e.positive = sign THEN counts[sign] + 1 ELSE counts[sign]
    BY <1>1, <1>2, <1>4, CountMeans
  <2>2. Cardinality(T) = IF e.positive = sign THEN Cardinality(S) + 1 ELSE Cardinality(S)
    <3>1. CASE e.positive = sign
      <4>1. T = S \cup {e} /\ e \notin S
        BY <1>3, <1>4, <3>1
      <4> QED
        BY <1>1, <3>1, <4>1, FS_AddElement
    <3>2. CASE e.positive # sign
      <4>1. T = S
        BY <1>3, <1>4, <3>2
      <4> QED
        BY <3>2, <4>1
    <3> QED
      BY <3>1, <3>2
  <2> QED
    BY <1>1, <2>1, <2>2 DEF Near, S, T
<1>5. ASSUME e.kind = "delete", NEW u \in TakenBack(e), to = Uncount(u)
      PROVE  Near(to[sign], Cardinality(T), m)
  <2>1. u \in Events
    BY <1>2 DEF TakenBack, select_event_id
  <2>2. to[sign] = IF u.positive = sign /\ counts[sign] > 0 THEN counts[sign] - 1 ELSE counts[sign]
    BY <1>1, <1>5, <2>1, CountMeans
  <2>3. T = S \ {u} /\ (u.positive = sign <=> u \in S)
    BY <1>3, <1>5
  <2>4. CASE u.positive = sign
    <3>1. Cardinality(T) = Cardinality(S) - 1 /\ S # {}
      BY <1>1, <2>3, <2>4, FS_RemoveElement
    <3>2. Cardinality(S) # 0
      BY <1>1, <3>1, FS_EmptySet
    <3>3. Cardinality(T) \in Nat
      BY <1>1, <3>1, <3>2
    <3> QED
      BY <1>1, <2>2, <2>4, <3>1, <3>3 DEF Near, S
  <2>5. CASE u.positive # sign
    <3>1. T = S
      BY <2>3, <2>5
    <3> QED
      BY <2>2, <2>5, <3>1 DEF S
  <2> QED
    BY <2>4, <2>5
<1> QED
  BY <1>4, <1>5 DEF T

\* One out of turn costs one.
LEMMA OutTurn ==
  ASSUME NEW q, NEW h \in Nat, h + 1 \in OutOfTurn(q, h + 1)
  PROVE  Cardinality(OutOfTurn(q, h)) + 1 <= Cardinality(OutOfTurn(q, h + 1))
<1>1. OutOfTurn(q, h) \cup {h + 1} \subseteq OutOfTurn(q, h + 1) /\ h + 1 \notin OutOfTurn(q, h)
  BY OutOfTurnMore, OutOfTurnFinite
<1>2. Cardinality(OutOfTurn(q, h) \cup {h + 1}) = Cardinality(OutOfTurn(q, h)) + 1
  BY <1>1, OutOfTurnFinite, FS_AddElement
<1> QED
  BY <1>1, <1>2, OutOfTurnFinite, FS_Subset

\* The handler: a message that is new, or one dealt with before.
LEMMA CountStep ==
  ASSUME StatsInv, StatsHandle
  PROVE  Bounded'
<1> DEFINE q == queue["stats"]
           n == position["stats"] + 1
           e == q[n]
<1>n. /\ Len(q) \in Nat /\ dealt \in Nat /\ slips \in Nat /\ dealt <= Len(q)
      /\ position["stats"] \in Nat /\ position["stats"] <= dealt
  BY StatsTyped
<1>1. /\ Snapshots /\ q \in Seq(events)
      /\ counts \in [BOOLEAN -> Nat] /\ "stats" \in Groups
      /\ \A h \in Nat : Cardinality(OutOfTurn(q, h)) \in Nat
      /\ \A h \in Nat, sign \in BOOLEAN : Cardinality(Standing(q, h, sign)) \in Nat
  BY StatsTyped
<1>o. /\ Cardinality(OutOfTurn(q, dealt)) \in Nat /\ Cardinality(OutOfTurn(q, dealt + 1)) \in Nat
  <2> HIDE DEF q
  <2>1. dealt + 1 \in Nat
    BY <1>n
  <2> QED
    BY <1>1, <1>n, <2>1
<1>s. \A sign \in BOOLEAN : /\ Cardinality(Standing(q, dealt, sign)) \in Nat
                            /\ Cardinality(Standing(q, dealt + 1, sign)) \in Nat
                            /\ counts[sign] \in Nat
  <2> HIDE DEF q
  <2>1. dealt + 1 \in Nat
    BY <1>n
  <2> QED
    BY <1>1, <1>n, <2>1
<1>2. /\ UNCHANGED <<queue, position, events>> /\ n <= Len(q) /\ e \in Events /\ events \subseteq Events
  <2>1. Message("stats") \in events /\ position["stats"] + 1 \in 1..Len(queue["stats"])
    BY MessageTyped DEF StatsHandle, Handling, StatsInv, TablesInv, SysInv
  <2>2. n <= Len(q)
    BY <1>n, <2>1
  <2>3. UNCHANGED <<queue, position, events>>
    BY DEF StatsHandle, serverVars, tableVars, offsets
  <2>4. e \in Events /\ events \subseteq Events
    BY <1>1, <2>1 DEF Message, Snapshots
  <2> QED
    BY <2>2, <2>3, <2>4
<1>3. \A sign \in BOOLEAN :
        Near(counts[sign], Cardinality(Standing(q, dealt, sign)),
             slips + Cardinality(OutOfTurn(q, dealt)))
  BY DEF StatsInv, Bounded
<1>4. ASSUME NEW to, Change(to),
             \/ e.kind = "url_reaction" /\ to = Count(e)
             \/ e.kind = "delete" /\ \E u \in TakenBack(e) : to = Uncount(u)
      PROVE  Bounded'
  <2>1. \A sign \in BOOLEAN : to[sign] \in Nat /\ Near(to[sign], counts[sign], 1)
    <3> TAKE sign \in BOOLEAN
    <3>1. \A u \in TakenBack(e) : u \in Events
      BY <1>2 DEF TakenBack, select_event_id
    <3>2. ASSUME NEW u \in Events
          PROVE  /\ Near(Count(u)[sign], counts[sign], 1) /\ Count(u)[sign] \in Nat
                 /\ Near(Uncount(u)[sign], counts[sign], 1) /\ Uncount(u)[sign] \in Nat
      <4>1. counts[sign] \in Nat
        BY <1>1
      <4>2. /\ Near(Count(u)[sign], counts[sign], 1) /\ Near(Uncount(u)[sign], counts[sign], 1)
            /\ Count(u)[sign] = IF u.positive = sign THEN counts[sign] + 1 ELSE counts[sign]
            /\ Uncount(u)[sign] =
                 IF u.positive = sign /\ counts[sign] > 0 THEN counts[sign] - 1 ELSE counts[sign]
        BY <1>1, CountMeans
      <4> QED
        BY <4>1, <4>2
    <3> QED
      BY <1>2, <1>4, <3>1, <3>2
  <2>2. CASE n <= dealt
    <3>1. dealt' = dealt /\ slips' = slips + 1 /\ counts' = to
      BY <1>n, <1>4, <2>2 DEF Change
    <3>2. ASSUME NEW sign \in BOOLEAN
          PROVE  Near(to[sign], Cardinality(Standing(q, dealt, sign)),
                      (slips + 1) + Cardinality(OutOfTurn(q, dealt)))
      <4>1. /\ Cardinality(Standing(q, dealt, sign)) \in Nat /\ counts[sign] \in Nat
            /\ Cardinality(OutOfTurn(q, dealt)) \in Nat /\ to[sign] \in Nat
        BY <1>1, <1>n, <2>1
      <4>2. /\ Near(to[sign], counts[sign], 1)
            /\ Near(counts[sign], Cardinality(Standing(q, dealt, sign)),
                    slips + Cardinality(OutOfTurn(q, dealt)))
        BY <1>3, <2>1
      <4> HIDE DEF q
      <4> QED
        BY <1>n, <4>1, <4>2, NearAgain
    <3> HIDE DEF q
    <3>3. \A sign \in BOOLEAN : Near(counts'[sign], Cardinality(Standing(q, dealt', sign)),
                                     slips' + Cardinality(OutOfTurn(q, dealt')))
      BY <3>1, <3>2
    <3>4. /\ dealt' <= Len(q) /\ position'["stats"] <= dealt'
          /\ position'["stats"] < dealt'
      BY <1>n, <1>2, <2>2, <3>1
    <3> QED
      BY <1>2, <3>3, <3>4, SameQueue DEF q
  <2>3. CASE n > dealt
    <3>1. n = dealt + 1 /\ dealt' = dealt + 1 /\ slips' = slips /\ counts' = to /\ dealt < Len(q)
      BY <1>n, <1>2, <1>4, <2>3 DEF Change
    <3>2. ASSUME NEW sign \in BOOLEAN
          PROVE  Near(to[sign], Cardinality(Standing(q, dealt + 1, sign)),
                      slips + Cardinality(OutOfTurn(q, dealt + 1)))
      <4>1. CASE dealt + 1 \notin OutOfTurn(q, dealt + 1)
        <5>1. PICK m \in Nat : m = slips + Cardinality(OutOfTurn(q, dealt))
          BY <1>1, <1>n
        <5>2. Near(to[sign], Cardinality(Standing(q, dealt + 1, sign)), m)
          <6>1. Near(counts[sign], Cardinality(Standing(q, dealt, sign)), m) /\ e = q[dealt + 1]
            BY <1>3, <3>1, <5>1
          <6> HIDE DEF e
          <6> QED
            BY <1>4, <3>1, <4>1, <6>1, InTurn
        <5>3. Near(to[sign], Cardinality(Standing(q, dealt + 1, sign)),
                   slips + Cardinality(OutOfTurn(q, dealt)))
          BY <5>1, <5>2
        <5>4. Cardinality(OutOfTurn(q, dealt)) <= Cardinality(OutOfTurn(q, dealt + 1))
          BY <1>n, OutOfTurnMore
        <5> HIDE DEF q
        <5> QED
          BY <1>n, <1>o, <1>s, <2>1, <5>3, <5>4, NearFar
      <4>2. CASE dealt + 1 \in OutOfTurn(q, dealt + 1)
        <5>1. Standing(q, dealt + 1, sign) = Standing(q, dealt, sign)
          BY <1>1, <1>n, <3>1, <4>2, NextStill
        <5>2. Cardinality(OutOfTurn(q, dealt)) + 1 <= Cardinality(OutOfTurn(q, dealt + 1))
          BY <1>n, <4>2, OutTurn
        <5>3. Near(to[sign], counts[sign], 1) /\ to[sign] \in Nat
          BY <2>1
        <5>4. Near(to[sign], Cardinality(Standing(q, dealt, sign)),
                   slips + Cardinality(OutOfTurn(q, dealt + 1)))
          <6> HIDE DEF q
          <6> QED
            BY <1>n, <1>o, <1>s, <1>3, <5>2, <5>3, NearLate
        <5> QED
          BY <5>1, <5>4
      <4> QED
        BY <4>1, <4>2
    <3> HIDE DEF q
    <3>3. \A sign \in BOOLEAN : Near(counts'[sign], Cardinality(Standing(q, dealt', sign)),
                                     slips' + Cardinality(OutOfTurn(q, dealt')))
      BY <3>1, <3>2
    <3>4. dealt' <= Len(q) /\ position'["stats"] <= dealt' /\ position'["stats"] < dealt'
      BY <1>n, <1>2, <3>1
    <3> QED
      BY <1>2, <3>3, <3>4, SameQueue DEF q
  <2> QED
    BY <1>n, <2>2, <2>3
<1>5. ASSUME e.kind = "delete", TakenBack(e) = {}, NoChange
      PROVE  Bounded'
  <2>1. CASE n <= dealt
    <3>1. dealt' = dealt /\ slips' = slips /\ counts' = counts
      BY <1>n, <1>5, <2>1 DEF NoChange
    <3>2. dealt' <= Len(q) /\ position'["stats"] <= dealt' /\ position'["stats"] < dealt'
      BY <1>n, <1>2, <2>1, <3>1
    <3> HIDE DEF q
    <3>3. \A sign \in BOOLEAN : Near(counts'[sign], Cardinality(Standing(q, dealt', sign)),
                                     slips' + Cardinality(OutOfTurn(q, dealt')))
      BY <1>3, <3>1
    <3> QED
      BY <1>2, <3>2, <3>3, SameQueue DEF q
  <2>2. CASE n > dealt
    <3>1. n = dealt + 1 /\ dealt' = dealt + 1 /\ slips' = slips /\ counts' = counts /\ dealt < Len(q)
      BY <1>n, <1>2, <1>5, <2>2 DEF NoChange
    <3>2. \A sign \in BOOLEAN : Standing(q, dealt + 1, sign) = Standing(q, dealt, sign)
      BY <1>1, <1>n, <1>5, <3>1, NextStill
    <3>3. Cardinality(OutOfTurn(q, dealt)) <= Cardinality(OutOfTurn(q, dealt + 1))
      BY <1>n, OutOfTurnMore
    <3>4. ASSUME NEW sign \in BOOLEAN
          PROVE  Near(counts[sign], Cardinality(Standing(q, dealt + 1, sign)),
                      slips + Cardinality(OutOfTurn(q, dealt + 1)))
      <4>2. Near(counts[sign], Cardinality(Standing(q, dealt, sign)),
                 slips + Cardinality(OutOfTurn(q, dealt + 1)))
        <5> HIDE DEF q
        <5> QED
          BY <1>n, <1>o, <1>s, <1>3, <3>3, NearFar
      <4> QED
        BY <3>2, <4>2
    <3>5. dealt' <= Len(q) /\ position'["stats"] <= dealt' /\ position'["stats"] < dealt'
      BY <1>n, <1>2, <3>1
    <3> HIDE DEF q
    <3>6. \A sign \in BOOLEAN : Near(counts'[sign], Cardinality(Standing(q, dealt', sign)),
                                     slips' + Cardinality(OutOfTurn(q, dealt')))
      BY <3>1, <3>4
    <3> QED
      BY <1>2, <3>5, <3>6, SameQueue DEF q
  <2> QED
    BY <1>n, <2>1, <2>2
<1> QED
  BY <1>4, <1>5 DEF StatsHandle, Message

\* The steps of the loop, of the other handlers and of everyone else.
LEMMA BoundStep ==
  ASSUME StatsInv, [Next]_vars, ~ StatsHandle
  PROVE  Bounded'
<1>1. /\ Jobs /\ Offsets /\ Queues /\ position \in [Groups -> Nat] /\ "stats" \in Groups
      /\ position["stats"] \in Nat /\ dealt \in Nat /\ slips \in Nat
      /\ dealt <= Len(queue["stats"]) /\ position["stats"] <= dealt /\ Len(queue["stats"]) \in Nat
      /\ job["stats"].pc \in {"applied", "done"} => position["stats"] < dealt
  <2>1. "stats" \in Groups /\ Jobs /\ Offsets /\ Queues
    BY DEF StatsInv, TablesInv, SysInv, Groups
  <2> QED
    BY <2>1, StatsTyped DEF StatsInv, Bounded, Offsets
<1>2. ASSUME job'["stats"].pc = job["stats"].pc, position'["stats"] = position["stats"],
             UNCHANGED stats
      PROVE  Bounded'
  BY <1>1, <1>2, BoundKept
<1>3. CASE UNCHANGED <<job, offsets, results>>
  BY <1>2, <1>3 DEF offsets, results
<1>4. ASSUME NEW g \in Groups, Handle(g) PROVE Bounded'
  <2>1. UNCHANGED stats
    BY <1>4 DEF Handle, NotificationsHandle, CheckRequested, CheckBlocks, Insert, emit, PushHandle,
       ReadTokens, PostRequests, CleanToken, Answered, results
  <2>2. CASE g # "stats"
    <3>1. job'["stats"] = job["stats"] /\ UNCHANGED offsets
      BY <1>1, <1>4, <2>2, HandlerSteps
    <3> QED
      BY <1>2, <2>1, <3>1 DEF offsets
  <2>3. CASE g = "stats"
    <3>1. Answered("stats")
      BY <1>4, <2>3 DEF Handle
    <3>2. job["stats"].pc = "applied" /\ position' = position
      BY <3>1 DEF Answered, Handling, offsets
    <3> QED
      BY <1>1, <2>1, <3>2, BoundKept
  <2> QED
    BY <2>2, <2>3
<1>5. ASSUME NEW g \in Groups, Receive(g) PROVE Bounded'
  <2>1. /\ job' = [job EXCEPT ![g].pc = "begin"] /\ job[g].pc = "idle"
        /\ UNCHANGED <<position, stats>>
    BY <1>5 DEF Receive, Handling, offsets, results
  <2>2. job'["stats"].pc \in {"applied", "done"} => job["stats"].pc \in {"applied", "done"}
    BY <1>1, <2>1 DEF Jobs
  <2> QED
    BY <1>1, <2>1, <2>2, BoundKept
<1>6. ASSUME NEW g \in Groups \ {"stats"}, Commit(g) \/ Failure(g) PROVE Bounded'
  <2>1. /\ job' = [job EXCEPT ![g] = IdleJob] /\ counts' = counts
        /\ position' = [position EXCEPT ![g] = @ + 1] \/ position' = position
        /\ UNCHANGED <<dealt, slips>> \/ PassBy(0)
    BY <1>1, <1>6, LoopEnds
  <2>2. job'["stats"] = job["stats"] /\ position'["stats"] = position["stats"]
    BY <1>1, <1>6, <2>1 DEF Jobs
  <2>3. UNCHANGED stats
    BY <1>1, <2>1 DEF PassBy, stats
  <2> QED
    BY <1>2, <2>2, <2>3
<1>7. ASSUME Commit("stats") \/ Failure("stats") PROVE Bounded'
  <2>1. /\ job' = [job EXCEPT !["stats"] = IdleJob] /\ job["stats"].pc # "idle" /\ counts' = counts
        /\ UNCHANGED <<serverVars, queue>>
        /\ position' = [position EXCEPT !["stats"] = @ + 1] \/ position' = position
        /\ \/ UNCHANGED <<dealt, slips>> /\ (Commit("stats") \/ position' = position)
           \/ PassBy(position["stats"] + 1)
    BY <1>1, <1>7, LoopEnds
  <2>2. job'["stats"].pc = "idle" /\ position["stats"] + 1 <= Len(queue["stats"])
    BY <1>1, <2>1 DEF Jobs, IdleJob, Offsets
  <2>3. /\ position'["stats"] \in Nat /\ position'["stats"] <= position["stats"] + 1
        /\ position' = position => position'["stats"] = position["stats"]
    BY <1>1, <2>1
  <2>4. CASE UNCHANGED <<dealt, slips>> /\ (Commit("stats") \/ position' = position)
    <3>1. position'["stats"] <= dealt
      <4>1. Commit("stats") => job["stats"].pc = "done"
        BY DEF Commit, Handling
      <4> QED
        BY <1>1, <2>3, <2>4, <4>1
    <3> QED
      BY <2>1, <2>2, <2>4, <3>1, BoundKept DEF stats
  <2>5. CASE PassBy(position["stats"] + 1)
    <3>1. PICK m \in Nat : m = position["stats"] + 1
      BY <1>1
    <3>2. m <= Len(queue["stats"]) /\ PassBy(m) /\ position'["stats"] <= dealt'
      BY <1>1, <2>2, <2>3, <2>5, <3>1 DEF PassBy
    <3>3. UNCHANGED <<events, queue, counts>>
      BY <2>1 DEF serverVars, tableVars
    <3> QED
      BY <2>2, <3>2, <3>3, PassByStep
  <2> QED
    BY <2>1, <2>4, <2>5
<1>8. ASSUME NEW p \in Processes, Crash(p) PROVE Bounded'
  <2>1. /\ position' \in [Groups -> Nat] /\ position'["stats"] <= Len(queue["stats"])
        /\ job'["stats"] = IdleJob
             \/ (position'["stats"] = position["stats"] /\ job'["stats"] = job["stats"])
        /\ PassBy(position'["stats"]) /\ UNCHANGED <<serverVars, queue, counts>>
    BY <1>1, <1>8, Restarts
  <2>2. PICK m \in Nat : m = position'["stats"]
    BY <1>1, <2>1
  <2>3. PassBy(m) /\ m <= dealt' /\ dealt <= dealt' /\ dealt' \in Nat
    BY <1>1, <2>1, <2>2 DEF PassBy
  <2>4. job'["stats"].pc \in {"applied", "done"} => position'["stats"] < dealt'
    BY <1>1, <2>1, <2>3 DEF IdleJob
  <2>5. UNCHANGED <<events, queue, counts>> /\ m <= Len(queue["stats"]) /\ position'["stats"] <= dealt'
    BY <2>1, <2>2, <2>3 DEF serverVars, tableVars
  <2> QED
    BY <2>3, <2>4, <2>5, PassByStep
<1> QED
  BY <1>3, <1>4, <1>5, <1>6, <1>7, <1>8, NextSteps

\* So the bound always holds.
LEMMA StatsInvariant == Spec => []StatsInv
<1>1. Init => StatsInv
  <2> SUFFICES ASSUME Init PROVE StatsInv
    OBVIOUS
  <2>1. TablesInv
    BY SysInit, RowsInit, TallyInit DEF Init, TablesInv
  <2>2. /\ queue["stats"] = << >> /\ "stats" \in Groups /\ position["stats"] = 0
        /\ job["stats"].pc = "idle" /\ dealt = 0 /\ slips = 0
    BY DEF Init, IdleJob, Groups
  <2>3. SentOnce
    BY <2>2 DEF Init, SentOnce, Once
  <2>4. /\ \A sign \in BOOLEAN : Standing(queue["stats"], 0, sign) = {}
        /\ OutOfTurn(queue["stats"], 0) = {}
    BY DEF Standing, First, OutOfTurn
  <2>5. Bounded
    <3>1. /\ Cardinality(OutOfTurn(queue["stats"], 0)) = 0
          /\ \A sign \in BOOLEAN : /\ Cardinality(Standing(queue["stats"], 0, sign)) = 0
                                   /\ counts[sign] = 0
      BY <2>4, FS_EmptySet DEF Init
    <3>2. Near(0, 0, 0 + 0) /\ Len(queue["stats"]) = 0
      BY <2>2 DEF Near
    <3>3. \A sign \in BOOLEAN : Near(counts[sign], Cardinality(Standing(queue["stats"], dealt, sign)),
                                     slips + Cardinality(OutOfTurn(queue["stats"], dealt)))
      BY <2>2, <3>1, <3>2
    <3> QED
      BY <2>2, <3>2, <3>3 DEF Bounded
  <2> QED
    BY <2>1, <2>3, <2>5 DEF StatsInv
<1>2. StatsInv /\ [Next]_vars => StatsInv'
  BY SysStep, SentOnceStep, CountStep, BoundStep DEF StatsInv
<1> QED
  BY <1>1, <1>2, PTL DEF Spec

(* Once the statistics worker has caught up, its counters are off from the *)
(* reactions that stand by no more than one for each message passed over   *)
(* uncounted, counted again or out of turn, whatever else fails, repeats   *)
(* or restarts.                                                            *)
THEOREM CountsAreBounded == Spec => []CountsStanding
<1>1. StatsInv => CountsStanding
  <2> DEFINE q == queue["stats"]
  <2> SUFFICES ASSUME StatsInv, position["stats"] = Len(q), NEW sign \in BOOLEAN
               PROVE  /\ Cardinality(Standing(q, Len(q), sign))
                           - (slips + Cardinality(OutOfTurn(q, Len(q)))) <= counts[sign]
                      /\ counts[sign] <= Cardinality(Standing(q, Len(q), sign))
                           + (slips + Cardinality(OutOfTurn(q, Len(q))))
    BY DEF CountsStanding
  <2>1. /\ Len(q) \in Nat /\ slips \in Nat /\ counts[sign] \in Nat /\ dealt = Len(q)
        /\ Cardinality(Standing(q, Len(q), sign)) \in Nat
        /\ Cardinality(OutOfTurn(q, Len(q))) \in Nat
    <3>1. /\ Len(q) \in Nat /\ slips \in Nat /\ dealt \in Nat /\ dealt <= Len(q)
          /\ position["stats"] <= dealt
      BY StatsTyped
    <3>2. dealt = Len(q)
      BY <3>1
    <3> QED
      BY <3>1, <3>2, StatsTyped
  <2>2. Near(counts[sign], Cardinality(Standing(q, Len(q), sign)),
             slips + Cardinality(OutOfTurn(q, Len(q))))
    BY <2>1 DEF StatsInv, Bounded
  <2> QED
    BY <2>1, <2>2 DEF Near
<1> QED
  BY <1>1, StatsInvariant, PTL

-----------------------------------------------------------------------------
(* The push service and the tokens of devices.                             *)

PushTyped ==
  /\ push_token \in [DeviceKeys -> Tokens \cup {NoToken}]
  /\ current \in [DeviceKeys -> Tokens \cup {NoToken}]
  /\ dead \subseteq Tokens
  /\ DOMAIN job = Groups
  /\ job["push"] = [pc |-> job["push"].pc, to |-> job["push"].to, left |-> job["push"].left]

\* What is left to clean up was reported dead, and dead tokens stay dead.
LeftDead == job["push"].pc = "clean" => \A kt \in job["push"].left : kt[2] \in dead

IInv == PushTyped /\ LeftDead /\ LiveTokenKept

\* The steps of the others, and those of the push service up to cleaning up.
LEMMA JobSteps ==
  ASSUME IInv, UNCHANGED deviceVars,
         DOMAIN job' = Groups,
         job'["push"] = job["push"] \/ job'["push"] = IdleJob
           \/ job'["push"] = [job["push"] EXCEPT !.pc = "begin"]
  PROVE  IInv'
  BY DEF IInv, PushTyped, LeftDead, LiveTokenKept, deviceVars, IdleJob

\* No token is registered at the start.
LEMMA InitHolds == Init => IInv
  BY WorkersAssumption
  DEF Init, IInv, PushTyped, LeftDead, LiveTokenKept, IdleJob, Groups

\* put_events and the sends it spawns do not touch the push service.
LEMMA ServerSteps ==
  ASSUME IInv,
         \/ StartPut \/ \E s \in statements : EndPut(s) \/ AbandonPut(s)
         \/ \E e \in Events : Publish(e) \/ LosePublish(e)
  PROVE  IInv'
<1>1. UNCHANGED <<job, deviceVars>>
  BY DEF StartPut, EndPut, AbandonPut, Publish, LosePublish, workerVars
<1> QED
  BY <1>1, JobSteps DEF IInv, PushTyped

\* run_consumer: receiving, committing, retrying and giving up.
LEMMA LoopSteps ==
  ASSUME IInv, NEW g \in Groups, Receive(g) \/ Commit(g) \/ Failure(g)
  PROVE  IInv'
<1>1. UNCHANGED deviceVars
  BY DEF Receive, Commit, Failure, Skip, Backoff, BackoffLost
<1>2. CASE Receive(g)
  <2>1. DOMAIN job' = Groups /\ job'[g] = [job[g] EXCEPT !.pc = "begin"]
          /\ \A h \in Groups \ {g} : job'[h] = job[h]
    BY <1>2 DEF Receive, IInv, PushTyped
  <2> QED
    BY <1>1, <2>1, JobSteps DEF Groups
<1>3. CASE Commit(g) \/ Failure(g)
  <2>1. job' = [job EXCEPT ![g] = IdleJob]
    BY <1>3 DEF Commit, Failure, Skip, Backoff, BackoffLost, PassOver, Pass
  <2>2. DOMAIN job' = Groups /\ job'[g] = IdleJob /\ \A h \in Groups \ {g} : job'[h] = job[h]
    BY <2>1 DEF IInv, PushTyped
  <2> QED
    BY <1>1, <2>2, JobSteps DEF Groups
<1> QED
  BY <1>2, <1>3

\* A restart forgets the job under way.
LEMMA CrashSteps ==
  ASSUME IInv, NEW p \in Processes, Crash(p)
  PROVE  IInv'
<1>1. job' = [g \in Groups |-> IF g \in p THEN IdleJob ELSE job[g]] /\ UNCHANGED deviceVars
  BY DEF Crash
<1>2. DOMAIN job' = Groups /\ (job'["push"] = job["push"] \/ job'["push"] = IdleJob)
  BY <1>1 DEF Groups
<1> QED
  BY <1>1, <1>2, JobSteps

\* The handlers of the two workers change their own jobs only.
LEMMA WorkerSteps ==
  ASSUME IInv, StatsHandle \/ NotificationsHandle
  PROVE  IInv'
<1>1. UNCHANGED deviceVars
  BY DEF StatsHandle, NotificationsHandle, CheckRequested, CheckBlocks, Insert, emit
<1>2. \E g \in {"stats", "notifications"} : \E v : job' = [job EXCEPT ![g] = v]
  <2>1. CASE StatsHandle
    <3>1. \E pc : job' = [job EXCEPT !["stats"].pc = pc]
      BY <2>1 DEF StatsHandle, Change, NoChange
    <3> QED
      BY <3>1
  <2>2. CASE CheckRequested \/ CheckBlocks
    BY <2>2 DEF CheckRequested, CheckBlocks, NotificationJob
  <2>3. CASE \E i \in Identities : Insert(i) \/ emit(i)
    BY <2>3 DEF Insert, emit
  <2> QED
    BY <2>1, <2>2, <2>3 DEF NotificationsHandle
<1>3. DOMAIN job' = Groups /\ job'["push"] = job["push"]
  BY <1>2 DEF IInv, PushTyped, Groups
<1> QED
  BY <1>1, <1>3, JobSteps

\* A call that had its effect is answered.
LEMMA AnswerSteps ==
  ASSUME IInv, NEW g \in Groups, Answered(g)
  PROVE  IInv'
<1>1. /\ job' = [job EXCEPT ![g].pc = "done"] /\ UNCHANGED deviceVars
  BY DEF Answered
<1>2. /\ DOMAIN job' = Groups
      /\ job'["push"] = job["push"] \/ job'["push"] = [job["push"] EXCEPT !.pc = "done"]
  BY <1>1 DEF IInv, PushTyped, Groups
<1> QED
  BY <1>1, <1>2 DEF IInv, PushTyped, LeftDead, LiveTokenKept, deviceVars

\* The job PushJob leaves.
JobRecord(pc, left, end) ==
  [pc |-> IF left = {} THEN end ELSE pc, to |-> {}, left |-> left]

\* process_notification: only the clean-up changes a token, and only a dead one.
LEMMA PushSteps ==
  ASSUME IInv, PushHandle
  PROVE  IInv'
<1> USE DEF IInv
<1>1. CASE ReadTokens
  <2>1. PICK left : PushJob("post", left, "done")
    BY <1>1 DEF ReadTokens
  <2>2. UNCHANGED deviceVars
    BY <1>1 DEF ReadTokens
  <2>3. DOMAIN job' = Groups /\ job'["push"] = JobRecord("post", left, "done")
    BY <2>1 DEF PushJob, JobRecord, PushTyped, Groups
  <2> QED
    BY <2>1, <2>2, <2>3 DEF JobRecord, PushTyped, LeftDead, LiveTokenKept, deviceVars
<1>2. CASE PostRequests
  <2>1. PICK left \in SUBSET {kt \in job["push"].left : kt[2] \in dead} :
                  PushJob("clean", left, "done")
    BY <1>2 DEF PostRequests
  <2>2. UNCHANGED deviceVars
    BY <1>2 DEF PostRequests
  <2>3. DOMAIN job' = Groups /\ job'["push"] = JobRecord("clean", left, "done")
    BY <2>1 DEF PushJob, JobRecord, PushTyped, Groups
  <2> QED
    BY <2>1, <2>2, <2>3 DEF JobRecord, PushTyped, LeftDead, LiveTokenKept, deviceVars
<1>3. ASSUME NEW k \in DeviceKeys, NEW t \in Tokens, CleanToken(k, t)
      PROVE  IInv'
  <2>1. t \in dead
    BY <1>3 DEF CleanToken, Handling, LeftDead
  <2>2. PushJob("clean", job["push"].left \ {<<k, t>>}, "applied") /\ UNCHANGED <<current, dead>>
    BY <1>3 DEF CleanToken
  <2>3. /\ DOMAIN job' = Groups
        /\ job'["push"] = JobRecord("clean", job["push"].left \ {<<k, t>>}, "applied")
    BY <2>2 DEF PushJob, JobRecord, PushTyped, Groups
  <2>4. push_token' = [push_token EXCEPT ![k] = IF @ = t THEN NoToken ELSE @]
    BY <1>3 DEF CleanToken, unregister
  <2>5. LeftDead'
    BY <1>3, <2>2, <2>3 DEF JobRecord, LeftDead, CleanToken, Handling
  <2>6. PushTyped'
    BY <2>2, <2>4, <2>3 DEF JobRecord, PushTyped
  <2>7. LiveTokenKept'
    BY <2>1, <2>2, <2>4 DEF LiveTokenKept, PushTyped
  <2> QED
    BY <2>5, <2>6, <2>7
<1> QED
  BY <1>1, <1>2, <1>3 DEF PushHandle

\* A device registers or unregisters: its token and its row change together.
LEMMA DeviceSteps ==
  ASSUME IInv, NEW k \in DeviceKeys, NEW t \in Tokens,
         Register(k, t) \/ Unregister(k, t)
  PROVE  IInv'
<1> USE DEF IInv, PushTyped, LeftDead, LiveTokenKept
<1>1. CASE Register(k, t)
  BY <1>1, WorkersAssumption DEF Register
<1>2. CASE Unregister(k, t)
  BY <1>2, WorkersAssumption DEF Unregister, unregister
<1> QED
  BY <1>1, <1>2

\* Registered tokens are kept at every step.
LEMMA DeviceInvariant == Spec => []IInv
<1>1. IInv /\ [Next]_vars => IInv'
  <2> SUFFICES ASSUME IInv, [Next]_vars PROVE IInv'
    OBVIOUS
  <2>1. CASE UNCHANGED vars
    BY <2>1, JobSteps DEF vars, workerVars, IInv, PushTyped
  <2>2. CASE \/ StartPut \/ \E s \in statements : EndPut(s) \/ AbandonPut(s)
             \/ \E e \in Events : Publish(e) \/ LosePublish(e)
    BY <2>2, ServerSteps
  <2>3. CASE \E g \in Groups : Receive(g) \/ Handle(g) \/ Commit(g) \/ Failure(g)
    BY <2>3, LoopSteps, WorkerSteps, PushSteps, AnswerSteps DEF Handle
  <2>4. CASE \E p \in Processes : Crash(p)
    BY <2>4, CrashSteps
  <2>5. CASE \E k \in DeviceKeys, t \in Tokens : Register(k, t) \/ Unregister(k, t)
    BY <2>5, DeviceSteps
  <2>6. ASSUME NEW t \in Tokens, TokenDies(t)
        PROVE  IInv'
    BY <2>6 DEF IInv, PushTyped, LeftDead, LiveTokenKept, TokenDies
  <2> QED
    BY <2>1, <2>2, <2>3, <2>4, <2>5, <2>6 DEF Next
<1> QED
  BY <1>1, InitHolds, PTL DEF Spec

(* A device that works and has registered its token stays registered,      *)
(* however its registrations interleave with pushes to older tokens of it, *)
(* the cleaning up after them (clean_unregistered_push_tokens), failures   *)
(* and restarts of the push service.                                       *)
THEOREM LiveTokensAreKept == Spec => []LiveTokenKept
<1>1. IInv => LiveTokenKept
  BY DEF IInv
<1> QED
  BY <1>1, DeviceInvariant, PTL

(* The tables, queues, offsets, jobs, results and tokens have their types: *)
(* in particular no consumer is beyond the end of its queue or handles a   *)
(* message that is not there, and a message is about a stored event.       *)
THEOREM TypesHold == Spec => []TypeOK
<1>1. StatsInv /\ IInv => TypeOK
  <2> SUFFICES ASSUME StatsInv, TablesInv, IInv PROVE TypeOK
    BY DEF StatsInv
  <2>1. TablesOK
    BY DEF TablesInv, SysInv, Served, Snapshots, TallyTyped, TablesOK
  <2>2. setting \in Settings /\ sending \subseteq events
    BY DEF TablesInv, SysInv, Served
  <2>3. /\ \A g \in {"stats", "notifications"} : queue[g] \in Seq(events)
        /\ queue["push"] \in Seq(Identities \X events)
    BY DEF TablesInv, SysInv, Queues
  <2>4. /\ \A g \in Groups : /\ 0 <= committed[g] /\ committed[g] <= Len(queue[g])
                             /\ 0 <= position[g] /\ position[g] <= Len(queue[g])
                             /\ job[g].pc # "idle" => position[g] < Len(queue[g])
        /\ attempts \in [Groups -> 0..MaxRetries]
    BY DEF TablesInv, SysInv, Offsets
  <2>5. /\ counts \in [BOOLEAN -> Nat] /\ notified \subseteq Identities \X events
        /\ crashes \in 0..setting.crashes /\ slips \in Nat
        /\ dealt \in 0..Len(queue["stats"])
    <3>1. dealt \in Nat /\ dealt <= Len(queue["stats"]) /\ Len(queue["stats"]) \in Nat
      BY StatsTyped
    <3>2. dealt \in 0..Len(queue["stats"])
      BY <3>1
    <3> QED
      BY <3>2 DEF TablesInv, SysInv, Results
  <2>6. /\ push_token \in [DeviceKeys -> Tokens \cup {NoToken}]
        /\ current \in [DeviceKeys -> Tokens \cup {NoToken}] /\ dead \subseteq Tokens
    BY DEF IInv, PushTyped
  <2> QED
    BY <2>1, <2>2, <2>3, <2>4, <2>5, <2>6 DEF TypeOK
<1> QED
  BY <1>1, StatsInvariant, DeviceInvariant, PTL
=============================================================================
