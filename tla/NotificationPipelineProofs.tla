---------------------- MODULE NotificationPipelineProofs ----------------------
(***************************************************************************)
(* Theorems about NotificationPipeline, for any users, chats, tokens, jobs    *)
(* and preferences, any number of restarts, and whichever calls fail.        *)
(*                                                                         *)
(* What a job may know, count and do next at each of its steps is an         *)
(* invariant of the single job (Fit); what it has read is related to the     *)
(* tables it was read from by one more invariant for each property.          *)
(***************************************************************************)
EXTENDS NotificationPipeline, FiniteSetTheorems, TLAPS

Known == Preferences \cup {DefaultPreferences}

(* Who and what a job is about, and how often it was run and pushed. *)
Core(q) ==
    /\ q.kind \in AllKinds \ {"bulk"} => q.user \in Users
    /\ q.kind \in {"chat", "check"} \cup TopicKinds => q.chat \in Chats
    /\ q.stalls <= MaxStalls /\ q.sent <= q.pushes /\ q.pushes <= 1 + q.stalls

(* The steps of a job, by its kind, and what it knows at each. *)
StepOK(q) ==
    /\ q.pc = "prefs" => q.kind \in {"chat", "push", "post"}
    /\ q.pc \in {"mute", "unmute"} =>
         q.kind \in {"chat", "check"} /\ (q.kind = "chat" => q.prefs \in Known)
    /\ q.pc = "token" => q.kind \in {"chat", "push", "post"} \cup TopicKinds
    /\ q.pc \in {"push", "save", "inactive"} => q.kind \in {"chat", "post"} /\ q.token \in Tokens
    /\ q.pc = "batch" => q.kind = "bulk"
    /\ q.pc = "subscribe" => q.kind = "join" /\ q.token \in Tokens
    /\ q.pc = "unsubscribe" => q.kind = "leave" /\ q.token \in Tokens
    /\ q.at # None => /\ q.kind = "chat" /\ q.pc \in {"token", "push", "save", "inactive"}
                      /\ ~Quiet(q.prefs, q.at)

Fit(q) ==
    /\ q.state \notin {"failed", "cleared"} => Core(q)
    /\ q.sent <= q.pushes /\ q.pushes <= 1 + q.stalls
    /\ q.state \in {"delayed", "waiting", "active", "stalled"} => q.kind \in {"chat", "push", "bulk"}
    /\ q.state = "call" => q.kind \in {"post", "check"} \cup TopicKinds
    /\ q.state \in {"active", "call"} <=> q.pc # None
    /\ StepOK(q) /\ q.batch <= q.batches
    /\ q.id => q.pc = "save" /\ q.sent < q.pushes
    /\ q.state \in {"none", "delayed", "waiting"} \/ q.pc \notin {None, "save", "inactive"}
         => q.pushes <= q.stalls

JobsOK == job \in [Jobs -> Job] /\ \A j \in Jobs : Fit(job[j])

TablesOK ==
    /\ paused \in BOOLEAN
    /\ device \in [Users -> [token: Tokens \cup {None}, active: BOOLEAN]]
    /\ register \in [Users -> Tokens \cup {None}]
    /\ valid \subseteq Tokens /\ fcm \in BOOLEAN
    /\ prefs \in [Users -> Known]
    /\ mute \in [Users -> [Chats -> Setting]] /\ wish \in [Users -> [Chats -> Setting]]
    /\ raced \in [Users -> [Chats -> BOOLEAN]] /\ late \in [Users -> [Chats -> Nat]]
    /\ overtaken \in [Users -> BOOLEAN]
    /\ subs \subseteq Tokens \X Chats /\ joined \subseteq Users \X Chats
    /\ loose \subseteq Users \X Chats
    /\ now \in 0 .. MaxClock /\ crashes \in 0 .. MaxCrashes

TInv == JobsOK /\ TablesOK
-----------------------------------------------------------------------------
(* Quiet hours *)

(* The two comparisons of the code decide whether a minute of the day comes, counted from
   the start of the quiet hours around midnight, no later than their end. *)
LEMMA QuietRange ==
    ASSUME NEW p \in Known, NEW m \in 0 .. Day - 1
    PROVE  InQuietHours(p, m) <=> Quiet(p, m)
<1>1. Day \in Nat \ {0}
  BY PipelineAssumption
<1>2. ASSUME NEW x \in 0 .. Day - 1 PROVE x % Day = x
  BY <1>1
<1>3. ASSUME NEW x \in Int, -Day <= x, x < 0 PROVE x % Day = x + Day
  BY <1>1, <1>3
<1>4. p.from \in (0 .. Day - 1) \cup {None} /\ p.to \in (0 .. Day - 1) \cup {None}
  BY PipelineAssumption DEF Known, DefaultPreferences
<1>5. CASE p.from = None \/ p.to = None
  BY <1>5 DEF InQuietHours, Quiet
<1>6. CASE p.from # None /\ p.to # None
  <2>1. p.from \in 0 .. Day - 1 /\ p.to \in 0 .. Day - 1
    BY <1>4, <1>6
  <2>2. (m - p.from) % Day = IF m >= p.from THEN m - p.from ELSE m - p.from + Day
    BY <1>1, <1>2, <1>3, <2>1
  <2>3. (p.to - p.from) % Day = IF p.to >= p.from THEN p.to - p.from ELSE p.to - p.from + Day
    BY <1>1, <1>2, <1>3, <2>1
  <2> QED BY <1>1, <1>6, <2>1, <2>2, <2>3 DEF InQuietHours, Quiet
<1> QED BY <1>5, <1>6
-----------------------------------------------------------------------------
(* The records of the jobs *)

(* One field is written: the job keeps its type and the other fields. *)
LEMMA WritesState ==
    ASSUME NEW q \in Job, NEW x \in {"waiting", "active", "failed", "cleared"}, NEW b, b = [q EXCEPT !.state = x]
    PROVE  /\ b \in Job /\ b.state = x /\ b.kind = q.kind /\ b.user = q.user /\ b.chat = q.chat
           /\ b.stalls = q.stalls /\ b.batches = q.batches /\ b.batch = q.batch /\ b.pc = q.pc
           /\ b.prefs = q.prefs /\ b.token = q.token /\ b.at = q.at /\ b.id = q.id
           /\ b.pushes = q.pushes /\ b.sent = q.sent
BY PipelineAssumption DEF Job, Known

LEMMA WritesPc ==
    ASSUME NEW q \in Job, NEW x \in Steps \cup {None}, NEW b, b = [q EXCEPT !.pc = x]
    PROVE  /\ b \in Job /\ b.pc = x /\ b.state = q.state /\ b.kind = q.kind /\ b.user = q.user
           /\ b.chat = q.chat /\ b.stalls = q.stalls /\ b.batches = q.batches /\ b.batch = q.batch
           /\ b.prefs = q.prefs /\ b.token = q.token /\ b.at = q.at /\ b.id = q.id
           /\ b.pushes = q.pushes /\ b.sent = q.sent
BY PipelineAssumption DEF Job, Known

LEMMA WritesPrefs ==
    ASSUME NEW q \in Job, NEW x \in Known, NEW b, b = [q EXCEPT !.prefs = x]
    PROVE  /\ b \in Job /\ b.prefs = x /\ b.state = q.state /\ b.kind = q.kind /\ b.user = q.user
           /\ b.chat = q.chat /\ b.stalls = q.stalls /\ b.batches = q.batches /\ b.batch = q.batch
           /\ b.pc = q.pc /\ b.token = q.token /\ b.at = q.at /\ b.id = q.id /\ b.pushes = q.pushes
           /\ b.sent = q.sent
BY PipelineAssumption DEF Job, Known

LEMMA WritesToken ==
    ASSUME NEW q \in Job, NEW x \in Tokens, NEW b, b = [q EXCEPT !.token = x]
    PROVE  /\ b \in Job /\ b.token = x /\ b.state = q.state /\ b.kind = q.kind /\ b.user = q.user
           /\ b.chat = q.chat /\ b.stalls = q.stalls /\ b.batches = q.batches /\ b.batch = q.batch
           /\ b.pc = q.pc /\ b.prefs = q.prefs /\ b.at = q.at /\ b.id = q.id /\ b.pushes = q.pushes
           /\ b.sent = q.sent
BY PipelineAssumption DEF Job, Known

LEMMA WritesMinute ==
    ASSUME NEW q \in Job, NEW x \in 0 .. Day - 1, NEW b, b = [q EXCEPT !.at = x]
    PROVE  /\ b \in Job /\ b.at = x /\ b.state = q.state /\ b.kind = q.kind /\ b.user = q.user
           /\ b.chat = q.chat /\ b.stalls = q.stalls /\ b.batches = q.batches /\ b.batch = q.batch
           /\ b.pc = q.pc /\ b.prefs = q.prefs /\ b.token = q.token /\ b.id = q.id
           /\ b.pushes = q.pushes /\ b.sent = q.sent
BY PipelineAssumption DEF Job, Known

LEMMA WritesId ==
    ASSUME NEW q \in Job, NEW x \in BOOLEAN, NEW b, b = [q EXCEPT !.id = x]
    PROVE  /\ b \in Job /\ b.id = x /\ b.state = q.state /\ b.kind = q.kind /\ b.user = q.user
           /\ b.chat = q.chat /\ b.stalls = q.stalls /\ b.batches = q.batches /\ b.batch = q.batch
           /\ b.pc = q.pc /\ b.prefs = q.prefs /\ b.token = q.token /\ b.at = q.at
           /\ b.pushes = q.pushes /\ b.sent = q.sent
BY PipelineAssumption DEF Job, Known

LEMMA WritesPushes ==
    ASSUME NEW q \in Job, NEW x \in Nat, NEW b, b = [q EXCEPT !.pushes = x]
    PROVE  /\ b \in Job /\ b.pushes = x /\ b.state = q.state /\ b.kind = q.kind /\ b.user = q.user
           /\ b.chat = q.chat /\ b.stalls = q.stalls /\ b.batches = q.batches /\ b.batch = q.batch
           /\ b.pc = q.pc /\ b.prefs = q.prefs /\ b.token = q.token /\ b.at = q.at /\ b.id = q.id
           /\ b.sent = q.sent
BY PipelineAssumption DEF Job, Known

LEMMA WritesSent ==
    ASSUME NEW q \in Job, NEW x \in Nat, NEW b, b = [q EXCEPT !.sent = x]
    PROVE  /\ b \in Job /\ b.sent = x /\ b.state = q.state /\ b.kind = q.kind /\ b.user = q.user
           /\ b.chat = q.chat /\ b.stalls = q.stalls /\ b.batches = q.batches /\ b.batch = q.batch
           /\ b.pc = q.pc /\ b.prefs = q.prefs /\ b.token = q.token /\ b.at = q.at /\ b.id = q.id
           /\ b.pushes = q.pushes
BY PipelineAssumption DEF Job, Known

LEMMA WritesStalls ==
    ASSUME NEW q \in Job, NEW x \in 0 .. MaxStalls + 1, NEW b, b = [q EXCEPT !.stalls = x]
    PROVE  /\ b \in Job /\ b.stalls = x /\ b.state = q.state /\ b.kind = q.kind /\ b.user = q.user
           /\ b.chat = q.chat /\ b.batches = q.batches /\ b.batch = q.batch /\ b.pc = q.pc
           /\ b.prefs = q.prefs /\ b.token = q.token /\ b.at = q.at /\ b.id = q.id
           /\ b.pushes = q.pushes /\ b.sent = q.sent
BY PipelineAssumption DEF Job, Known

LEMMA WritesBatch ==
    ASSUME NEW q \in Job, NEW x \in 0 .. MaxBatches, NEW b, b = [q EXCEPT !.batch = x]
    PROVE  /\ b \in Job /\ b.batch = x /\ b.state = q.state /\ b.kind = q.kind /\ b.user = q.user
           /\ b.chat = q.chat /\ b.stalls = q.stalls /\ b.batches = q.batches /\ b.pc = q.pc
           /\ b.prefs = q.prefs /\ b.token = q.token /\ b.at = q.at /\ b.id = q.id
           /\ b.pushes = q.pushes /\ b.sent = q.sent
BY PipelineAssumption DEF Job, Known

-----------------------------------------------------------------------------
(* The steps of a job *)

Becomes(j, q) == /\ q \in Job /\ Fit(q) /\ job'[j] = q
                 /\ \A x \in Jobs \ {j} : job'[x] = job[x]
                 /\ job' \in [Jobs -> Job]

LEMMA Becoming ==
    ASSUME JobsOK, NEW j \in Jobs, NEW q \in Job, Fit(q), job' = [job EXCEPT ![j] = q]
    PROVE  Becomes(j, q)
BY DEF JobsOK, Becomes

SameJob(p, q) == p.kind = q.kind /\ p.user = q.user /\ p.chat = q.chat

(* A job or call is added. *)
LEMMA Adding ==
    ASSUME JobsOK, NEW j \in Jobs, NEW state \in {"delayed", "waiting", "call"},
           NEW kind \in AllKinds, NEW u \in Users \cup {None}, NEW c \in Chats \cup {None},
           NEW n \in 0 .. MaxBatches, NEW pc \in Steps \cup {None},
           kind # "bulk" => u \in Users, kind \in {"chat", "check"} \cup TopicKinds => c \in Chats,
           state = "call" => kind \in {"post", "check"} \cup TopicKinds /\ pc = FirstStep(kind),
           state # "call" => kind \in {"chat", "push", "bulk"} /\ pc = None,
           job' = [job EXCEPT ![j] = New(state, kind, u, c, n, pc)]
    PROVE  \E q : /\ Becomes(j, q) /\ q.state = state /\ q.kind = kind /\ q.user = u /\ q.chat = c
                  /\ q.pc \in {None, "prefs", "mute", "token"}
                  /\ kind \in TopicKinds => q.pc = "token"
<1> DEFINE q == New(state, kind, u, c, n, pc)
<1>1. /\ q \in Job /\ q.state = state /\ q.kind = kind /\ q.user = u /\ q.chat = c /\ q.pc = pc
      /\ q.at = None /\ ~q.id /\ q.stalls = 0 /\ q.pushes = 0 /\ q.sent = 0 /\ q.batch = 0
      /\ q.batches = n
  BY PipelineAssumption DEF New, Job
<1> HIDE DEF q
<1>2. /\ state = "call" => pc \in Steps /\ pc \in {"prefs", "mute", "token"}
      /\ kind \in TopicKinds => pc = "token" /\ state = "call"
      /\ pc = "prefs" => kind = "post"
      /\ pc = "mute" => kind = "check"
      /\ pc = "token" => kind \in TopicKinds
  BY PipelineAssumption DEF FirstStep, Steps, TopicKinds, AllKinds
<1>3. Core(q)
  BY <1>1, PipelineAssumption DEF Core, AllKinds, TopicKinds
<1>4. StepOK(q)
  BY <1>1, <1>2, PipelineAssumption DEF StepOK, Steps
<1>5. Fit(q)
  <2>1. q.pc # None <=> state = "call"
    BY <1>1, <1>2, PipelineAssumption
  <2> QED BY <1>1, <1>2, <1>3, <1>4, <2>1, PipelineAssumption DEF Fit, TopicKinds
<1>6. Becomes(j, q)
  BY <1>1, <1>5, Becoming DEF q
<1> QED BY <1>1, <1>2, <1>6

(* A job that is over knows nothing any more. *)
LEMMA Ending ==
    ASSUME NEW p \in Job, Core(p), NEW s \in {"completed", "failed", "stalled", "lost"},
           s = "stalled" => p.kind \in {"chat", "push", "bulk"}
    PROVE  LET q == Over(p, s) IN
             q \in Job /\ Fit(q) /\ SameJob(q, p) /\ q.state = s /\ q.pc = None
<1> DEFINE q == Over(p, s)
<1>1. /\ q \in Job /\ q.state = s /\ q.kind = p.kind /\ q.user = p.user /\ q.chat = p.chat
      /\ q.pc = None /\ q.at = None /\ ~q.id /\ q.stalls = p.stalls /\ q.pushes = p.pushes
      /\ q.sent = p.sent /\ q.batch = 0 /\ q.batches = p.batches
  BY PipelineAssumption DEF Over, Job
<1> HIDE DEF q
<1>2. Core(q) /\ StepOK(q) /\ q.batches \in Nat
  BY <1>1, PipelineAssumption DEF Core, StepOK, Job, Steps
<1> QED BY <1>1, <1>2, PipelineAssumption DEF Fit, SameJob, Core, q

(* What is true of a job that runs. *)
LEMMA Runs ==
    ASSUME JobsOK, NEW j \in Jobs, NEW pc \in Steps, At(j, pc)
    PROVE  /\ job[j] \in Job /\ Fit(job[j]) /\ Core(job[j]) /\ StepOK(job[j])
           /\ job[j].state \in {"active", "call"} /\ job[j].pc = pc
BY DEF JobsOK, At, Running, Fit

(* The step ends the job. *)
Stops(j) == \E q, s : /\ Becomes(j, q) /\ SameJob(q, job[j]) /\ q.state = s /\ q.pc = None
                      /\ s \in {"completed", "failed"}

LEMMA Stopping ==
    ASSUME JobsOK, NEW j \in Jobs, NEW p \in Job, Core(p), SameJob(p, job[j]),
           NEW s \in {"completed", "failed"}, job' = [job EXCEPT ![j] = Over(p, s)]
    PROVE  Stops(j)
<1> DEFINE q == Over(p, s)
<1>1. q \in Job /\ Fit(q) /\ SameJob(q, p) /\ q.state = s /\ q.pc = None
  BY Ending
<1> HIDE DEF q
<1>2. Becomes(j, q)
  BY <1>1, Becoming DEF q
<1> QED BY <1>1, <1>2 DEF Stops, SameJob

LEMMA Ends ==
    ASSUME JobsOK, NEW j \in Jobs, NEW pc \in Steps, At(j, pc), End(j)
    PROVE  Stops(j)
BY Runs, Stopping DEF End, Finished, SameJob

(* The step leads to another step of the same run. *)
Goes(j, q) == /\ Becomes(j, q) /\ SameJob(q, job[j]) /\ q.state = job[j].state /\ q.pc # None

SameRun(q, p) ==
    /\ SameJob(q, p) /\ q.state = p.state /\ q.stalls = p.stalls /\ q.batches = p.batches
    /\ q.batch = p.batch /\ q.pushes = p.pushes /\ q.sent = p.sent /\ q.id = p.id

LEMMA Moving ==
    ASSUME JobsOK, NEW j \in Jobs, NEW pc \in Steps \ {"save", "inactive"}, At(j, pc),
           NEW q \in Job, SameRun(q, job[j]), q.pc \in Steps \ {"save"}, StepOK(q),
           job' = [job EXCEPT ![j] = q]
    PROVE  Goes(j, q)
<1>1. /\ job[j] \in Job /\ Fit(job[j]) /\ Core(job[j]) /\ job[j].state \in {"active", "call"}
      /\ job[j].pc = pc
  BY Runs
<1>2. q.pc # None /\ pc # None
  BY PipelineAssumption
<1>3. Core(q)
  BY <1>1 DEF Core, SameRun, SameJob
<1>4. Fit(q)
  BY <1>1, <1>2, <1>3 DEF Fit, SameRun, SameJob
<1> QED BY <1>2, <1>4, Becoming DEF Goes, SameRun

(* A step that writes nothing but where the job is. *)
LEMMA Going ==
    ASSUME JobsOK, NEW j \in Jobs, NEW pc \in Steps \ {"save", "inactive"}, At(j, pc),
           NEW to \in Steps \ {"save"}, Go(j, to),
           \A q \in Job : SameRun(q, job[j]) /\ q.pc = to /\ q.prefs = job[j].prefs
                            /\ q.token = job[j].token /\ q.at = job[j].at => StepOK(q)
    PROVE  \E q : Goes(j, q) /\ q.pc = to /\ q.token = job[j].token
<1>1. job[j] \in Job
  BY Runs
<1> DEFINE q == [job[j] EXCEPT !.pc = to]
<1>2. /\ q \in Job /\ SameRun(q, job[j]) /\ q.pc = to /\ q.prefs = job[j].prefs
      /\ q.token = job[j].token /\ q.at = job[j].at
  BY <1>1, WritesPc DEF SameRun, SameJob
<1>3. job' = [job EXCEPT ![j] = q]
  BY DEF Go
<1> HIDE DEF q
<1>4. Goes(j, q)
  BY <1>2, <1>3, Moving
<1> QED BY <1>2, <1>4

LEMMA Preferring ==
    ASSUME TInv, NEW j \in Jobs, ReadPreferences(j)
    PROVE  \/ Stops(j)
           \/ \E q : /\ Goes(j, q) /\ ShouldSend(TypeOf(j), prefs[q.user])
                     /\ q.pc = IF q.kind = "chat" THEN "mute" ELSE "token"
<1>1. At(j, "prefs") /\ "prefs" \in Steps /\ JobsOK
  BY DEF ReadPreferences, Steps, TInv
<1>2. job[j] \in Job /\ Core(job[j]) /\ StepOK(job[j]) /\ job[j].pc = "prefs"
  BY <1>1, Runs
<1>3. job[j].kind \in {"chat", "push", "post"} /\ job[j].user \in Users /\ job[j].at = None
  BY <1>2 DEF Core, StepOK, AllKinds
<1> DEFINE p == prefs[job[j].user]
           to == IF job[j].kind = "chat" THEN "mute" ELSE "token"
<1>4. p \in Known /\ to \in Steps \ {"save"} /\ to \in {"mute", "token"}
  BY <1>3 DEF TInv, TablesOK, Steps
<1>5. CASE End(j)
  BY <1>1, <1>5, Ends
<1>6. CASE /\ ShouldSend(TypeOf(j), p)
           /\ job' = [job EXCEPT ![j].prefs = p, ![j].pc = to]
  <2> HIDE DEF to
  <2>1. PICK a : a = [job[j] EXCEPT !.prefs = p]
    OBVIOUS
  <2>2. a \in Job /\ SameRun(a, job[j]) /\ a.prefs = p /\ a.at = None
    BY <1>2, <1>3, <1>4, <2>1, WritesPrefs DEF SameRun, SameJob
  <2>3. PICK q : q = [a EXCEPT !.pc = to]
    OBVIOUS
  <2>4. q \in Job /\ SameRun(q, job[j]) /\ q.prefs = p /\ q.at = None /\ q.pc = to
    BY <1>4, <2>2, <2>3, WritesPc DEF SameRun, SameJob
  <2>5. job' = [job EXCEPT ![j] = q]
    BY <1>6, <2>1, <2>3
  <2>6. StepOK(q)
    BY <1>3, <1>4, <2>4 DEF StepOK, SameRun, SameJob, to
  <2>7. Goes(j, q)
    BY <1>1, <1>4, <2>4, <2>5, <2>6, Moving
  <2> QED BY <1>6, <2>4, <2>7 DEF SameRun, SameJob, to
<1> QED BY <1>5, <1>6, Zenon DEF ReadPreferences

LEMMA Passing ==
    ASSUME TInv, NEW j \in Jobs, NEW pc \in {"mute", "unmute"}, At(j, pc),
           job' = [job EXCEPT ![j] = NotMuted(@)]
    PROVE  Stops(j) \/ \E q : Goes(j, q) /\ q.pc = "token" /\ q.kind = "chat"
<1>1. JobsOK /\ pc \in Steps \ {"save", "inactive"} /\ now \in 0 .. MaxClock
  BY DEF TInv, TablesOK, Steps
<1>2. job[j] \in Job /\ Core(job[j]) /\ StepOK(job[j]) /\ job[j].pc = pc
  BY <1>1, Runs
<1>3. job[j].kind \in {"chat", "check"} /\ (job[j].kind = "chat" => job[j].prefs \in Known)
  BY <1>2 DEF StepOK
<1> DEFINE m == now % Day
<1>4. m \in 0 .. Day - 1
  BY <1>1, PipelineAssumption
<1> HIDE DEF m
<1>5. CASE job' = [job EXCEPT ![j] = Finished(job[j])]
  BY <1>1, <1>2, <1>5, Stopping DEF Finished, SameJob
<1>6. CASE /\ job[j].kind # "check" /\ ~InQuietHours(job[j].prefs, m)
           /\ job' = [job EXCEPT ![j] = [job[j] EXCEPT !.pc = "token", !.at = m]]
  <2>1. PICK a : a = [job[j] EXCEPT !.pc = "token"]
    OBVIOUS
  <2>2. a \in Job /\ SameRun(a, job[j]) /\ a.prefs = job[j].prefs /\ a.pc = "token"
    BY <1>2, <2>1, WritesPc DEF SameRun, SameJob, Steps
  <2>3. PICK q : q = [a EXCEPT !.at = m]
    OBVIOUS
  <2>4. /\ q \in Job /\ SameRun(q, job[j]) /\ q.prefs = job[j].prefs /\ q.at = m
        /\ q.pc = "token"
    BY <1>4, <2>2, <2>3, WritesMinute DEF SameRun, SameJob
  <2>5. job' = [job EXCEPT ![j] = q]
    BY <1>6, <2>1, <2>3
  <2>6. StepOK(q) /\ q.kind = "chat"
    <3>1. q.kind = "chat" /\ ~Quiet(q.prefs, q.at)
      BY <1>3, <1>4, <1>6, <2>4, QuietRange DEF SameRun, SameJob
    <3> QED BY <2>4, <3>1 DEF StepOK
  <2>7. Goes(j, q)
    BY <1>1, <2>4, <2>5, <2>6, Moving DEF Steps
  <2> QED BY <2>4, <2>6, <2>7
<1>7. \/ job' = [job EXCEPT ![j] = Finished(job[j])]
      \/ /\ job[j].kind # "check" /\ ~InQuietHours(job[j].prefs, m)
         /\ job' = [job EXCEPT ![j] = [job[j] EXCEPT !.pc = "token", !.at = m]]
  BY Zenon DEF NotMuted, m
<1> QED BY <1>5, <1>6, <1>7

LEMMA Muting ==
    ASSUME TInv, NEW j \in Jobs, ReadMute(j)
    PROVE  \/ Stops(j)
           \/ \E q : /\ Goes(j, q) /\ q.pc = "token" /\ q.kind = "chat"
                     /\ ~mute[q.user][q.chat].muted
           \/ \E q : Goes(j, q) /\ q.pc = "unmute" /\ Expired(mute[q.user][q.chat])
<1>1. At(j, "mute") /\ {"mute", "unmute"} \subseteq Steps \ {"save", "inactive"} /\ JobsOK
  BY DEF ReadMute, Steps, TInv
<1>2. job[j] \in Job /\ Core(job[j]) /\ StepOK(job[j]) /\ job[j].pc = "mute"
  BY <1>1, Runs
<1>3. /\ job[j].kind \in {"chat", "check"} /\ (job[j].kind = "chat" => job[j].prefs \in Known)
      /\ job[j].at = None
  BY <1>2 DEF StepOK
<1> DEFINE s == mute[job[j].user][job[j].chat]
<1>4. CASE Expired(s) /\ Go(j, "unmute")
  <2>1. \A q \in Job : SameRun(q, job[j]) /\ q.pc = "unmute" /\ q.prefs = job[j].prefs
                         /\ q.token = job[j].token /\ q.at = job[j].at => StepOK(q)
    BY <1>3 DEF StepOK, SameRun, SameJob
  <2>2. PICK q : Goes(j, q) /\ q.pc = "unmute"
    BY <1>1, <1>4, <2>1, Going
  <2> QED BY <1>4, <2>2 DEF Goes, SameJob
<1>5. CASE End(j)
  BY <1>1, <1>5, Ends
<1>6. CASE ~s.muted /\ job' = [job EXCEPT ![j] = NotMuted(@)]
  BY <1>1, <1>6, Passing DEF Goes, SameJob
<1> QED BY <1>4, <1>5, <1>6 DEF ReadMute

LEMMA Reading ==
    ASSUME TInv, NEW j \in Jobs, ReadToken(j)
    PROVE  \/ Stops(j) /\ (job[j].kind \in TopicKinds
                             => ~device[job[j].user].active \/ device[job[j].user].token = None)
           \/ \E q : /\ Goes(j, q) /\ q.token = device[q.user].token /\ q.token \in Tokens
                     /\ device[q.user].active
                     /\ q.pc = CASE q.kind = "join" -> "subscribe"
                                 [] q.kind = "leave" -> "unsubscribe" [] OTHER -> "push"
<1>1. At(j, "token") /\ "token" \in Steps /\ JobsOK
  BY DEF ReadToken, Steps, TInv
<1>2. job[j] \in Job /\ Core(job[j]) /\ StepOK(job[j]) /\ job[j].pc = "token"
  BY <1>1, Runs
<1>3. job[j].kind \in {"chat", "push", "post", "join", "leave"} /\ job[j].user \in Users
  BY <1>2 DEF Core, StepOK, AllKinds, TopicKinds
<1>4. AfterToken(j) = CASE job[j].kind = "join" -> "subscribe"
                        [] job[j].kind = "leave" -> "unsubscribe"
                        [] job[j].kind \in {"chat", "post"} -> "push" [] OTHER -> None
  <2>1. job[j].kind = "chat" => job[j].chat \in Chats
    BY <1>2 DEF Core
  <2>2. job[j].kind = "chat" => TypeOf(j) \in Types
    BY <2>1, PipelineAssumption DEF TypeOf, Types
  <2>3. job[j].kind = "post" => TypeOf(j) = "POST_CREATED"
    BY DEF TypeOf
  <2>4. job[j].kind = "push" => TypeOf(j) = "SYSTEM_ALERT"
    BY DEF TypeOf
  <2> QED BY <1>3, <2>2, <2>3, <2>4 DEF AfterToken, Templates, Types
<1> DEFINE d == device[job[j].user]  to == AfterToken(j)
<1>5. CASE End(j) /\ (d.token = None \/ ~d.active \/ to = None)
  <2>1. job[j].kind \in TopicKinds => to # None
    BY <1>4, PipelineAssumption DEF TopicKinds, Steps
  <2> QED BY <1>1, <1>5, <2>1, Ends
<1>6. CASE /\ d.token # None /\ d.active /\ to # None
           /\ job' = [job EXCEPT ![j].token = d.token, ![j].pc = to]
  <2>1. d.token \in Tokens /\ to \in {"push", "subscribe", "unsubscribe"}
    BY <1>3, <1>4, <1>6 DEF TInv, TablesOK
  <2>2. PICK a : a = [job[j] EXCEPT !.token = d.token]
    OBVIOUS
  <2>3. a \in Job /\ SameRun(a, job[j]) /\ a.prefs = job[j].prefs /\ a.at = job[j].at
        /\ a.token = d.token
    BY <1>2, <2>1, <2>2, WritesToken DEF SameRun, SameJob
  <2>4. PICK q : q = [a EXCEPT !.pc = to]
    OBVIOUS
  <2>5. /\ q \in Job /\ SameRun(q, job[j]) /\ q.prefs = job[j].prefs /\ q.at = job[j].at
        /\ q.token = d.token /\ q.pc = to
    BY <2>1, <2>3, <2>4, WritesPc DEF SameRun, SameJob, Steps
  <2>6. job' = [job EXCEPT ![j] = q]
    BY <1>6, <2>2, <2>4
  <2>7. q.kind = job[j].kind /\ q.user = job[j].user
    BY <2>5 DEF SameRun, SameJob
  <2>8. StepOK(q)
    <3>1. /\ to = "push" => q.kind \in {"chat", "post"}
          /\ to = "subscribe" => q.kind = "join"
          /\ to = "unsubscribe" => q.kind = "leave"
      BY <1>3, <1>4, <1>6, <2>7
    <3>2. q.at # None => q.kind = "chat" /\ ~Quiet(q.prefs, q.at)
      BY <1>2, <2>5, <2>7 DEF StepOK
    <3>3. q.kind = "chat" => to = "push"
      BY <1>4, <2>7
    <3> HIDE DEF to
    <3> QED BY <2>1, <2>5, <3>1, <3>2, <3>3 DEF StepOK
  <2>9. Goes(j, q)
    BY <1>1, <2>1, <2>5, <2>6, <2>8, Moving DEF Steps
  <2> QED BY <1>3, <1>4, <1>6, <2>1, <2>5, <2>7, <2>9
<1> QED BY <1>5, <1>6, Zenon DEF ReadToken

LEMMA Pushing ==
    ASSUME TInv, NEW j \in Jobs, Push(j)
    PROVE  \/ Stops(j)
           \/ \E q : /\ Goes(j, q) /\ q.pc \in {"save", "inactive"} /\ q.token = job[j].token
                     /\ q.pc = "inactive" => q.token \notin valid
<1>1. At(j, "push") /\ {"push", "inactive"} \subseteq Steps \ {"save"} /\ JobsOK
  BY DEF Push, Steps, TInv
<1>2. /\ job[j] \in Job /\ Fit(job[j]) /\ Core(job[j]) /\ StepOK(job[j]) /\ job[j].pc = "push"
      /\ job[j].state \in {"active", "call"}
  BY <1>1, Runs
<1>3. /\ job[j].kind \in {"chat", "post"} /\ job[j].token \in Tokens /\ ~job[j].id
      /\ job[j].pushes <= job[j].stalls
      /\ job[j].at # None => job[j].kind = "chat" /\ ~Quiet(job[j].prefs, job[j].at)
  BY <1>2, PipelineAssumption DEF StepOK, Fit, Steps
<1>4. job[j].pushes \in Nat /\ job[j].stalls \in Nat /\ job[j].sent \in Nat
  BY <1>2, PipelineAssumption DEF Job
<1>5. CASE End(j)
  BY <1>1, <1>5, Ends
<1>6. CASE job[j].token \notin valid /\ Go(j, "inactive")
  <2>1. \A q \in Job : SameRun(q, job[j]) /\ q.pc = "inactive" /\ q.prefs = job[j].prefs
                         /\ q.token = job[j].token /\ q.at = job[j].at => StepOK(q)
    BY <1>3 DEF StepOK, SameRun, SameJob
  <2>2. PICK q : Goes(j, q) /\ q.pc = "inactive" /\ q.token = job[j].token
    BY <1>1, <1>6, <2>1, Going
  <2> QED BY <1>6, <2>2
<1>7. ASSUME NEW q \in Job, SameJob(q, job[j]), q.state = job[j].state, q.stalls = job[j].stalls,
             q.batches = job[j].batches, q.batch = job[j].batch, q.sent = job[j].sent,
             q.pc = "save", q.prefs = job[j].prefs, q.at = job[j].at, q.token = job[j].token,
             q.sent <= q.pushes, q.pushes <= 1 + q.stalls, q.id => q.sent < q.pushes,
             job' = [job EXCEPT ![j] = q]
      PROVE  Goes(j, q) /\ q.pc \in {"save", "inactive"} /\ q.token = job[j].token
  <2>1. StepOK(q)
    BY <1>3, <1>7 DEF StepOK, SameJob
  <2>2. Core(q)
    BY <1>2, <1>7 DEF Core, SameJob
  <2>3. Fit(q)
    BY <1>2, <1>7, <2>1, <2>2, PipelineAssumption DEF Fit, SameJob, Steps
  <2> QED BY <1>1, <1>7, <2>3, Becoming, PipelineAssumption DEF Goes, Steps
<1>8. CASE Go(j, "save")
  <2>1. PICK q : q = [job[j] EXCEPT !.pc = "save"]
    OBVIOUS
  <2>2. /\ q \in Job /\ SameRun(q, job[j]) /\ q.pc = "save" /\ q.prefs = job[j].prefs
        /\ q.at = job[j].at /\ q.token = job[j].token
    BY <1>2, <2>1, WritesPc DEF SameRun, SameJob, Steps
  <2>3. job' = [job EXCEPT ![j] = q]
    BY <1>8, <2>1 DEF Go
  <2>4. q.sent <= q.pushes /\ q.pushes <= 1 + q.stalls /\ ~q.id
    BY <1>2, <1>3, <2>2 DEF Core, SameRun
  <2>5. Goes(j, q) /\ q.pc \in {"save", "inactive"} /\ q.token = job[j].token
    BY <1>7, <2>2, <2>3, <2>4 DEF SameRun
  <2> QED BY <2>2, <2>5
<1>9. CASE job' = [job EXCEPT ![j].pc = "save", ![j].id = TRUE, ![j].pushes = @ + 1]
  <2>1. PICK a : a = [job[j] EXCEPT !.pc = "save"]
    OBVIOUS
  <2>2. /\ a \in Job /\ SameRun(a, job[j]) /\ a.pc = "save" /\ a.prefs = job[j].prefs
        /\ a.at = job[j].at /\ a.token = job[j].token
    BY <1>2, <2>1, WritesPc DEF SameRun, SameJob, Steps
  <2>3. PICK y \in BOOLEAN : y = TRUE
    OBVIOUS
  <2>4. PICK b : b = [a EXCEPT !.id = y]
    OBVIOUS
  <2>5. /\ b \in Job /\ SameJob(b, job[j]) /\ b.state = job[j].state /\ b.stalls = job[j].stalls
        /\ b.batches = job[j].batches /\ b.batch = job[j].batch /\ b.sent = job[j].sent
        /\ b.pushes = job[j].pushes /\ b.pc = "save" /\ b.prefs = job[j].prefs
        /\ b.at = job[j].at /\ b.token = job[j].token
    BY <2>2, <2>4, WritesId DEF SameRun, SameJob
  <2>6. PICK n \in Nat : n = job[j].pushes + 1
    BY <1>4
  <2>7. PICK q : q = [b EXCEPT !.pushes = n]
    OBVIOUS
  <2>8. /\ q \in Job /\ SameJob(q, job[j]) /\ q.state = job[j].state /\ q.stalls = job[j].stalls
        /\ q.batches = job[j].batches /\ q.batch = job[j].batch /\ q.sent = job[j].sent
        /\ q.pushes = n /\ q.pc = "save" /\ q.prefs = job[j].prefs
        /\ q.at = job[j].at /\ q.token = job[j].token
    BY <2>5, <2>7, WritesPushes DEF SameJob
  <2>9. job' = [job EXCEPT ![j] = q]
    <3>1. job' = [job EXCEPT ![j].pc = "save", ![j].id = y, ![j].pushes = n]
      BY <1>9, <2>3, <2>6, Zenon
    <3> QED BY <2>1, <2>4, <2>7, <3>1
  <2>10. q.sent < q.pushes /\ q.sent <= q.pushes /\ q.pushes <= 1 + q.stalls
    BY <1>2, <1>3, <1>4, <2>6, <2>8 DEF Core
  <2>11. Goes(j, q) /\ q.pc \in {"save", "inactive"} /\ q.token = job[j].token
    BY <1>7, <2>8, <2>9, <2>10
  <2> QED BY <2>8, <2>11
<1> QED BY <1>5, <1>6, <1>8, <1>9, Zenon DEF Push

LEMMA Saving ==
    ASSUME TInv, NEW j \in Jobs, SaveNotification(j)
    PROVE  Stops(j)
<1>1. At(j, "save") /\ "save" \in Steps /\ JobsOK
  BY DEF SaveNotification, Steps, TInv
<1>2. job[j] \in Job /\ Fit(job[j]) /\ Core(job[j])
  BY <1>1, Runs
<1>3. job[j].pushes \in Nat /\ job[j].stalls \in Nat /\ job[j].sent \in Nat
  BY <1>2, PipelineAssumption DEF Job
<1>4. PICK n \in Nat : n = job[j].sent + Id(job[j]) /\ n <= job[j].pushes
  BY <1>2, <1>3 DEF Id, Fit, Core
<1>5. PICK b : b = [job[j] EXCEPT !.sent = n]
  OBVIOUS
<1>6. b \in Job /\ SameJob(b, job[j]) /\ Core(b)
  BY <1>2, <1>4, <1>5, WritesSent DEF SameJob, Core
<1>7. job' = [job EXCEPT ![j] = Over(b, "completed")]
  <2>1. job' = [job EXCEPT ![j] = Over([job[j] EXCEPT !.sent = job[j].sent + Id(job[j])],
                                       "completed")]
    BY DEF SaveNotification, Finished
  <2> QED BY <1>4, <1>5, <2>1, Zenon
<1> QED BY <1>1, <1>6, <1>7, Stopping

LEMMA Batching ==
    ASSUME TInv, NEW j \in Jobs, ProcessBatch(j)
    PROVE  Stops(j) \/ \E q : Goes(j, q) /\ q.pc = "batch"
<1>1. At(j, "batch") /\ "batch" \in Steps \ {"save", "inactive"} /\ JobsOK
  BY DEF ProcessBatch, Steps, TInv
<1>2. /\ job[j] \in Job /\ Fit(job[j]) /\ Core(job[j]) /\ StepOK(job[j]) /\ job[j].pc = "batch"
      /\ job[j].state \in {"active", "call"}
  BY <1>1, Runs
<1>3. CASE End(j)
  BY <1>1, <1>3, Ends
<1>4. CASE job[j].batch < job[j].batches /\ job' = [job EXCEPT ![j].batch = @ + 1]
  <2>1. PICK n \in 0 .. MaxBatches : n = job[j].batch + 1 /\ n <= job[j].batches
    BY <1>2, <1>4, PipelineAssumption DEF Job
  <2>2. PICK q : q = [job[j] EXCEPT !.batch = n]
    OBVIOUS
  <2>3. /\ q \in Job /\ SameJob(q, job[j]) /\ q.state = job[j].state /\ q.stalls = job[j].stalls
        /\ q.pushes = job[j].pushes /\ q.sent = job[j].sent /\ q.id = job[j].id
        /\ q.pc = job[j].pc /\ q.at = job[j].at /\ q.batch = n /\ q.batches = job[j].batches
        /\ q.prefs = job[j].prefs /\ q.token = job[j].token
    BY <1>2, <2>2, WritesBatch DEF SameJob
  <2>4. job' = [job EXCEPT ![j] = q]
    BY <1>4, <2>1, <2>2
  <2>5. Core(q) /\ StepOK(q)
    BY <1>2, <2>3 DEF Core, StepOK, SameJob
  <2>6. Fit(q)
    BY <1>2, <2>1, <2>3, <2>5 DEF Fit, SameJob
  <2> QED BY <1>1, <1>2, <2>3, <2>4, <2>6, Becoming, PipelineAssumption DEF Goes, Steps
<1> QED BY <1>3, <1>4 DEF ProcessBatch

LEMMA Throwing ==
    ASSUME TInv, NEW j \in Jobs, CallFails(j)
    PROVE  \/ Stops(j)
           \/ \E q : /\ Goes(j, q) /\ q.pc = "token" /\ q.kind = "chat"
                     /\ At(j, "unmute") \/ (At(j, "mute") /\ "mute" \in Failing)
<1>1. PICK pc \in Steps : At(j, pc) /\ pc \in Failing
  BY DEF TInv, JobsOK, Fit, Job, CallFails, At, Running
<1>2. JobsOK /\ job[j] \in Job /\ Core(job[j]) /\ job[j].pc = pc
  BY <1>1, Runs DEF TInv
<1>3. CASE job' = [job EXCEPT ![j] = Over(@, "failed")]
  BY <1>2, <1>3, Stopping DEF SameJob
<1>4. CASE job' = [job EXCEPT ![j] = Finished(@)]
  BY <1>2, <1>4, Stopping DEF SameJob, Finished
<1>5. CASE pc \in {"mute", "unmute"} /\ job' = [job EXCEPT ![j] = NotMuted(@)]
  BY <1>1, <1>5, Passing
<1> QED BY <1>2, <1>3, <1>4, <1>5, Zenon DEF CallFails

-----------------------------------------------------------------------------
(* The steps of the pipeline *)

Adds(j) ==
    \/ QueueBulk(j)
    \/ \E u \in Users : QueuePush(j, u) \/ CallPost(j, u)
    \/ \E u \in Users, c \in Chats : QueueChat(j, u, c) \/ CallCheck(j, u, c)
    \/ \E u \in Users, c \in Chats, kind \in TopicKinds : CallTopic(j, u, c, kind)

Schedules(j) == Promote(j) \/ Take(j) \/ Stalled(j)

(* The steps that change no job. *)
Asked ==
    \/ \E u \in Users : StoreToken(u) \/ RemoveDeviceToken(u) \/ UpdatePreferences(u)
    \/ \E u \in Users, t \in Tokens : ValidateToken(u, t)
    \/ \E u \in Users, c \in Chats : UpdateChatSetting(u, c)
    \/ \E t \in Tokens : TokenExpires(t)
    \/ PauseQueue \/ ResumeQueue \/ Tick

LEMMA Steps1 ==
    Next <=> (\E j \in Jobs : Adds(j) \/ Schedules(j) \/ Process(j)) \/ Asked \/ ClearFailedJobs \/ Restart
BY DEF Next, Adds, Schedules, Asked

(* A job in the step that follows, and what it has just read. *)
Moved(j) ==
    LET p == job[j]  q == job'[j] IN
      /\ Fit(q) /\ (p.pc # None => SameJob(q, p))
      /\ q.pc \in {"push", "subscribe", "unsubscribe"} =>
           /\ At(j, "token") /\ q.token = device[q.user].token /\ device[q.user].active
      /\ q.pc = "inactive" => At(j, "push") /\ q.token = p.token /\ q.token \notin valid
      /\ q.pc = "unmute" => At(j, "mute") /\ Expired(mute[q.user][q.chat])

JobsMoved == job' \in [Jobs -> Job] /\ \A j \in Jobs : job'[j] = job[j] \/ Moved(j)

LEMMA OneMoved ==
    ASSUME JobsOK, NEW j \in Jobs, NEW q, Becomes(j, q), Moved(j)
    PROVE  JobsMoved
BY DEF Becomes, JobsMoved

LEMMA SameJobs ==
    ASSUME JobsOK, UNCHANGED job
    PROVE  JobsMoved
BY DEF JobsOK, JobsMoved

LEMMA AddedMoves ==
    ASSUME TInv, NEW j \in Jobs, Adds(j)
    PROVE  JobsMoved
<1>1. JobsOK
  BY DEF TInv
<1> USE PipelineAssumption
<1>2. ASSUME NEW q, Becomes(j, q), q.pc \in {None, "prefs", "mute", "token"}, job[j] = NoJob
      PROVE  JobsMoved
  <2>1. NoJob.pc = None
    BY DEF NoJob, New
  <2>2. Moved(j)
    BY <1>2, <2>1 DEF Moved, Becomes, Steps
  <2> QED BY <1>1, <1>2, <2>2, OneMoved
<1>3. ASSUME NEW state \in {"delayed", "waiting", "call"}, NEW kind \in AllKinds,
             NEW u \in Users \cup {None}, NEW c \in Chats \cup {None}, NEW n \in 0 .. MaxBatches,
             kind # "bulk" => u \in Users, kind \in {"chat", "check"} \cup TopicKinds => c \in Chats,
             state = "call" <=> kind \in {"post", "check"} \cup TopicKinds, job[j] = NoJob,
             \/ state = "call" /\ job' = [job EXCEPT ![j] = New(state, kind, u, c, n, FirstStep(kind))]
             \/ state # "call" /\ job' = [job EXCEPT ![j] = New(state, kind, u, c, n, None)]
      PROVE  JobsMoved
  <2>1. state # "call" => kind \in {"chat", "push", "bulk"}
    BY <1>3 DEF AllKinds
  <2>2. FirstStep(kind) \in Steps
    BY DEF FirstStep, Steps
  <2>3. PICK pc \in Steps \cup {None} :
          /\ job' = [job EXCEPT ![j] = New(state, kind, u, c, n, pc)]
          /\ state = "call" => pc = FirstStep(kind)
          /\ state # "call" => pc = None
    BY <1>3, <2>2
  <2>4. PICK q : Becomes(j, q) /\ q.pc \in {None, "prefs", "mute", "token"}
    BY <1>1, <1>3, <2>1, <2>3, Adding
  <2> QED BY <1>2, <1>3, <2>4
<1>4. 0 \in 0 .. MaxBatches /\ 1 .. MaxBatches \subseteq 0 .. MaxBatches
  OBVIOUS
<1>5. ASSUME QueueBulk(j) PROVE JobsMoved
  BY <1>3, <1>4, <1>5 DEF QueueBulk, AllKinds, TopicKinds
<1>6. ASSUME NEW u \in Users, QueuePush(j, u) \/ CallPost(j, u) PROVE JobsMoved
  BY <1>3, <1>4, <1>6 DEF QueuePush, CallPost, AllKinds, TopicKinds
<1>7. ASSUME NEW u \in Users, NEW c \in Chats, QueueChat(j, u, c) \/ CallCheck(j, u, c)
      PROVE  JobsMoved
  BY <1>3, <1>4, <1>7 DEF QueueChat, CallCheck, AllKinds, TopicKinds
<1>8. ASSUME NEW u \in Users, NEW c \in Chats, NEW kind \in TopicKinds, CallTopic(j, u, c, kind)
      PROVE  JobsMoved
  BY <1>3, <1>4, <1>8 DEF CallTopic, AllKinds, TopicKinds
<1> QED BY <1>5, <1>6, <1>7, <1>8 DEF Adds

(* Bull moves a job that does not run. *)
Scheduled(j, q) == /\ Becomes(j, q) /\ SameJob(q, job[j]) /\ q.pc \in {None, "prefs", "batch"}
                   /\ job[j].pc = None /\ job[j].state # "call" /\ q.state # "call"
                   /\ q.state = "active" => Take(j)
                   /\ job[j].state # "active"

LEMMA Scheduling ==
    ASSUME TInv, NEW j \in Jobs, Schedules(j)
    PROVE  \E q : Scheduled(j, q)
<1> USE PipelineAssumption
<1>1. JobsOK /\ job[j] \in Job /\ Fit(job[j])
  BY DEF TInv, JobsOK
<1>2. job[j].pc = None /\ job[j].state \in {"delayed", "waiting", "stalled"} /\ Core(job[j])
  BY <1>1 DEF Schedules, Promote, Take, Stalled, Fit
<1>3. CASE Promote(j)
  <2>1. PICK q : q = [job[j] EXCEPT !.state = "waiting"]
    OBVIOUS
  <2>2. /\ q \in Job /\ q.state = "waiting" /\ SameJob(q, job[j]) /\ q.stalls = job[j].stalls
        /\ q.pushes = job[j].pushes /\ q.sent = job[j].sent /\ q.id = job[j].id
        /\ q.pc = None /\ q.at = job[j].at /\ q.batch = job[j].batch /\ q.batches = job[j].batches
    BY <1>1, <1>2, <2>1, WritesState DEF SameJob
  <2>3. Fit(q)
    BY <1>1, <1>2, <1>3, <2>2 DEF Fit, Core, StepOK, SameJob, Promote, Steps
  <2> QED BY <1>1, <1>2, <1>3, <2>1, <2>2, <2>3, Becoming DEF Promote, Scheduled
<1>4. CASE Take(j)
  <2>1. PICK a : a = [job[j] EXCEPT !.state = "active"]
    OBVIOUS
  <2>2. /\ a \in Job /\ a.state = "active" /\ SameJob(a, job[j]) /\ a.stalls = job[j].stalls
        /\ a.pushes = job[j].pushes /\ a.sent = job[j].sent /\ a.id = job[j].id
        /\ a.at = job[j].at /\ a.batch = job[j].batch /\ a.batches = job[j].batches
    BY <1>1, <1>2, <2>1, WritesState DEF SameJob
  <2>3. job[j].kind \in {"chat", "push", "bulk"} /\ job[j].state = "waiting"
    BY <1>1, <1>4 DEF Take, Fit
  <2>4. /\ FirstStep(job[j].kind) = IF job[j].kind = "bulk" THEN "batch" ELSE "prefs"
        /\ FirstStep(job[j].kind) \in Steps
    BY <2>3 DEF FirstStep, TopicKinds, Steps
  <2>5. PICK q : q = [a EXCEPT !.pc = FirstStep(job[j].kind)]
    OBVIOUS
  <2>6. /\ q \in Job /\ q.state = "active" /\ SameJob(q, job[j]) /\ q.stalls = job[j].stalls
        /\ q.pushes = job[j].pushes /\ q.sent = job[j].sent /\ q.id = job[j].id
        /\ q.at = job[j].at /\ q.batch = job[j].batch /\ q.batches = job[j].batches
        /\ q.pc = IF job[j].kind = "bulk" THEN "batch" ELSE "prefs"
    BY <2>2, <2>4, <2>5, WritesPc DEF SameJob
  <2>7. Core(q) /\ q.at = None /\ ~q.id /\ q.pc # None
    BY <1>1, <1>2, <2>6 DEF Core, Fit, StepOK, SameJob, Steps
  <2>8. StepOK(q)
    BY <2>3, <2>6, <2>7 DEF StepOK, SameJob
  <2>9. Fit(q)
    BY <1>1, <1>2, <2>3, <2>6, <2>7, <2>8 DEF Fit, SameJob
  <2>10. job' = [job EXCEPT ![j] = q]
    BY <1>4, <2>1, <2>5 DEF Take
  <2> QED BY <1>1, <1>2, <1>4, <2>3, <2>6, <2>9, <2>10, Becoming DEF Scheduled
<1>5. CASE Stalled(j)
  <2>1. PICK n \in 0 .. MaxStalls + 1 : n = job[j].stalls + 1
    BY <1>1, <1>2 DEF Core, Job
  <2>2. PICK s \in {"waiting", "failed"} : /\ s = IF job[j].stalls < MaxStalls THEN "waiting" ELSE "failed"
    OBVIOUS
  <2>3. PICK a : a = [job[j] EXCEPT !.stalls = n]
    OBVIOUS
  <2>4. /\ a \in Job /\ SameJob(a, job[j]) /\ a.stalls = n
        /\ a.pushes = job[j].pushes /\ a.sent = job[j].sent /\ a.id = job[j].id
        /\ a.pc = None /\ a.at = job[j].at /\ a.batch = job[j].batch /\ a.batches = job[j].batches
    BY <1>1, <1>2, <2>3, WritesStalls DEF SameJob
  <2>5. PICK q : q = [a EXCEPT !.state = s]
    OBVIOUS
  <2>6. /\ q \in Job /\ q.state = s /\ SameJob(q, job[j]) /\ q.stalls = n
        /\ q.pushes = job[j].pushes /\ q.sent = job[j].sent /\ q.id = job[j].id
        /\ q.pc = None /\ q.at = job[j].at /\ q.batch = job[j].batch /\ q.batches = job[j].batches
    BY <2>4, <2>5, WritesState DEF SameJob
  <2>7. job[j].pushes \in Nat /\ job[j].stalls \in Nat /\ q.pushes <= n /\ q.pushes <= 1 + n
    BY <1>1, <1>2, <2>1, <2>6 DEF Job, Core
  <2>8. s = "waiting" => Core(q) /\ q.kind \in {"chat", "push", "bulk"}
    BY <1>1, <1>2, <1>5, <2>1, <2>2, <2>6, <2>7 DEF Core, SameJob, Stalled, Fit, Job
  <2>9. StepOK(q) /\ ~q.id
    BY <1>1, <1>2, <2>6 DEF StepOK, Fit, Steps
  <2>10. Fit(q)
    BY <1>1, <1>2, <2>6, <2>7, <2>8, <2>9 DEF Fit
  <2>11. job' = [job EXCEPT ![j] = q]
    BY <1>5, <2>1, <2>2, <2>3, <2>5 DEF Stalled
  <2> QED BY <1>1, <1>2, <2>6, <2>10, <2>11, Becoming DEF Scheduled
<1> QED BY <1>3, <1>4, <1>5 DEF Schedules

(* A step of a running job: where it leads, and what it has read on the way. *)
Walks(j, q) ==
    /\ Becomes(j, q) /\ SameJob(q, job[j]) /\ Running(j) /\ Moved(j)
    /\ \/ q.state = job[j].state /\ q.pc # None
       \/ q.state \in {"completed", "failed"} /\ q.pc = None
    /\ q.pc # "prefs"
    /\ q.pc = "mute" => At(j, "prefs") /\ ShouldSend(TypeOf(j), prefs[q.user])
    /\ q.pc = "token" /\ q.kind = "chat" =>
         \/ At(j, "unmute")
         \/ At(j, "mute") /\ (~mute[q.user][q.chat].muted \/ "mute" \in Failing)

LEMMA StopWalks ==
    ASSUME JobsOK, NEW j \in Jobs, Running(j), Stops(j)
    PROVE  \E q : Walks(j, q) /\ q.pc = None
<1>1. PICK q, s : /\ Becomes(j, q) /\ SameJob(q, job[j]) /\ q.state = s /\ q.pc = None
                  /\ s \in {"completed", "failed"}
  BY DEF Stops
<1>2. Moved(j)
  BY <1>1, PipelineAssumption DEF Moved, Becomes, Steps
<1> QED BY <1>1, <1>2, PipelineAssumption DEF Walks, Steps

LEMMA Walking ==
    ASSUME TInv, NEW j \in Jobs, Process(j)
    PROVE  \E q : Walks(j, q)
<1>1. JobsOK
  BY DEF TInv
<1>2. CASE Stops(j)
  <2>1. Running(j)
    BY DEF Process, ReadPreferences, ReadMute, ClearExpiredMute, ReadToken, Push, SaveNotification,
       MarkTokenInactive, ProcessBatch, UpdateTopic, CallFails, At
  <2> QED BY <1>1, <1>2, <2>1, StopWalks
<1>3. CASE ReadPreferences(j)
  <2>1. At(j, "prefs")
    BY <1>3 DEF ReadPreferences
  <2>2. ASSUME NEW q, Goes(j, q), ShouldSend(TypeOf(j), prefs[q.user]),
               q.pc = IF q.kind = "chat" THEN "mute" ELSE "token"
        PROVE  Walks(j, q)
    <3>1. Moved(j)
      BY <2>2 DEF Goes, Moved, Becomes
    <3> QED BY <2>1, <2>2, <3>1 DEF Goes, Walks, At
  <2> QED BY <1>2, <1>3, <2>2, Preferring
<1>4. CASE ReadMute(j)
  <2>1. At(j, "mute")
    BY <1>4 DEF ReadMute
  <2>2. ASSUME NEW q, Goes(j, q),
               \/ q.pc = "token" /\ ~mute[q.user][q.chat].muted
               \/ q.pc = "unmute" /\ Expired(mute[q.user][q.chat])
        PROVE  Walks(j, q)
    <3>1. Moved(j)
      BY <2>1, <2>2 DEF Goes, Moved, Becomes
    <3> QED BY <2>1, <2>2, <3>1 DEF Goes, Walks, At
  <2> QED BY <1>2, <1>4, <2>2, Muting
<1>5. CASE ClearExpiredMute(j)
  <2>1. At(j, "unmute")
    BY <1>5 DEF ClearExpiredMute
  <2>2. ASSUME NEW q, Goes(j, q), q.pc = "token"
        PROVE  Walks(j, q)
    <3>1. Moved(j)
      BY <2>2 DEF Goes, Moved, Becomes
    <3> QED BY <2>1, <2>2, <3>1 DEF Goes, Walks, At
  <2> QED BY <1>2, <1>5, <2>1, <2>2, Passing DEF ClearExpiredMute
<1>6. CASE ReadToken(j)
  <2>1. At(j, "token")
    BY <1>6 DEF ReadToken
  <2>2. ASSUME NEW q, Goes(j, q), q.token = device[q.user].token, device[q.user].active,
               q.pc \in {"push", "subscribe", "unsubscribe"}
        PROVE  Walks(j, q)
    <3>1. Moved(j)
      BY <2>1, <2>2 DEF Goes, Moved, Becomes
    <3> QED BY <2>1, <2>2, <3>1 DEF Goes, Walks, At
  <2>3. Stops(j) \/ \E q : /\ Goes(j, q) /\ q.token = device[q.user].token
                           /\ device[q.user].active /\ q.pc \in {"push", "subscribe", "unsubscribe"}
    BY <1>6, Reading
  <2> QED BY <1>2, <2>2, <2>3
<1>7. CASE Push(j)
  <2>1. At(j, "push")
    BY <1>7 DEF Push
  <2>2. ASSUME NEW q, Goes(j, q), q.pc \in {"save", "inactive"}, q.token = job[j].token,
               q.pc = "inactive" => q.token \notin valid
        PROVE  Walks(j, q)
    <3>1. Moved(j)
      BY <2>1, <2>2 DEF Goes, Moved, Becomes
    <3> QED BY <2>1, <2>2, <3>1 DEF Goes, Walks, At
  <2> QED BY <1>2, <1>7, <2>2, Pushing
<1>8. CASE SaveNotification(j)
  BY <1>2, <1>8, Saving
<1>9. CASE MarkTokenInactive(j)
  BY <1>1, <1>2, <1>9, Ends DEF MarkTokenInactive, Steps
<1>10. CASE UpdateTopic(j)
  <2>1. PICK pc \in {"subscribe", "unsubscribe"} : At(j, pc) /\ End(j)
    BY <1>10 DEF UpdateTopic, At
  <2> QED BY <1>1, <1>2, <2>1, Ends DEF Steps
<1>11. CASE ProcessBatch(j)
  <2>1. At(j, "batch")
    BY <1>11 DEF ProcessBatch
  <2>2. ASSUME NEW q, Goes(j, q), q.pc = "batch"
        PROVE  Walks(j, q)
    <3>1. Moved(j)
      BY <2>1, <2>2 DEF Goes, Moved, Becomes
    <3> QED BY <2>1, <2>2, <3>1 DEF Goes, Walks, At
  <2> QED BY <1>2, <1>11, <2>2, Batching
<1>12. CASE CallFails(j)
  <2>1. Running(j)
    BY <1>12 DEF CallFails
  <2>2. ASSUME NEW q, Goes(j, q), q.pc = "token",
               At(j, "unmute") \/ (At(j, "mute") /\ "mute" \in Failing)
        PROVE  Walks(j, q)
    <3>1. Moved(j)
      BY <2>1, <2>2 DEF Goes, Moved, Becomes
    <3> QED BY <2>1, <2>2, <3>1 DEF Goes, Walks, At
  <2> QED BY <1>2, <1>12, <2>2, Throwing
<1> QED BY <1>3, <1>4, <1>5, <1>6, <1>7, <1>8, <1>9, <1>10, <1>11, <1>12 DEF Process

LEMMA ClearedMoves ==
    ASSUME TInv, ClearFailedJobs
    PROVE  JobsMoved /\ \A j \in Jobs : job'[j] = job[j] \/ (job[j].pc = None /\ job'[j].pc = None
                                                             /\ job[j].state # "call" /\ job'[j].state # "call"
                                                             /\ job[j].state # "active" /\ job'[j].state # "active")
<1> SUFFICES ASSUME NEW j \in Jobs, job[j].state = "failed"
             PROVE  /\ job'[j] \in Job /\ Moved(j) /\ job[j].pc = None /\ job'[j].pc = None
                    /\ job'[j].state = "cleared"
  BY DEF ClearFailedJobs, TInv, JobsOK, JobsMoved
<1>1. job[j] \in Job /\ Fit(job[j])
  BY DEF TInv, JobsOK
<1>2. PICK q : q = [job[j] EXCEPT !.state = "cleared"] /\ job'[j] = q
  BY DEF ClearFailedJobs
<1>3. /\ q \in Job /\ q.state = "cleared" /\ SameJob(q, job[j]) /\ q.stalls = job[j].stalls
      /\ q.pushes = job[j].pushes /\ q.sent = job[j].sent /\ q.id = job[j].id
      /\ q.pc = job[j].pc /\ q.at = job[j].at /\ q.batch = job[j].batch
      /\ q.batches = job[j].batches
  BY <1>1, <1>2, WritesState DEF SameJob
<1>4. job[j].pc = None
  BY <1>1 DEF Fit
<1>5. Fit(q)
  BY <1>1, <1>3, <1>4, PipelineAssumption DEF Fit, StepOK, Steps
<1> QED BY <1>2, <1>3, <1>4, <1>5, PipelineAssumption DEF Moved, Steps

LEMMA RestartMoves ==
    ASSUME TInv, Restart
    PROVE  JobsMoved /\ \A j \in Jobs : job'[j] = job[j] \/ (Running(j) /\ ~Running(j)' /\ job'[j].pc = None)
<1> SUFFICES ASSUME NEW j \in Jobs
             PROVE  \/ job'[j] = job[j]
                    \/ job'[j] \in Job /\ Moved(j) /\ Running(j) /\ ~Running(j)' /\ job'[j].pc = None
  BY DEF Restart, TInv, JobsOK, JobsMoved
<1>1. job[j] \in Job /\ Fit(job[j])
  BY DEF TInv, JobsOK
<1>2. job'[j] = CASE job[j].state = "active" -> Over(job[j], "stalled")
                  [] job[j].state = "call" -> Over(job[j], "lost")
                  [] OTHER -> job[j]
  BY DEF Restart
<1>3. ASSUME NEW s \in {"stalled", "lost"}, job'[j] = Over(job[j], s),
             job[j].state \in {"active", "call"}, s = "stalled" => job[j].state = "active"
      PROVE  job'[j] \in Job /\ Moved(j) /\ Running(j) /\ ~Running(j)' /\ job'[j].pc = None
  <2>1. Core(job[j]) /\ (s = "stalled" => job[j].kind \in {"chat", "push", "bulk"})
    BY <1>1, <1>3 DEF Fit
  <2>2. PICK q : q = Over(job[j], s)
    OBVIOUS
  <2>3. q \in Job /\ Fit(q) /\ SameJob(q, job[j]) /\ q.state = s /\ q.pc = None
    BY <1>1, <2>1, <2>2, Ending
  <2> QED BY <1>3, <2>2, <2>3, PipelineAssumption DEF Moved, Running, Steps
<1> QED BY <1>2, <1>3

LEMMA AllMoves ==
    ASSUME TInv, [Next]_vars
    PROVE  JobsMoved
<1>1. ASSUME UNCHANGED job
      PROVE  JobsMoved
  BY <1>1, SameJobs DEF TInv
<1>2. CASE UNCHANGED vars
  BY <1>1, <1>2 DEF vars
<1>3. CASE Asked
  BY <1>1, <1>3 DEF Asked, StoreToken, RemoveDeviceToken, UpdatePreferences, ValidateToken,
     UpdateChatSetting, TokenExpires, PauseQueue, ResumeQueue, Tick, queue
<1>4. ASSUME NEW j \in Jobs, Schedules(j)
      PROVE  JobsMoved
  <2>1. PICK q : Scheduled(j, q)
    BY <1>4, Scheduling
  <2>2. Moved(j)
    BY <2>1, PipelineAssumption DEF Scheduled, Moved, Becomes, Steps
  <2> QED BY <2>1, <2>2, OneMoved DEF Scheduled, TInv
<1>5. ASSUME NEW j \in Jobs, Process(j)
      PROVE  JobsMoved
  BY <1>5, Walking, OneMoved DEF Walks, TInv
<1> QED BY <1>2, <1>3, <1>4, <1>5, AddedMoves, ClearedMoves, RestartMoves, Steps1

-----------------------------------------------------------------------------
(* Types *)

LEMMA Nested ==
    ASSUME NEW S, NEW f \in [Users -> [Chats -> S]], NEW u \in Users, NEW c \in Chats, NEW x \in S,
           NEW g, g = [f EXCEPT ![u][c] = x]
    PROVE  /\ g \in [Users -> [Chats -> S]] /\ g[u][c] = x
           /\ \A v \in Users, d \in Chats : v # u \/ d # c => g[v][d] = f[v][d]
<1>1. PICK h : h = [f[u] EXCEPT ![c] = x]
  OBVIOUS
<1>2. h \in [Chats -> S] /\ h[c] = x /\ \A d \in Chats : d # c => h[d] = f[u][d]
  BY <1>1
<1>3. g = [f EXCEPT ![u] = h]
  BY <1>1
<1> QED BY <1>2, <1>3

(* Devices and their tokens *)
DevicesOK ==
    /\ device \in [Users -> [token: Tokens \cup {None}, active: BOOLEAN]]
    /\ register \in [Users -> Tokens \cup {None}]
    /\ valid \subseteq Tokens /\ fcm \in BOOLEAN /\ overtaken \in [Users -> BOOLEAN]

(* What the steps make of the device of a user. *)
LEMMA Deactivating ==
    ASSUME TInv, NEW j \in Jobs, MarkTokenInactive(j)
    PROVE  \E u \in Users : /\ u = job[j].user /\ DevicesOK'
                            /\ device'[u].token = device[u].token /\ ~device'[u].active
                            /\ \A v \in Users \ {u} : device'[v] = device[v]
<1>1. At(j, "inactive") /\ "inactive" \in Steps /\ JobsOK
  BY DEF MarkTokenInactive, Steps, TInv
<1>2. PICK u \in Users : u = job[j].user
  BY <1>1, Runs DEF Core, StepOK, AllKinds
<1>3. PICK b \in BOOLEAN : ~b /\ device' = [device EXCEPT ![u].active = b]
  BY <1>2, Zenon DEF MarkTokenInactive
<1>4. PICK d : d = [device[u] EXCEPT !.active = b]
  OBVIOUS
<1>5. device \in [Users -> [token: Tokens \cup {None}, active: BOOLEAN]]
  BY DEF TInv, TablesOK
<1>6. /\ d \in [token: Tokens \cup {None}, active: BOOLEAN] /\ d.token = device[u].token
      /\ d.active = b
  BY <1>4, <1>5
<1>7. device' = [device EXCEPT ![u] = d]
  BY <1>3, <1>4, <1>5
<1>8. UNCHANGED <<register, valid, fcm, overtaken>>
  BY DEF MarkTokenInactive
<1> QED BY <1>2, <1>3, <1>5, <1>6, <1>7, <1>8 DEF DevicesOK, TInv, TablesOK

Overtakes(u) == \E j \in Jobs : /\ At(j, "push") \/ At(j, "inactive")
                                /\ job[j].user = u /\ job[j].token # register[u]

LEMMA Storing ==
    ASSUME TInv, NEW u \in Users, StoreToken(u)
    PROVE  /\ DevicesOK'
           /\ \/ UNCHANGED <<device, overtaken, loose>>
              \/ /\ device'[u].token = register[u] /\ device'[u].active /\ register[u] \in Tokens
                 /\ \A v \in Users \ {u} : /\ device'[v] = device[v] /\ device[v].token # register[u]
                                           /\ overtaken'[v] = overtaken[v]
                 /\ overtaken'[u] <=> Overtakes(u)
                 /\ Loosen(u)
<1>1. /\ device \in [Users -> [token: Tokens \cup {None}, active: BOOLEAN]]
      /\ register \in [Users -> Tokens \cup {None}] /\ overtaken \in [Users -> BOOLEAN]
      /\ register[u] \in Tokens /\ UNCHANGED <<valid, fcm>> /\ valid \subseteq Tokens /\ fcm \in BOOLEAN
      /\ register' \in [Users -> Tokens \cup {None}]
  BY DEF TInv, TablesOK, StoreToken
<1>2. CASE UNCHANGED <<device, overtaken, loose>>
  BY <1>1, <1>2 DEF DevicesOK
<1>3. CASE /\ \A v \in Users \ {u} : device[v].token # register[u]
           /\ device' = [device EXCEPT ![u] = [token |-> register[u], active |-> TRUE]]
           /\ overtaken' = [overtaken EXCEPT ![u] = Overtakes(u)]
           /\ Loosen(u)
  <2>1. PICK b \in BOOLEAN : b = Overtakes(u)
    BY Zenon DEF Overtakes
  <2>2. overtaken' = [overtaken EXCEPT ![u] = b]
    BY <1>3, <2>1, Zenon
  <2>3. overtaken' \in [Users -> BOOLEAN] /\ overtaken'[u] = b /\ \A v \in Users \ {u} : overtaken'[v] = overtaken[v]
    BY <1>1, <2>2
  <2>4. overtaken'[u] <=> Overtakes(u)
    BY <2>1, <2>3, Zenon
  <2>5. /\ device' \in [Users -> [token: Tokens \cup {None}, active: BOOLEAN]]
        /\ device'[u].token = register[u] /\ device'[u].active
        /\ \A v \in Users \ {u} : device'[v] = device[v]
    BY <1>1, <1>3
  <2> QED BY <1>1, <1>3, <2>3, <2>4, <2>5 DEF DevicesOK
<1> QED BY <1>2, <1>3, Zenon DEF StoreToken, Overtakes

LEMMA Removing ==
    ASSUME TInv, NEW u \in Users, RemoveDeviceToken(u)
    PROVE  /\ DevicesOK' /\ device'[u].token = None /\ ~device'[u].active
           /\ \A v \in Users \ {u} : device'[v] = device[v]
           /\ UNCHANGED <<overtaken, valid>>
<1>1. device \in [Users -> [token: Tokens \cup {None}, active: BOOLEAN]]
  BY DEF TInv, TablesOK
<1>2. /\ device' = [device EXCEPT ![u] = [token |-> None, active |-> FALSE]]
      /\ UNCHANGED <<register, valid, fcm, overtaken>>
  BY DEF RemoveDeviceToken
<1>3. /\ device' \in [Users -> [token: Tokens \cup {None}, active: BOOLEAN]]
      /\ device'[u].token = None /\ ~device'[u].active
      /\ \A v \in Users \ {u} : device'[v] = device[v]
  BY <1>1, <1>2
<1> QED BY <1>2, <1>3 DEF DevicesOK, TInv, TablesOK

LEMMA DevicesTyped ==
    ASSUME TInv, [Next]_vars
    PROVE  DevicesOK'
<1>1. DevicesOK
  BY DEF TInv, TablesOK, DevicesOK
<1>2. CASE UNCHANGED <<device, register, valid, fcm, overtaken>>
  BY <1>1, <1>2 DEF DevicesOK
<1>3. ASSUME NEW j \in Jobs, MarkTokenInactive(j) PROVE DevicesOK'
  BY <1>3, Deactivating
<1>4. ASSUME NEW j \in Jobs, Adds(j) \/ Schedules(j) \/ Process(j), ~MarkTokenInactive(j)
      PROVE  DevicesOK'
  BY <1>2, <1>4 DEF Adds, Schedules, Process, QueueBulk, QueuePush, CallPost, QueueChat, CallCheck,
     CallTopic, Promote, Take, Stalled, ReadPreferences, ReadMute, ClearExpiredMute, ReadToken, Push,
     SaveNotification, ProcessBatch, UpdateTopic, CallFails, devices
<1>5. ASSUME NEW u \in Users, StoreToken(u) \/ RemoveDeviceToken(u) PROVE DevicesOK'
  BY <1>5, Storing, Removing
<1>6. ASSUME NEW u \in Users, NEW t \in Tokens, ValidateToken(u, t) PROVE DevicesOK'
  <2>1. register' = [register EXCEPT ![u] = t] /\ UNCHANGED <<device, valid, fcm, overtaken>>
    BY <1>6 DEF ValidateToken
  <2> QED BY <1>1, <2>1 DEF DevicesOK
<1>7. ASSUME NEW t \in Tokens, TokenExpires(t) PROVE DevicesOK'
  BY <1>1, <1>7 DEF TokenExpires, DevicesOK
<1>8. CASE \/ \E u \in Users : UpdatePreferences(u)
           \/ \E u \in Users, c \in Chats : UpdateChatSetting(u, c)
           \/ PauseQueue \/ ResumeQueue \/ Tick \/ ClearFailedJobs \/ UNCHANGED vars
  BY <1>2, <1>8 DEF UpdatePreferences, UpdateChatSetting, PauseQueue, ResumeQueue, Tick,
     ClearFailedJobs, vars, devices
<1>9. CASE Restart
  BY <1>1, <1>9, PipelineAssumption DEF Restart, DevicesOK
<1> QED BY <1>3, <1>4, <1>5, <1>6, <1>7, <1>8, <1>9, Steps1 DEF Asked

(* The tables a step of the queue or of a processor leaves alone. *)
LEMMA Frame ==
    ASSUME NEW j \in Jobs
    PROVE  /\ Adds(j) => UNCHANGED <<paused, device, register, valid, fcm, overtaken, prefs, mute, wish,
                                     raced, now, crashes, late, subs>>
           /\ Schedules(j) => UNCHANGED <<paused, device, register, valid, fcm, overtaken, prefs, mute,
                                          wish, raced, now, crashes, late, subs, joined, loose>>
           /\ Process(j) => /\ UNCHANGED <<paused, register, valid, fcm, overtaken, prefs, wish, raced,
                                           now, crashes, joined>>
                            /\ UNCHANGED device \/ MarkTokenInactive(j)
                            /\ UNCHANGED mute \/ ClearExpiredMute(j)
                            /\ UNCHANGED late \/ Push(j)
                            /\ UNCHANGED subs \/ UpdateTopic(j)
                            /\ UNCHANGED loose \/ UpdateTopic(j) \/ MarkTokenInactive(j) \/ CallFails(j)
<1>1. Adds(j) => UNCHANGED <<paused, device, register, valid, fcm, overtaken, prefs, mute, wish,
                             raced, now, crashes, late, subs>>
  BY DEF Adds, QueueBulk, QueuePush, CallPost, QueueChat, CallCheck, CallTopic, devices, settings,
     bounds, topics
<1>2. Schedules(j) => UNCHANGED <<paused, device, register, valid, fcm, overtaken, prefs, mute,
                                  wish, raced, now, crashes, late, subs, joined, loose>>
  BY DEF Schedules, Promote, Take, Stalled, devices, settings, bounds, topics
<1>3. ASSUME Process(j)
      PROVE  UNCHANGED <<paused, register, valid, fcm, overtaken, prefs, wish, raced,
                         now, crashes, joined>>
  BY <1>3 DEF Process, ReadPreferences, ReadMute, ClearExpiredMute, ReadToken, Push, SaveNotification,
     MarkTokenInactive, ProcessBatch, UpdateTopic, CallFails, devices, settings, bounds, topics, Loosen
<1>4. ASSUME Process(j)
      PROVE  /\ UNCHANGED device \/ MarkTokenInactive(j)
             /\ UNCHANGED mute \/ ClearExpiredMute(j)
             /\ UNCHANGED late \/ Push(j)
             /\ UNCHANGED subs \/ UpdateTopic(j)
             /\ UNCHANGED loose \/ UpdateTopic(j) \/ MarkTokenInactive(j) \/ CallFails(j)
  <2>1. CASE ReadPreferences(j) \/ ReadMute(j) \/ ReadToken(j) \/ SaveNotification(j) \/ ProcessBatch(j)
    BY <2>1 DEF ReadPreferences, ReadMute, ReadToken, SaveNotification, ProcessBatch, devices, settings,
       bounds, topics
  <2>2. CASE ClearExpiredMute(j)
    BY <2>2 DEF ClearExpiredMute, devices, topics
  <2>3. CASE Push(j)
    BY <2>3 DEF Push, devices, settings, topics
  <2>4. CASE MarkTokenInactive(j)
    BY <2>4 DEF MarkTokenInactive, settings
  <2>5. CASE UpdateTopic(j) \/ CallFails(j)
    BY <2>5 DEF UpdateTopic, CallFails, devices, settings
  <2> QED BY <1>4, <2>1, <2>2, <2>3, <2>4, <2>5 DEF Process
<1> QED BY <1>1, <1>2, <1>3, <1>4

(* Preferences, mutes and what is compared with them *)
SettingsOK ==
    /\ prefs \in [Users -> Known]
    /\ mute \in [Users -> [Chats -> Setting]] /\ wish \in [Users -> [Chats -> Setting]]
    /\ raced \in [Users -> [Chats -> BOOLEAN]]

LEMMA Clearing ==
    ASSUME TInv, NEW j \in Jobs, ClearExpiredMute(j)
    PROVE  \E u \in Users, c \in Chats :
             /\ u = job[j].user /\ c = job[j].chat /\ At(j, "unmute")
             /\ mute' \in [Users -> [Chats -> Setting]] /\ mute'[u][c] = Unmuted
             /\ \A v \in Users, d \in Chats : v # u \/ d # c => mute'[v][d] = mute[v][d]
<1>1. At(j, "unmute") /\ "unmute" \in Steps /\ JobsOK
  BY DEF ClearExpiredMute, Steps, TInv
<1>2. job[j].user \in Users /\ job[j].chat \in Chats
  BY <1>1, Runs DEF Core, StepOK, AllKinds, TopicKinds
<1>3. mute \in [Users -> [Chats -> Setting]]
  BY DEF TInv, TablesOK
<1>4. Unmuted \in Setting
  BY DEF Unmuted, Setting
<1>5. mute' = [mute EXCEPT ![job[j].user][job[j].chat] = Unmuted]
  BY DEF ClearExpiredMute
<1> QED BY <1>1, <1>2, <1>3, <1>4, <1>5, Nested

Clears(u, c) == \E j \in Jobs : At(j, "unmute") /\ job[j].user = u /\ job[j].chat = c

LEMMA Choosing ==
    ASSUME TInv, NEW u \in Users, NEW c \in Chats, UpdateChatSetting(u, c)
    PROVE  /\ SettingsOK' /\ prefs' = prefs
           /\ mute'[u][c] = wish'[u][c] /\ (raced'[u][c] <=> Clears(u, c))
           /\ \A v \in Users, d \in Chats : v # u \/ d # c =>
                mute'[v][d] = mute[v][d] /\ wish'[v][d] = wish[v][d] /\ raced'[v][d] = raced[v][d]
<1>1. /\ mute \in [Users -> [Chats -> Setting]] /\ wish \in [Users -> [Chats -> Setting]]
      /\ raced \in [Users -> [Chats -> BOOLEAN]] /\ prefs \in [Users -> Known]
  BY DEF TInv, TablesOK
<1>2. PICK s \in Setting : mute' = [mute EXCEPT ![u][c] = s] /\ wish' = [wish EXCEPT ![u][c] = s]
  BY DEF UpdateChatSetting
<1>3. /\ mute' \in [Users -> [Chats -> Setting]] /\ mute'[u][c] = s
      /\ \A v \in Users, d \in Chats : v # u \/ d # c => mute'[v][d] = mute[v][d]
  BY <1>1, <1>2, Nested
<1>4. /\ wish' \in [Users -> [Chats -> Setting]] /\ wish'[u][c] = s
      /\ \A v \in Users, d \in Chats : v # u \/ d # c => wish'[v][d] = wish[v][d]
  BY <1>1, <1>2, Nested
<1>5. PICK b \in BOOLEAN : b = Clears(u, c)
  BY Zenon DEF Clears
<1>6. raced' = [raced EXCEPT ![u][c] = b]
  BY <1>5, Zenon DEF UpdateChatSetting, Clears
<1>7. /\ raced' \in [Users -> [Chats -> BOOLEAN]] /\ raced'[u][c] = b
      /\ \A v \in Users, d \in Chats : v # u \/ d # c => raced'[v][d] = raced[v][d]
  BY <1>1, <1>6, Nested
<1>8. prefs' = prefs
  BY DEF UpdateChatSetting
<1>9. raced'[u][c] <=> Clears(u, c)
  BY <1>5, <1>7, Zenon
<1> QED BY <1>1, <1>3, <1>4, <1>7, <1>8, <1>9 DEF SettingsOK

LEMMA SettingsTyped ==
    ASSUME TInv, [Next]_vars
    PROVE  SettingsOK'
<1>1. SettingsOK
  BY DEF TInv, TablesOK, SettingsOK
<1>2. CASE UNCHANGED <<prefs, mute, wish, raced>>
  BY <1>1, <1>2 DEF SettingsOK
<1>3. ASSUME NEW j \in Jobs, ClearExpiredMute(j) PROVE SettingsOK'
  <2>1. UNCHANGED <<prefs, wish, raced>>
    BY <1>3 DEF ClearExpiredMute
  <2> QED BY <1>1, <1>3, <2>1, Clearing DEF SettingsOK
<1>4. ASSUME NEW j \in Jobs, Adds(j) \/ Schedules(j) \/ Process(j), ~ClearExpiredMute(j)
      PROVE  SettingsOK'
  BY <1>2, <1>4, Frame
<1>5. ASSUME NEW u \in Users, UpdatePreferences(u) PROVE SettingsOK'
  <2>1. PICK p \in Known : prefs' = [prefs EXCEPT ![u] = p]
    BY <1>5 DEF UpdatePreferences, Known
  <2>2. UNCHANGED <<mute, wish, raced>>
    BY <1>5 DEF UpdatePreferences
  <2> QED BY <1>1, <2>1, <2>2 DEF SettingsOK
<1>6. ASSUME NEW u \in Users, NEW c \in Chats, UpdateChatSetting(u, c) PROVE SettingsOK'
  BY <1>6, Choosing
<1>7. CASE \/ \E u \in Users : StoreToken(u) \/ RemoveDeviceToken(u)
           \/ \E u \in Users, t \in Tokens : ValidateToken(u, t)
           \/ \E t \in Tokens : TokenExpires(t)
           \/ PauseQueue \/ ResumeQueue \/ Tick \/ ClearFailedJobs \/ Restart \/ UNCHANGED vars
  BY <1>2, <1>7 DEF StoreToken, RemoveDeviceToken, ValidateToken, TokenExpires, PauseQueue, ResumeQueue,
     Tick, ClearFailedJobs, Restart, vars, settings
<1> QED BY <1>3, <1>4, <1>5, <1>6, <1>7, Steps1 DEF Asked

(* The notifications that were pushed late *)
LEMMA Counting ==
    ASSUME TInv, NEW j \in Jobs, Push(j), ~UNCHANGED late
    PROVE  \E u \in Users, c \in Chats :
             /\ u = job[j].user /\ c = job[j].chat /\ job[j].kind = "chat" /\ Unwanted(u, c)
             /\ late' \in [Users -> [Chats -> Nat]] /\ late'[u][c] = late[u][c] + 1
             /\ \A v \in Users, d \in Chats : v # u \/ d # c => late'[v][d] = late[v][d]
<1>1. /\ job[j].kind = "chat" /\ Unwanted(job[j].user, job[j].chat)
      /\ late' = [late EXCEPT ![job[j].user][job[j].chat] = @ + 1]
  BY Zenon DEF Push
<1>2. At(j, "push") /\ "push" \in Steps /\ JobsOK
  BY DEF Push, Steps, TInv
<1>3. PICK u \in Users, c \in Chats : u = job[j].user /\ c = job[j].chat
  BY <1>1, <1>2, Runs DEF Core, AllKinds
<1>4. late \in [Users -> [Chats -> Nat]]
  BY DEF TInv, TablesOK
<1>5. PICK n \in Nat : n = late[u][c] + 1
  BY <1>4
<1>6. late' = [late EXCEPT ![u][c] = n]
  BY <1>1, <1>3, <1>5
<1> QED BY <1>1, <1>3, <1>4, <1>5, <1>6, Nested

LEMMA LateTyped ==
    ASSUME TInv, [Next]_vars
    PROVE  late' \in [Users -> [Chats -> Nat]]
<1>1. late \in [Users -> [Chats -> Nat]]
  BY DEF TInv, TablesOK
<1>2. ASSUME NEW u \in Users, Reconsidered(u) PROVE late' \in [Users -> [Chats -> Nat]]
  <2>1. PICK f \in [Chats -> Nat] : f = [c \in Chats |-> 0]
    OBVIOUS
  <2>2. late' = [late EXCEPT ![u] = f]
    BY <1>2, <2>1 DEF Reconsidered
  <2> QED BY <1>1, <2>2
<1>3. ASSUME NEW j \in Jobs, Adds(j) \/ Schedules(j) \/ Process(j)
      PROVE  late' \in [Users -> [Chats -> Nat]]
  BY <1>1, <1>3, Frame, Counting
<1>4. CASE Asked
  BY <1>1, <1>2, <1>4 DEF Asked, StoreToken, RemoveDeviceToken, UpdatePreferences, ValidateToken,
     UpdateChatSetting, TokenExpires, PauseQueue, ResumeQueue, Tick
<1>5. CASE ClearFailedJobs \/ Restart \/ UNCHANGED vars
  BY <1>1, <1>5 DEF ClearFailedJobs, Restart, vars
<1> QED BY <1>3, <1>4, <1>5, Steps1

(* The topics of the chats *)
TopicsOK == subs \subseteq Tokens \X Chats /\ joined \subseteq Users \X Chats
            /\ loose \subseteq Users \X Chats

(* The last step of a join or leave, and what the job still knows of it. *)
LEMMA Topical ==
    ASSUME TInv, NEW j \in Jobs, UpdateTopic(j)
    PROVE  \E u \in Users, c \in Chats, t \in Tokens :
             /\ u = job[j].user /\ c = job[j].chat /\ t = job[j].token
             /\ job[j].state = "call" /\ job[j].pc = IF job[j].kind = "join" THEN "subscribe"
                                                    ELSE "unsubscribe"
             /\ job[j].kind \in TopicKinds /\ Stops(j)
             /\ IF fcm /\ t \in valid
                THEN /\ subs' = IF job[j].kind = "join" THEN subs \cup {<<t, c>>}
                                ELSE subs \ {<<t, c>>}
                     /\ loose' = loose \cup ({v \in Users \ {u} : device[v].token = t} \X {c})
                ELSE loose' = loose \cup {<<u, c>>} /\ UNCHANGED subs
<1>1. PICK pc \in {"subscribe", "unsubscribe"} : At(j, pc) /\ End(j)
  BY DEF UpdateTopic, At
<1>2. JobsOK /\ pc \in Steps
  BY DEF TInv, Steps
<1>3. /\ job[j].token \in Tokens /\ job[j].kind = IF pc = "subscribe" THEN "join" ELSE "leave"
      /\ job[j].pc = pc /\ job[j].user \in Users /\ job[j].chat \in Chats /\ Fit(job[j])
      /\ job[j].state \in {"active", "call"}
  BY <1>1, <1>2, Runs DEF StepOK, Core, AllKinds, TopicKinds
<1>4. job[j].state = "call" /\ Stops(j)
  BY <1>1, <1>2, <1>3, Ends DEF Fit
<1> QED BY <1>3, <1>4 DEF UpdateTopic, TopicKinds

LEMMA Failing1 ==
    ASSUME TInv, NEW j \in Jobs, CallFails(j)
    PROVE  /\ job[j].kind \in TopicKinds => <<job[j].user, job[j].chat>> \in Users \X Chats
           /\ loose' = IF job[j].kind \in TopicKinds THEN loose \cup {<<job[j].user, job[j].chat>>}
                       ELSE loose
<1>1. PICK pc \in Steps : At(j, pc)
  BY DEF TInv, JobsOK, Fit, Job, CallFails, At, Running
<1>2. Core(job[j])
  BY <1>1, Runs DEF TInv
<1> QED BY <1>2 DEF Core, AllKinds, TopicKinds, CallFails

LEMMA TopicsTyped ==
    ASSUME TInv, [Next]_vars
    PROVE  TopicsOK'
<1>1. TopicsOK
  BY DEF TInv, TablesOK, TopicsOK
<1>2. CASE UNCHANGED <<subs, joined, loose>>
  BY <1>1, <1>2 DEF TopicsOK
<1>3. ASSUME NEW u \in Users, Loosen(u), UNCHANGED <<subs, joined>> PROVE TopicsOK'
  BY <1>1, <1>3 DEF TopicsOK, Loosen
<1>4. ASSUME NEW j \in Jobs, Process(j) PROVE TopicsOK'
  <2>1. UNCHANGED joined
    BY <1>4, Frame
  <2>2. CASE MarkTokenInactive(j)
    BY <1>3, <2>2, Deactivating DEF MarkTokenInactive
  <2>3. CASE UpdateTopic(j)
    BY <1>1, <2>1, <2>3, Topical DEF TopicsOK
  <2>4. CASE CallFails(j)
    <3>1. UNCHANGED subs
      BY <2>4 DEF CallFails
    <3> QED BY <1>1, <2>1, <2>4, <3>1, Failing1 DEF TopicsOK
  <2> QED BY <1>2, <1>4, <2>1, <2>2, <2>3, <2>4, Frame
<1>5. ASSUME NEW j \in Jobs, Adds(j) PROVE TopicsOK'
  <2>1. CASE \E u \in Users, c \in Chats, kind \in TopicKinds : CallTopic(j, u, c, kind)
    BY <1>1, <2>1 DEF CallTopic, TopicsOK
  <2> QED BY <1>2, <1>5, <2>1 DEF Adds, QueueBulk, QueuePush, CallPost, QueueChat, CallCheck, topics
<1>6. ASSUME NEW u \in Users, StoreToken(u) \/ RemoveDeviceToken(u) PROVE TopicsOK'
  BY <1>2, <1>3, <1>6 DEF StoreToken, RemoveDeviceToken
<1>7. CASE Restart
  BY <1>1, <1>7 DEF Restart, TopicsOK
<1>8. CASE \/ \E u \in Users : UpdatePreferences(u)
           \/ \E u \in Users, t \in Tokens : ValidateToken(u, t)
           \/ \E u \in Users, c \in Chats : UpdateChatSetting(u, c)
           \/ \E t \in Tokens : TokenExpires(t)
           \/ PauseQueue \/ ResumeQueue \/ Tick \/ ClearFailedJobs \/ UNCHANGED vars
  BY <1>2, <1>8 DEF UpdatePreferences, UpdateChatSetting, ValidateToken, TokenExpires, PauseQueue,
     ResumeQueue, Tick, ClearFailedJobs, vars, topics
<1>9. ASSUME NEW j \in Jobs, Schedules(j) PROVE TopicsOK'
  BY <1>2, <1>9, Frame
<1> QED BY <1>4, <1>5, <1>6, <1>7, <1>8, <1>9, Steps1 DEF Asked

LEMMA BoundsTyped ==
    ASSUME TInv, [Next]_vars
    PROVE  paused' \in BOOLEAN /\ now' \in 0 .. MaxClock /\ crashes' \in 0 .. MaxCrashes
<1>1. /\ paused \in BOOLEAN /\ now \in 0 .. MaxClock /\ crashes \in 0 .. MaxCrashes
      /\ MaxClock \in Nat /\ MaxCrashes \in Nat
  BY PipelineAssumption DEF TInv, TablesOK
<1>2. CASE UNCHANGED <<paused, now, crashes>>
  BY <1>1, <1>2
<1>3. ASSUME NEW j \in Jobs, Adds(j) \/ Schedules(j) \/ Process(j)
      PROVE  UNCHANGED <<paused, now, crashes>>
  BY <1>3, Frame
<1>4. CASE PauseQueue \/ ResumeQueue
  BY <1>1, <1>4 DEF PauseQueue, ResumeQueue, bounds
<1>5. CASE Tick
  BY <1>1, <1>5 DEF Tick, queue
<1>6. CASE Restart
  BY <1>1, <1>6 DEF Restart
<1>7. CASE Asked /\ ~PauseQueue /\ ~ResumeQueue /\ ~Tick
  BY <1>2, <1>7 DEF Asked, StoreToken, RemoveDeviceToken, UpdatePreferences, ValidateToken,
     UpdateChatSetting, TokenExpires, queue, bounds
<1>8. CASE ClearFailedJobs \/ UNCHANGED vars
  BY <1>2, <1>8 DEF ClearFailedJobs, vars, bounds
<1> QED BY <1>2, <1>3, <1>4, <1>5, <1>6, <1>7, <1>8, Steps1

LEMMA TypeInit == Init => TInv
<1> SUFFICES ASSUME Init PROVE TInv
  OBVIOUS
<1>1. /\ NoJob \in Job /\ NoJob.state = "none" /\ NoJob.kind = None /\ NoJob.pc = None /\ NoJob.at = None
      /\ ~NoJob.id /\ NoJob.stalls = 0 /\ NoJob.pushes = 0 /\ NoJob.sent = 0 /\ NoJob.batch = 0
      /\ NoJob.batches = 0
  BY PipelineAssumption DEF NoJob, New, Job
<1>2. Fit(NoJob)
  BY <1>1, PipelineAssumption DEF Fit, Core, StepOK, Steps, AllKinds, TopicKinds
<1>3. JobsOK
  BY <1>1, <1>2 DEF Init, JobsOK
<1>4. Unmuted \in Setting
  BY DEF Unmuted, Setting
<1>5. TablesOK
  <2>1. fcm \in BOOLEAN
    BY PipelineAssumption DEF Init
  <2>2. DefaultPreferences \in Known
    BY DEF Known
  <2>3. prefs \in [Users -> Known]
    BY <2>2 DEF Init
  <2>4. /\ mute \in [Users -> [Chats -> Setting]] /\ wish \in [Users -> [Chats -> Setting]]
        /\ raced \in [Users -> [Chats -> BOOLEAN]] /\ late \in [Users -> [Chats -> Nat]]
    BY <1>4 DEF Init
  <2>5. /\ device \in [Users -> [token: Tokens \cup {None}, active: BOOLEAN]]
        /\ register \in [Users -> Tokens \cup {None}] /\ overtaken \in [Users -> BOOLEAN]
    BY DEF Init
  <2>6. /\ paused \in BOOLEAN /\ valid \subseteq Tokens /\ subs \subseteq Tokens \X Chats
        /\ joined \subseteq Users \X Chats /\ loose \subseteq Users \X Chats
    BY DEF Init
  <2>7. now \in 0 .. MaxClock /\ crashes \in 0 .. MaxCrashes
    <3>1. MaxClock \in Nat /\ MaxCrashes \in Nat
      BY PipelineAssumption
    <3> QED BY <3>1 DEF Init
  <2> QED BY <2>1, <2>3, <2>4, <2>5, <2>6, <2>7 DEF TablesOK
<1> QED BY <1>3, <1>5 DEF TInv

LEMMA TypeStep == TInv /\ [Next]_vars => TInv'
<1> SUFFICES ASSUME TInv, [Next]_vars PROVE TInv'
  OBVIOUS
<1>1. JobsOK'
  BY AllMoves DEF JobsMoved, Moved, TInv, JobsOK
<1> QED BY <1>1, DevicesTyped, SettingsTyped, LateTyped, TopicsTyped, BoundsTyped
        DEF TInv, TablesOK, DevicesOK, SettingsOK, TopicsOK

LEMMA TypeInvariant == Spec => []TInv
BY TypeInit, TypeStep, PTL DEF Spec

(* Every variable keeps its shape: the jobs are records of the steps the processors take,
   the tables relate users, chats and tokens (notification.processor.ts, notification.service.ts). *)
THEOREM TypeCorrect == Spec => []TypeOK
<1>1. TInv => TypeOK
  BY DEF TInv, JobsOK, TablesOK, TypeOK, Known
<1> QED BY <1>1, TypeInvariant, PTL

(* However often the server stops, whichever calls throw and whatever Bull runs again, a
   notification reaches FCM at most once for each run of its job, and the rows that say SENT
   are at most as many (sendChatNotification, sendNotification, saveNotification). *)
THEOREM RunsPushOnce == Spec => []PushedOnce
<1>1. TInv => PushedOnce
  <2> SUFFICES ASSUME TInv, NEW j \in Jobs
               PROVE  job[j].sent <= job[j].pushes
                      /\ job[j].pushes <= 1 + job[j].stalls + (IF job[j].state = "stalled" THEN 1 ELSE 0)
    BY DEF PushedOnce
  <2>1. /\ job[j].sent <= job[j].pushes /\ job[j].pushes <= 1 + job[j].stalls
        /\ job[j].pushes \in Nat /\ job[j].stalls \in Nat
    BY PipelineAssumption DEF TInv, JobsOK, Fit, Job
  <2> QED BY <2>1
<1> QED BY <1>1, TypeInvariant, PTL

(* A chat notification that is on its way to FCM was let through in a minute outside the
   quiet hours of the preferences it had read, for every length of the day and every range,
   overnight ones and ranges of one minute included (isInQuietHours). *)
THEOREM QuietHoursKept == Spec => []QuietHoursHold
<1>1. TInv => QuietHoursHold
  BY DEF TInv, JobsOK, Fit, StepOK, QuietHoursHold
<1> QED BY <1>1, TypeInvariant, PTL

-----------------------------------------------------------------------------
(* Tokens FCM no longer knows *)

(* What a step makes of the device of a user: it stays, it is switched off or removed, or
   another token is stored.  A changed device loosens the topics. *)
Kept(u) == device'[u] = device[u] /\ overtaken'[u] = overtaken[u]
SwitchedOff(u) ==
    /\ overtaken'[u] = overtaken[u] /\ ~device'[u].active
    /\ \/ device'[u].token = None /\ UNCHANGED job
       \/ /\ device'[u].token = device[u].token
          /\ \E j \in Jobs : At(j, "inactive") /\ job[j].user = u
Stored(u) ==
    /\ UNCHANGED job /\ device'[u].active /\ device'[u].token = register[u] /\ register[u] \in Tokens
    /\ overtaken'[u] <=> Overtakes(u)

Loosened(u) == \A c \in Chats : <<u, c>> \in loose'

LEMMA DeviceSteps ==
    ASSUME TInv, [Next]_vars
    PROVE  /\ valid' \subseteq valid
           /\ \A u \in Users : Kept(u) \/ ((SwitchedOff(u) \/ Stored(u)) /\ Loosened(u))
<1>1. CASE UNCHANGED <<device, overtaken>> /\ valid' \subseteq valid
  BY <1>1 DEF Kept
<1>2. ASSUME NEW u \in Users, Loosen(u) PROVE Loosened(u)
  BY <1>2 DEF Loosen, Loosened
<1>3. ASSUME NEW j \in Jobs, MarkTokenInactive(j)
      PROVE  /\ valid' \subseteq valid
             /\ \A u \in Users : Kept(u) \/ (SwitchedOff(u) /\ Loosened(u))
  <2>1. PICK u \in Users : /\ u = job[j].user /\ device'[u].token = device[u].token /\ ~device'[u].active
                           /\ \A v \in Users \ {u} : device'[v] = device[v]
    BY <1>3, Deactivating
  <2>2. Loosen(u) /\ UNCHANGED <<overtaken, valid>> /\ At(j, "inactive")
    BY <1>3, <2>1 DEF MarkTokenInactive
  <2> QED BY <1>2, <2>1, <2>2 DEF Kept, SwitchedOff
<1>4. ASSUME NEW u \in Users, StoreToken(u)
      PROVE  /\ valid' \subseteq valid
             /\ \A v \in Users : Kept(v) \/ (Stored(v) /\ Loosened(v))
  <2>1. UNCHANGED valid /\ UNCHANGED job
    BY <1>4 DEF StoreToken, queue
  <2>2. CASE UNCHANGED <<device, overtaken, loose>>
    BY <2>1, <2>2 DEF Kept
  <2>3. CASE /\ device'[u].token = register[u] /\ device'[u].active /\ register[u] \in Tokens
             /\ \A v \in Users \ {u} : device'[v] = device[v] /\ overtaken'[v] = overtaken[v]
             /\ overtaken'[u] <=> Overtakes(u)
             /\ Loosen(u)
    <3>1. Stored(u) /\ Loosened(u)
      BY <1>2, <2>1, <2>3 DEF Stored
    <3>2. \A v \in Users \ {u} : Kept(v)
      BY <2>3 DEF Kept
    <3> QED BY <2>1, <3>1, <3>2
  <2> QED BY <1>4, <2>2, <2>3, Storing
<1>5. ASSUME NEW u \in Users, RemoveDeviceToken(u)
      PROVE  /\ valid' \subseteq valid
             /\ \A v \in Users : Kept(v) \/ (SwitchedOff(v) /\ Loosened(v))
  <2>1. UNCHANGED job /\ Loosen(u)
    BY <1>5 DEF RemoveDeviceToken, queue
  <2> QED BY <1>2, <1>5, <2>1, Removing DEF Kept, SwitchedOff
<1>6. ASSUME NEW j \in Jobs, Adds(j) \/ Schedules(j) \/ Process(j), ~MarkTokenInactive(j)
      PROVE  UNCHANGED <<device, overtaken, valid>>
  BY <1>6, Frame
<1>7. CASE \/ \E u \in Users : UpdatePreferences(u)
           \/ \E u \in Users, c \in Chats : UpdateChatSetting(u, c)
           \/ \E u \in Users, t \in Tokens : ValidateToken(u, t)
           \/ \E t \in Tokens : TokenExpires(t)
           \/ PauseQueue \/ ResumeQueue \/ Tick \/ ClearFailedJobs \/ Restart \/ UNCHANGED vars
  BY <1>1, <1>7 DEF UpdatePreferences, UpdateChatSetting, ValidateToken, TokenExpires, PauseQueue,
     ResumeQueue, Tick, ClearFailedJobs, Restart, vars, devices
<1> QED BY <1>1, <1>3, <1>4, <1>5, <1>6, <1>7, Steps1 DEF Asked

(* A job that is about to push, or to switch the device off, has read the token the user
   still has, unless a newer one overtook it. *)
TokenRead(j) ==
    /\ job[j].pc \in {"push", "inactive"} =>
         device[job[j].user].token \in {job[j].token, None} \/ overtaken[job[j].user]
    /\ job[j].pc = "inactive" => job[j].token \notin valid

DeadInv == TInv /\ (\A j \in Jobs : TokenRead(j)) /\ InactiveIsInvalid

LEMMA DeadInit == Init => DeadInv
<1> SUFFICES ASSUME Init PROVE DeadInv
  OBVIOUS
<1>1. TInv
  BY TypeInit
<1>2. \A j \in Jobs : TokenRead(j)
  BY PipelineAssumption DEF Init, NoJob, New, TokenRead, Steps
<1>3. InactiveIsInvalid
  BY PipelineAssumption DEF Init, InactiveIsInvalid
<1> QED BY <1>1, <1>2, <1>3 DEF DeadInv

LEMMA DeadStep == DeadInv /\ [Next]_vars => DeadInv'
<1> SUFFICES ASSUME DeadInv, [Next]_vars PROVE DeadInv'
  OBVIOUS
<1>1. TInv /\ TInv' /\ JobsMoved
  BY TypeStep, AllMoves DEF DeadInv
<1>2. /\ valid' \subseteq valid
      /\ \A u \in Users : Kept(u) \/ SwitchedOff(u) \/ Stored(u)
  BY <1>1, DeviceSteps
<1>3. /\ \A j \in Jobs : Fit(job[j]) /\ Fit(job'[j]) /\ TokenRead(j)
      /\ valid \subseteq Tokens /\ InactiveIsInvalid
  BY <1>1 DEF TInv, JobsOK, TablesOK, DeadInv
<1>4. ASSUME NEW j \in Jobs, job'[j].pc \in {"push", "inactive"}
      PROVE  TokenRead(j)'
  <2> DEFINE u == job'[j].user  t == job'[j].token
  <2>1. u \in Users
    BY <1>3, <1>4, PipelineAssumption DEF Fit, StepOK, Core, AllKinds, Steps
  <2>2. CASE job'[j] = job[j]
    <3>1. At(j, "push") \/ At(j, "inactive")
      BY <1>3, <1>4, <2>2, PipelineAssumption DEF Fit, At, Running, Steps
    <3>2. device[u].token \in {t, None} \/ overtaken[u]
      BY <1>3, <1>4, <2>2 DEF TokenRead
    <3>3. job'[j].pc = "inactive" => t \notin valid'
      BY <1>2, <1>3, <2>2 DEF TokenRead
    <3>4. device'[u].token \in {t, None} \/ overtaken'[u]
      <4>1. CASE Kept(u)
        BY <3>2, <4>1 DEF Kept
      <4>2. CASE SwitchedOff(u)
        BY <3>2, <4>2 DEF SwitchedOff
      <4>3. CASE Stored(u)
        <5>1. t = register[u] \/ Overtakes(u)
          BY <2>2, <3>1 DEF Overtakes
        <5> QED BY <4>3, <5>1 DEF Stored
      <4> QED BY <1>2, <2>1, <4>1, <4>2, <4>3
    <3> QED BY <3>3, <3>4 DEF TokenRead
  <2>3. CASE Moved(j) /\ job'[j] # job[j]
    <3>1. /\ Kept(u) \/ SwitchedOff(u)
          /\ device'[u].token \in {device[u].token, None} /\ overtaken'[u] = overtaken[u]
      BY <1>2, <2>1, <2>3 DEF Kept, SwitchedOff, Stored
    <3>2. device[u].token = t \/ (/\ device[u].token \in {t, None} \/ overtaken[u]
                                  /\ job'[j].pc = "inactive" /\ t \notin valid)
      <4>1. CASE job'[j].pc = "push"
        BY <2>3, <4>1 DEF Moved
      <4>2. CASE job'[j].pc = "inactive"
        <5>1. /\ At(j, "push") /\ t = job[j].token /\ t \notin valid /\ SameJob(job'[j], job[j])
          BY <2>3, <4>2, PipelineAssumption DEF Moved, At, Steps
        <5> QED BY <1>3, <4>2, <5>1 DEF TokenRead, At, SameJob
      <4> QED BY <1>4, <4>1, <4>2
    <3>3. job'[j].pc = "inactive" => t \notin valid
      BY <2>3 DEF Moved
    <3> QED BY <1>2, <3>1, <3>2, <3>3 DEF TokenRead
  <2> QED BY <1>1, <2>2, <2>3 DEF JobsMoved
<1>5. \A j \in Jobs : TokenRead(j)'
  BY <1>4 DEF TokenRead
<1>6. InactiveIsInvalid'
  <2> SUFFICES ASSUME NEW u \in Users, device'[u].token \in valid', ~device'[u].active
               PROVE  overtaken'[u]
    BY DEF InactiveIsInvalid
  <2>1. device'[u].token \in valid /\ device'[u].token # None
    BY <1>2, <1>3, PipelineAssumption
  <2>2. CASE Kept(u)
    BY <1>3, <2>1, <2>2 DEF Kept, InactiveIsInvalid
  <2>3. CASE SwitchedOff(u)
    <3>1. PICK j \in Jobs : At(j, "inactive") /\ job[j].user = u
      BY <2>1, <2>3 DEF SwitchedOff
    <3>2. device[u].token = device'[u].token /\ overtaken'[u] = overtaken[u]
      BY <2>1, <2>3 DEF SwitchedOff
    <3>3. TokenRead(j) /\ job[j].pc = "inactive"
      BY <1>3, <3>1 DEF At
    <3> QED BY <2>1, <3>1, <3>2, <3>3 DEF TokenRead
  <2>4. CASE Stored(u)
    BY <2>4 DEF Stored
  <2> QED BY <1>2, <2>2, <2>3, <2>4
<1> QED BY <1>1, <1>5, <1>6 DEF DeadInv

(* A token that FCM still knows is not switched off, unless it was stored while a push with
   an older token of the same user was under way: the answer that the older one is not
   registered switches off whatever the user has by then (markTokenAsInactive). *)
THEOREM LiveTokensStayActive == Spec => []InactiveIsInvalid
BY DeadInit, DeadStep, PTL DEF Spec, DeadInv

-----------------------------------------------------------------------------
(* Mutes *)

(* A job that is about to clear a mute has read one that was over, and no other was asked
   for since, unless it was asked for while the job was about to clear. *)
MuteRead(j) == job[j].pc = "unmute" =>
    LET u == job[j].user  c == job[j].chat IN raced[u][c] \/ ~Muted(wish[u][c])

MuteInv == TInv /\ (\A j \in Jobs : MuteRead(j)) /\ MuteLasts

LEMMA MuteInit == Init => MuteInv
<1> SUFFICES ASSUME Init PROVE MuteInv
  OBVIOUS
<1>1. TInv
  BY TypeInit
<1>2. \A j \in Jobs : MuteRead(j)
  BY PipelineAssumption DEF Init, NoJob, New, MuteRead, Steps
<1>3. MuteLasts
  BY DEF Init, MuteLasts
<1> QED BY <1>1, <1>2, <1>3 DEF MuteInv

MutedAt(s, m) == s.muted /\ ~(s.until # None /\ s.until < m)

(* A mute that is over stays over: with the clock, unless the user asks for another one. *)
LEMMA OverStaysOver ==
    ASSUME TInv, [Next]_vars, NEW s \in Setting, ~Muted(s)
    PROVE  ~MutedAt(s, now')
<1>1. now \in Nat /\ s.until \in Nat \cup {None} /\ None \notin Nat
  BY PipelineAssumption DEF TInv, TablesOK, Setting
<1>2. now' = now \/ now' = now + 1
  <2>1. CASE Tick
    BY <2>1 DEF Tick
  <2>2. CASE UNCHANGED bounds \/ UNCHANGED vars \/ Restart
    BY <2>2 DEF bounds, vars, Restart
  <2>3. ASSUME NEW j \in Jobs, Adds(j) \/ Schedules(j) \/ Process(j) PROVE now' = now
    BY <2>3, Frame
  <2>4. CASE (Asked /\ ~Tick) \/ ClearFailedJobs
    BY <2>4 DEF Asked, StoreToken, RemoveDeviceToken, UpdatePreferences, ValidateToken,
       UpdateChatSetting, TokenExpires, PauseQueue, ResumeQueue, ClearFailedJobs, bounds
  <2> QED BY <2>1, <2>2, <2>3, <2>4, Steps1
<1> QED BY <1>1, <1>2 DEF Muted, Expired, MutedAt

(* What a step makes of the mute of a chat, and of the one the user asked for. *)
LEMMA MuteSteps ==
    ASSUME TInv, [Next]_vars, NEW u \in Users, NEW c \in Chats
    PROVE  \/ mute'[u][c] = mute[u][c] /\ wish'[u][c] = wish[u][c] /\ raced'[u][c] = raced[u][c]
           \/ /\ wish'[u][c] = wish[u][c] /\ raced'[u][c] = raced[u][c]
              /\ \E j \in Jobs : At(j, "unmute") /\ job[j].user = u /\ job[j].chat = c
           \/ /\ mute'[u][c] = wish'[u][c] /\ (raced'[u][c] <=> Clears(u, c)) /\ UNCHANGED job
<1> DEFINE Same == mute'[u][c] = mute[u][c] /\ wish'[u][c] = wish[u][c] /\ raced'[u][c] = raced[u][c]
<1>1. CASE UNCHANGED <<mute, wish, raced>>
  BY <1>1
<1>2. ASSUME NEW j \in Jobs, Adds(j) \/ Schedules(j) \/ Process(j), ~ClearExpiredMute(j) PROVE Same
  BY <1>2, Frame
<1>3. ASSUME NEW j \in Jobs, ClearExpiredMute(j)
      PROVE  Same \/ (/\ wish'[u][c] = wish[u][c] /\ raced'[u][c] = raced[u][c]
                      /\ \E i \in Jobs : At(i, "unmute") /\ job[i].user = u /\ job[i].chat = c)
  <2>1. UNCHANGED <<wish, raced>>
    BY <1>3 DEF ClearExpiredMute
  <2> QED BY <1>3, <2>1, Clearing
<1>4. ASSUME NEW v \in Users, NEW d \in Chats, UpdateChatSetting(v, d)
      PROVE  Same \/ (/\ mute'[u][c] = wish'[u][c] /\ (raced'[u][c] <=> Clears(u, c)) /\ UNCHANGED job)
  <2>1. UNCHANGED job
    BY <1>4 DEF UpdateChatSetting, queue
  <2> QED BY <1>4, <2>1, Choosing
<1>5. CASE \/ \E v \in Users : StoreToken(v) \/ RemoveDeviceToken(v) \/ UpdatePreferences(v)
           \/ \E v \in Users, t \in Tokens : ValidateToken(v, t)
           \/ \E t \in Tokens : TokenExpires(t)
           \/ PauseQueue \/ ResumeQueue \/ Tick \/ ClearFailedJobs \/ Restart \/ UNCHANGED vars
  BY <1>1, <1>5 DEF StoreToken, RemoveDeviceToken, UpdatePreferences, ValidateToken, TokenExpires,
     PauseQueue, ResumeQueue, Tick, ClearFailedJobs, Restart, vars, settings
<1> QED BY <1>1, <1>2, <1>3, <1>4, <1>5, Steps1 DEF Asked

LEMMA MuteStep == MuteInv /\ [Next]_vars => MuteInv'
<1> SUFFICES ASSUME MuteInv, [Next]_vars PROVE MuteInv'
  OBVIOUS
<1>1. TInv /\ TInv' /\ JobsMoved
  BY TypeStep, AllMoves DEF MuteInv
<1>2. /\ \A j \in Jobs : Fit(job[j]) /\ Fit(job'[j]) /\ MuteRead(j)
      /\ \A v \in Users, d \in Chats : wish[v][d] \in Setting
      /\ MuteLasts
  BY <1>1 DEF TInv, JobsOK, TablesOK, MuteInv
<1>3. ASSUME NEW u \in Users, NEW c \in Chats, MutedAt(wish'[u][c], now'), ~raced'[u][c],
             wish'[u][c] = wish[u][c], raced'[u][c] = raced[u][c]
      PROVE  Muted(wish[u][c]) /\ ~raced[u][c] /\ mute[u][c] = wish[u][c]
  <2>1. PICK s \in Setting : s = wish[u][c]
    BY <1>2
  <2>2. MutedAt(s, now')
    BY <1>3, <2>1
  <2>3. Muted(s)
    BY <1>1, <2>2, OverStaysOver
  <2> QED BY <1>2, <1>3, <2>1, <2>3 DEF MuteLasts
<1>4. ASSUME NEW j \in Jobs, At(j, "unmute"), NEW u \in Users, NEW c \in Chats,
             u = job[j].user, c = job[j].chat
      PROVE  raced[u][c] \/ ~Muted(wish[u][c])
  BY <1>2, <1>4 DEF MuteRead, At
<1>5. \A j \in Jobs : MuteRead(j)'
  <2> SUFFICES ASSUME NEW j \in Jobs, NEW u, NEW c, u = job'[j].user, c = job'[j].chat,
                      job'[j].pc = "unmute", ~raced'[u][c], MutedAt(wish'[u][c], now')
               PROVE  FALSE
    BY DEF MuteRead, Muted, Expired, MutedAt
  <2>1. u \in Users /\ c \in Chats
    BY <1>2, PipelineAssumption DEF Fit, StepOK, Core, AllKinds, TopicKinds, Steps
  <2>2. CASE job'[j] = job[j]
    <3>1. At(j, "unmute")
      BY <1>2, <2>2, PipelineAssumption DEF Fit, At, Running, Steps
    <3>2. wish'[u][c] = wish[u][c] /\ raced'[u][c] = raced[u][c]
      BY <1>1, <2>1, <2>2, <3>1, MuteSteps DEF Clears
    <3> QED BY <1>3, <1>4, <2>1, <2>2, <3>1, <3>2
  <2>3. CASE Moved(j) /\ job'[j] # job[j]
    <3>1. wish'[u][c] = wish[u][c] /\ raced'[u][c] = raced[u][c]
      BY <1>1, <2>1, <2>3, MuteSteps
    <3>2. Expired(mute[u][c])
      BY <2>3 DEF Moved
    <3> QED BY <1>3, <2>1, <3>1, <3>2 DEF Muted
  <2> QED BY <1>1, <2>2, <2>3 DEF JobsMoved
<1>6. MuteLasts'
  <2> SUFFICES ASSUME NEW u \in Users, NEW c \in Chats, MutedAt(wish'[u][c], now'), ~raced'[u][c]
               PROVE  mute'[u][c] = wish'[u][c]
    BY DEF MuteLasts, Muted, Expired, MutedAt
  <2>1. CASE wish'[u][c] = wish[u][c] /\ raced'[u][c] = raced[u][c]
    <3>1. Muted(wish[u][c]) /\ ~raced[u][c] /\ mute[u][c] = wish[u][c]
      BY <1>3, <2>1
    <3>2. ~ \E j \in Jobs : At(j, "unmute") /\ job[j].user = u /\ job[j].chat = c
      BY <1>4, <3>1
    <3> QED BY <1>1, <2>1, <3>1, <3>2, MuteSteps
  <2> QED BY <1>1, <2>1, MuteSteps
<1> QED BY <1>1, <1>5, <1>6 DEF MuteInv

(* A mute lasts until it is over or the user asks for another setting, also while jobs and
   requests clear mutes that are over, unless it was asked for while one of them was about
   to clear the mute before (isChatMuted clears what it has read, whatever is there by
   then). *)
THEOREM MutesHold == Spec => []MuteLasts
BY MuteInit, MuteStep, PTL DEF Spec, MuteInv

-----------------------------------------------------------------------------
(* Topics *)

IsTopicCall(q) == q.state = "call" /\ q.kind \in TopicKinds
About(q, u, c) == IsTopicCall(q) /\ q.user = u /\ q.chat = c

(* Between a chat and a user no event was lost on: at most one call is under way, for the
   last event; what it has read is still so; and without one the device is subscribed if
   the user is in the chat. *)
InStep(u, c) ==
    /\ \A i, j \in TopicCalls(u, c) : i = j
    /\ \A j \in TopicCalls(u, c) :
         /\ job[j].kind = "join" <=> <<u, c>> \in joined
         /\ job[j].pc \in {"subscribe", "unsubscribe"} =>
              job[j].token = device[u].token /\ device[u].active
    /\ device[u].active /\ TopicCalls(u, c) = {} =>
         (<<device[u].token, c>> \in subs <=> <<u, c>> \in joined)

TopicInv ==
    /\ TInv
    /\ \A u \in Users : device[u].active => device[u].token # None
    /\ \A u \in Users, c \in Chats : <<u, c>> \notin loose => InStep(u, c)

LEMMA TopicInit == Init => TopicInv
<1> SUFFICES ASSUME Init PROVE TopicInv
  OBVIOUS
<1>1. TInv
  BY TypeInit
<1>2. \A u \in Users, c \in Chats : TopicCalls(u, c) = {}
  BY DEF Init, NoJob, New, TopicCalls
<1>3. \A u \in Users, c \in Chats : InStep(u, c)
  BY <1>2 DEF Init, InStep
<1>4. \A u \in Users : ~device[u].active
  BY DEF Init
<1> QED BY <1>1, <1>3, <1>4 DEF TopicInv

(* The device is as it was, when no event was lost on the user. *)
LEMMA Undisturbed ==
    ASSUME TInv, [Next]_vars, NEW u \in Users, NEW c \in Chats, <<u, c>> \notin loose'
    PROVE  device'[u] = device[u]
BY DeviceSteps DEF Kept, Loosened

(* A step that concerns no join or leave of the user and the chat. *)
LEMMA Elsewhere ==
    ASSUME TInv, [Next]_vars, NEW u \in Users, NEW c \in Chats, InStep(u, c), <<u, c>> \notin loose',
           \A j \in Jobs : About(job[j], u, c) \/ About(job'[j], u, c) => job'[j] = job[j],
           <<u, c>> \in joined' <=> <<u, c>> \in joined,
           device[u].active => (<<device[u].token, c>> \in subs' <=> <<device[u].token, c>> \in subs)
    PROVE  InStep(u, c)'
<1>1. device'[u] = device[u]
  BY Undisturbed
<1>2. \A j \in Jobs : j \in TopicCalls(u, c) <=> j \in TopicCalls(u, c)'
  BY DEF TopicCalls, About, IsTopicCall
<1>3. TopicCalls(u, c)' = TopicCalls(u, c)
  BY <1>2 DEF TopicCalls
<1>4. \A j \in TopicCalls(u, c) : job'[j] = job[j]
  BY DEF TopicCalls, About, IsTopicCall
<1> QED BY <1>1, <1>3, <1>4 DEF InStep

(* A join or leave comes in. *)
LEMMA TopicCalled ==
    ASSUME TopicInv, [Next]_vars, NEW j \in Jobs, NEW w \in Users, NEW d \in Chats,
           NEW kind \in TopicKinds, CallTopic(j, w, d, kind),
           NEW u \in Users, NEW c \in Chats, <<u, c>> \notin loose'
    PROVE  InStep(u, c)'
<1>1. TInv /\ JobsOK
  BY DEF TopicInv, TInv
<1>2. /\ job[j] = NoJob /\ subs' = subs
      /\ job' = [job EXCEPT ![j] = New("call", kind, w, d, 0, "token")]
      /\ joined' = IF kind = "join" THEN joined \cup {<<w, d>>} ELSE joined \ {<<w, d>>}
      /\ loose' = IF TopicCalls(w, d) = {} THEN loose \ {<<w, d>>} ELSE loose \cup {<<w, d>>}
  BY DEF CallTopic, FirstStep, TopicKinds
<1>3. PICK q : q = New("call", kind, w, d, 0, "token")
  OBVIOUS
<1>4. /\ q.state = "call" /\ q.kind = kind /\ q.user = w /\ q.chat = d /\ q.pc = "token"
      /\ job'[j] = q /\ \A i \in Jobs \ {j} : job'[i] = job[i]
  BY <1>1, <1>2, <1>3 DEF New, JobsOK
<1>5. job[j].state # "call"
  BY <1>2 DEF NoJob, New
<1>6. CASE <<u, c>> = <<w, d>>
  <2>1. TopicCalls(u, c) = {}
    BY <1>2, <1>6
  <2>2. TopicCalls(u, c)' = {j}
    BY <1>4, <1>6, <2>1 DEF TopicCalls
  <2>3. job'[j].kind = "join" <=> <<u, c>> \in joined'
    BY <1>2, <1>4, <1>6 DEF TopicKinds
  <2> QED BY <1>4, <2>2, <2>3 DEF InStep
<1>7. CASE <<u, c>> # <<w, d>>
  <2>1. <<u, c>> \notin loose /\ (<<u, c>> \in joined' <=> <<u, c>> \in joined)
    BY <1>2, <1>7
  <2>2. \A i \in Jobs : About(job[i], u, c) \/ About(job'[i], u, c) => job'[i] = job[i]
    BY <1>4, <1>5, <1>7 DEF About, IsTopicCall
  <2>3. InStep(u, c)
    BY <2>1 DEF TopicInv
  <2> QED BY <1>1, <1>2, <2>1, <2>2, <2>3, Elsewhere
<1> QED BY <1>6, <1>7

(* A step of a join or leave. *)
LEMMA TopicWalked ==
    ASSUME TopicInv, [Next]_vars, NEW j \in Jobs, Process(j), IsTopicCall(job[j]),
           NEW u \in Users, NEW c \in Chats, <<u, c>> \notin loose'
    PROVE  InStep(u, c)'
<1>1. TInv /\ JobsOK /\ device'[u] = device[u]
  BY Undisturbed DEF TopicInv, TInv
<1>2. job[j] \in Job /\ Fit(job[j]) /\ job[j].pc \in {"token", "subscribe", "unsubscribe"}
  BY <1>1, PipelineAssumption DEF JobsOK, Fit, StepOK, IsTopicCall, TopicKinds, Job, Steps
<1>3. ReadToken(j) \/ UpdateTopic(j) \/ CallFails(j)
  BY <1>2 DEF Process, ReadPreferences, ReadMute, ClearExpiredMute, Push, SaveNotification,
     MarkTokenInactive, ProcessBatch, At
<1>4. PICK q : Becomes(j, q) /\ SameJob(q, job[j])
               /\ (q.state = "call" \/ q.state \in {"completed", "failed"})
  BY <1>1, Walking DEF Walks, IsTopicCall
<1>5. job'[j] = q /\ \A i \in Jobs \ {j} : job'[i] = job[i]
  BY <1>4 DEF Becomes
<1>6. UNCHANGED joined /\ loose \subseteq loose'
  <2>1. CASE ReadToken(j)
    BY <2>1 DEF ReadToken, topics
  <2>2. CASE UpdateTopic(j)
    BY <2>2 DEF UpdateTopic
  <2>3. CASE CallFails(j)
    BY <2>3 DEF CallFails
  <2> QED BY <1>3, <2>1, <2>2, <2>3
<1>7. InStep(u, c)
  BY <1>6 DEF TopicInv
<1>8. ASSUME ~About(job[j], u, c),
             device[u].active => (<<device[u].token, c>> \in subs' <=> <<device[u].token, c>> \in subs)
      PROVE  InStep(u, c)'
  <2>1. \A i \in Jobs : About(job[i], u, c) \/ About(job'[i], u, c) => job'[i] = job[i]
    BY <1>4, <1>5, <1>8 DEF About, IsTopicCall, SameJob
  <2> QED BY <1>1, <1>6, <1>7, <1>8, <2>1, Elsewhere
<1>9. ASSUME About(job[j], u, c)
      PROVE  /\ TopicCalls(u, c) = {j}
             /\ TopicCalls(u, c)' = IF q.state = "call" THEN {j} ELSE {}
             /\ job[j].kind = "join" <=> <<u, c>> \in joined
             /\ job[j].pc \in {"subscribe", "unsubscribe"} =>
                  job[j].token = device[u].token /\ device[u].active
  <2>1. j \in TopicCalls(u, c)
    BY <1>9 DEF About, IsTopicCall, TopicCalls
  <2>2. TopicCalls(u, c) = {j}
    BY <1>7, <2>1 DEF InStep
  <2>3. \A i \in Jobs : i \in TopicCalls(u, c)' <=> i = j /\ q.state = "call"
    BY <1>4, <1>5, <1>9, <2>2 DEF TopicCalls, About, IsTopicCall, SameJob
  <2> QED BY <1>7, <2>1, <2>2, <2>3 DEF InStep, TopicCalls
<1>10. CASE ReadToken(j)
  <2>1. UNCHANGED subs
    BY <1>10 DEF ReadToken, topics
  <2>2. CASE ~About(job[j], u, c)
    BY <1>8, <2>1, <2>2
  <2>3. CASE About(job[j], u, c)
    <3>1. job[j].user = u /\ job[j].kind \in TopicKinds
      BY <2>3 DEF About, IsTopicCall
    <3>2. CASE Stops(j) /\ (~device[u].active \/ device[u].token = None)
      <4>1. TopicCalls(u, c)' = {}
        BY <1>5, <1>9, <2>3, <3>2 DEF Stops, Becomes
      <4>2. ~device[u].active
        BY <3>2 DEF TopicInv
      <4> QED BY <1>1, <4>1, <4>2 DEF InStep
    <3>3. CASE \E x : /\ Goes(j, x) /\ x.token = device[x.user].token /\ device[x.user].active
                      /\ x.state = "call"
      <4>1. /\ q.state = "call" /\ q.token = device[u].token /\ device[u].active
            /\ q.kind = job[j].kind
        BY <1>4, <1>5, <3>1, <3>3 DEF Goes, Becomes, SameJob
      <4>2. TopicCalls(u, c)' = {j}
        BY <1>9, <2>3, <4>1
      <4> QED BY <1>1, <1>5, <1>6, <1>9, <2>3, <4>1, <4>2 DEF InStep
    <3>4. job[j].state = "call"
      BY DEF IsTopicCall
    <3> QED BY <1>1, <1>10, <3>1, <3>2, <3>3, <3>4, Reading DEF Goes
  <2> QED BY <2>2, <2>3
<1>11. CASE UpdateTopic(j)
  <2>1. PICK w \in Users, d \in Chats, t \in Tokens :
          /\ w = job[j].user /\ d = job[j].chat /\ t = job[j].token
          /\ job[j].pc \in {"subscribe", "unsubscribe"} /\ Stops(j)
          /\ IF fcm /\ t \in valid
             THEN /\ subs' = IF job[j].kind = "join" THEN subs \cup {<<t, d>>}
                             ELSE subs \ {<<t, d>>}
                  /\ loose' = loose \cup ({v \in Users \ {w} : device[v].token = t} \X {d})
             ELSE loose' = loose \cup {<<w, d>>} /\ UNCHANGED subs
    BY <1>1, <1>11, Topical
  <2>2. CASE ~About(job[j], u, c)
    <3>1. <<w, d>> # <<u, c>>
      BY <2>1, <2>2 DEF About
    <3>2. <<t, d>> # <<device[u].token, c>> \/ UNCHANGED subs
      BY <2>1, <3>1
    <3>3. <<device[u].token, c>> \in subs' <=> <<device[u].token, c>> \in subs
      BY <2>1, <3>2
    <3> QED BY <1>8, <2>2, <3>3
  <2>3. CASE About(job[j], u, c)
    <3>1. w = u /\ d = c /\ fcm /\ t \in valid
      BY <2>1, <2>3 DEF About
    <3>2. <<device[u].token, c>> \in subs' <=> job[j].kind = "join"
      BY <1>9, <2>1, <2>3, <3>1
    <3>3. TopicCalls(u, c)' = {}
      BY <1>5, <1>9, <2>1, <2>3 DEF Stops, Becomes
    <3> QED BY <1>1, <1>6, <1>9, <2>3, <3>2, <3>3 DEF InStep
  <2> QED BY <2>2, <2>3
<1>12. CASE CallFails(j)
  <2>1. UNCHANGED subs /\ loose' = loose \cup {<<job[j].user, job[j].chat>>}
    BY <1>12 DEF CallFails, IsTopicCall
  <2>2. ~About(job[j], u, c)
    BY <2>1 DEF About
  <2> QED BY <1>8, <2>1, <2>2
<1> QED BY <1>3, <1>10, <1>11, <1>12

LEMMA TopicStep == TopicInv /\ [Next]_vars => TopicInv'
<1> SUFFICES ASSUME TopicInv, [Next]_vars PROVE TopicInv'
  OBVIOUS
<1>1. TInv /\ TInv' /\ JobsOK
  BY TypeStep DEF TopicInv, TInv
<1>0. \A u \in Users : device'[u].active => device'[u].token # None
  BY <1>1, DeviceSteps, PipelineAssumption DEF TopicInv, Kept, SwitchedOff, Stored
<1> SUFFICES ASSUME NEW u \in Users, NEW c \in Chats, <<u, c>> \notin loose'
             PROVE  InStep(u, c)'
  BY <1>1, <1>0 DEF TopicInv
<1>2. ASSUME \A j \in Jobs : About(job[j], u, c) \/ About(job'[j], u, c) => job'[j] = job[j],
             UNCHANGED <<subs, joined>>, loose \subseteq loose'
      PROVE  InStep(u, c)'
  BY <1>1, <1>2, Elsewhere DEF TopicInv
<1>3. ASSUME NEW j \in Jobs, Adds(j) PROVE InStep(u, c)'
  <2>1. CASE \E w \in Users, d \in Chats, kind \in TopicKinds : CallTopic(j, w, d, kind)
    BY <2>1, TopicCalled
  <2>2. ASSUME NEW q, q.kind \notin TopicKinds, job[j] = NoJob, job' = [job EXCEPT ![j] = q]
        PROVE  \A i \in Jobs : About(job[i], u, c) \/ About(job'[i], u, c) => job'[i] = job[i]
    BY <1>1, <2>2 DEF JobsOK, About, IsTopicCall, NoJob, New
  <2>3. CASE QueueBulk(j)
    <3>1. PICK n : job[j] = NoJob /\ job' = [job EXCEPT ![j] = New("delayed", "bulk", None, None, n, None)]
      BY <2>3 DEF QueueBulk
    <3>2. New("delayed", "bulk", None, None, n, None).kind \notin TopicKinds
      BY DEF New, TopicKinds
    <3> QED BY <1>2, <2>2, <2>3, <3>1, <3>2 DEF QueueBulk, topics
  <2>4. ASSUME NEW w \in Users, QueuePush(j, w) PROVE InStep(u, c)'
    <3>1. New("delayed", "push", w, None, 0, None).kind \notin TopicKinds
      BY DEF New, TopicKinds
    <3> QED BY <1>2, <2>2, <2>4, <3>1 DEF QueuePush, topics
  <2>5. ASSUME NEW w \in Users, CallPost(j, w) PROVE InStep(u, c)'
    <3>1. New("call", "post", w, None, 0, FirstStep("post")).kind \notin TopicKinds
      BY DEF New, TopicKinds
    <3> QED BY <1>2, <2>2, <2>5, <3>1 DEF CallPost, topics
  <2>6. ASSUME NEW w \in Users, NEW d \in Chats, QueueChat(j, w, d) PROVE InStep(u, c)'
    <3>1. New("waiting", "chat", w, d, 0, None).kind \notin TopicKinds
      BY DEF New, TopicKinds
    <3> QED BY <1>2, <2>2, <2>6, <3>1 DEF QueueChat, topics
  <2>7. ASSUME NEW w \in Users, NEW d \in Chats, CallCheck(j, w, d) PROVE InStep(u, c)'
    <3>1. New("call", "check", w, d, 0, FirstStep("check")).kind \notin TopicKinds
      BY DEF New, TopicKinds
    <3> QED BY <1>2, <2>2, <2>7, <3>1 DEF CallCheck, topics
  <2> QED BY <1>3, <2>1, <2>3, <2>4, <2>5, <2>6, <2>7 DEF Adds
<1>4. ASSUME NEW j \in Jobs, Schedules(j) PROVE InStep(u, c)'
  <2>1. PICK q : Scheduled(j, q)
    BY <1>1, <1>4, Scheduling
  <2>2. \A i \in Jobs : About(job[i], u, c) \/ About(job'[i], u, c) => job'[i] = job[i]
    BY <2>1 DEF Scheduled, Becomes, About, IsTopicCall
  <2> QED BY <1>2, <1>4, <2>2, Frame
<1>5. ASSUME NEW j \in Jobs, Process(j), ~IsTopicCall(job[j]) PROVE InStep(u, c)'
  <2>1. PICK q : Walks(j, q)
    BY <1>1, <1>5, Walking
  <2>2. \A i \in Jobs : About(job[i], u, c) \/ About(job'[i], u, c) => job'[i] = job[i]
    BY <1>5, <2>1 DEF Walks, Becomes, About, IsTopicCall, SameJob
  <2>3. ~UpdateTopic(j)
    BY <1>1, <1>5, Topical DEF IsTopicCall
  <2>4. loose \subseteq loose'
    BY <1>5, <2>3, Frame DEF MarkTokenInactive, Loosen, CallFails
  <2> QED BY <1>2, <1>5, <2>2, <2>3, <2>4, Frame
<1>6. CASE Asked \/ UNCHANGED vars
  <2>1. UNCHANGED <<job, subs, joined>> /\ loose \subseteq loose'
    BY <1>6 DEF Asked, StoreToken, RemoveDeviceToken, UpdatePreferences, ValidateToken,
       UpdateChatSetting, TokenExpires, PauseQueue, ResumeQueue, Tick, vars, queue, topics, Loosen
  <2> QED BY <1>2, <2>1
<1>7. CASE ClearFailedJobs
  <2>1. \A j \in Jobs : job'[j] = job[j] \/ (job[j].state # "call" /\ job'[j].state # "call")
    BY <1>1, <1>7, ClearedMoves
  <2>2. UNCHANGED <<subs, joined, loose>>
    BY <1>7 DEF ClearFailedJobs, topics
  <2> QED BY <1>2, <2>1, <2>2 DEF About, IsTopicCall
<1>8. CASE Restart
  <2>1. UNCHANGED <<subs, joined>> /\ loose \subseteq loose' /\ TopicCalls(u, c) = {}
    BY <1>8 DEF Restart
  <2>2. \A j \in Jobs : job'[j] = job[j] \/ ~Running(j)'
    BY <1>1, <1>8, RestartMoves
  <2>3. \A j \in Jobs : ~About(job[j], u, c)
    BY <2>1 DEF About, IsTopicCall, TopicCalls
  <2> QED BY <1>2, <2>1, <2>2, <2>3 DEF About, IsTopicCall, Running
<1> QED BY <1>3, <1>4, <1>5, <1>6, <1>7, <1>8, TopicWalked, Steps1

(* The device of a user is subscribed to the topics of the chats the user is in and to no
   others, however joins, leaves, registrations and failures of any users interleave, unless
   the last event about the user and the chat was lost or came too early or too late
   (handleUserJoinedGroup and the other handlers read the token first, and nothing brings
   the topics up to date later). *)
THEOREM TopicsFollowEvents == Spec => []SubscribedIffJoined
<1>1. TopicInv => SubscribedIffJoined
  BY DEF TopicInv, InStep, SubscribedIffJoined
<1> QED BY <1>1, TopicInit, TopicStep, PTL DEF Spec

-----------------------------------------------------------------------------
(* Notifications nobody wants *)

Refused(u, c) ==
    ~ShouldSend(IF ChatType[c] = "private" THEN "PRIVATE_MESSAGE" ELSE "GROUP_MESSAGE", prefs[u])

(* The steps after the one that would have found that the notification is not wanted. *)
PastSteps(u, c) ==
    IF Refused(u, c) THEN {"mute", "unmute", "token", "push"} ELSE {"token", "push"}

(* The workers that looked at the settings before the user turned the chat off. *)
Past(u, c) == {j \in Active : /\ job[j].kind = "chat" /\ job[j].user = u /\ job[j].chat = c
                              /\ job[j].pc \in PastSteps(u, c)}

OptInv ==
    /\ MuteInv /\ Cardinality(Active) <= Workers
    /\ \A u \in Users, c \in Chats :
         /\ late[u][c] <= Workers
         /\ Unwanted(u, c) => late[u][c] + Cardinality(Past(u, c)) <= Workers

LEMMA ActiveFinite ==
    ASSUME NEW S, S \subseteq Jobs
    PROVE  IsFiniteSet(S) /\ Cardinality(S) \in Nat
BY PipelineAssumption, FS_Subset, FS_CardinalityType

LEMMA OptInit == Init => OptInv
<1> SUFFICES ASSUME Init PROVE OptInv
  OBVIOUS
<1>1. MuteInv
  BY MuteInit
<1>2. Active = {}
  BY DEF Init, NoJob, New, Active
<1>3. Cardinality(Active) = 0 /\ \A u \in Users, c \in Chats : Cardinality(Past(u, c)) = 0
  BY <1>2, FS_EmptySet DEF Past
<1>4. \A u \in Users, c \in Chats : late[u][c] = 0
  BY DEF Init
<1>5. Workers \in Nat /\ 0 <= Workers /\ 0 + 0 <= Workers
  BY PipelineAssumption
<1> QED BY <1>1, <1>3, <1>4, <1>5 DEF OptInv

(* Bull starts a job only where a worker is free. *)
LEMMA ActiveSteps ==
    ASSUME TInv, [Next]_vars, Cardinality(Active) <= Workers
    PROVE  Cardinality(Active') <= Workers
<1>1. Active \subseteq Jobs /\ Active' \subseteq Jobs /\ JobsOK /\ Workers \in Nat
  BY PipelineAssumption DEF Active, TInv
<1>2. /\ IsFiniteSet(Active) /\ IsFiniteSet(Active')
      /\ Cardinality(Active) \in Nat /\ Cardinality(Active') \in Nat
  BY <1>1, ActiveFinite
<1>3. ASSUME Active' \subseteq Active PROVE Cardinality(Active') <= Workers
  BY <1>1, <1>2, <1>3, FS_Subset
<1>4. ASSUME NEW j \in Jobs, Adds(j) PROVE Active' \subseteq Active
  <2>1. ASSUME NEW q, q.state # "active", job' = [job EXCEPT ![j] = q]
        PROVE  Active' \subseteq Active
    BY <1>1, <2>1 DEF Active, JobsOK
  <2>2. CASE QueueBulk(j)
    <3>1. PICK n : job' = [job EXCEPT ![j] = New("delayed", "bulk", None, None, n, None)]
      BY <2>2 DEF QueueBulk
    <3> QED BY <2>1, <3>1 DEF New
  <2>3. ASSUME NEW u, QueuePush(j, u) \/ CallPost(j, u) PROVE Active' \subseteq Active
    <3>1. /\ New("delayed", "push", u, None, 0, None).state = "delayed"
          /\ New("call", "post", u, None, 0, FirstStep("post")).state = "call"
      BY DEF New
    <3> QED BY <2>1, <2>3, <3>1 DEF QueuePush, CallPost
  <2>4. ASSUME NEW u, NEW c, QueueChat(j, u, c) \/ CallCheck(j, u, c) PROVE Active' \subseteq Active
    <3>1. /\ New("waiting", "chat", u, c, 0, None).state = "waiting"
          /\ New("call", "check", u, c, 0, FirstStep("check")).state = "call"
      BY DEF New
    <3> QED BY <2>1, <2>4, <3>1 DEF QueueChat, CallCheck
  <2>5. ASSUME NEW u, NEW c, NEW kind, CallTopic(j, u, c, kind) PROVE Active' \subseteq Active
    <3>1. New("call", kind, u, c, 0, FirstStep(kind)).state = "call"
      BY DEF New
    <3> QED BY <2>1, <2>5, <3>1 DEF CallTopic
  <2> QED BY <1>4, <2>2, <2>3, <2>4, <2>5 DEF Adds
<1>5. ASSUME NEW j \in Jobs, Schedules(j) PROVE Cardinality(Active') <= Workers
  <2>1. PICK q : Scheduled(j, q)
    BY <1>5, Scheduling
  <2>2. CASE q.state # "active"
    BY <1>3, <2>1, <2>2 DEF Scheduled, Becomes, Active
  <2>3. CASE q.state = "active"
    <3>1. Cardinality(Active) < Workers
      BY <2>1, <2>3 DEF Scheduled, Take
    <3>2. Active' \subseteq Active \cup {j}
      BY <2>1 DEF Scheduled, Becomes, Active
    <3>3. /\ IsFiniteSet(Active \cup {j}) /\ Cardinality(Active \cup {j}) \in Nat
          /\ Cardinality(Active \cup {j}) <= Cardinality(Active) + 1
      BY <1>1, <1>2, ActiveFinite, FS_AddElement
    <3>4. Cardinality(Active') <= Cardinality(Active \cup {j})
      BY <3>2, <3>3, FS_Subset
    <3> QED BY <1>1, <1>2, <3>1, <3>3, <3>4
  <2> QED BY <2>2, <2>3
<1>6. ASSUME NEW j \in Jobs, Process(j) PROVE Active' \subseteq Active
  BY <1>6, Walking DEF Walks, Becomes, Active
<1>7. CASE ClearFailedJobs
  BY <1>3, <1>7, ClearedMoves DEF Active
<1>8. CASE Restart
  BY <1>3, <1>8, RestartMoves DEF Active, Running
<1>9. CASE Asked \/ UNCHANGED vars
  <2>1. UNCHANGED job
    BY <1>9 DEF Asked, StoreToken, RemoveDeviceToken, UpdatePreferences, ValidateToken,
       UpdateChatSetting, TokenExpires, PauseQueue, ResumeQueue, Tick, vars, queue
  <2> QED BY <1>3, <2>1 DEF Active
<1> QED BY <1>3, <1>4, <1>5, <1>6, <1>7, <1>8, <1>9, Steps1

(* Nobody's wishes change without the count starting anew. *)
LEMMA WishesStay ==
    ASSUME TInv, [Next]_vars, NEW u \in Users, NEW c \in Chats
    PROVE  \/ late'[u][c] = 0
           \/ /\ prefs'[u] = prefs[u] /\ wish'[u][c] = wish[u][c] /\ raced'[u][c] = raced[u][c]
              /\ late'[u][c] = late[u][c] \/ \E j \in Jobs : Push(j)
<1>1. /\ late \in [Users -> [Chats -> Nat]] /\ prefs \in [Users -> Known]
      /\ \A v \in Users : Reconsidered(v) => /\ \A d \in Chats : late'[v][d] = 0
                                             /\ \A w \in Users \ {v} : late'[w] = late[w]
  BY DEF TInv, TablesOK, Reconsidered
<1>2. CASE UNCHANGED <<prefs, wish, raced, late>>
  BY <1>2
<1>3. ASSUME NEW j \in Jobs, Adds(j) \/ Schedules(j) \/ Process(j)
      PROVE  UNCHANGED <<prefs, wish, raced>> /\ (UNCHANGED late \/ Push(j))
  BY <1>3, Frame
<1>4. ASSUME NEW v \in Users, UpdatePreferences(v)
      PROVE  \/ late'[u][c] = 0
             \/ /\ prefs'[u] = prefs[u] /\ UNCHANGED <<wish, raced>> /\ late'[u][c] = late[u][c]
  BY <1>1, <1>4 DEF UpdatePreferences
<1>5. ASSUME NEW v \in Users, NEW d \in Chats, UpdateChatSetting(v, d)
      PROVE  \/ late'[u][c] = 0
             \/ /\ prefs'[u] = prefs[u] /\ wish'[u][c] = wish[u][c] /\ raced'[u][c] = raced[u][c]
                /\ late'[u][c] = late[u][c]
  <2>1. Reconsidered(v)
    BY <1>5 DEF UpdateChatSetting
  <2>2. CASE u = v
    BY <1>1, <2>1, <2>2
  <2>3. CASE u # v
    BY <1>1, <1>5, <2>1, <2>3, Choosing
  <2> QED BY <2>2, <2>3
<1>6. CASE \/ \E v \in Users : StoreToken(v) \/ RemoveDeviceToken(v)
           \/ \E v \in Users, t \in Tokens : ValidateToken(v, t)
           \/ \E t \in Tokens : TokenExpires(t)
           \/ PauseQueue \/ ResumeQueue \/ Tick \/ ClearFailedJobs \/ Restart \/ UNCHANGED vars
  BY <1>2, <1>6 DEF StoreToken, RemoveDeviceToken, ValidateToken, TokenExpires, PauseQueue, ResumeQueue,
     Tick, ClearFailedJobs, Restart, vars, settings
<1> QED BY <1>3, <1>4, <1>5, <1>6, Steps1 DEF Asked

(* What is not wanted now was not wanted before, unless the count started anew. *)
LEMMA UnwantedBefore ==
    ASSUME TInv, [Next]_vars, NEW u \in Users, NEW c \in Chats, Unwanted(u, c)',
           prefs'[u] = prefs[u], wish'[u][c] = wish[u][c], raced'[u][c] = raced[u][c]
    PROVE  Unwanted(u, c) /\ (Refused(u, c)' <=> Refused(u, c))
<1>1. PICK s \in Setting : s = wish[u][c]
  BY DEF TInv, TablesOK
<1>2. Refused(u, c)' <=> Refused(u, c)
  BY DEF Refused
<1>3. Refused(u, c)' \/ (MutedAt(wish'[u][c], now') /\ ~raced'[u][c])
  BY DEF Unwanted, Refused, Muted, Expired, MutedAt
<1>4. MutedAt(s, now') => Muted(s)
  BY <1>1, OverStaysOver
<1> QED BY <1>1, <1>2, <1>3, <1>4 DEF Unwanted, Refused

(* While a chat's notifications are not wanted, no further worker gets past the settings. *)
LEMMA PastShrinks ==
    ASSUME "mute" \notin Failing, MuteInv, [Next]_vars, NEW u \in Users, NEW c \in Chats,
           Unwanted(u, c), prefs'[u] = prefs[u]
    PROVE  Past(u, c)' \subseteq Past(u, c)
<1>1. TInv /\ JobsOK /\ MuteLasts /\ \A j \in Jobs : MuteRead(j)
  BY DEF MuteInv, TInv
<1>2. PastSteps(u, c)' = PastSteps(u, c) /\ PastSteps(u, c) \subseteq {"mute", "unmute", "token", "push"}
  BY DEF PastSteps, Refused
<1> SUFFICES ASSUME NEW j \in Jobs, job'[j].state = "active", job'[j].kind = "chat",
                    job'[j].user = u, job'[j].chat = c, job'[j].pc \in PastSteps(u, c),
                    job'[j] # job[j]
             PROVE  j \in Past(u, c)
  BY <1>2 DEF Past, Active
<1>3. ASSUME NEW k \in Jobs, Process(k) PROVE j \in Past(u, c)
  <2>1. PICK q : Walks(k, q)
    BY <1>1, <1>3, Walking
  <2>2. k = j /\ q = job'[j]
    BY <2>1 DEF Walks, Becomes
  <2>3. q.pc # None
    BY <1>2, <2>2, PipelineAssumption DEF Steps
  <2>4. /\ job[j].state = "active" /\ job[j].kind = "chat" /\ job[j].user = u /\ job[j].chat = c
        /\ Moved(j)
    BY <2>1, <2>2, <2>3 DEF Walks, SameJob
  <2>5. CASE q.pc = "mute"
    <3>1. ShouldSend(TypeOf(j), prefs[u]) /\ Refused(u, c)
      BY <2>1, <2>2, <2>5 DEF Walks, PastSteps
    <3>2. TypeOf(j) = IF ChatType[c] = "private" THEN "PRIVATE_MESSAGE" ELSE "GROUP_MESSAGE"
      BY <2>4, PipelineAssumption DEF TypeOf
    <3> QED BY <3>1, <3>2 DEF Refused
  <2>6. CASE q.pc = "unmute"
    <3>1. job[j].pc = "mute" /\ Refused(u, c)
      BY <2>2, <2>4, <2>6 DEF Moved, At, PastSteps
    <3> QED BY <2>4, <3>1 DEF Past, Active, PastSteps
  <2>7. CASE q.pc = "token"
    <3>1. \/ job[j].pc = "unmute"
          \/ job[j].pc = "mute" /\ ~mute[u][c].muted
      BY <2>1, <2>2, <2>7 DEF Walks, At
    <3>2. CASE Refused(u, c)
      BY <2>4, <3>1, <3>2 DEF Past, Active, PastSteps
    <3>3. CASE ~Refused(u, c)
      <4>1. Muted(wish[u][c]) /\ ~raced[u][c]
        BY <3>3 DEF Unwanted, Refused
      <4>2. mute[u][c] = wish[u][c] /\ mute[u][c].muted
        BY <1>1, <4>1 DEF MuteLasts, Muted
      <4>3. job[j].pc = "unmute"
        BY <3>1, <4>2
      <4> QED BY <1>1, <2>4, <4>1, <4>3 DEF MuteRead
    <3> QED BY <3>2, <3>3
  <2>8. CASE q.pc = "push"
    <3>1. job[j].pc = "token"
      BY <2>2, <2>4, <2>8 DEF Moved, At
    <3> QED BY <2>4, <3>1 DEF Past, Active, PastSteps
  <2> QED BY <1>2, <2>2, <2>5, <2>6, <2>7, <2>8
<1>4. ASSUME NEW k \in Jobs, Schedules(k) PROVE FALSE
  <2>1. PICK q : Scheduled(k, q)
    BY <1>1, <1>4, Scheduling
  <2>2. q = job'[j]
    BY <2>1 DEF Scheduled, Becomes
  <2> QED BY <1>2, <2>1, <2>2, PipelineAssumption DEF Scheduled, Steps
<1>5. ASSUME NEW k \in Jobs, Adds(k) PROVE FALSE
  <2>1. ASSUME NEW q, q.state # "active", job' = [job EXCEPT ![k] = q]
        PROVE  FALSE
    BY <1>1, <2>1 DEF JobsOK
  <2>2. CASE QueueBulk(k)
    <3>1. PICK n : job' = [job EXCEPT ![k] = New("delayed", "bulk", None, None, n, None)]
      BY <2>2 DEF QueueBulk
    <3> QED BY <2>1, <3>1 DEF New
  <2>3. ASSUME NEW v, QueuePush(k, v) \/ CallPost(k, v) PROVE FALSE
    <3>1. /\ New("delayed", "push", v, None, 0, None).state = "delayed"
          /\ New("call", "post", v, None, 0, FirstStep("post")).state = "call"
      BY DEF New
    <3> QED BY <2>1, <2>3, <3>1 DEF QueuePush, CallPost
  <2>4. ASSUME NEW v, NEW d, QueueChat(k, v, d) \/ CallCheck(k, v, d) PROVE FALSE
    <3>1. /\ New("waiting", "chat", v, d, 0, None).state = "waiting"
          /\ New("call", "check", v, d, 0, FirstStep("check")).state = "call"
      BY DEF New
    <3> QED BY <2>1, <2>4, <3>1 DEF QueueChat, CallCheck
  <2>5. ASSUME NEW v, NEW d, NEW kind, CallTopic(k, v, d, kind) PROVE FALSE
    <3>1. New("call", kind, v, d, 0, FirstStep(kind)).state = "call"
      BY DEF New
    <3> QED BY <2>1, <2>5, <3>1 DEF CallTopic
  <2> QED BY <1>5, <2>2, <2>3, <2>4, <2>5 DEF Adds
<1>6. CASE ClearFailedJobs
  BY <1>1, <1>6, ClearedMoves
<1>7. CASE Restart
  BY <1>1, <1>7, RestartMoves DEF Running
<1>8. CASE Asked \/ UNCHANGED vars
  BY <1>8 DEF Asked, StoreToken, RemoveDeviceToken, UpdatePreferences, ValidateToken,
     UpdateChatSetting, TokenExpires, PauseQueue, ResumeQueue, Tick, vars, queue
<1> QED BY <1>3, <1>4, <1>5, <1>6, <1>7, <1>8, Steps1

(* A push that comes late is the push of a worker that had looked at the settings. *)
LEMMA LatePush ==
    ASSUME MuteInv, NEW j \in Jobs, Push(j), ~UNCHANGED late, NEW u \in Users, NEW c \in Chats
    PROVE  \/ late'[u][c] = late[u][c]
           \/ /\ late'[u][c] = late[u][c] + 1 /\ Unwanted(u, c)
              /\ j \in Past(u, c) /\ j \notin Past(u, c)'
<1>1. TInv /\ At(j, "push") /\ "push" \in Steps /\ JobsOK
  BY DEF MuteInv, TInv, Push, Steps
<1>2. /\ job[j].kind = "chat"
      /\ \/ late'[u][c] = late[u][c]
         \/ late'[u][c] = late[u][c] + 1 /\ Unwanted(u, c) /\ job[j].user = u /\ job[j].chat = c
  BY <1>1, Counting
<1>3. job[j].state = "active" /\ job[j].pc = "push"
  BY <1>1, <1>2, Runs DEF Fit, TopicKinds
<1>4. job[j].user = u /\ job[j].chat = c => j \in Past(u, c)
  BY <1>2, <1>3 DEF Past, Active, PastSteps
<1>5. job'[j].pc \in {None, "save", "inactive"}
  BY <1>1, Pushing DEF Stops, Goes, Becomes
<1>6. j \notin Past(u, c)'
  BY <1>5, PipelineAssumption DEF Past, PastSteps, Steps
<1> QED BY <1>2, <1>4, <1>6

LEMMA OptStep ==
    ASSUME "mute" \notin Failing, OptInv, [Next]_vars
    PROVE  OptInv'
<1>1. MuteInv' /\ MuteInv /\ TInv /\ Cardinality(Active') <= Workers
  BY MuteStep, ActiveSteps DEF OptInv, MuteInv
<1> SUFFICES ASSUME NEW u \in Users, NEW c \in Chats
             PROVE  /\ late'[u][c] <= Workers
                    /\ Unwanted(u, c)' => late'[u][c] + Cardinality(Past(u, c)') <= Workers
  BY <1>1 DEF OptInv
<1>2. /\ late[u][c] \in Nat /\ Workers \in Nat /\ late[u][c] <= Workers
      /\ Unwanted(u, c) => late[u][c] + Cardinality(Past(u, c)) <= Workers
  BY <1>1, PipelineAssumption DEF OptInv, TInv, TablesOK
<1>3. Past(u, c) \subseteq Jobs /\ Past(u, c)' \subseteq Active' /\ Active' \subseteq Jobs
  BY DEF Past, Active
<1>4. /\ IsFiniteSet(Past(u, c)) /\ IsFiniteSet(Past(u, c)') /\ IsFiniteSet(Active')
      /\ Cardinality(Past(u, c)) \in Nat /\ Cardinality(Past(u, c)') \in Nat /\ Cardinality(Active') \in Nat
  <2>1. Past(u, c)' \subseteq Jobs
    BY <1>3
  <2> QED BY <1>3, <2>1, ActiveFinite
<1>5. CASE late'[u][c] = 0
  <2>1. Cardinality(Past(u, c)') <= Cardinality(Active')
    BY <1>3, <1>4, FS_Subset
  <2> QED BY <1>1, <1>2, <1>4, <1>5, <2>1
<1>6. CASE /\ prefs'[u] = prefs[u] /\ wish'[u][c] = wish[u][c] /\ raced'[u][c] = raced[u][c]
           /\ late'[u][c] = late[u][c] \/ \E j \in Jobs : Push(j)
  <2>1. Unwanted(u, c)' => Unwanted(u, c)
    BY <1>1, <1>6, UnwantedBefore
  <2>2. Unwanted(u, c) => Past(u, c)' \subseteq Past(u, c)
    BY <1>1, <1>6, PastShrinks
  <2>3. CASE late'[u][c] = late[u][c]
    <3>1. Unwanted(u, c)' => Cardinality(Past(u, c)') <= Cardinality(Past(u, c))
      BY <1>4, <2>1, <2>2, FS_Subset
    <3> QED BY <1>2, <1>4, <2>1, <2>3, <3>1
  <2>4. CASE late'[u][c] # late[u][c]
    <3>1. PICK j \in Jobs : Push(j) /\ ~UNCHANGED late
      BY <1>6, <2>4
    <3>2. /\ late'[u][c] = late[u][c] + 1 /\ Unwanted(u, c)
          /\ j \in Past(u, c) /\ j \notin Past(u, c)'
      BY <1>1, <2>4, <3>1, LatePush
    <3>3. Past(u, c)' \subseteq Past(u, c) \ {j}
      BY <2>2, <3>2
    <3>4. /\ IsFiniteSet(Past(u, c) \ {j}) /\ Cardinality(Past(u, c) \ {j}) \in Nat
          /\ Cardinality(Past(u, c) \ {j}) = Cardinality(Past(u, c)) - 1
      <4>1. Past(u, c) \ {j} \subseteq Jobs
        BY <1>3
      <4> QED BY <1>4, <3>2, <4>1, ActiveFinite, FS_RemoveElement
    <3>5. Cardinality(Past(u, c)') <= Cardinality(Past(u, c) \ {j})
      BY <3>3, <3>4, FS_Subset
    <3> QED BY <1>2, <1>4, <3>2, <3>4, <3>5
  <2> QED BY <2>3, <2>4
<1> QED BY <1>1, <1>5, <1>6, WishesStay

(* When isChatMuted does not fail: after a user turns a chat's notifications off, by their
   preferences or by a mute, no more of them are pushed than there are workers, for these may
   have looked at the settings before.  A read of the mute that fails counts as not muted, and
   lets every notification through (sendChatNotification, isChatMuted). *)
THEOREM OptOutIsPrompt == ASSUME "mute" \notin Failing PROVE Spec => []OptOutTail
<1>1. OptInv => OptOutTail
  BY DEF OptInv, OptOutTail
<1>2. OptInv /\ [Next]_vars => OptInv'
  BY OptStep
<1> QED BY <1>1, <1>2, OptInit, PTL DEF Spec
=============================================================================
