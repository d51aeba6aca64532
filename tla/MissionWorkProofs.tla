--------------------------- MODULE MissionWorkProofs ---------------------------
(***************************************************************************)
(* Theorems about MissionWork, for every number of sessions, tasks and     *)
(* stops and every way the tasks may check and wait for one another.       *)
(***************************************************************************)
EXTENDS MissionWork, SequenceTheorems, TLAPS

-----------------------------------------------------------------------------
(* The invariant, in parts.  First the rows.                               *)

LandingStates == {"none", "claimed", "main", "landed", "retried", "failed"}

RowsTyped ==
  /\ subject \in [Tasks -> Tasks \cup {None}]
  /\ \A t \in Tasks : subject[t] # None => subject[subject[t]] = None
  /\ task \in [Tasks -> States]
  /\ mission \in {"active", "done", "stopped"} /\ onCard \in BOOLEAN
  /\ stops \subseteq Stoppable
  /\ deps \subseteq Edges /\ \A e \in deps : Root(e[2])
  /\ landing \in [Tasks -> LandingStates]
  /\ reworked \subseteq Tasks

\* Only roots of a served repository land, and only what was landing is sent back.
LandingsLand ==
  /\ \A t \in Tasks : landing[t] # "none" => Lands(t)
  /\ \A t \in reworked : landing[t] # "none"

\* The work a mission starts with is there.
WorkThere == \A t \in Work : Root(t) => task[t] # "absent"

\* After the Owner's close nothing moves but what came too late, was sent back by a
\* red landing CI, or checks that.
Leftover(t) ==
  \/ task[t] \in Ended \cup {"absent", "proposed"}
  \/ task[t] = "ready" /\ (t \in reworked \/ (~Root(t) /\ subject[t] \in reworked))

AfterCard == onCard => mission # "active" /\ \A t \in Tasks : Leftover(t)

-----------------------------------------------------------------------------
(* The transactions: what they are about, and their locks.                 *)

Modes == {"share", "alone"}
Locks == [row : AllRows, mode : Modes, how : {"wait", "leave"}]

OnRoot  == {"verify", "salvage", "propose"}
OnCheck == {"conclude", "uncheck"}

\* What a transaction of a kind is about.
About(op, t) ==
  CASE op = "stop" -> t \in Stoppable
    [] op = "depend" -> t \in Edges /\ Root(t[2])
    [] op = "close" -> t \in {"early", "late"}
    [] op \in OnRoot -> t \in Tasks /\ Root(t)
    [] op \in OnCheck -> t \in Tasks /\ ~Root(t)
    [] op \in {"land", "push", "red", "settle"} -> t \in Tasks /\ Lands(t)
    [] OTHER -> t \in Tasks

\* What it may decide.
Says(op) ==
  CASE op = "dispatch" -> {"go", "ready", "blocked", "waiting"}
    [] op = "close" -> {"done", "stopped"}
    [] op = "red" -> {"go", "rework", "fail"}
    [] OTHER -> {"go"}

Kinds == LoopOps \cup OtherOps \cup {"stop", "depend", "close"}
Steps(op) == CASE op \in {"claim", "dispatch", "conclude", "card", "close"} -> 3
               [] op \in {"verify", "late", "red"} -> 2
               [] OTHER -> 1

TxTyped(s) ==
  LET x == tx[s] IN
  \/ x = Idle
  \/ /\ x = [op |-> x.op, on |-> x.on, at |-> x.at, need |-> x.need, held |-> x.held, says |-> x.says]
     /\ x.op \in Kinds /\ About(x.op, x.on) /\ x.says \in Says(x.op)
     /\ x.at \in 1 .. Steps(x.op) + 1
     /\ x.need \in Seq(Locks) /\ x.held \subseteq AllRows \X Modes
     /\ x.at > Steps(x.op) => x.need = <<>>

Got(s, row, mode) == <<row, mode>> \in tx[s].held
Wants(s, row, mode) == \E i \in DOMAIN tx[s].need : tx[s].need[i].row = row /\ tx[s].need[i].mode = mode

\* What the k-th statement asks for is asked for or held while that statement runs,
\* and held from then on.
Has(s, k, row, mode) ==
  /\ tx[s].at = k => Got(s, row, mode) \/ Wants(s, row, mode)
  /\ tx[s].at > k => Got(s, row, mode)

\* The locks each kind of transaction relies on, by statement.
Asked(op, t) ==
  CASE op = "claim" -> {<<1, Global, "share">>, <<2, Task(t), "alone">>, <<3, Mission, "alone">>}
                       \cup {<<2, Task(u), "share">> : u \in {subject[t]} \ {None}}
    [] op = "stop" -> {<<1, t, "alone">>}
    [] op = "dispatch" -> {<<1, Task(t), "alone">>, <<3, Mission, "share">>}
    [] op = "depend" -> {<<1, Task(t[1]), "alone">>}
    [] op \in {"submit", "sweep", "verify", "salvage", "uncheck", "red"} -> {<<1, Task(t), "alone">>}
    [] op = "conclude" -> {<<1, Task(subject[t]), "alone">>, <<2, Task(t), "alone">>}
    [] op = "decide" -> {<<1, Task(t), "alone">>, <<1, Mission, "share">>}
                        \cup {<<1, Task(u), "alone">> : u \in {subject[t]} \ {None}}
    [] op = "card" -> {<<3, Mission, "alone">>}
    [] op = "late" -> {<<2, Task(t), "alone">>}
    [] op = "close" -> {<<1, Mission, "alone">>}
    [] op = "push" -> {<<1, Mission, "share">>}
    [] OTHER -> {}

HasLocks(s) == \A k \in 1..3, row \in Scopes, mode \in Modes :
  <<k, row, mode>> \in Asked(tx[s].op, tx[s].on) => Has(s, k, row, mode)

Exclusive == \A s, u \in Sessions : s # u =>
  \A row \in AllRows, mode \in Modes : Got(s, row, "alone") => ~Got(u, row, mode)

-----------------------------------------------------------------------------
(* What a transaction knows of the rows, from what it read under locks.    *)

KnowsClaim(s) == LET x == tx[s] IN
  x.op = "claim" =>
    /\ x.at > 1 => Global \notin stops
    /\ x.at > 2 => task[x.on] = "ready"
    /\ x.at > 3 => mission = "active" /\ ~Stopped(x.on)

KnowsDispatch(s) == LET x == tx[s] IN
  x.op = "dispatch" =>
    /\ x.at > 1 => task[x.on] = "proposed" /\ \A d \in Waited(x.on) : Has(s, 2, Task(d), "share")
    /\ x.at > 2 => x.says # "go" /\ (x.says = "ready" => \A d \in Waited(x.on) : task[d] = "accepted")
    /\ x.at > 3 => mission = "active" /\ x.says \in {"ready", "blocked"}

\* The states in which a kind of transaction goes on, once it has read its task.
Suits(op) ==
  CASE op \in {"submit", "sweep"} -> {"leased"}
    [] op = "verify" -> {"submitted"}
    [] op = "salvage" -> {"ready", "leased"}
    [] op = "decide" -> {"blocked"}
    [] op = "uncheck" -> {"proposed", "ready", "blocked"}
    [] OTHER -> States

KnowsTask(s) == LET x == tx[s] IN
  /\ x.op \in {"submit", "sweep", "verify", "salvage", "decide", "uncheck"} /\ x.at > 1 =>
       task[x.on] \in Suits(x.op)
  /\ x.op = "salvage" /\ x.at > 1 => \A v \in Checks(x.on) : ~Open(v)
  /\ x.op = "decide" /\ x.at > 1 => mission = "active"
  /\ x.op = "conclude" /\ x.at > 2 => task[x.on] = "submitted"
  /\ x.op = "late" /\ x.at > 2 => Open(x.on)
  /\ x.op = "red" /\ x.at > 1 /\ x.says = "rework" => task[x.on] = "accepted"

\* The Owner's close holds whatever is left to run, and every attempt.
KnowsCard(s) == LET x == tx[s] IN
  x.op = "card" /\ x.at > 3 =>
    /\ mission = "active"
    /\ \A t \in Tasks : Got(s, Task(t), "alone") => Open(t)
    /\ \A t \in Tasks : Got(s, Task(t), "alone") \/ Leftover(t)
    /\ \A t \in Live : Got(s, Attempt(t), "alone")

\* The controller's close: the work has ended, what is at main holds it, and what
\* never landed is ended under the stream's lock.
KnowsClose(s) == LET x == tx[s] IN
  x.op = "close" =>
    /\ \A t \in Work \ reworked : Root(t) => task[t] \in Ended
    /\ x.at > 1 => mission = "active"
    /\ x.at > 2 => /\ \A t \in Tasks : Lands(t) => landing[t] # "main"
                   /\ Unclaimed \cap Work # {} => Has(s, 3, Stream, "alone")

Knows(s) == KnowsClaim(s) /\ KnowsDispatch(s) /\ KnowsTask(s) /\ KnowsCard(s) /\ KnowsClose(s)

RowsRight == RowsTyped /\ LandingsLand /\ WorkThere /\ AfterCard /\ DoneButForRework
TxsRight  == Exclusive /\ \A s \in Sessions : TxTyped(s) /\ HasLocks(s) /\ Knows(s)

MissionInv == tx = [s \in Sessions |-> tx[s]] /\ RowsRight /\ TxsRight

-----------------------------------------------------------------------------
(* The statements, kind by kind.                                           *)

\* Every lock a statement may name is a lock.
LEMMA LocksTyped ==
  /\ \A r \in AllRows : Shared(r) \in Locks /\ Alone(r) \in Locks
                        /\ OrLeave(Shared(r)) \in Locks /\ OrLeave(Alone(r)) \in Locks
  /\ \A t \in Tasks : Judged(t) \in Locks
  /\ Global \in AllRows /\ Mission \in AllRows /\ Events \in AllRows /\ Stream \in AllRows
  /\ \A t \in Tasks : Task(t) \in AllRows /\ Attempt(t) \in AllRows
<1>1. Global \in AllRows /\ Mission \in AllRows /\ Events \in AllRows /\ Stream \in AllRows
      /\ \A t \in Tasks : Task(t) \in AllRows /\ Attempt(t) \in AllRows
  BY DEF AllRows, Scopes
<1>2. ASSUME NEW r \in AllRows
      PROVE  Shared(r) \in Locks /\ Alone(r) \in Locks
             /\ OrLeave(Shared(r)) \in Locks /\ OrLeave(Alone(r)) \in Locks
  BY DEF Shared, Alone, OrLeave, Locks, Modes
<1>3. ASSUME NEW t \in Tasks PROVE Judged(t) \in Locks
  BY <1>1, <1>2 DEF Judged
<1> QED BY <1>1, <1>2, <1>3

\* What locks each task of a list is a list of locks, of the tasks listed.
LEMMA SortedTyped ==
  ASSUME NEW S \in SUBSET Tasks
  PROVE  /\ Sorted(S) \in Seq(Tasks)
         /\ \A t \in S : \E i \in DOMAIN Sorted(S) : Sorted(S)[i] = t
<1>1. ById[S] \in Seq(S) /\ S \subseteq Range(ById[S])
  BY MissionConstants
<1>2. ById[S] \in Seq(Tasks)
  BY <1>1, SeqMonotonic
<1> QED BY <1>1, <1>2 DEF Sorted, Range

\* The shared locks of a list of tasks are locks.
LEMMA SharedTasks ==
  ASSUME NEW q \in Seq(Tasks)
  PROVE  Each(LAMBDA d : Shared(Task(d)), q) \in Seq(Locks)
BY LocksTyped DEF Each

\* The locks of the attempts of a list of tasks are locks.
LEMMA AloneAttempts ==
  ASSUME NEW q \in Seq(Tasks)
  PROVE  Each(LAMBDA u : Alone(Attempt(u)), q) \in Seq(Locks)
BY LocksTyped DEF Each

\* The locks of a list of tasks that are left out when taken are locks.
LEMMA LeftTasks ==
  ASSUME NEW q \in Seq(Tasks)
  PROVE  Each(LAMBDA u : OrLeave(Alone(Task(u))), q) \in Seq(Locks)
BY LocksTyped DEF Each

\* The work before its checks: still the tasks of the set.
LEMMA WorkFirstTyped ==
  ASSUME NEW S \in SUBSET Tasks
  PROVE  WorkFirst(S) \in Seq(Tasks)
<1>1. {t \in S : Root(t)} \in SUBSET Tasks /\ {t \in S : ~Root(t)} \in SUBSET Tasks
  OBVIOUS
<1>2. Sorted({t \in S : Root(t)}) \in Seq(Tasks) /\ Sorted({t \in S : ~Root(t)}) \in Seq(Tasks)
  BY <1>1, SortedTyped
<1> QED BY <1>2, ConcatProperties DEF WorkFirst

\* The lock of what a task checks, when it checks something.
LEMMA SubjectLocks ==
  ASSUME NEW t \in Tasks, RowsTyped
  PROVE  /\ OfSubject(t, LAMBDA s : OrLeave(Shared(Task(s)))) \in Seq(Locks)
         /\ OfSubject(t, LAMBDA s : Shared(Task(s))) \in Seq(Locks)
         /\ OfSubject(t, LAMBDA s : Alone(Task(s))) \in Seq(Locks)
         /\ ~Root(t) => /\ OfSubject(t, LAMBDA s : OrLeave(Shared(Task(s)))) = <<OrLeave(Shared(Task(subject[t])))>>
                        /\ OfSubject(t, LAMBDA s : Alone(Task(s))) = <<Alone(Task(subject[t]))>>
                        /\ subject[t] \in Tasks
<1>1. CASE Root(t)
  <2>1. /\ OfSubject(t, LAMBDA s : OrLeave(Shared(Task(s)))) = <<>>
        /\ OfSubject(t, LAMBDA s : Shared(Task(s))) = <<>>
        /\ OfSubject(t, LAMBDA s : Alone(Task(s))) = <<>>
    BY <1>1 DEF OfSubject
  <2> QED BY <1>1, <2>1
<1>2. CASE ~Root(t)
  <2>1. subject[t] \in Tasks
    BY <1>2 DEF RowsTyped, Root
  <2>2. /\ OrLeave(Shared(Task(subject[t]))) \in Locks
        /\ Shared(Task(subject[t])) \in Locks /\ Alone(Task(subject[t])) \in Locks
    BY <2>1, LocksTyped
  <2>3. /\ OfSubject(t, LAMBDA s : OrLeave(Shared(Task(s)))) \in Seq(Locks)
        /\ OfSubject(t, LAMBDA s : Shared(Task(s))) \in Seq(Locks)
        /\ OfSubject(t, LAMBDA s : Alone(Task(s))) \in Seq(Locks)
    BY <1>2, <2>2 DEF OfSubject
  <2>4. /\ OfSubject(t, LAMBDA s : OrLeave(Shared(Task(s)))) = <<OrLeave(Shared(Task(subject[t])))>>
        /\ OfSubject(t, LAMBDA s : Alone(Task(s))) = <<Alone(Task(subject[t]))>>
    BY <1>2 DEF OfSubject
  <2> QED BY <2>1, <2>3, <2>4
<1> QED BY <1>1, <1>2

\* One, two or three locks make a list.
LEMMA ListsTyped ==
  ASSUME NEW a \in Locks, NEW b \in Locks, NEW c \in Locks
  PROVE  <<>> \in Seq(Locks) /\ <<a>> \in Seq(Locks) /\ <<a, b>> \in Seq(Locks) /\ <<a, b, c>> \in Seq(Locks)
OBVIOUS

\* The statements that lock a row for each of several tasks lock them all.
LEMMA ClaimStatements ==
  ASSUME RowsTyped, NEW t \in Tasks
  PROVE  \E q \in Seq(Locks) :
           /\ Statements("claim", t) =
                << <<Shared(Global)>>, <<OrLeave(Alone(Task(t)))>> \o q, <<Alone(Mission)>> >>
           /\ ~Root(t) => q = <<OrLeave(Shared(Task(subject[t])))>>
<1>1. Statements("claim", t) = <<
         <<Shared(Global)>>,
         <<OrLeave(Alone(Task(t)))>> \o OfSubject(t, LAMBDA s : OrLeave(Shared(Task(s)))),
         <<Alone(Mission)>> >>
  BY DEF Statements
<1>2. OfSubject(t, LAMBDA s : OrLeave(Shared(Task(s)))) \in Seq(Locks)
  BY SubjectLocks
<1>3. ~Root(t) => OfSubject(t, LAMBDA s : OrLeave(Shared(Task(s)))) = <<OrLeave(Shared(Task(subject[t])))>>
  BY SubjectLocks
<1> QED BY <1>1, <1>2, <1>3

\* A dispatch locks its task, then what it waits for, then the mission.
LEMMA DispatchStatements ==
  ASSUME RowsTyped, NEW t \in Tasks
  PROVE  \E q \in Seq(Locks) :
           /\ Statements("dispatch", t) = << <<Alone(Task(t))>>, q, <<Shared(Mission)>> >>
           /\ \A d \in Waited(t) : \E i \in DOMAIN q : q[i] = Shared(Task(d))
<1>1. Statements("dispatch", t) = <<
         <<Alone(Task(t))>>,
         Each(LAMBDA d : Shared(Task(d)), Sorted(Waited(t))),
         <<Shared(Mission)>> >>
  BY DEF Statements
<1>2. Waited(t) \in SUBSET Tasks
  BY MissionConstants DEF Waited, RowsTyped
<1>3. PICK p : p = Sorted(Waited(t))
  OBVIOUS
<1>4. p \in Seq(Tasks) /\ \A d \in Waited(t) : \E i \in DOMAIN p : p[i] = d
  BY <1>2, <1>3, SortedTyped
<1>5. Each(LAMBDA d : Shared(Task(d)), p) \in Seq(Locks)
  BY <1>4, SharedTasks
<1>6. \A i \in DOMAIN p : Each(LAMBDA d : Shared(Task(d)), p)[i] = Shared(Task(p[i]))
      /\ DOMAIN Each(LAMBDA d : Shared(Task(d)), p) = DOMAIN p
  BY DEF Each
<1>7. \A d \in Waited(t) : \E i \in DOMAIN Each(LAMBDA u : Shared(Task(u)), p) :
         Each(LAMBDA u : Shared(Task(u)), p)[i] = Shared(Task(d))
  BY <1>4, <1>6
<1> QED BY <1>1, <1>3, <1>5, <1>7

\* The Owner's close locks the live attempts, then the tasks left, then the mission.
LEMMA CardStatements ==
  ASSUME RowsTyped, NEW t \in Tasks
  PROVE  \E p, q \in Seq(Locks) : Statements("card", t) = <<p, q, <<Alone(Mission)>> >>
<1>1. Statements("card", t) = <<
         Each(LAMBDA u : Alone(Attempt(u)), Sorted(Live)),
         Each(LAMBDA u : OrLeave(Alone(Task(u))), WorkFirst({u \in Tasks : Open(u)})),
         <<Alone(Mission)>> >>
  BY DEF Statements
<1>2. Live \in SUBSET Tasks /\ {u \in Tasks : Open(u)} \in SUBSET Tasks
  BY DEF Live
<1>3. Sorted(Live) \in Seq(Tasks) /\ WorkFirst({u \in Tasks : Open(u)}) \in Seq(Tasks)
  BY <1>2, SortedTyped, WorkFirstTyped
<1>4. Each(LAMBDA u : Alone(Attempt(u)), Sorted(Live)) \in Seq(Locks)
  BY <1>3, AloneAttempts
<1>5. Each(LAMBDA u : OrLeave(Alone(Task(u))), WorkFirst({u \in Tasks : Open(u)})) \in Seq(Locks)
  BY <1>3, LeftTasks
<1> QED BY <1>1, <1>4, <1>5

\* A proposal locks the subject, if there is one.
LEMMA ProposeStatements ==
  ASSUME RowsTyped, NEW t \in Tasks
  PROVE  \E q \in Seq(Locks) : Statements("propose", t) = <<q>>
<1>1. Statements("propose", t) = << OfSubject(t, LAMBDA s : Shared(Task(s))) >>
  BY DEF Statements
<1>2. OfSubject(t, LAMBDA s : Shared(Task(s))) \in Seq(Locks)
  BY SubjectLocks
<1> QED BY <1>1, <1>2

\* A decision on a card locks the subject, if there is one, its task and the mission.
LEMMA DecideStatements ==
  ASSUME RowsTyped, NEW t \in Tasks
  PROVE  \E q \in Seq(Locks) :
           /\ Statements("decide", t) = << q \o <<Alone(Task(t)), Shared(Mission)>> >>
           /\ ~Root(t) => q = <<Alone(Task(subject[t]))>>
<1>1. Statements("decide", t) =
        << OfSubject(t, LAMBDA s : Alone(Task(s))) \o <<Alone(Task(t)), Shared(Mission)>> >>
  BY DEF Statements
<1>2. OfSubject(t, LAMBDA s : Alone(Task(s))) \in Seq(Locks)
  BY SubjectLocks
<1>3. ~Root(t) => OfSubject(t, LAMBDA s : Alone(Task(s))) = <<Alone(Task(subject[t]))>>
  BY SubjectLocks
<1> QED BY <1>1, <1>2, <1>3

\* The kinds whose statements name their rows one by one.
LEMMA PlainStatements ==
  ASSUME NEW t
  PROVE  /\ Statements("stop", t) = << <<Alone(t)>> >>
         /\ Statements("depend", t) = << <<Alone(Task(t[1]))>> >>
         /\ Statements("submit", t) = << <<Alone(Attempt(t)), Alone(Task(t))>> >>
         /\ Statements("sweep", t) = << <<OrLeave(Alone(Attempt(t))), Alone(Task(t))>> >>
         /\ Statements("verify", t) = << <<Shared(Attempt(t)), Alone(Task(t))>>,
             IF Checks(t) = {} /\ RetryDue(t) THEN <<Alone(Events), Alone(Stream)>> ELSE <<>> >>
         /\ Statements("salvage", t) =
              << IF t \in Live THEN <<Alone(Task(t))>> ELSE <<Shared(Attempt(t)), Alone(Task(t))>> >>
         /\ Statements("conclude", t) =
              << <<Alone(Attempt(t)), Judged(subject[t]), Alone(Task(subject[t]))>>,
                 <<Alone(Task(t))>>,
                 IF RetryDue(subject[t]) THEN <<Alone(Events), Alone(Stream)>> ELSE <<>> >>
         /\ Statements("uncheck", t) = << <<Shared(Task(subject[t])), Alone(Task(t))>> >>
         /\ Statements("late", t) = << IF t \in Live THEN <<Alone(Attempt(t))>> ELSE <<>>,
                                       <<Alone(Task(t)), Shared(Mission)>> >>
         /\ Statements("close", t) =
              << <<Alone(Mission)>>, <<>>, IF Unclaimed = {} THEN <<>> ELSE <<Alone(Stream)>> >>
         /\ Statements("land", t) = << <<Shared(Task(t)), Shared(Mission), Alone(Stream)>> >>
         /\ Statements("push", t) = << <<Shared(Task(t)), Shared(Mission), Alone(Stream)>> >>
         /\ Statements("red", t) =
              << <<Alone(Task(t))>>, IF Reworks(t) THEN <<Alone(Events), Alone(Stream)>> ELSE <<Alone(Stream)>> >>
         /\ Statements("settle", t) = << <<Alone(Stream)>> >>
BY DEF Statements

-----------------------------------------------------------------------------
(* What the statements of any kind are, and what they ask for.             *)

Listed(op, t) ==
  /\ Len(Statements(op, t)) = Steps(op)
  /\ \A n \in 1 .. Steps(op) : Statements(op, t)[n] \in Seq(Locks)

Names(q, row, mode) == \E i \in DOMAIN q : q[i].row = row /\ q[i].mode = mode

\* What a lock names.
LEMMA LockFields ==
  \A r : /\ Shared(r).row = r /\ Shared(r).mode = "share"
         /\ Alone(r).row = r /\ Alone(r).mode = "alone"
         /\ OrLeave(Shared(r)).row = r /\ OrLeave(Shared(r)).mode = "share"
         /\ OrLeave(Alone(r)).row = r /\ OrLeave(Alone(r)).mode = "alone"
BY DEF Shared, Alone, OrLeave

\* The rows a transaction is about are rows.
LEMMA AboutRows ==
  ASSUME RowsTyped, NEW op \in Kinds, NEW t, About(op, t)
  PROVE  /\ op \notin {"stop", "depend", "close"} => t \in Tasks
         /\ op = "stop" => t \in Scopes
         /\ op = "depend" => t \in Edges /\ t[1] \in Tasks
         /\ op \in OnCheck => subject[t] \in Tasks
<1>1. op \notin {"stop", "depend", "close"} => t \in Tasks
  BY DEF About, OnRoot, OnCheck
<1>2. ASSUME op = "stop" PROVE t \in Scopes
  <2>1. t \in Stoppable
    BY <1>2 DEF About, OnRoot, OnCheck
  <2> QED BY <2>1, MissionConstants
<1>3. ASSUME op = "depend" PROVE t \in Edges /\ t[1] \in Tasks
  <2>1. t \in Edges
    <3>1. About("depend", t)
      BY <1>3
    <3> QED BY <3>1 DEF About, OnRoot, OnCheck
  <2> QED BY <2>1, MissionConstants
<1>4. ASSUME op \in OnCheck PROVE subject[t] \in Tasks
  <2>1. t \in Tasks /\ ~Root(t)
    BY <1>4 DEF About, OnCheck, OnRoot
  <2> QED BY <2>1 DEF RowsTyped, Root
<1> QED BY <1>1, <1>2, <1>3, <1>4

\* One, two or three statements are listed when each is a list of locks.
LEMMA OneListed ==
  ASSUME NEW op, NEW t, NEW a \in Seq(Locks), Statements(op, t) = <<a>>, Steps(op) = 1
  PROVE  Listed(op, t)
BY DEF Listed

\* A list of two sequences has two members.
LEMMA TwoListed ==
  ASSUME NEW op, NEW t, NEW a \in Seq(Locks), NEW b \in Seq(Locks), Statements(op, t) = <<a, b>>, Steps(op) = 2
  PROVE  Listed(op, t)
BY DEF Listed

\* A list of three sequences has three members.
LEMMA ThreeListed ==
  ASSUME NEW op, NEW t, NEW a \in Seq(Locks), NEW b \in Seq(Locks), NEW c \in Seq(Locks),
         Statements(op, t) = <<a, b, c>>, Steps(op) = 3
  PROVE  Listed(op, t)
BY DEF Listed

\* How many statements each kind has.
LEMMA StepsOf ==
  /\ \A op \in {"claim", "dispatch", "conclude", "card", "close"} : Steps(op) = 3
  /\ \A op \in {"verify", "late", "red"} : Steps(op) = 2
  /\ \A op \in {"stop", "depend", "propose", "submit", "sweep", "salvage", "decide", "uncheck", "land", "push", "settle"} :
        Steps(op) = 1
BY DEF Steps

\* Every kind of transaction has as many statements as Steps says, each a list
\* of locks.
LEMMA StatementsListed ==
  ASSUME RowsTyped, NEW op \in Kinds, NEW t, About(op, t)
  PROVE  Listed(op, t)
<1> DEFINE G == Listed(op, t)
<1>0. /\ Global \in AllRows /\ Mission \in AllRows /\ Events \in AllRows /\ Stream \in AllRows
      /\ \A u \in Tasks : Task(u) \in AllRows /\ Attempt(u) \in AllRows
      /\ Scopes \subseteq AllRows
  BY LocksTyped DEF AllRows
<1>1. \A r \in AllRows : Shared(r) \in Locks /\ Alone(r) \in Locks
                         /\ OrLeave(Shared(r)) \in Locks /\ OrLeave(Alone(r)) \in Locks
  BY LocksTyped
<1>2. /\ <<>> \in Seq(Locks) /\ <<Alone(Stream)>> \in Seq(Locks) /\ <<Alone(Mission)>> \in Seq(Locks)
      /\ <<Shared(Mission)>> \in Seq(Locks) /\ <<Shared(Global)>> \in Seq(Locks)
      /\ <<Alone(Events), Alone(Stream)>> \in Seq(Locks)
  BY <1>0, <1>1, ListsTyped
<1>3. \A u \in Tasks :
        /\ <<Alone(Task(u))>> \in Seq(Locks) /\ <<Alone(Attempt(u))>> \in Seq(Locks)
        /\ <<OrLeave(Alone(Task(u)))>> \in Seq(Locks)
        /\ <<Alone(Attempt(u)), Alone(Task(u))>> \in Seq(Locks)
        /\ <<OrLeave(Alone(Attempt(u))), Alone(Task(u))>> \in Seq(Locks)
        /\ <<Shared(Attempt(u)), Alone(Task(u))>> \in Seq(Locks)
        /\ <<Alone(Task(u)), Shared(Mission)>> \in Seq(Locks)
        /\ <<Shared(Task(u)), Shared(Mission), Alone(Stream)>> \in Seq(Locks)
        /\ \A v \in Tasks :
             /\ <<Alone(Attempt(u)), Judged(v), Alone(Task(v))>> \in Seq(Locks)
             /\ <<Shared(Task(v)), Alone(Task(u))>> \in Seq(Locks)
  <2> TAKE u \in Tasks
  <2>1. /\ Alone(Task(u)) \in Locks /\ Alone(Attempt(u)) \in Locks /\ OrLeave(Alone(Task(u))) \in Locks
        /\ OrLeave(Alone(Attempt(u))) \in Locks /\ Shared(Attempt(u)) \in Locks /\ Shared(Task(u)) \in Locks
        /\ Shared(Mission) \in Locks /\ Alone(Stream) \in Locks
    BY <1>0, <1>1
  <2>2. ASSUME NEW v \in Tasks
        PROVE  /\ <<Alone(Attempt(u)), Judged(v), Alone(Task(v))>> \in Seq(Locks)
               /\ <<Shared(Task(v)), Alone(Task(u))>> \in Seq(Locks)
    <3>1. Judged(v) \in Locks /\ Alone(Task(v)) \in Locks /\ Shared(Task(v)) \in Locks
      BY <1>0, <1>1, LocksTyped
    <3> QED BY <2>1, <3>1, ListsTyped
  <2> QED BY <2>1, <2>2, ListsTyped
<1>4. ASSUME op = "claim" PROVE G
  <2>1. t \in Tasks
    BY <1>4, AboutRows
  <2>2. PICK q \in Seq(Locks) : Statements("claim", t) =
                << <<Shared(Global)>>, <<OrLeave(Alone(Task(t)))>> \o q, <<Alone(Mission)>> >>
    BY <2>1, ClaimStatements
  <2>3. <<OrLeave(Alone(Task(t)))>> \o q \in Seq(Locks)
    BY <1>3, <2>1, ConcatProperties
  <2> QED BY <1>2, <1>4, <2>2, <2>3, StepsOf, ThreeListed
<1>5. ASSUME op = "dispatch" PROVE G
  <2>1. t \in Tasks
    BY <1>5, AboutRows
  <2>2. PICK q \in Seq(Locks) : Statements("dispatch", t) = << <<Alone(Task(t))>>, q, <<Shared(Mission)>> >>
    BY <2>1, DispatchStatements
  <2> QED BY <1>2, <1>3, <1>5, <2>1, <2>2, StepsOf, ThreeListed
<1>6. ASSUME op = "card" PROVE G
  <2>1. t \in Tasks
    BY <1>6, AboutRows
  <2>2. PICK p, q \in Seq(Locks) : Statements("card", t) = <<p, q, <<Alone(Mission)>> >>
    BY <2>1, CardStatements
  <2> QED BY <1>2, <1>6, <2>2, StepsOf, ThreeListed
<1>7. ASSUME op = "propose" PROVE G
  <2>1. t \in Tasks
    BY <1>7, AboutRows
  <2>2. PICK q \in Seq(Locks) : Statements("propose", t) = <<q>>
    BY <2>1, ProposeStatements
  <2> QED BY <1>7, <2>2, StepsOf, OneListed
<1>8. ASSUME op = "decide" PROVE G
  <2>1. t \in Tasks
    BY <1>8, AboutRows
  <2>2. PICK q \in Seq(Locks) : Statements("decide", t) = << q \o <<Alone(Task(t)), Shared(Mission)>> >>
    BY <2>1, DecideStatements
  <2>3. q \o <<Alone(Task(t)), Shared(Mission)>> \in Seq(Locks)
    BY <1>3, <2>1, ConcatProperties
  <2> QED BY <1>8, <2>2, <2>3, StepsOf, OneListed
<1>9. ASSUME op = "stop" PROVE G
  <2>1. <<Alone(t)>> \in Seq(Locks)
    BY <1>0, <1>1, <1>9, AboutRows, ListsTyped
  <2>2. Statements(op, t) = << <<Alone(t)>> >>
    BY <1>9, PlainStatements
  <2> QED BY <1>9, <2>1, <2>2, StepsOf, OneListed
<1>10. ASSUME op = "depend" PROVE G
  <2>1. <<Alone(Task(t[1]))>> \in Seq(Locks)
    BY <1>3, <1>10, AboutRows
  <2>2. Statements(op, t) = << <<Alone(Task(t[1]))>> >>
    BY <1>10, PlainStatements
  <2> QED BY <1>10, <2>1, <2>2, StepsOf, OneListed
<1>11. ASSUME op \in {"submit", "sweep", "salvage", "land", "push", "settle"} PROVE G
  <2>1. t \in Tasks
    BY <1>11, AboutRows
  <2>2. ASSUME op = "submit" PROVE G
    <3>1. Statements(op, t) = << <<Alone(Attempt(t)), Alone(Task(t))>> >>
      BY <2>2, PlainStatements
    <3> QED BY <1>2, <1>3, <2>1, <2>2, <3>1, StepsOf, OneListed
  <2>3. ASSUME op = "sweep" PROVE G
    <3>1. Statements(op, t) = << <<OrLeave(Alone(Attempt(t))), Alone(Task(t))>> >>
      BY <2>3, PlainStatements
    <3> QED BY <1>2, <1>3, <2>1, <2>3, <3>1, StepsOf, OneListed
  <2>4. ASSUME op = "salvage" PROVE G
    <3>1. Statements(op, t) =
            << IF t \in Live THEN <<Alone(Task(t))>> ELSE <<Shared(Attempt(t)), Alone(Task(t))>> >>
      BY <2>4, PlainStatements
    <3>2. (IF t \in Live THEN <<Alone(Task(t))>> ELSE <<Shared(Attempt(t)), Alone(Task(t))>>) \in Seq(Locks)
      BY <1>3, <2>1
    <3> QED BY <2>4, <3>1, <3>2, StepsOf, OneListed
  <2>5. ASSUME op = "land" PROVE G
    <3>1. Statements(op, t) = << <<Shared(Task(t)), Shared(Mission), Alone(Stream)>> >>
      BY <2>5, PlainStatements
    <3> QED BY <1>2, <1>3, <2>1, <2>5, <3>1, StepsOf, OneListed
  <2>6. ASSUME op = "push" PROVE G
    <3>1. Statements(op, t) = << <<Shared(Task(t)), Shared(Mission), Alone(Stream)>> >>
      BY <2>6, PlainStatements
    <3> QED BY <1>2, <1>3, <2>1, <2>6, <3>1, StepsOf, OneListed
  <2>7. ASSUME op = "settle" PROVE G
    <3>1. Statements(op, t) = << <<Alone(Stream)>> >>
      BY <2>7, PlainStatements
    <3> QED BY <1>2, <1>3, <2>1, <2>7, <3>1, StepsOf, OneListed
  <2> HIDE DEF G
  <2> QED BY <1>11, <2>2, <2>3, <2>4, <2>5, <2>6, <2>7
<1>12. ASSUME op = "verify" PROVE G
  <2>1. t \in Tasks
    BY <1>12, AboutRows
  <2>2. (IF Checks(t) = {} /\ RetryDue(t) THEN <<Alone(Events), Alone(Stream)>> ELSE <<>>) \in Seq(Locks)
    BY <1>2
  <2>3. Statements(op, t) = << <<Shared(Attempt(t)), Alone(Task(t))>>,
           IF Checks(t) = {} /\ RetryDue(t) THEN <<Alone(Events), Alone(Stream)>> ELSE <<>> >>
    BY <1>12, PlainStatements
  <2>4. <<Shared(Attempt(t)), Alone(Task(t))>> \in Seq(Locks)
    BY <1>3, <2>1
  <2> QED BY <1>12, <2>2, <2>3, <2>4, StepsOf, TwoListed
<1>13. ASSUME op = "late" PROVE G
  <2>1. t \in Tasks
    BY <1>13, AboutRows
  <2>2. (IF t \in Live THEN <<Alone(Attempt(t))>> ELSE <<>>) \in Seq(Locks)
    BY <1>2, <1>3, <2>1
  <2>3. Statements(op, t) = << IF t \in Live THEN <<Alone(Attempt(t))>> ELSE <<>>, <<Alone(Task(t)), Shared(Mission)>> >>
    BY <1>13, PlainStatements
  <2>4. <<Alone(Task(t)), Shared(Mission)>> \in Seq(Locks)
    BY <1>3, <2>1
  <2> QED BY <1>13, <2>2, <2>3, <2>4, StepsOf, TwoListed
<1>14. ASSUME op = "conclude" PROVE G
  <2>1. t \in Tasks /\ subject[t] \in Tasks
    BY <1>14, AboutRows DEF OnCheck
  <2>2. Statements(op, t) = << <<Alone(Attempt(t)), Judged(subject[t]), Alone(Task(subject[t]))>>, <<Alone(Task(t))>>,
           IF RetryDue(subject[t]) THEN <<Alone(Events), Alone(Stream)>> ELSE <<>> >>
    BY <1>14, PlainStatements
  <2>3. (IF RetryDue(subject[t]) THEN <<Alone(Events), Alone(Stream)>> ELSE <<>>) \in Seq(Locks)
    BY <1>2
  <2> QED BY <1>3, <1>14, <2>1, <2>2, <2>3, StepsOf, ThreeListed
<1>15. ASSUME op = "uncheck" PROVE G
  <2>1. t \in Tasks /\ subject[t] \in Tasks
    BY <1>15, AboutRows DEF OnCheck
  <2>2. Statements(op, t) = << <<Shared(Task(subject[t])), Alone(Task(t))>> >>
    BY <1>15, PlainStatements
  <2> QED BY <1>3, <1>15, <2>1, <2>2, StepsOf, OneListed
<1>16. ASSUME op = "red" PROVE G
  <2>1. t \in Tasks
    BY <1>16, AboutRows
  <2>2. Statements(op, t) = << <<Alone(Task(t))>>,
           IF Reworks(t) THEN <<Alone(Events), Alone(Stream)>> ELSE <<Alone(Stream)>> >>
    BY <1>16, PlainStatements
  <2>3. (IF Reworks(t) THEN <<Alone(Events), Alone(Stream)>> ELSE <<Alone(Stream)>>) \in Seq(Locks)
    BY <1>2
  <2> QED BY <1>2, <1>3, <1>16, <2>1, <2>2, <2>3, StepsOf, TwoListed
<1>17. ASSUME op = "close" PROVE G
  <2>1. (IF Unclaimed = {} THEN <<>> ELSE <<Alone(Stream)>>) \in Seq(Locks)
    BY <1>2
  <2>2. Statements(op, t) = << <<Alone(Mission)>>, <<>>, IF Unclaimed = {} THEN <<>> ELSE <<Alone(Stream)>> >>
    BY <1>17, PlainStatements
  <2> QED BY <1>2, <1>17, <2>1, <2>2, StepsOf, ThreeListed
<1> HIDE DEF G
<1>18. G
  BY <1>4, <1>5, <1>6, <1>7, <1>8, <1>9, <1>10, <1>11, <1>12, <1>13, <1>14, <1>15, <1>16, <1>17
     DEF Kinds, LoopOps, OtherOps
<1> QED BY <1>18 DEF G

\* A statement names what it asks for.
LEMMA NamedIn ==
  ASSUME NEW p \in Seq(Locks), NEW q \in Seq(Locks), NEW l \in Locks
  PROVE  /\ \A r, m : Names(q, r, m) => Names(p \o q, r, m)
         /\ \A r, m : Names(p, r, m) => Names(p \o q, r, m)
         /\ Names(<<l>>, l.row, l.mode)
<1>1. ASSUME NEW r, NEW m, Names(q, r, m) PROVE Names(p \o q, r, m)
  <2>1. PICK i \in DOMAIN q : q[i].row = r /\ q[i].mode = m
    BY <1>1 DEF Names
  <2>2. Len(p) + i \in DOMAIN (p \o q) /\ (p \o q)[Len(p) + i] = q[i]
    BY ConcatProperties
  <2> QED BY <2>1, <2>2 DEF Names
<1>2. ASSUME NEW r, NEW m, Names(p, r, m) PROVE Names(p \o q, r, m)
  <2>1. PICK i \in DOMAIN p : p[i].row = r /\ p[i].mode = m
    BY <1>2 DEF Names
  <2>2. i \in DOMAIN (p \o q) /\ (p \o q)[i] = p[i]
    BY ConcatProperties
  <2> QED BY <2>1, <2>2 DEF Names
<1>3. Names(<<l>>, l.row, l.mode)
  BY DEF Names
<1> QED BY <1>1, <1>2, <1>3

\* Of one, two or three locks each is named.
LEMMA NamedInShort ==
  ASSUME NEW a, NEW b, NEW c
  PROVE  /\ Names(<<a>>, a.row, a.mode)
         /\ Names(<<a, b>>, a.row, a.mode) /\ Names(<<a, b>>, b.row, b.mode)
         /\ Names(<<a, b, c>>, a.row, a.mode) /\ Names(<<a, b, c>>, b.row, b.mode)
         /\ Names(<<a, b, c>>, c.row, c.mode)
<1>1. 1 \in DOMAIN <<a>> /\ <<a>>[1] = a
  OBVIOUS
<1>2. 1 \in DOMAIN <<a, b>> /\ 2 \in DOMAIN <<a, b>> /\ <<a, b>>[1] = a /\ <<a, b>>[2] = b
  OBVIOUS
<1>3. /\ 1 \in DOMAIN <<a, b, c>> /\ 2 \in DOMAIN <<a, b, c>> /\ 3 \in DOMAIN <<a, b, c>>
      /\ <<a, b, c>>[1] = a /\ <<a, b, c>>[2] = b /\ <<a, b, c>>[3] = c
  OBVIOUS
<1> QED BY <1>1, <1>2, <1>3 DEF Names

\* The same of the locks there are.
LEMMA NamedRows ==
  ASSUME NEW r, NEW y, NEW z
  PROVE  /\ Names(<<Shared(r)>>, r, "share") /\ Names(<<Alone(r)>>, r, "alone")
         /\ Names(<<OrLeave(Alone(r))>>, r, "alone") /\ Names(<<OrLeave(Shared(r))>>, r, "share")
         /\ Names(<<y, Alone(r)>>, r, "alone") /\ Names(<<y, z, Alone(r)>>, r, "alone")
         /\ Names(<<Alone(r), y>>, r, "alone") /\ Names(<<y, Shared(r)>>, r, "share")
         /\ Names(<<y, Shared(r), z>>, r, "share")
<1>1. /\ Shared(r).row = r /\ Shared(r).mode = "share" /\ Alone(r).row = r /\ Alone(r).mode = "alone"
      /\ OrLeave(Alone(r)).row = r /\ OrLeave(Alone(r)).mode = "alone"
      /\ OrLeave(Shared(r)).row = r /\ OrLeave(Shared(r)).mode = "share"
  BY LockFields
<1>2. /\ Names(<<Shared(r)>>, Shared(r).row, Shared(r).mode) /\ Names(<<Alone(r)>>, Alone(r).row, Alone(r).mode)
      /\ Names(<<OrLeave(Alone(r))>>, OrLeave(Alone(r)).row, OrLeave(Alone(r)).mode)
      /\ Names(<<OrLeave(Shared(r))>>, OrLeave(Shared(r)).row, OrLeave(Shared(r)).mode)
  BY NamedInShort
<1>3. /\ Names(<<y, Alone(r)>>, Alone(r).row, Alone(r).mode) /\ Names(<<y, z, Alone(r)>>, Alone(r).row, Alone(r).mode)
      /\ Names(<<Alone(r), y>>, Alone(r).row, Alone(r).mode)
      /\ Names(<<y, Shared(r)>>, Shared(r).row, Shared(r).mode)
      /\ Names(<<y, Shared(r), z>>, Shared(r).row, Shared(r).mode)
  BY NamedInShort
<1> QED BY <1>1, <1>2, <1>3

\* What a kind relies on by Asked is named by the statement Asked gives it.
LEMMA AskedNamed ==
  ASSUME RowsTyped, NEW op \in Kinds, NEW t, About(op, t),
         NEW k \in 1..3, NEW row, NEW mode, <<k, row, mode>> \in Asked(op, t)
  PROVE  k \in 1 .. Steps(op) /\ Names(Statements(op, t)[k], row, mode)
<1> DEFINE G == k \in 1 .. Steps(op) /\ Names(Statements(op, t)[k], row, mode)
<1>1. ASSUME op = "claim" PROVE G
  <2>1. t \in Tasks
    BY <1>1, AboutRows
  <2>2. PICK q \in Seq(Locks) :
           /\ Statements("claim", t) =
                << <<Shared(Global)>>, <<OrLeave(Alone(Task(t)))>> \o q, <<Alone(Mission)>> >>
           /\ ~Root(t) => q = <<OrLeave(Shared(Task(subject[t])))>>
    BY <2>1, ClaimStatements
  <2>3. /\ Statements(op, t)[1] = <<Shared(Global)>> /\ Statements(op, t)[3] = <<Alone(Mission)>>
        /\ Statements(op, t)[2] = <<OrLeave(Alone(Task(t)))>> \o q
    BY <1>1, <2>2
  <2>4. OrLeave(Alone(Task(t))) \in Locks /\ <<OrLeave(Alone(Task(t)))>> \in Seq(Locks)
    BY <2>1, LocksTyped, ListsTyped
  <2>5. Names(Statements(op, t)[2], Task(t), "alone")
    BY <2>3, <2>4, NamedIn, NamedRows
  <2>6. ASSUME subject[t] # None PROVE Names(Statements(op, t)[2], Task(subject[t]), "share")
    <3>1. Names(q, Task(subject[t]), "share")
      BY <2>2, <2>6, NamedRows DEF Root
    <3> QED BY <2>3, <2>4, <3>1, NamedIn
  <2>7. Names(Statements(op, t)[1], Global, "share") /\ Names(Statements(op, t)[3], Mission, "alone")
    BY <2>3, NamedRows
  <2>8. \/ k = 1 /\ row = Global /\ mode = "share"
        \/ k = 2 /\ row = Task(t) /\ mode = "alone"
        \/ k = 3 /\ row = Mission /\ mode = "alone"
        \/ k = 2 /\ subject[t] # None /\ row = Task(subject[t]) /\ mode = "share"
    <3>1. <<k, row, mode>> \in Asked("claim", t)
      BY <1>1
    <3> QED BY <3>1 DEF Asked
  <2>9. Steps(op) = 3
    BY <1>1, StepsOf
  <2> QED BY <2>5, <2>6, <2>7, <2>8, <2>9
<1>2. ASSUME op = "dispatch" PROVE G
  <2>1. t \in Tasks
    BY <1>2, AboutRows
  <2>2. PICK q \in Seq(Locks) : Statements("dispatch", t) = << <<Alone(Task(t))>>, q, <<Shared(Mission)>> >>
    BY <2>1, DispatchStatements
  <2>3. Statements(op, t)[1] = <<Alone(Task(t))>> /\ Statements(op, t)[3] = <<Shared(Mission)>>
    BY <1>2, <2>2
  <2>4. \/ k = 1 /\ row = Task(t) /\ mode = "alone"
        \/ k = 3 /\ row = Mission /\ mode = "share"
    <3>1. <<k, row, mode>> \in Asked("dispatch", t)
      BY <1>2
    <3> QED BY <3>1 DEF Asked
  <2>5. Steps(op) = 3
    BY <1>2, StepsOf
  <2> QED BY <2>3, <2>4, <2>5, NamedRows
<1>3. ASSUME op = "card" PROVE G
  <2>1. t \in Tasks
    BY <1>3, AboutRows
  <2>2. PICK p, q \in Seq(Locks) : Statements("card", t) = <<p, q, <<Alone(Mission)>> >>
    BY <2>1, CardStatements
  <2>3. Statements(op, t)[3] = <<Alone(Mission)>>
    BY <1>3, <2>2
  <2>4. k = 3 /\ row = Mission /\ mode = "alone"
    <3>1. <<k, row, mode>> \in Asked("card", t)
      BY <1>3
    <3> QED BY <3>1 DEF Asked
  <2>5. Steps(op) = 3
    BY <1>3, StepsOf
  <2> QED BY <2>3, <2>4, <2>5, NamedRows
<1>4. ASSUME op = "decide" PROVE G
  <2>1. t \in Tasks
    BY <1>4, AboutRows
  <2>2. PICK q \in Seq(Locks) :
           /\ Statements("decide", t) = << q \o <<Alone(Task(t)), Shared(Mission)>> >>
           /\ ~Root(t) => q = <<Alone(Task(subject[t]))>>
    BY <2>1, DecideStatements
  <2>3. Statements(op, t)[1] = q \o <<Alone(Task(t)), Shared(Mission)>>
    BY <1>4, <2>2
  <2>4. /\ Alone(Task(t)) \in Locks /\ Shared(Mission) \in Locks
        /\ <<Alone(Task(t)), Shared(Mission)>> \in Seq(Locks)
    BY <2>1, LocksTyped, ListsTyped
  <2>5. Names(Statements(op, t)[1], Task(t), "alone") /\ Names(Statements(op, t)[1], Mission, "share")
    BY <2>3, <2>4, NamedIn, NamedRows
  <2>6. ASSUME subject[t] # None PROVE Names(Statements(op, t)[1], Task(subject[t]), "alone")
    <3>1. Names(q, Task(subject[t]), "alone")
      BY <2>2, <2>6, NamedRows DEF Root
    <3> QED BY <2>3, <2>4, <3>1, NamedIn
  <2>7. \/ k = 1 /\ row = Task(t) /\ mode = "alone"
        \/ k = 1 /\ row = Mission /\ mode = "share"
        \/ k = 1 /\ subject[t] # None /\ row = Task(subject[t]) /\ mode = "alone"
    <3>1. <<k, row, mode>> \in Asked("decide", t)
      BY <1>4
    <3> QED BY <3>1 DEF Asked
  <2>8. Steps(op) = 1
    BY <1>4, StepsOf
  <2> QED BY <2>5, <2>6, <2>7, <2>8
<1>5. ASSUME op = "stop" PROVE G
  <2>1. Statements(op, t) = << <<Alone(t)>> >>
    BY <1>5, PlainStatements
  <2>2. k = 1 /\ row = t /\ mode = "alone"
    <3>1. <<k, row, mode>> \in Asked("stop", t)
      BY <1>5
    <3> QED BY <3>1 DEF Asked
  <2>3. Steps(op) = 1
    BY <1>5, StepsOf
  <2>4. Statements(op, t)[1] = <<Alone(t)>>
    BY <2>1
  <2>5. Names(Statements(op, t)[1], t, "alone")
    BY <2>4, NamedRows
  <2> QED BY <2>2, <2>3, <2>5
<1>6. ASSUME op = "depend" PROVE G
  <2>1. Statements(op, t) = << <<Alone(Task(t[1]))>> >>
    BY <1>6, PlainStatements
  <2>2. k = 1 /\ row = Task(t[1]) /\ mode = "alone"
    <3>1. <<k, row, mode>> \in Asked("depend", t)
      BY <1>6
    <3> QED BY <3>1 DEF Asked
  <2>3. Steps(op) = 1
    BY <1>6, StepsOf
  <2>4. Statements(op, t)[1] = <<Alone(Task(t[1]))>>
    BY <2>1
  <2>5. Names(Statements(op, t)[1], Task(t[1]), "alone")
    BY <2>4, NamedRows
  <2> QED BY <2>2, <2>3, <2>5
<1>7. ASSUME op = "submit" PROVE G
  <2>1. Statements(op, t) = << <<Alone(Attempt(t)), Alone(Task(t))>> >>
    BY <1>7, PlainStatements
  <2>2. k = 1 /\ row = Task(t) /\ mode = "alone"
    <3>1. <<k, row, mode>> \in Asked("submit", t)
      BY <1>7
    <3> QED BY <3>1 DEF Asked
  <2>3. Steps(op) = 1
    BY <1>7, StepsOf
  <2>4. Statements(op, t)[1] = <<Alone(Attempt(t)), Alone(Task(t))>>
    BY <2>1
  <2>5. Names(Statements(op, t)[1], Task(t), "alone")
    BY <2>4, NamedRows
  <2> QED BY <2>2, <2>3, <2>5
<1>8. ASSUME op = "sweep" PROVE G
  <2>1. Statements(op, t) = << <<OrLeave(Alone(Attempt(t))), Alone(Task(t))>> >>
    BY <1>8, PlainStatements
  <2>2. k = 1 /\ row = Task(t) /\ mode = "alone"
    <3>1. <<k, row, mode>> \in Asked("sweep", t)
      BY <1>8
    <3> QED BY <3>1 DEF Asked
  <2>3. Steps(op) = 1
    BY <1>8, StepsOf
  <2>4. Statements(op, t)[1] = <<OrLeave(Alone(Attempt(t))), Alone(Task(t))>>
    BY <2>1
  <2>5. Names(Statements(op, t)[1], Task(t), "alone")
    BY <2>4, NamedRows
  <2> QED BY <2>2, <2>3, <2>5
<1>9. ASSUME op = "verify" PROVE G
  <2>1. Statements(op, t) = << <<Shared(Attempt(t)), Alone(Task(t))>>,
           IF Checks(t) = {} /\ RetryDue(t) THEN <<Alone(Events), Alone(Stream)>> ELSE <<>> >>
    BY <1>9, PlainStatements
  <2>2. k = 1 /\ row = Task(t) /\ mode = "alone"
    <3>1. <<k, row, mode>> \in Asked("verify", t)
      BY <1>9
    <3> QED BY <3>1 DEF Asked
  <2>3. Steps(op) = 2
    BY <1>9, StepsOf
  <2>4. Statements(op, t)[1] = <<Shared(Attempt(t)), Alone(Task(t))>>
    BY <2>1
  <2>5. Names(Statements(op, t)[1], Task(t), "alone")
    BY <2>4, NamedRows
  <2> QED BY <2>2, <2>3, <2>5
<1>10. ASSUME op = "salvage" PROVE G
  <2>1. Statements(op, t) =
          << IF t \in Live THEN <<Alone(Task(t))>> ELSE <<Shared(Attempt(t)), Alone(Task(t))>> >>
    BY <1>10, PlainStatements
  <2>2. k = 1 /\ row = Task(t) /\ mode = "alone"
    <3>1. <<k, row, mode>> \in Asked("salvage", t)
      BY <1>10
    <3> QED BY <3>1 DEF Asked
  <2>3. Steps(op) = 1
    BY <1>10, StepsOf
  <2>4. Statements(op, t)[1] = <<Alone(Task(t))>> \/ Statements(op, t)[1] = <<Shared(Attempt(t)), Alone(Task(t))>>
    BY <2>1
  <2>5. Names(Statements(op, t)[1], Task(t), "alone")
    BY <2>4, NamedRows
  <2> QED BY <2>2, <2>3, <2>5
<1>11. ASSUME op = "uncheck" PROVE G
  <2>1. Statements(op, t) = << <<Shared(Task(subject[t])), Alone(Task(t))>> >>
    BY <1>11, PlainStatements
  <2>2. k = 1 /\ row = Task(t) /\ mode = "alone"
    <3>1. <<k, row, mode>> \in Asked("uncheck", t)
      BY <1>11
    <3> QED BY <3>1 DEF Asked
  <2>3. Steps(op) = 1
    BY <1>11, StepsOf
  <2>4. Statements(op, t)[1] = <<Shared(Task(subject[t])), Alone(Task(t))>>
    BY <2>1
  <2>5. Names(Statements(op, t)[1], Task(t), "alone")
    BY <2>4, NamedRows
  <2> QED BY <2>2, <2>3, <2>5
<1>12. ASSUME op = "red" PROVE G
  <2>1. Statements(op, t) = << <<Alone(Task(t))>>,
           IF Reworks(t) THEN <<Alone(Events), Alone(Stream)>> ELSE <<Alone(Stream)>> >>
    BY <1>12, PlainStatements
  <2>2. k = 1 /\ row = Task(t) /\ mode = "alone"
    <3>1. <<k, row, mode>> \in Asked("red", t)
      BY <1>12
    <3> QED BY <3>1 DEF Asked
  <2>3. Steps(op) = 2
    BY <1>12, StepsOf
  <2>4. Statements(op, t)[1] = <<Alone(Task(t))>>
    BY <2>1
  <2>5. Names(Statements(op, t)[1], Task(t), "alone")
    BY <2>4, NamedRows
  <2> QED BY <2>2, <2>3, <2>5
<1>13. ASSUME op = "conclude" PROVE G
  <2>1. Statements(op, t) = << <<Alone(Attempt(t)), Judged(subject[t]), Alone(Task(subject[t]))>>, <<Alone(Task(t))>>,
           IF RetryDue(subject[t]) THEN <<Alone(Events), Alone(Stream)>> ELSE <<>> >>
    BY <1>13, PlainStatements
  <2>2. \/ k = 1 /\ row = Task(subject[t]) /\ mode = "alone"
        \/ k = 2 /\ row = Task(t) /\ mode = "alone"
    <3>1. <<k, row, mode>> \in Asked("conclude", t)
      BY <1>13
    <3> QED BY <3>1 DEF Asked
  <2>3. Steps(op) = 3
    BY <1>13, StepsOf
  <2>4. /\ Statements(op, t)[1] = <<Alone(Attempt(t)), Judged(subject[t]), Alone(Task(subject[t]))>>
        /\ Statements(op, t)[2] = <<Alone(Task(t))>>
    BY <2>1
  <2>5. Names(Statements(op, t)[1], Task(subject[t]), "alone") /\ Names(Statements(op, t)[2], Task(t), "alone")
    BY <2>4, NamedRows
  <2> QED BY <2>2, <2>3, <2>5
<1>14. ASSUME op = "late" PROVE G
  <2>1. Statements(op, t) = << IF t \in Live THEN <<Alone(Attempt(t))>> ELSE <<>>, <<Alone(Task(t)), Shared(Mission)>> >>
    BY <1>14, PlainStatements
  <2>2. k = 2 /\ row = Task(t) /\ mode = "alone"
    <3>1. <<k, row, mode>> \in Asked("late", t)
      BY <1>14
    <3> QED BY <3>1 DEF Asked
  <2>3. Steps(op) = 2
    BY <1>14, StepsOf
  <2>4. Statements(op, t)[2] = <<Alone(Task(t)), Shared(Mission)>>
    BY <2>1
  <2>5. Names(Statements(op, t)[2], Task(t), "alone")
    BY <2>4, NamedRows
  <2> QED BY <2>2, <2>3, <2>5
<1>15. ASSUME op = "close" PROVE G
  <2>1. Statements(op, t) = << <<Alone(Mission)>>, <<>>, IF Unclaimed = {} THEN <<>> ELSE <<Alone(Stream)>> >>
    BY <1>15, PlainStatements
  <2>2. k = 1 /\ row = Mission /\ mode = "alone"
    <3>1. <<k, row, mode>> \in Asked("close", t)
      BY <1>15
    <3> QED BY <3>1 DEF Asked
  <2>3. Steps(op) = 3
    BY <1>15, StepsOf
  <2>4. Statements(op, t)[1] = <<Alone(Mission)>>
    BY <2>1
  <2>5. Names(Statements(op, t)[1], Mission, "alone")
    BY <2>4, NamedRows
  <2> QED BY <2>2, <2>3, <2>5
<1>16. ASSUME op = "push" PROVE G
  <2>1. Statements(op, t) = << <<Shared(Task(t)), Shared(Mission), Alone(Stream)>> >>
    BY <1>16, PlainStatements
  <2>2. k = 1 /\ row = Mission /\ mode = "share"
    <3>1. <<k, row, mode>> \in Asked("push", t)
      BY <1>16
    <3> QED BY <3>1 DEF Asked
  <2>3. Steps(op) = 1
    BY <1>16, StepsOf
  <2>4. Statements(op, t)[1] = <<Shared(Task(t)), Shared(Mission), Alone(Stream)>>
    BY <2>1
  <2>5. Names(Statements(op, t)[1], Mission, "share")
    BY <2>4, NamedRows
  <2> QED BY <2>2, <2>3, <2>5
<1>17. ASSUME op \in {"propose", "land", "settle"} PROVE FALSE
  BY <1>17 DEF Asked
<1> HIDE DEF G
<1>18. G
  BY <1>1, <1>2, <1>3, <1>4, <1>5, <1>6, <1>7, <1>8, <1>9, <1>10, <1>11, <1>12, <1>13, <1>14, <1>15, <1>16, <1>17 DEF Kinds, LoopOps, OtherOps
<1> QED BY <1>18 DEF G

\* Dispatch asks for all that its task waits for.
LEMMA WaitedNamed ==
  ASSUME RowsTyped, NEW t \in Tasks
  PROVE  \A d \in Waited(t) : d \in Tasks /\ Names(Statements("dispatch", t)[2], Task(d), "share")
<1>1. PICK q \in Seq(Locks) :
         /\ Statements("dispatch", t) = << <<Alone(Task(t))>>, q, <<Shared(Mission)>> >>
         /\ \A d \in Waited(t) : \E i \in DOMAIN q : q[i] = Shared(Task(d))
  BY DispatchStatements
<1>2. Statements("dispatch", t)[2] = q
  BY <1>1
<1>3. ASSUME NEW d \in Waited(t) PROVE d \in Tasks /\ Names(q, Task(d), "share")
  <2>1. PICK i \in DOMAIN q : q[i] = Shared(Task(d))
    BY <1>1
  <2>2. q[i].row = Task(d) /\ q[i].mode = "share"
    BY <2>1, LockFields
  <2>3. d \in Tasks
    BY MissionConstants DEF Waited, RowsTyped
  <2> QED BY <2>2, <2>3 DEF Names
<1> QED BY <1>2, <1>3

\* The close asks for the stream when something is unclaimed.
LEMMA StreamNamed ==
  ASSUME NEW t, Unclaimed # {}
  PROVE  Names(Statements("close", t)[3], Stream, "alone")
<1>1. Statements("close", t) =
        << <<Alone(Mission)>>, <<>>, IF Unclaimed = {} THEN <<>> ELSE <<Alone(Stream)>> >>
  BY PlainStatements
<1>2. Statements("close", t)[3] = <<Alone(Stream)>>
  BY <1>1
<1> QED BY <1>2, NamedRows

-----------------------------------------------------------------------------
(* A session's own steps, which change no row.                             *)

\* One session's transaction changes.
LEMMA TxSet ==
  ASSUME tx = [u \in Sessions |-> tx[u]], NEW s \in Sessions, NEW y, tx' = [tx EXCEPT ![s] = y]
  PROVE  tx' = [u \in Sessions |-> tx'[u]] /\ tx'[s] = y /\ \A u \in Sessions : u # s => tx'[u] = tx[u]
OBVIOUS

\* What is as it was is as right as it was.
LEMMA QuietRows ==
  ASSUME UNCHANGED rows, RowsRight
  PROVE  RowsRight'
BY DEF rows, RowsRight, RowsTyped, LandingsLand, WorkThere, AfterCard, DoneButForRework, Leftover, Root, Lands, Ended

\* A transaction that no step moves stays typed,
LEMMA QuietTyped ==
  ASSUME NEW u, tx'[u] = tx[u], subject' = subject, TxTyped(u)
  PROVE  TxTyped(u)'
<1>1. ASSUME NEW op, NEW t PROVE About(op, t)' = About(op, t)
  BY DEF About, Root, Lands
<1> QED BY <1>1 DEF TxTyped, Idle

\* keeps its locks,
LEMMA QuietLocks ==
  ASSUME NEW u, tx'[u] = tx[u], subject' = subject, HasLocks(u)
  PROVE  HasLocks(u)'
<1>1. ASSUME NEW op, NEW t PROVE Asked(op, t)' = Asked(op, t)
  BY DEF Asked
<1> QED BY <1>1 DEF HasLocks, Has, Got, Wants

\* and knows what it knew, as long as no row is written.
LEMMA QuietKnows ==
  ASSUME NEW u, tx'[u] = tx[u], UNCHANGED rows, Knows(u)
  PROVE  Knows(u)'
<1>1. KnowsClaim(u)'
  BY DEF Knows, KnowsClaim, rows, Stopped
<1>2. KnowsDispatch(u)'
  BY DEF Knows, KnowsDispatch, rows, Waited, Has, Got, Wants
<1>3. KnowsTask(u)'
  BY DEF Knows, KnowsTask, rows, Checks, Open
<1>4. KnowsCard(u)'
  BY DEF Knows, KnowsCard, rows, Open, Leftover, Live, Got, Root
<1>5. KnowsClose(u)'
  BY DEF Knows, KnowsClose, rows, Root, Lands, Unclaimed, Has, Got, Wants
<1> QED BY <1>1, <1>2, <1>3, <1>4, <1>5 DEF Knows

\* A session's step keeps the invariant when what it becomes is right, and what it
\* holds it held before or is free.
LEMMA OwnStep ==
  ASSUME MissionInv, NEW s \in Sessions, NEW y, tx' = [tx EXCEPT ![s] = y], UNCHANGED rows,
         TxTyped(s)', HasLocks(s)', Knows(s)',
         \A row \in AllRows, mode \in Modes : <<row, mode>> \in y.held =>
           \/ Got(s, row, mode)
           \/ \A u \in Sessions \ {s}, m \in Modes : Got(u, row, m) => mode = "share" /\ m = "share"
  PROVE  MissionInv'
<1>1. tx' = [u \in Sessions |-> tx'[u]] /\ tx'[s] = y /\ \A u \in Sessions : u # s => tx'[u] = tx[u]
  BY TxSet DEF MissionInv
<1>2. RowsRight'
  BY QuietRows DEF MissionInv
<1>3. \A u \in Sessions : TxTyped(u)' /\ HasLocks(u)' /\ Knows(u)'
  <2> TAKE u \in Sessions
  <2>1. CASE u = s
    BY <2>1
  <2>2. CASE u # s
    <3>1. tx'[u] = tx[u] /\ TxTyped(u) /\ HasLocks(u) /\ Knows(u)
      BY <1>1, <2>2 DEF MissionInv, TxsRight
    <3>2. subject' = subject
      BY DEF rows
    <3> QED BY <3>1, <3>2, QuietTyped, QuietLocks, QuietKnows
  <2> QED BY <2>1, <2>2
<1>4. Exclusive'
  <2>1. ASSUME NEW v \in Sessions, NEW u \in Sessions, v # u, NEW row \in AllRows, NEW mode \in Modes,
               Got(v, row, "alone")', Got(u, row, mode)'
        PROVE  FALSE
    <3>1. Exclusive /\ "alone" \in Modes /\ "share" \in Modes
      BY DEF MissionInv, TxsRight, Modes
    <3>2. CASE v = s
      <4>1. <<row, "alone">> \in y.held /\ Got(u, row, mode)
        BY <1>1, <2>1, <3>2 DEF Got
      <4> QED BY <2>1, <3>1, <3>2, <4>1 DEF Exclusive
    <3>3. CASE u = s
      <4>1. <<row, mode>> \in y.held /\ Got(v, row, "alone")
        BY <1>1, <2>1, <3>3 DEF Got
      <4>2. Got(s, row, mode)
        BY <2>1, <3>1, <3>3, <4>1
      <4> QED BY <2>1, <3>1, <3>3, <4>1, <4>2 DEF Exclusive
    <3>4. CASE v # s /\ u # s
      BY <1>1, <2>1, <3>1, <3>4 DEF Exclusive, Got
    <3> QED BY <3>2, <3>3, <3>4
  <2> QED BY <2>1 DEF Exclusive
<1> QED BY <1>1, <1>2, <1>3, <1>4 DEF MissionInv, TxsRight

\* An idle session is right.
LEMMA IdleRight ==
  ASSUME NEW s, tx'[s] = Idle
  PROVE  TxTyped(s)' /\ HasLocks(s)' /\ Knows(s)'
<1>1. tx'[s].op = "none" /\ tx'[s].at = 0
  BY DEF Idle
<1>2. TxTyped(s)'
  BY DEF TxTyped
<1>3. HasLocks(s)'
  BY <1>1 DEF HasLocks, Has
<1>4. Knows(s)'
  BY <1>1 DEF Knows, KnowsClaim, KnowsDispatch, KnowsTask, KnowsCard, KnowsClose
<1> QED BY <1>2, <1>3, <1>4

\* A transaction that is refused writes nothing and lets go of its locks.
LEMMA RefusedRight ==
  ASSUME MissionInv, NEW s \in Sessions, tx' = [tx EXCEPT ![s] = Idle], UNCHANGED rows
  PROVE  MissionInv'
<1>1. tx'[s] = Idle
  BY TxSet DEF MissionInv
<1>2. \A row \in AllRows, mode \in Modes : <<row, mode>> \notin Idle.held
  BY DEF Idle
<1> QED BY <1>1, <1>2, IdleRight, OwnStep

\* A lock is taken when nobody else holds it in a way that excludes it.
LEMMA TakeRight ==
  ASSUME MissionInv, NEW s \in Sessions, Take(s)
  PROVE  MissionInv'
<1> DEFINE x == tx[s]
           l == Head(x.need)
           h == IF NoLongerAsked(x, l.row) THEN x.held ELSE x.held \cup {<<l.row, l.mode>>}
           y == [op |-> x.op, on |-> x.on, at |-> x.at, need |-> Tail(x.need), held |-> h, says |-> x.says]
<1>1. x.need # <<>> /\ Free(s, l) /\ UNCHANGED rows
  BY DEF Take
<1>2. TxTyped(s) /\ HasLocks(s) /\ Knows(s) /\ tx = [u \in Sessions |-> tx[u]]
  BY DEF MissionInv, TxsRight
<1>3. /\ x = [op |-> x.op, on |-> x.on, at |-> x.at, need |-> x.need, held |-> x.held, says |-> x.says]
      /\ x.op \in Kinds /\ About(x.op, x.on) /\ x.says \in Says(x.op)
      /\ x.at \in 1 .. Steps(x.op) + 1
      /\ x.need \in Seq(Locks) /\ x.held \subseteq AllRows \X Modes
      /\ x.at > Steps(x.op) => x.need = <<>>
  <2>1. x # Idle
    BY <1>1 DEF Idle
  <2> QED BY <1>2, <2>1 DEF TxTyped
<1>4. /\ l \in Locks /\ Tail(x.need) \in Seq(Locks)
      /\ Len(Tail(x.need)) = Len(x.need) - 1 /\ \A i \in 1 .. Len(Tail(x.need)) : Tail(x.need)[i] = x.need[i + 1]
      /\ l = x.need[1]
  BY <1>1, <1>3, HeadTailProperties
<1>5. l.row \in AllRows /\ l.mode \in Modes
  BY <1>4 DEF Locks
<1>6. tx' = [tx EXCEPT ![s] = y]
  BY DEF Take, Further
<1>7. tx'[s] = y
  BY <1>2, <1>6, TxSet
<1>8. tx'[s].op = x.op /\ tx'[s].on = x.on /\ tx'[s].at = x.at /\ tx'[s].says = x.says
      /\ tx'[s].need = Tail(x.need) /\ tx'[s].held = h
  BY <1>7
<1>9. h \subseteq AllRows \X Modes /\ x.held \subseteq h
  BY <1>3, <1>5
<1>10. \A op, t : About(op, t)' = About(op, t) /\ Asked(op, t)' = Asked(op, t)
  BY <1>1 DEF rows, About, Root, Lands, Asked
<1>11. TxTyped(s)'
  <2>1. x.at \in 1 .. Steps(x.op) + 1 /\ ~(x.at > Steps(x.op))
    BY <1>1, <1>3
  <2>2. tx'[s] = [op |-> tx'[s].op, on |-> tx'[s].on, at |-> tx'[s].at, need |-> tx'[s].need,
                  held |-> tx'[s].held, says |-> tx'[s].says]
    BY <1>7, <1>8
  <2> QED BY <1>3, <1>4, <1>8, <1>9, <1>10, <2>1, <2>2 DEF TxTyped
<1>12. ASSUME NEW k, NEW row, NEW mode, Has(s, k, row, mode), ~NoLongerAsked(x, row) PROVE Has(s, k, row, mode)'
  <2>1. Got(s, row, mode) => Got(s, row, mode)'
    BY <1>8, <1>9 DEF Got
  <2>2. ASSUME Wants(s, row, mode) PROVE Got(s, row, mode)' \/ Wants(s, row, mode)'
    <3>1. PICK i \in DOMAIN x.need : x.need[i].row = row /\ x.need[i].mode = mode
      BY <2>2 DEF Wants
    <3>2. CASE i = 1
      <4>1. h = x.held \cup {<<row, mode>>}
        BY <1>4, <1>12, <3>1, <3>2
      <4> QED BY <1>8, <4>1 DEF Got
    <3>3. CASE i # 1
      <4>1. i - 1 \in 1 .. Len(Tail(x.need)) /\ Tail(x.need)[i - 1] = x.need[i]
        BY <1>3, <1>4, <3>1, <3>3
      <4>2. i - 1 \in DOMAIN Tail(x.need)
        BY <1>4, <4>1
      <4> QED BY <1>8, <3>1, <4>1, <4>2 DEF Wants
    <3> QED BY <3>2, <3>3
  <2> QED BY <1>8, <1>12, <2>1, <2>2 DEF Has
<1>13. \A row \in Scopes \cup {Stream} : ~NoLongerAsked(x, row)
  BY DEF NoLongerAsked, Scopes, Global, Mission, Stream, Task, Attempt
<1>14. HasLocks(s)'
  BY <1>2, <1>8, <1>10, <1>12, <1>13 DEF HasLocks
<1>15. Knows(s)'
  <2>1. KnowsClaim(s) /\ KnowsDispatch(s) /\ KnowsTask(s) /\ KnowsCard(s) /\ KnowsClose(s)
    BY <1>2 DEF Knows
  <2>2. KnowsClaim(s)'
    BY <1>1, <1>8, <2>1 DEF KnowsClaim, rows, Stopped
  <2>3. KnowsDispatch(s)'
    <3>1. ASSUME x.op = "dispatch" PROVE x.on \in Tasks /\ \A d \in Waited(x.on) : Task(d) \in Scopes
      <4>1. x.on \in Tasks
        BY <1>2, <1>3, <3>1, AboutRows DEF MissionInv, RowsRight
      <4> QED BY <4>1, WaitedNamed DEF MissionInv, RowsRight, Scopes
    <3>2. ASSUME NEW d \in Waited(x.on), x.op = "dispatch", Has(s, 2, Task(d), "share") PROVE Has(s, 2, Task(d), "share")'
      BY <1>12, <1>13, <3>1, <3>2
    <3>3. Waited(x.on)' = Waited(x.on)
      BY <1>1, <1>8 DEF Waited, rows
    <3> QED BY <1>1, <1>8, <2>1, <3>2, <3>3 DEF KnowsDispatch, rows
  <2>4. KnowsTask(s)'
    BY <1>1, <1>8, <2>1 DEF KnowsTask, rows, Checks, Open
  <2>5. KnowsCard(s)'
    <3>1. x.op = "card" => ~(x.at > 3)
      BY <1>1, <1>3, StepsOf
    <3> QED BY <1>8, <3>1 DEF KnowsCard
  <2>6. KnowsClose(s)'
    <3>1. Has(s, 3, Stream, "alone") => Has(s, 3, Stream, "alone")'
      BY <1>12, <1>13
    <3> QED BY <1>1, <1>8, <2>1, <3>1 DEF KnowsClose, rows, Root, Lands, Unclaimed
  <2> QED BY <2>2, <2>3, <2>4, <2>5, <2>6 DEF Knows
<1>16. ASSUME NEW row \in AllRows, NEW mode \in Modes, <<row, mode>> \in y.held
       PROVE  \/ Got(s, row, mode)
              \/ \A u \in Sessions \ {s}, m \in Modes : Got(u, row, m) => mode = "share" /\ m = "share"
  <2>1. <<row, mode>> \in x.held \/ (row = l.row /\ mode = l.mode)
    BY <1>16
  <2>2. ASSUME row = l.row, mode = l.mode, NEW u \in Sessions \ {s}, NEW m \in Modes, Got(u, row, m)
        PROVE  mode = "share" /\ m = "share"
    <3>1. ~Conflicts(u, l)
      BY <1>1, <2>2 DEF Free
    <3>2. "alone" \notin {m, l.mode}
      BY <2>2, <3>1 DEF Conflicts, Got, Modes
    <3> QED BY <2>2, <3>2 DEF Modes
  <2> QED BY <2>1, <2>2 DEF Got
<1> HIDE DEF y
<1> QED BY <1>1, <1>6, <1>11, <1>14, <1>15, <1>16, OwnStep

\* A transaction starts at its first statement, with nothing held.
LEMMA StartedRight ==
  ASSUME MissionInv, NEW s \in Sessions, NEW op \in Kinds, NEW t, NEW says \in Says(op), About(op, t),
         Started(s, op, t, says),
         op = "close" => \A u \in Work \ reworked : Root(u) => task[u] \in Ended
  PROVE  MissionInv'
<1> DEFINE y == [op |-> op, on |-> t, at |-> 1, need |-> Statements(op, t)[1], held |-> {}, says |-> says]
<1>1. tx' = [tx EXCEPT ![s] = y] /\ UNCHANGED rows
  BY DEF Started
<1>2. RowsTyped /\ tx = [u \in Sessions |-> tx[u]]
  BY DEF MissionInv, RowsRight
<1>3. Listed(op, t)
  BY <1>2, StatementsListed
<1>4. Steps(op) \in 1..3
  BY StepsOf DEF Kinds, LoopOps, OtherOps
<1>5. Statements(op, t)[1] \in Seq(Locks) /\ 1 \in 1 .. Steps(op) + 1 /\ ~(1 > Steps(op))
  BY <1>3, <1>4 DEF Listed
<1>6. tx'[s] = y
  BY <1>1, <1>2, TxSet
<1>7. tx'[s].op = op /\ tx'[s].on = t /\ tx'[s].at = 1 /\ tx'[s].says = says
      /\ tx'[s].need = Statements(op, t)[1] /\ tx'[s].held = {}
  BY <1>6
<1>8. About(op, t)' = About(op, t) /\ Asked(op, t)' = Asked(op, t)
  BY <1>1 DEF rows, About, Root, Lands, Asked
<1>9. TxTyped(s)'
  <2>1. tx'[s] = [op |-> tx'[s].op, on |-> tx'[s].on, at |-> tx'[s].at, need |-> tx'[s].need,
                  held |-> tx'[s].held, says |-> tx'[s].says]
    BY <1>6, <1>7
  <2> QED BY <1>5, <1>7, <1>8, <2>1 DEF TxTyped
<1>10. HasLocks(s)'
  <2>1. ASSUME NEW k \in 1..3, NEW row \in Scopes, NEW mode \in Modes, <<k, row, mode>> \in Asked(op, t)
        PROVE  Has(s, k, row, mode)'
    <3>1. Names(Statements(op, t)[k], row, mode)
      BY <1>2, <2>1, AskedNamed
    <3>2. k = 1 => Wants(s, row, mode)'
      BY <1>7, <3>1 DEF Names, Wants
    <3> QED BY <1>7, <3>2 DEF Has
  <2> QED BY <1>7, <1>8, <2>1 DEF HasLocks
<1>11. Knows(s)'
  <2>1. KnowsClose(s)'
    BY <1>1, <1>7 DEF KnowsClose, rows, Root
  <2> QED BY <1>7, <2>1 DEF Knows, KnowsClaim, KnowsDispatch, KnowsTask, KnowsCard
<1>12. \A row \in AllRows, mode \in Modes : <<row, mode>> \notin y.held
  OBVIOUS
<1> HIDE DEF y
<1> QED BY <1>1, <1>9, <1>10, <1>11, <1>12, OwnStep

\* A transaction that begins asks for the locks of its first statement.
LEMMA BeginRight ==
  ASSUME MissionInv, NEW s \in Sessions, Begin(s)
  PROVE  MissionInv'
<1>1. RowsTyped /\ LandingsLand /\ WorkThere
  BY DEF MissionInv, RowsRight
<1>2. ASSUME NEW op \in OtherOps \cup LoopOps, NEW t \in Tasks, Starts(op, t), Started(s, op, t, "go")
      PROVE  MissionInv'
  <2>1. op \in Kinds /\ op # "close" /\ "go" \in Says(op)
    BY DEF Kinds, OtherOps, LoopOps, Says
  <2>2. About(op, t)
    <3>1. op \in OnRoot => Root(t)
      BY <1>2 DEF Starts, OnRoot, SalvagedOpen
    <3>2. op \in OnCheck => ~Root(t)
      BY <1>2 DEF Starts, OnCheck
    <3>3. op \in {"land", "push", "red", "settle"} => Lands(t)
      BY <1>1, <1>2 DEF Starts, LandingsLand
    <3>4. op \notin {"stop", "depend", "close"}
      BY DEF OtherOps, LoopOps
    <3> QED BY <3>1, <3>2, <3>3, <3>4 DEF About
  <2> QED BY <1>2, <2>1, <2>2, StartedRight
<1>3. ASSUME NEW r \in Stoppable, Started(s, "stop", r, "go")
      PROVE  MissionInv'
  <2>1. "stop" \in Kinds /\ "go" \in Says("stop")
    BY DEF Kinds, Says
  <2>2. About("stop", r)
    BY DEF About, OnRoot, OnCheck
  <2> QED BY <1>3, <2>1, <2>2, StartedRight
<1>4. ASSUME NEW e \in Edges, Root(e[2]), Started(s, "depend", e, "go")
      PROVE  MissionInv'
  <2>1. "depend" \in Kinds /\ "go" \in Says("depend")
    BY DEF Kinds, Says
  <2>2. About("depend", e)
    BY <1>4 DEF About, OnRoot, OnCheck
  <2> QED BY <1>4, <2>1, <2>2, StartedRight
<1>5. ASSUME Closable, NEW limits \in {"early", "late"},
             Started(s, "close", limits, IF Delivered THEN "done" ELSE "stopped")
      PROVE  MissionInv'
  <2>1. "close" \in Kinds /\ (IF Delivered THEN "done" ELSE "stopped") \in Says("close")
    BY DEF Kinds, Says
  <2>2. About("close", limits)
    BY DEF About, OnRoot, OnCheck
  <2>3. \A u \in Work \ reworked : Root(u) => task[u] \in Ended
    BY <1>1, <1>5, MissionConstants DEF Closable, WorkThere, Ended
  <2> QED BY <1>5, <2>1, <2>2, <2>3, StartedRight
<1> QED BY <1>2, <1>3, <1>4, <1>5 DEF Begin

\* What each kind decides after each of its statements.
LEMMA DecidesOf ==
  ASSUME NEW x
  PROVE  /\ x.op = "claim" /\ x.at = 1 => Decides(x) = If(Global \notin stops, "go")
         /\ x.op = "claim" /\ x.at = 2 => Decides(x) = If(task[x.on] = "ready", "go")
         /\ x.op = "claim" /\ x.at = 3 => Decides(x) = If(mission = "active" /\ ~Stopped(x.on), "go")
         /\ x.op = "dispatch" /\ x.at = 1 => Decides(x) = If(task[x.on] = "proposed", "go")
         /\ x.op = "dispatch" /\ x.at = 2 => Decides(x) = Readiness(x.on)
         /\ x.op = "dispatch" /\ x.at = 3 => Decides(x) = If(mission = "active" /\ x.says # "waiting", x.says)
         /\ x.op = "depend" => Decides(x) = If(task[x.on[1]] = "proposed", "go")
         /\ x.op \in {"submit", "sweep"} => Decides(x) = If(task[x.on] = "leased", "go")
         /\ x.op = "verify" /\ x.at = 1 => Decides(x) = If(task[x.on] = "submitted", "go")
         /\ x.op = "salvage" => Decides(x) = If(SalvagedOpen(x.on), "go")
         /\ x.op = "conclude" /\ x.at = 2 => Decides(x) = If(task[x.on] = "submitted", "go")
         /\ x.op = "decide" =>
              Decides(x) = If(task[x.on] = "blocked" /\ mission = "active" /\ ~StopHolds(x.on), "go")
         /\ x.op = "uncheck" =>
              Decides(x) = If(task[subject[x.on]] \in {"blocked", "cancelled", "dropped"}
                              /\ task[x.on] \in {"proposed", "ready", "blocked"}, "go")
         /\ x.op = "card" /\ x.at = 3 =>
              Decides(x) = If(Unmoved(x) /\ mission = "active" /\ task[x.on] = "blocked" /\ ~StopHolds(x.on), "go")
         /\ x.op = "late" /\ x.at = 2 => Decides(x) = If(Open(x.on) /\ onCard, "go")
         /\ x.op = "close" /\ x.at = 1 => Decides(x) = If(mission = "active", x.says)
         /\ x.op = "close" /\ x.at = 2 => Decides(x) = If(~Holds(x.on = "late"), x.says)
         /\ x.op = "close" /\ x.at = 3 => Decides(x) = x.says
         /\ x.op = "red" /\ x.at = 1 => Decides(x) =
              IF Reworks(x.on) THEN "rework" ELSE "fail"
         /\ x.op = "red" /\ x.at = 2 => Decides(x) = If(landing[x.on] = "claimed", x.says)
<1>1. x.op = "claim" /\ x.at = 1 => Decides(x) = If(Global \notin stops, "go")
  BY DEF Decides
<1>2. x.op = "claim" /\ x.at = 2 => Decides(x) = If(task[x.on] = "ready", "go")
  BY DEF Decides
<1>3. x.op = "claim" /\ x.at = 3 => Decides(x) = If(mission = "active" /\ ~Stopped(x.on), "go")
  BY DEF Decides
<1>4. x.op = "dispatch" /\ x.at = 1 => Decides(x) = If(task[x.on] = "proposed", "go")
  BY DEF Decides
<1>5. x.op = "dispatch" /\ x.at = 2 => Decides(x) = Readiness(x.on)
  BY DEF Decides
<1>6. x.op = "dispatch" /\ x.at = 3 => Decides(x) = If(mission = "active" /\ x.says # "waiting", x.says)
  BY DEF Decides
<1>7. x.op = "depend" => Decides(x) = If(task[x.on[1]] = "proposed", "go")
  BY DEF Decides
<1>8. x.op \in {"submit", "sweep"} => Decides(x) = If(task[x.on] = "leased", "go")
  BY DEF Decides
<1>9. x.op = "verify" /\ x.at = 1 => Decides(x) = If(task[x.on] = "submitted", "go")
  BY DEF Decides
<1>10. x.op = "salvage" => Decides(x) = If(SalvagedOpen(x.on), "go")
  BY DEF Decides
<1>11. x.op = "conclude" /\ x.at = 2 => Decides(x) = If(task[x.on] = "submitted", "go")
  BY DEF Decides
<1>12. x.op = "decide" =>
        Decides(x) = If(task[x.on] = "blocked" /\ mission = "active" /\ ~StopHolds(x.on), "go")
  BY DEF Decides
<1>13. x.op = "uncheck" =>
        Decides(x) = If(task[subject[x.on]] \in {"blocked", "cancelled", "dropped"}
        /\ task[x.on] \in {"proposed", "ready", "blocked"}, "go")
  BY DEF Decides
<1>14. x.op = "card" /\ x.at = 3 =>
        Decides(x) = If(Unmoved(x) /\ mission = "active" /\ task[x.on] = "blocked" /\ ~StopHolds(x.on), "go")
  BY DEF Decides
<1>15. x.op = "late" /\ x.at = 2 => Decides(x) = If(Open(x.on) /\ onCard, "go")
  BY DEF Decides
<1>16. x.op = "close" /\ x.at = 1 => Decides(x) = If(mission = "active", x.says)
  BY DEF Decides
<1>17. x.op = "close" /\ x.at = 2 => Decides(x) = If(~Holds(x.on = "late"), x.says)
  BY DEF Decides
<1>18. x.op = "close" /\ x.at = 3 => Decides(x) = x.says
  BY DEF Decides
<1>19. x.op = "red" /\ x.at = 1 => Decides(x) =
        IF Reworks(x.on) THEN "rework" ELSE "fail"
  BY DEF Decides
<1>20. x.op = "red" /\ x.at = 2 => Decides(x) = If(landing[x.on] = "claimed", x.says)
  BY DEF Decides
<1> QED BY <1>1, <1>2, <1>3, <1>4, <1>5, <1>6, <1>7, <1>8, <1>9, <1>10, <1>11, <1>12, <1>13, <1>14, <1>15, <1>16, <1>17, <1>18, <1>19, <1>20

\* A decision is to leave, or one its kind may take.
LEMMA DecidesSays ==
  ASSUME NEW x, x.op \in Kinds, x.says \in Says(x.op), x.at \in 1 .. Steps(x.op), Decides(x) # Leave
  PROVE  Decides(x) \in Says(x.op)
<1>1. CASE x.op = "dispatch"
  <2>1. Decides(x) \in {"go", x.says, "ready", "blocked", "waiting"}
    <3>1. x.at \in 1..3
      BY <1>1, StepsOf
    <3> QED BY <1>1, <3>1, DecidesOf DEF If, Readiness
  <2> QED BY <1>1, <2>1 DEF Says
<1>2. CASE x.op = "red"
  <2>1. Decides(x) \in {x.says, "rework", "fail"}
    <3>1. x.at \in 1..2
      BY <1>2, StepsOf
    <3> QED BY <1>2, <3>1, DecidesOf DEF If
  <2> QED BY <1>2, <2>1 DEF Says
<1>3. CASE x.op = "close"
  <2>1. Decides(x) = x.says
    <3>1. x.at \in 1..3
      BY <1>3, StepsOf
    <3> QED BY <1>3, <3>1, DecidesOf DEF If
  <2> QED BY <2>1
<1>4. CASE x.op \notin {"dispatch", "red", "close"}
  <2>1. Decides(x) \in {"go", x.says}
    BY <1>4 DEF Decides, If
  <2>2. "go" \in Says(x.op)
    BY <1>4 DEF Says
  <2> QED BY <2>1, <2>2
<1> QED BY <1>1, <1>2, <1>3, <1>4

\* What a transaction that goes on after a statement is like: Unfinished before the
\* step, Gone on after it.
MayGoOn(s) == /\ tx[s].op \in Kinds /\ About(tx[s].op, tx[s].on) /\ tx[s].says \in Says(tx[s].op)
               /\ tx[s].at \in 1 .. Steps(tx[s].op) /\ tx[s].need = <<>>
               /\ Decides(tx[s]) # Leave

GoneOn(s) ==
  /\ UNCHANGED rows
  /\ tx'[s].op = tx[s].op /\ tx'[s].on = tx[s].on /\ tx'[s].at = tx[s].at + 1 /\ tx'[s].held = tx[s].held
  /\ tx'[s].says = Decides(tx[s])
  /\ tx[s].at < Steps(tx[s].op) => tx'[s].need = Statements(tx[s].op, tx[s].on)[tx[s].at + 1]

\* What a statement asked for is held when it is over.
LEMMA GoneOnHas ==
  ASSUME NEW s, MayGoOn(s), GoneOn(s), NEW k \in Nat, NEW row, NEW mode, Has(s, k, row, mode),
         k <= tx[s].at
  PROVE  Has(s, k, row, mode)'
<1>1. tx[s].at \in Nat
  BY StepsOf DEF MayGoOn, Kinds, LoopOps, OtherOps
<1>2. ~Wants(s, row, mode)
  BY DEF MayGoOn, Wants
<1>3. Got(s, row, mode)
  BY <1>1, <1>2 DEF Has
<1> QED BY <1>1, <1>3 DEF Has, GoneOn, Got

\* A claim that goes on has read the stop, then its task, then the mission.
LEMMA GoneOnClaim ==
  ASSUME NEW s, MayGoOn(s), GoneOn(s), KnowsClaim(s)
  PROVE  KnowsClaim(s)'
<1> SUFFICES ASSUME tx[s].op = "claim" PROVE KnowsClaim(s)'
  BY DEF KnowsClaim, GoneOn
<1> DEFINE x == tx[s]
<1>1. x.at \in 1..3
  BY StepsOf DEF MayGoOn
<1>2. x.at = 1 => Global \notin stops
  BY DecidesOf DEF MayGoOn, If
<1>3. x.at = 2 => task[x.on] = "ready"
  BY DecidesOf DEF MayGoOn, If
<1>4. x.at = 3 => mission = "active" /\ ~Stopped(x.on)
  BY DecidesOf DEF MayGoOn, If
<1> QED BY <1>1, <1>2, <1>3, <1>4 DEF KnowsClaim, GoneOn, rows, Stopped

\* A dispatch that goes on has read its task, then what it waits for, then the
\* mission.
LEMMA GoneOnDispatch ==
  ASSUME RowsTyped, NEW s, MayGoOn(s), GoneOn(s), KnowsDispatch(s)
  PROVE  KnowsDispatch(s)'
<1> SUFFICES ASSUME tx[s].op = "dispatch" PROVE KnowsDispatch(s)'
  BY DEF KnowsDispatch, GoneOn
<1> DEFINE x == tx[s]
           t == x.on
<1>1. x.at \in 1..3 /\ t \in Tasks /\ Steps("dispatch") = 3
  BY StepsOf DEF MayGoOn, About, OnRoot, OnCheck
<1>2. x.at = 1 => task[t] = "proposed"
  BY DecidesOf DEF MayGoOn, If
<1>3. x.at = 2 => Decides(x) = Readiness(t)
  BY DecidesOf
<1>4. x.at = 3 => mission = "active" /\ x.says # "waiting" /\ Decides(x) = x.says
  BY DecidesOf DEF MayGoOn, If
<1>5. \A d \in Waited(t) : Has(s, 2, Task(d), "share")'
  <2> TAKE d \in Waited(t)
  <2>1. CASE x.at = 1
    <3>1. tx'[s].need = Statements("dispatch", t)[2] /\ tx'[s].at = 2
      BY <1>1, <2>1 DEF GoneOn
    <3>2. Names(Statements("dispatch", t)[2], Task(d), "share")
      BY <1>1, WaitedNamed
    <3>3. Wants(s, Task(d), "share")'
      BY <3>1, <3>2 DEF Names, Wants
    <3> QED BY <3>1, <3>3 DEF Has
  <2>2. CASE x.at # 1
    <3>1. Has(s, 2, Task(d), "share") /\ 2 <= x.at /\ 2 \in Nat
      BY <1>1, <2>2 DEF KnowsDispatch
    <3> QED BY <3>1, GoneOnHas
  <2> QED BY <2>1, <2>2
<1>6. Waited(t)' = Waited(t)
  BY DEF GoneOn, rows, Waited
<1>7. task[t] = "proposed"
  BY <1>1, <1>2 DEF KnowsDispatch
<1>8. x.at > 1 => Decides(x) # "go" /\ (Decides(x) = "ready" => \A d \in Waited(t) : task[d] = "accepted")
  BY <1>1, <1>3, <1>4 DEF KnowsDispatch, Readiness
<1>9. x.at > 2 => mission = "active" /\ Decides(x) \in {"ready", "blocked"}
  <2>1. x.at > 2 => x.at = 3 /\ x.says \in {"go", "ready", "blocked", "waiting"}
    BY <1>1 DEF MayGoOn, Says
  <2> QED BY <1>4, <2>1 DEF KnowsDispatch
<1> QED BY <1>1, <1>5, <1>6, <1>7, <1>8, <1>9 DEF KnowsDispatch, GoneOn, rows

\* A transaction on one task that goes on has read it in a state that suits it.
LEMMA GoneOnTask ==
  ASSUME NEW s, MayGoOn(s), GoneOn(s), KnowsTask(s)
  PROVE  KnowsTask(s)'
<1> DEFINE x == tx[s]
<1>1. ASSUME x.op \in {"submit", "sweep", "verify", "salvage", "decide", "uncheck"}
      PROVE  task[x.on] \in Suits(x.op)
  <2>1. CASE x.op = "verify"
    <3>1. x.at \in 1..2
      BY <2>1, StepsOf DEF MayGoOn
    <3>2. x.at = 1 => task[x.on] = "submitted"
      BY <2>1, DecidesOf DEF MayGoOn, If
    <3> QED BY <2>1, <3>1, <3>2 DEF KnowsTask, Suits
  <2>2. CASE x.op \in {"submit", "sweep"}
    BY <2>2, DecidesOf DEF MayGoOn, If, Suits
  <2>3. CASE x.op = "salvage"
    BY <2>3, DecidesOf DEF MayGoOn, If, Suits, SalvagedOpen
  <2>4. CASE x.op = "decide"
    BY <2>4, DecidesOf DEF MayGoOn, If, Suits
  <2>5. CASE x.op = "uncheck"
    BY <2>5, DecidesOf DEF MayGoOn, If, Suits
  <2> QED BY <1>1, <2>1, <2>2, <2>3, <2>4, <2>5
<1>2. ASSUME x.op = "salvage" PROVE \A v \in Checks(x.on) : ~Open(v)
  BY <1>2, DecidesOf DEF MayGoOn, If, SalvagedOpen
<1>3. ASSUME x.op = "decide" PROVE mission = "active"
  BY <1>3, DecidesOf DEF MayGoOn, If
<1>4. ASSUME x.op = "conclude", x.at > 1 PROVE task[x.on] = "submitted"
  <2>1. x.at \in 2..3
    BY <1>4, StepsOf DEF MayGoOn
  <2>2. x.at = 2 => task[x.on] = "submitted"
    BY <1>4, DecidesOf DEF MayGoOn, If
  <2> QED BY <1>4, <2>1, <2>2 DEF KnowsTask
<1>5. ASSUME x.op = "late", x.at > 1 PROVE Open(x.on)
  <2>1. x.at = 2
    BY <1>5, StepsOf DEF MayGoOn
  <2> QED BY <1>5, <2>1, DecidesOf DEF MayGoOn, If
<1>6. ASSUME x.op = "red", Decides(x) = "rework" PROVE task[x.on] = "accepted"
  <2>1. x.at \in 1..2
    BY <1>6, StepsOf DEF MayGoOn
  <2>2. x.at = 1 => task[x.on] = "accepted"
    BY <1>6, DecidesOf DEF Reworks
  <2>3. x.at = 2 => x.says = "rework"
    BY <1>6, DecidesOf DEF MayGoOn, If
  <2> QED BY <1>6, <2>1, <2>2, <2>3 DEF KnowsTask
<1>7. x.at \in Nat
  BY StepsOf DEF MayGoOn, Kinds, LoopOps, OtherOps
<1>8. tx'[s].op = x.op /\ tx'[s].on = x.on /\ tx'[s].at = x.at + 1 /\ tx'[s].says = Decides(x)
      /\ task' = task /\ mission' = mission /\ Checks(x.on)' = Checks(x.on)
      /\ \A v : Open(v)' = Open(v)
  BY DEF GoneOn, rows, Checks, Open
<1>9. /\ x.op \in {"submit", "sweep", "verify", "salvage", "decide", "uncheck"} =>
           task'[tx'[s].on] \in Suits(tx'[s].op)
      /\ x.op = "conclude" /\ x.at + 1 > 2 => task'[tx'[s].on] = "submitted"
      /\ x.op = "red" /\ Decides(x) = "rework" => task'[tx'[s].on] = "accepted"
  <2>1. x.at + 1 > 2 => x.at > 1
    BY <1>7
  <2> QED BY <1>1, <1>4, <1>6, <1>8, <2>1
<1>10. /\ x.op = "salvage" => \A v \in Tasks : subject'[v] = tx'[s].on => task'[v] \in Ended \cup {"absent"}
       /\ x.op = "late" /\ x.at + 1 > 2 => task'[tx'[s].on] \notin Ended \cup {"absent"}
  <2>1. x.at + 1 > 2 => x.at > 1
    BY <1>7
  <2>2. tx'[s].on = x.on /\ task' = task /\ subject' = subject
    BY DEF GoneOn, rows
  <2>3. x.op = "salvage" => \A v \in Tasks : subject[v] = x.on => task[v] \in Ended \cup {"absent"}
    BY <1>2 DEF Checks, Open
  <2>4. x.op = "late" /\ x.at > 1 => task[x.on] \notin Ended \cup {"absent"}
    BY <1>5 DEF Open
  <2> QED BY <2>1, <2>2, <2>3, <2>4
<1>11. KnowsTask(s)' <=>
         LET z == tx'[s] IN
         /\ z.op \in {"submit", "sweep", "verify", "salvage", "decide", "uncheck"} /\ z.at > 1 =>
              task'[z.on] \in Suits(z.op)
         /\ z.op = "salvage" /\ z.at > 1 => \A v \in Tasks : subject'[v] = z.on => task'[v] \in Ended \cup {"absent"}
         /\ z.op = "decide" /\ z.at > 1 => mission' = "active"
         /\ z.op = "conclude" /\ z.at > 2 => task'[z.on] = "submitted"
         /\ z.op = "late" /\ z.at > 2 => task'[z.on] \notin Ended \cup {"absent"}
         /\ z.op = "red" /\ z.at > 1 /\ z.says = "rework" => task'[z.on] = "accepted"
  BY DEF KnowsTask, Checks, Open, Ended
<1> QED BY <1>3, <1>8, <1>9, <1>10, <1>11

\* An answer on a card that goes on holds all that is left to run.
LEMMA GoneOnCard ==
  ASSUME RowsTyped, NEW s, MayGoOn(s), GoneOn(s)
  PROVE  KnowsCard(s)'
<1> SUFFICES ASSUME tx[s].op = "card", tx[s].at + 1 > 3 PROVE KnowsCard(s)'
  BY DEF KnowsCard, GoneOn
<1>1. tx[s].at = 3
  BY StepsOf DEF MayGoOn
<1>2. Unmoved(tx[s]) /\ mission = "active"
  BY <1>1, DecidesOf DEF MayGoOn, If
<1>3. /\ \A t \in Tasks : Got(s, Task(t), "alone") <=> Open(t)
      /\ \A t \in Live : Got(s, Attempt(t), "alone")
  BY <1>2 DEF Unmoved, Locked, Got
<1>4. \A t \in Tasks : ~Open(t) => Leftover(t)
  BY DEF Open, Leftover
<1> QED BY <1>2, <1>3, <1>4 DEF KnowsCard, GoneOn, rows, Got, Open, Leftover, Live, Root

\* A close that goes on has read the mission, then the landings.
LEMMA GoneOnClose ==
  ASSUME NEW s, MayGoOn(s), GoneOn(s), KnowsClose(s)
  PROVE  KnowsClose(s)'
<1> SUFFICES ASSUME tx[s].op = "close" PROVE KnowsClose(s)'
  BY DEF KnowsClose, GoneOn
<1> DEFINE x == tx[s]
<1>1. x.at \in 1..3 /\ Steps("close") = 3
  BY StepsOf DEF MayGoOn
<1>2. x.at = 1 => mission = "active"
  BY DecidesOf DEF MayGoOn, If
<1>3. ASSUME x.at = 2 PROVE ~Holds(x.on = "late")
  BY <1>3, DecidesOf DEF MayGoOn, If
<1>4. ASSUME x.at = 2 PROVE \A t \in Tasks : Lands(t) => landing[t] # "main"
  BY <1>3, <1>4 DEF Holds
<1>5. ASSUME Unclaimed \cap Work # {}, x.at > 1 PROVE Has(s, 3, Stream, "alone")'
  <2>1. CASE x.at = 2
    <3>1. tx'[s].need = Statements("close", x.on)[3] /\ tx'[s].at = 3
      BY <1>1, <2>1 DEF GoneOn
    <3>2. Names(Statements("close", x.on)[3], Stream, "alone")
      BY <1>5, StreamNamed
    <3>3. Wants(s, Stream, "alone")'
      BY <3>1, <3>2 DEF Names, Wants
    <3> QED BY <3>1, <3>3 DEF Has
  <2>2. CASE x.at = 3
    <3>1. Has(s, 3, Stream, "alone") /\ 3 <= x.at /\ 3 \in Nat
      BY <1>5, <2>2 DEF KnowsClose
    <3> QED BY <3>1, GoneOnHas
  <2> QED BY <1>1, <1>5, <2>1, <2>2
<1>6. x.at > 2 => \A t \in Tasks : Lands(t) => landing[t] # "main"
  BY DEF KnowsClose
<1>7. tx'[s].op = x.op /\ tx'[s].at = x.at + 1
      /\ task' = task /\ mission' = mission /\ landing' = landing /\ reworked' = reworked
      /\ Unclaimed' = Unclaimed /\ \A t : Root(t)' = Root(t) /\ Lands(t)' = Lands(t)
  BY DEF GoneOn, rows, Unclaimed, Root, Lands
<1>8. (\A t \in Work \ reworked : Root(t) => task[t] \in Ended) /\ (x.at > 1 => mission = "active")
  BY DEF KnowsClose
<1>9. x.at > 1 => x.at = 2 \/ x.at > 2
  BY <1>1
<1> HIDE DEF x
<1> QED BY <1>1, <1>2, <1>4, <1>5, <1>6, <1>7, <1>8, <1>9 DEF KnowsClose

\* A transaction that does not leave goes on to its next statement, or to its commit.
LEMMA GoneOnRight ==
  ASSUME MissionInv, NEW s \in Sessions, MayGoOn(s), GoneOn(s),
         tx'[s] = Further(tx[s], tx[s].at + 1, tx'[s].need, tx[s].held, Decides(tx[s])),
         tx[s].at = Steps(tx[s].op) => tx'[s].need = <<>>
  PROVE  TxTyped(s)' /\ HasLocks(s)' /\ Knows(s)'
<1> DEFINE op == tx[s].op
           t == tx[s].on
<1>1. RowsTyped /\ TxTyped(s) /\ HasLocks(s) /\ Knows(s)
  BY DEF MissionInv, RowsRight, TxsRight
<1>2. /\ op \in Kinds /\ About(op, t) /\ tx[s].at \in 1 .. Steps(op) /\ tx[s].need = <<>>
      /\ tx[s].says \in Says(op) /\ Decides(tx[s]) # Leave
  BY DEF MayGoOn
<1>3. Listed(op, t)
  BY <1>1, <1>2, StatementsListed
<1>4. Steps(op) \in 1..3
  BY <1>2, StepsOf DEF Kinds, LoopOps, OtherOps
<1>5. About(op, t)' = About(op, t) /\ Asked(op, t)' = Asked(op, t)
  BY DEF GoneOn, rows, About, Root, Lands, Asked
<1>6. /\ tx'[s].op = op /\ tx'[s].on = t /\ tx'[s].at = tx[s].at + 1 /\ tx'[s].held = tx[s].held
      /\ tx'[s].says = Decides(tx[s])
      /\ tx[s].at < Steps(op) => tx'[s].need = Statements(op, t)[tx[s].at + 1]
  BY DEF GoneOn
<1>7. TxTyped(s)'
  <2>1. tx'[s] = [op |-> tx'[s].op, on |-> tx'[s].on, at |-> tx'[s].at, need |-> tx'[s].need,
                  held |-> tx'[s].held, says |-> tx'[s].says]
    BY <1>6 DEF Further
  <2>2. tx'[s].says \in Says(op)
    BY <1>2, <1>6, DecidesSays
  <2>3. tx'[s].need \in Seq(Locks)
    <3>1. CASE tx[s].at < Steps(op)
      <4>1. tx[s].at + 1 \in 1 .. Steps(op)
        BY <1>2, <1>4, <3>1
      <4> QED BY <1>3, <1>6, <3>1, <4>1 DEF Listed
    <3>2. CASE tx[s].at = Steps(op)
      <4>1. tx'[s].need = <<>>
        BY <3>2
      <4> QED BY <4>1
    <3> QED BY <1>2, <1>4, <3>1, <3>2
  <2>4. tx'[s].at \in 1 .. Steps(op) + 1 /\ (tx'[s].at > Steps(op) => tx'[s].need = <<>>)
    <3>1. tx'[s].at > Steps(op) => tx[s].at = Steps(op)
      BY <1>2, <1>4, <1>6
    <3> QED BY <1>2, <1>4, <1>6, <3>1
  <2>5. tx'[s].held \subseteq AllRows \X Modes
    <3>1. tx[s] # Idle
      BY <1>2 DEF Idle, Kinds, LoopOps, OtherOps
    <3> QED BY <1>1, <1>6, <3>1 DEF TxTyped
  <2> QED BY <1>2, <1>5, <1>6, <2>1, <2>2, <2>3, <2>4, <2>5 DEF TxTyped
<1>8. HasLocks(s)'
  <2>1. ASSUME NEW k \in 1..3, NEW row \in Scopes, NEW mode \in Modes, <<k, row, mode>> \in Asked(op, t)
        PROVE  Has(s, k, row, mode)'
    <3>1. Has(s, k, row, mode)
      BY <1>1, <2>1 DEF HasLocks
    <3>2. k \in 1 .. Steps(op) /\ Names(Statements(op, t)[k], row, mode)
      BY <1>1, <1>2, <2>1, AskedNamed
    <3>3. CASE k <= tx[s].at
      <4>1. k \in Nat
        OBVIOUS
      <4> QED BY <3>1, <3>3, <4>1, GoneOnHas
    <3>4. CASE k = tx[s].at + 1
      <4>1. tx[s].at < Steps(op)
        BY <1>2, <1>4, <3>2, <3>4
      <4>2. tx'[s].need = Statements(op, t)[k]
        BY <1>6, <3>4, <4>1
      <4>3. Wants(s, row, mode)'
        BY <3>2, <4>2 DEF Names, Wants
      <4> QED BY <1>2, <1>6, <3>4, <4>3 DEF Has
    <3>5. CASE k > tx[s].at + 1
      BY <1>2, <1>6, <3>5 DEF Has
    <3> QED BY <1>2, <1>4, <3>3, <3>4, <3>5
  <2> QED BY <1>5, <1>6, <2>1 DEF HasLocks
<1>9. Knows(s)'
  BY <1>1, GoneOnClaim, GoneOnDispatch, GoneOnTask, GoneOnCard, GoneOnClose DEF Knows
<1> QED BY <1>7, <1>8, <1>9

\* A transaction that starts its next statement, or gives up, keeps the invariant.
LEMMA StepRight ==
  ASSUME MissionInv, NEW s \in Sessions, Step(s)
  PROVE  MissionInv'
<1> DEFINE x == tx[s]
           need == IF x.at < Length(x) THEN Statements(x.op, x.on)[x.at + 1] ELSE <<>>
           y == Further(x, x.at + 1, need, x.held, Decides(x))
<1>1. /\ x.op # "none" /\ x.need = <<>> /\ x.at <= Length(x) /\ UNCHANGED rows
      /\ tx' = [tx EXCEPT ![s] = IF Decides(x) = Leave THEN Idle ELSE y]
  BY DEF Step
<1>2. CASE Decides(x) = Leave
  <2>1. tx' = [tx EXCEPT ![s] = Idle]
    BY <1>1, <1>2
  <2> QED BY <1>1, <2>1, RefusedRight
<1>3. CASE Decides(x) # Leave
  <2>1. tx' = [tx EXCEPT ![s] = y] /\ tx = [u \in Sessions |-> tx[u]] /\ RowsTyped /\ TxTyped(s)
    BY <1>1, <1>3 DEF MissionInv, RowsRight, TxsRight
  <2>2. tx'[s] = y
    BY <2>1, TxSet
  <2>3. /\ x.op \in Kinds /\ About(x.op, x.on) /\ x.says \in Says(x.op) /\ x.at \in 1 .. Steps(x.op) + 1
    <3>1. x # Idle
      BY <1>1 DEF Idle
    <3> QED BY <2>1, <3>1 DEF TxTyped
  <2>4. Length(x) = Steps(x.op) /\ Steps(x.op) \in 1..3
    <3>1. Listed(x.op, x.on)
      BY <2>1, <2>3, StatementsListed
    <3>2. Steps(x.op) \in 1..3
      BY <2>3, StepsOf DEF Kinds, LoopOps, OtherOps
    <3> QED BY <3>1, <3>2 DEF Listed, Length
  <2>5. MayGoOn(s)
    BY <1>1, <1>3, <2>3, <2>4 DEF MayGoOn
  <2>6. tx'[s].op = x.op /\ tx'[s].on = x.on /\ tx'[s].at = x.at + 1 /\ tx'[s].held = x.held
        /\ tx'[s].says = Decides(x) /\ tx'[s].need = need
    BY <2>2 DEF Further
  <2>7. GoneOn(s)
    BY <1>1, <2>4, <2>6 DEF GoneOn
  <2>8. x.at = Steps(x.op) => tx'[s].need = <<>>
    BY <2>4, <2>6
  <2>9. tx'[s] = Further(x, x.at + 1, tx'[s].need, x.held, Decides(x))
    BY <2>2, <2>6
  <2>10. TxTyped(s)' /\ HasLocks(s)' /\ Knows(s)'
    BY <2>5, <2>7, <2>8, <2>9, GoneOnRight
  <2>11. \A row, mode : <<row, mode>> \in y.held => Got(s, row, mode)
    BY DEF Further, Got
  <2> HIDE DEF y
  <2> QED BY <1>1, <2>1, <2>10, <2>11, OwnStep
<1> QED BY <1>2, <1>3

-----------------------------------------------------------------------------
(* The commits.  First, what a session that is done holds and knows.       *)

\* What an earlier statement relies on is held.
LEMMA GotAsked ==
  ASSUME NEW u, HasLocks(u), NEW op, NEW t, tx[u].op = op, tx[u].on = t,
         NEW k \in 1..3, NEW row \in Scopes, NEW mode \in Modes, <<k, row, mode>> \in Asked(op, t), tx[u].at > k
  PROVE  Got(u, row, mode)
BY DEF HasLocks, Has

\* A transaction that runs is about rows there are.
LEMMA Running ==
  ASSUME MissionInv, NEW u \in Sessions, tx[u].op # "none"
  PROVE  /\ tx[u].op \in Kinds /\ About(tx[u].op, tx[u].on) /\ tx[u].says \in Says(tx[u].op)
         /\ tx[u].at \in 1 .. Steps(tx[u].op) + 1 /\ Steps(tx[u].op) \in 1..3
         /\ tx[u].op \notin {"stop", "depend", "close"} => tx[u].on \in Tasks /\ Task(tx[u].on) \in Scopes
         /\ tx[u].op = "stop" => tx[u].on \in Scopes
         /\ tx[u].op = "depend" => tx[u].on \in Edges /\ tx[u].on[1] \in Tasks /\ Task(tx[u].on[1]) \in Scopes
         /\ tx[u].op \in OnCheck => subject[tx[u].on] \in Tasks
<1>1. RowsTyped /\ TxTyped(u) /\ tx[u] # Idle
  BY DEF MissionInv, RowsRight, TxsRight, Idle
<1>2. /\ tx[u].op \in Kinds /\ About(tx[u].op, tx[u].on) /\ tx[u].says \in Says(tx[u].op)
      /\ tx[u].at \in 1 .. Steps(tx[u].op) + 1
  BY <1>1 DEF TxTyped
<1>3. Steps(tx[u].op) \in 1..3
  BY <1>2, StepsOf DEF Kinds, LoopOps, OtherOps
<1>4. /\ tx[u].op \notin {"stop", "depend", "close"} => tx[u].on \in Tasks
      /\ tx[u].op = "stop" => tx[u].on \in Scopes
      /\ tx[u].op = "depend" => tx[u].on \in Edges /\ tx[u].on[1] \in Tasks
      /\ tx[u].op \in OnCheck => subject[tx[u].on] \in Tasks
  BY <1>1, <1>2, AboutRows
<1>5. \A t \in Tasks : Task(t) \in Scopes
  BY DEF Scopes
<1> QED BY <1>2, <1>3, <1>4, <1>5

\* The locks of each kind, from the statement on that took them.
LEMMA LocksHeld ==
  ASSUME MissionInv, NEW u \in Sessions, NEW op, NEW t, NEW n, tx[u].op = op, tx[u].on = t, tx[u].at = n,
         op # "none"
  PROVE  /\ op = "claim" => /\ n > 1 => Got(u, Global, "share")
                            /\ n > 2 => Got(u, Task(t), "alone")
                            /\ n > 2 /\ subject[t] # None => Got(u, Task(subject[t]), "share")
                            /\ n > 3 => Got(u, Mission, "alone")
         /\ op = "stop" /\ n > 1 => Got(u, t, "alone")
         /\ op = "dispatch" => (n > 1 => Got(u, Task(t), "alone")) /\ (n > 3 => Got(u, Mission, "share"))
         /\ op = "depend" /\ n > 1 => Got(u, Task(t[1]), "alone")
         /\ op \in {"submit", "sweep", "verify", "salvage", "uncheck", "red", "decide"} /\ n > 1 => Got(u, Task(t), "alone")
         /\ op = "decide" /\ n > 1 => /\ Got(u, Mission, "share")
                                      /\ subject[t] # None => Got(u, Task(subject[t]), "alone")
         /\ op = "conclude" => (n > 1 => Got(u, Task(subject[t]), "alone")) /\ (n > 2 => Got(u, Task(t), "alone"))
         /\ op = "card" /\ n > 3 => Got(u, Mission, "alone")
         /\ op = "late" /\ n > 2 => Got(u, Task(t), "alone")
         /\ op = "close" /\ n > 1 => Got(u, Mission, "alone")
         /\ op = "push" /\ n > 1 => Got(u, Mission, "share")
<1>1. HasLocks(u) /\ RowsTyped
  BY DEF MissionInv, RowsRight, TxsRight
<1>2. /\ op \notin {"stop", "depend", "close"} => t \in Tasks /\ Task(t) \in Scopes
      /\ op = "stop" => t \in Scopes
      /\ op = "depend" => Task(t[1]) \in Scopes
      /\ op \in OnCheck => Task(subject[t]) \in Scopes
  BY Running DEF Scopes
<1>3. op \notin {"stop", "depend", "close"} /\ subject[t] # None => Task(subject[t]) \in Scopes
  BY <1>1, <1>2 DEF RowsTyped, Scopes
<1>4. Global \in Scopes /\ Mission \in Scopes /\ "share" \in Modes /\ "alone" \in Modes /\ {1, 2, 3} \subseteq 1..3
  BY DEF Scopes, Modes
<1>5. \A k \in 1..3, row \in Scopes, mode \in Modes : <<k, row, mode>> \in Asked(op, t) /\ n > k => Got(u, row, mode)
  BY <1>1, GotAsked
<1>6. /\ op = "claim" => /\ n > 1 => Got(u, Global, "share")
                         /\ n > 2 => Got(u, Task(t), "alone")
                         /\ n > 2 /\ subject[t] # None => Got(u, Task(subject[t]), "share")
                         /\ n > 3 => Got(u, Mission, "alone")
  <2> SUFFICES ASSUME op = "claim"
               PROVE  /\ n > 1 => Got(u, Global, "share")
                      /\ n > 2 => Got(u, Task(t), "alone")
                      /\ n > 2 /\ subject[t] # None => Got(u, Task(subject[t]), "share")
                      /\ n > 3 => Got(u, Mission, "alone")
    OBVIOUS
  <2>1. /\ <<1, Global, "share">> \in Asked(op, t) /\ <<2, Task(t), "alone">> \in Asked(op, t)
        /\ <<3, Mission, "alone">> \in Asked(op, t)
        /\ subject[t] # None => <<2, Task(subject[t]), "share">> \in Asked(op, t)
    BY DEF Asked
  <2> QED BY <1>2, <1>3, <1>4, <1>5, <2>1
<1>7. /\ op = "stop" => <<1, t, "alone">> \in Asked(op, t)
      /\ op = "dispatch" => <<1, Task(t), "alone">> \in Asked(op, t) /\ <<3, Mission, "share">> \in Asked(op, t)
      /\ op = "depend" => <<1, Task(t[1]), "alone">> \in Asked(op, t)
  BY DEF Asked
<1>8. /\ op \in {"submit", "sweep", "verify", "salvage", "uncheck", "red", "decide"} =>
           <<1, Task(t), "alone">> \in Asked(op, t)
      /\ op = "decide" => /\ <<1, Mission, "share">> \in Asked(op, t)
                          /\ subject[t] # None => <<1, Task(subject[t]), "alone">> \in Asked(op, t)
  BY DEF Asked
<1>9. /\ op = "conclude" => <<1, Task(subject[t]), "alone">> \in Asked(op, t) /\ <<2, Task(t), "alone">> \in Asked(op, t)
      /\ op = "card" => <<3, Mission, "alone">> \in Asked(op, t)
      /\ op = "late" => <<2, Task(t), "alone">> \in Asked(op, t)
      /\ op = "close" => <<1, Mission, "alone">> \in Asked(op, t)
      /\ op = "push" => <<1, Mission, "share">> \in Asked(op, t)
  BY DEF Asked
<1>10. /\ op = "stop" /\ n > 1 => Got(u, t, "alone")
       /\ op = "dispatch" => (n > 1 => Got(u, Task(t), "alone")) /\ (n > 3 => Got(u, Mission, "share"))
       /\ op = "depend" /\ n > 1 => Got(u, Task(t[1]), "alone")
  BY <1>2, <1>4, <1>5, <1>7
<1>11. /\ op \in {"submit", "sweep", "verify", "salvage", "uncheck", "red", "decide"} /\ n > 1 => Got(u, Task(t), "alone")
       /\ op = "decide" /\ n > 1 => /\ Got(u, Mission, "share")
                                    /\ subject[t] # None => Got(u, Task(subject[t]), "alone")
  BY <1>2, <1>3, <1>4, <1>5, <1>8
<1>12. /\ op = "conclude" => (n > 1 => Got(u, Task(subject[t]), "alone")) /\ (n > 2 => Got(u, Task(t), "alone"))
       /\ op = "card" /\ n > 3 => Got(u, Mission, "alone")
       /\ op = "late" /\ n > 2 => Got(u, Task(t), "alone")
       /\ op = "close" /\ n > 1 => Got(u, Mission, "alone")
       /\ op = "push" /\ n > 1 => Got(u, Mission, "share")
  BY <1>2, <1>4, <1>5, <1>9 DEF OnCheck
<1> QED BY <1>6, <1>10, <1>11, <1>12

-----------------------------------------------------------------------------
(* What a commit may write, under which lock.                              *)

\* A task it holds moves on: what has ended only when its landing CI was red, what may
\* run only towards its end or in an active mission.
Moves(s, t) ==
  /\ Got(s, Task(t), "alone") /\ task[t] # "absent" /\ task'[t] \in States \ {"absent"}
  /\ task[t] \in Ended => task[t] = "accepted" /\ Root(t) /\ task'[t] = "ready" /\ t \in reworked'
  /\ task[t] \in {"proposed", "ready"} /\ task'[t] \notin Ended =>
       mission = "active" /\ \E m \in Modes : Got(s, Mission, m)
  /\ task'[t] = "leased" => tx[s].op = "claim" /\ tx[s].on = t /\ tx[s].at > 3
  /\ task[t] = "proposed" /\ task'[t] = "ready" =>
       tx[s].op = "dispatch" /\ tx[s].on = t /\ tx[s].at > 3 /\ tx[s].says = "ready"

\* A check of work it holds is made ready.
Checked(s, t) ==
  /\ ~Root(t) /\ ~Open(t) /\ task'[t] = "ready"
  /\ Got(s, Task(subject[t]), "alone") /\ task[subject[t]] \in {"submitted", "ready", "leased"}

TaskWrites(s) ==
  /\ task' = [t \in Tasks |-> task'[t]]
  /\ \A t \in Tasks : \/ task'[t] = task[t]
                      \/ Root(t) /\ task[t] = "absent" /\ task'[t] = "proposed"
                      \/ Checked(s, t)
                      \/ Moves(s, t)

HoldWrites(s) ==
  /\ stops' \subseteq Stoppable /\ \A r \in stops' \ stops : r \in Scopes /\ Got(s, r, "alone")
  /\ deps \subseteq deps' /\ \A e \in deps' \ deps : e \in Edges /\ Root(e[2]) /\ Got(s, Task(e[1]), "alone")

MissionWrites(s) ==
  \/ mission' = mission /\ onCard' = onCard
  \/ /\ mission = "active" /\ Got(s, Mission, "alone") /\ mission' \in {"done", "stopped"}
     /\ \/ tx[s].op = "card" /\ onCard' = TRUE /\ \A t \in Tasks : Leftover(t)'
        \/ tx[s].op = "close" /\ onCard' = onCard /\ task' = task

LandingWrites(s) ==
  /\ landing' = [t \in Tasks |-> landing'[t]]
  /\ \A t \in Tasks : landing'[t] # landing[t] =>
       /\ Lands(t) /\ landing'[t] \in LandingStates \ {"none"}
       /\ landing'[t] = "main" => Got(s, Mission, "share")
  /\ reworked \subseteq reworked' /\ \A t \in reworked' \ reworked : t \in Tasks /\ landing'[t] # "none"

Writes(s) ==
  /\ subject' = subject
  /\ TaskWrites(s) /\ HoldWrites(s) /\ MissionWrites(s) /\ LandingWrites(s)

-----------------------------------------------------------------------------
(* What one session holds no other writes.                                 *)

\* A row locked alone by one session is locked by no other.
LEMMA Excluded ==
  ASSUME Exclusive, NEW s \in Sessions, NEW u \in Sessions, s # u, NEW row \in AllRows, NEW mode \in Modes,
         Got(u, row, mode)
  PROVE  /\ ~Got(s, row, "alone")
         /\ mode = "alone" => \A m \in Modes : ~Got(s, row, m)
<1>1. mode = "alone" \/ mode = "share"
  BY DEF Modes
<1> QED BY <1>1 DEF Exclusive

\* A task that another session holds is not written,
LEMMA HeldTask ==
  ASSUME MissionInv, NEW s \in Sessions, NEW u \in Sessions, s # u, Writes(s),
         NEW t \in Tasks, NEW mode \in Modes, Got(u, Task(t), mode),
         Open(t) \/ (Root(t) /\ task[t] # "absent")
  PROVE  task'[t] = task[t]
<1>1. ~Got(s, Task(t), "alone")
  BY Excluded, LocksTyped DEF MissionInv, TxsRight
<1> QED BY <1>1 DEF Writes, TaskWrites, Moves, Checked, Open

\* nor is a mission,
LEMMA HeldMission ==
  ASSUME MissionInv, NEW s \in Sessions, NEW u \in Sessions, s # u, Writes(s),
         NEW mode \in Modes, Got(u, Mission, mode)
  PROVE  mission' = mission /\ onCard' = onCard
<1>1. ~Got(s, Mission, "alone")
  BY Excluded, LocksTyped DEF MissionInv, TxsRight
<1> QED BY <1>1 DEF Writes, MissionWrites

\* nor a stop,
LEMMA HeldStop ==
  ASSUME MissionInv, NEW s \in Sessions, NEW u \in Sessions, s # u, Writes(s),
         NEW r, NEW mode \in Modes, Got(u, r, mode), r \in stops'
  PROVE  r \in stops
<1>1. ASSUME r \in Scopes PROVE ~Got(s, r, "alone")
  BY <1>1, Excluded DEF MissionInv, TxsRight, AllRows
<1> QED BY <1>1 DEF Writes, HoldWrites

\* nor what a task waits for.
LEMMA HeldWaited ==
  ASSUME MissionInv, NEW s \in Sessions, NEW u \in Sessions, s # u, Writes(s),
         NEW t \in Tasks, NEW mode \in Modes, Got(u, Task(t), mode)
  PROVE  Waited(t)' = Waited(t)
<1>1. ~Got(s, Task(t), "alone")
  BY Excluded, LocksTyped DEF MissionInv, TxsRight
<1>2. \A e : e[1] = t => (e \in deps' <=> e \in deps)
  BY <1>1 DEF Writes, HoldWrites
<1> QED BY <1>2 DEF Waited

\* What a session knows stands whatever another commits.
LEMMA ClaimStands ==
  ASSUME MissionInv, NEW s \in Sessions, NEW u \in Sessions, s # u, Writes(s), tx'[u] = tx[u]
  PROVE  KnowsClaim(u)'
<1> SUFFICES ASSUME tx[u].op = "claim" PROVE KnowsClaim(u)'
  BY DEF KnowsClaim
<1> DEFINE t == tx[u].on
           n == tx[u].at
<1>1. KnowsClaim(u) /\ RowsTyped /\ subject' = subject
  BY DEF MissionInv, RowsRight, TxsRight, Knows, Writes
<1>2. t \in Tasks /\ n \in Nat
  BY Running
<1>3. /\ n > 1 => Got(u, Global, "share")
      /\ n > 2 => Got(u, Task(t), "alone")
      /\ n > 2 /\ subject[t] # None => Got(u, Task(subject[t]), "share")
      /\ n > 3 => Got(u, Mission, "alone")
  BY LocksHeld
<1>4. "share" \in Modes /\ "alone" \in Modes
  BY DEF Modes
<1>5. n > 1 => Global \notin stops'
  BY <1>1, <1>3, <1>4, HeldStop DEF KnowsClaim
<1>6. n > 2 => task'[t] = "ready"
  <2>1. n > 2 => task[t] = "ready"
    BY <1>1 DEF KnowsClaim
  <2>2. n > 2 => Open(t)
    BY <2>1 DEF Open, Ended
  <2> QED BY <1>2, <1>3, <1>4, <2>1, <2>2, HeldTask
<1>7. ASSUME n > 3 PROVE mission' = "active" /\ ~Stopped(t)'
  <2>1. mission = "active" /\ ~Stopped(t)
    BY <1>1, <1>7 DEF KnowsClaim
  <2>2. mission' = mission
    BY <1>3, <1>4, <1>7, HeldMission
  <2>3. n > 2
    BY <1>2, <1>7
  <2>4. ASSUME Stopped(t)' PROVE FALSE
    <3>1. PICK r \in stops' : r \in {Mission, Task(t)} \cup {Task(x) : x \in {subject[t]} \ {None}}
      BY <1>1, <2>4 DEF Stopped
    <3>2. r \in stops
      BY <1>3, <1>4, <1>7, <2>3, <3>1, HeldStop
    <3> QED BY <2>1, <3>1, <3>2 DEF Stopped
  <2> QED BY <2>1, <2>2, <2>4
<1> QED BY <1>5, <1>6, <1>7 DEF KnowsClaim

\* A commit of one session leaves what another's dispatch knows;
LEMMA DispatchStands ==
  ASSUME MissionInv, NEW s \in Sessions, NEW u \in Sessions, s # u, Writes(s), tx'[u] = tx[u]
  PROVE  KnowsDispatch(u)'
<1> SUFFICES ASSUME tx[u].op = "dispatch" PROVE KnowsDispatch(u)'
  BY DEF KnowsDispatch
<1> DEFINE t == tx[u].on
           n == tx[u].at
<1>1. KnowsDispatch(u) /\ RowsTyped
  BY DEF MissionInv, RowsRight, TxsRight, Knows
<1>2. t \in Tasks /\ n \in 1..4
  BY Running, StepsOf
<1>3. (n > 1 => Got(u, Task(t), "alone")) /\ (n > 3 => Got(u, Mission, "share"))
  BY LocksHeld
<1>4. "share" \in Modes /\ "alone" \in Modes
  BY DEF Modes
<1>5. ASSUME n > 1
      PROVE  /\ task'[t] = "proposed" /\ Waited(t)' = Waited(t)
             /\ \A d \in Waited(t) : Has(u, 2, Task(d), "share")'
  <2>1. task[t] = "proposed" /\ \A d \in Waited(t) : Has(u, 2, Task(d), "share")
    BY <1>1, <1>5 DEF KnowsDispatch
  <2>2. Open(t)
    BY <2>1 DEF Open, Ended
  <2>3. task'[t] = task[t]
    BY <1>2, <1>3, <1>4, <1>5, <2>2, HeldTask
  <2>4. Waited(t)' = Waited(t)
    BY <1>2, <1>3, <1>4, <1>5, HeldWaited
  <2>5. \A d : Has(u, 2, Task(d), "share") => Has(u, 2, Task(d), "share")'
    BY DEF Has, Got, Wants
  <2> QED BY <2>1, <2>3, <2>4, <2>5
<1>6. ASSUME n > 2, tx[u].says = "ready", NEW d \in Waited(t) PROVE task'[d] = "accepted"
  <2>1. task[d] = "accepted" /\ Has(u, 2, Task(d), "share") /\ n > 1
    BY <1>1, <1>2, <1>6 DEF KnowsDispatch
  <2>2. Got(u, Task(d), "share")
    BY <1>6, <2>1 DEF Has
  <2>3. d \in Tasks /\ Root(d)
    BY <1>1, MissionConstants DEF Waited, RowsTyped
  <2>4. task'[d] = task[d]
    BY <1>4, <2>1, <2>2, <2>3, HeldTask
  <2> QED BY <2>1, <2>4
<1>7. n > 3 => mission' = "active"
  BY <1>1, <1>3, <1>4, HeldMission DEF KnowsDispatch
<1>8. n > 2 => n > 1
  BY <1>2
<1>9. /\ n > 2 => tx[u].says # "go"
      /\ n > 3 => tx[u].says \in {"ready", "blocked"}
  BY <1>1 DEF KnowsDispatch
<1> QED BY <1>5, <1>6, <1>7, <1>8, <1>9 DEF KnowsDispatch

\* what one on a task knows;
LEMMA TaskStands ==
  ASSUME MissionInv, NEW s \in Sessions, NEW u \in Sessions, s # u, Writes(s), tx'[u] = tx[u]
  PROVE  KnowsTask(u)'
<1> DEFINE x == tx[u]
           t == tx[u].on
           n == tx[u].at
<1>1. KnowsTask(u) /\ RowsTyped /\ subject' = subject
  BY DEF MissionInv, RowsRight, TxsRight, Knows, Writes
<1>2. "share" \in Modes /\ "alone" \in Modes
  BY DEF Modes
<1>3. ASSUME x.op \in {"submit", "sweep", "verify", "salvage", "decide", "uncheck"}, n > 1
      PROVE  task'[t] \in Suits(x.op)
  <2>1. t \in Tasks /\ Got(u, Task(t), "alone")
    BY <1>3, Running, LocksHeld
  <2>2. task[t] \in Suits(x.op)
    BY <1>1, <1>3 DEF KnowsTask
  <2>3. Open(t)
    BY <1>3, <2>2 DEF Suits, Open, Ended
  <2>4. task'[t] = task[t]
    BY <1>2, <2>1, <2>3, HeldTask
  <2> QED BY <2>2, <2>4
<1>4. ASSUME x.op = "salvage", n > 1, NEW v \in Tasks, subject'[v] = t PROVE task'[v] \in Ended \cup {"absent"}
  <2>1. t \in Tasks /\ Got(u, Task(t), "alone")
    BY <1>4, Running, LocksHeld
  <2>2. task[v] \in Ended \cup {"absent"} /\ ~Root(v)
    <3>1. v \in Checks(t)
      BY <1>1, <1>4 DEF Checks
    <3>2. ~Open(v)
      BY <1>1, <1>4, <3>1 DEF KnowsTask
    <3> QED BY <1>1, <1>4, <2>1, <3>2, MissionConstants DEF Open, Root
  <2>3. ~Got(s, Task(t), "alone")
    BY <1>2, <2>1, Excluded, LocksTyped DEF MissionInv, TxsRight
  <2>4. ~Checked(s, v)
    BY <1>1, <1>4, <2>3 DEF Checked
  <2>5. Moves(s, v) => FALSE
    BY <2>2 DEF Moves
  <2> QED BY <2>2, <2>4, <2>5 DEF Writes, TaskWrites
<1>5. ASSUME x.op = "decide", n > 1 PROVE mission' = "active"
  <2>1. Got(u, Mission, "share") /\ mission = "active"
    BY <1>1, <1>5, LocksHeld DEF KnowsTask
  <2> QED BY <1>2, <2>1, HeldMission
<1>6. ASSUME x.op = "conclude", n > 2 PROVE task'[t] = "submitted"
  <2>1. t \in Tasks /\ Got(u, Task(t), "alone") /\ task[t] = "submitted"
    BY <1>1, <1>6, Running, LocksHeld DEF KnowsTask
  <2>2. Open(t)
    BY <2>1 DEF Open, Ended
  <2> QED BY <1>2, <2>1, <2>2, HeldTask
<1>7. ASSUME x.op = "late", n > 2 PROVE task'[t] \notin Ended \cup {"absent"}
  <2>1. t \in Tasks /\ Got(u, Task(t), "alone") /\ Open(t)
    BY <1>1, <1>7, Running, LocksHeld DEF KnowsTask
  <2>2. task'[t] = task[t]
    BY <1>2, <2>1, HeldTask
  <2> QED BY <2>1, <2>2 DEF Open
<1>8. ASSUME x.op = "red", n > 1, x.says = "rework" PROVE task'[t] = "accepted"
  <2>1. t \in Tasks /\ Got(u, Task(t), "alone") /\ task[t] = "accepted"
    BY <1>1, <1>8, Running, LocksHeld DEF KnowsTask
  <2>2. Root(t)
    <3>1. About("red", t)
      BY <1>8, Running
    <3> QED BY <3>1 DEF About, OnRoot, OnCheck, Lands
  <2> QED BY <1>2, <2>1, <2>2, HeldTask
<1>9. KnowsTask(u)' <=>
         LET z == tx'[u] IN
         /\ z.op \in {"submit", "sweep", "verify", "salvage", "decide", "uncheck"} /\ z.at > 1 =>
              task'[z.on] \in Suits(z.op)
         /\ z.op = "salvage" /\ z.at > 1 => \A v \in Tasks : subject'[v] = z.on => task'[v] \in Ended \cup {"absent"}
         /\ z.op = "decide" /\ z.at > 1 => mission' = "active"
         /\ z.op = "conclude" /\ z.at > 2 => task'[z.on] = "submitted"
         /\ z.op = "late" /\ z.at > 2 => task'[z.on] \notin Ended \cup {"absent"}
         /\ z.op = "red" /\ z.at > 1 /\ z.says = "rework" => task'[z.on] = "accepted"
  BY DEF KnowsTask, Checks, Open, Ended
<1> QED BY <1>3, <1>4, <1>5, <1>6, <1>7, <1>8, <1>9

\* What is left over after a card's close stays so, but for what its lock protects.
LEMMA LeftoverStands ==
  ASSUME MissionInv, NEW s \in Sessions, Writes(s), NEW t \in Tasks, Leftover(t),
         ~Root(t) => Leftover(subject[t]),
         mission # "active" \/ \A m \in Modes : ~Got(s, Mission, m)
  PROVE  Leftover(t)'
<1>1. RowsTyped /\ subject' = subject /\ reworked \subseteq reworked'
  BY DEF MissionInv, RowsRight, Writes, LandingWrites
<1>2. CASE task'[t] = task[t]
  BY <1>1, <1>2 DEF Leftover, Root
<1>3. CASE task'[t] = "proposed"
  BY <1>3 DEF Leftover
<1>4. CASE Checked(s, t)
  <2>1. subject[t] \in Tasks /\ Root(subject[t])
    BY <1>1, <1>4 DEF Checked, RowsTyped, Root
  <2>2. Leftover(subject[t]) /\ task[subject[t]] \in {"submitted", "ready", "leased"}
    BY <1>4 DEF Checked
  <2>3. subject[t] \in reworked
    BY <2>1, <2>2 DEF Leftover, Ended
  <2> QED BY <1>1, <1>4, <2>3 DEF Leftover, Checked, Root
<1>5. CASE Moves(s, t)
  <2>1. CASE task[t] \in Ended
    BY <1>1, <1>5, <2>1 DEF Moves, Leftover
  <2>2. CASE task[t] \in {"proposed", "ready"}
    BY <1>5, <2>2 DEF Moves, Leftover, Ended
  <2> QED BY <1>5, <2>1, <2>2 DEF Moves, Leftover
<1> QED BY <1>2, <1>3, <1>4, <1>5 DEF Writes, TaskWrites

\* what an answer on a card knows;
LEMMA CardStands ==
  ASSUME MissionInv, NEW s \in Sessions, NEW u \in Sessions, s # u, Writes(s), tx'[u] = tx[u]
  PROVE  KnowsCard(u)'
<1> SUFFICES ASSUME tx[u].op = "card", tx[u].at > 3 PROVE KnowsCard(u)'
  BY DEF KnowsCard
<1>1. RowsTyped /\ subject' = subject
  BY DEF MissionInv, RowsRight, Writes
<1>2. /\ mission = "active"
      /\ \A t \in Tasks : Got(u, Task(t), "alone") => Open(t)
      /\ \A t \in Tasks : Got(u, Task(t), "alone") \/ Leftover(t)
      /\ \A t \in Live : Got(u, Attempt(t), "alone")
  BY DEF MissionInv, TxsRight, Knows, KnowsCard
<1>3. Got(u, Mission, "alone") /\ "alone" \in Modes
  BY LocksHeld DEF Modes
<1>4. mission' = mission /\ \A m \in Modes : ~Got(s, Mission, m)
  BY <1>3, HeldMission, Excluded, LocksTyped DEF MissionInv, TxsRight
<1>5. \A t \in Tasks : Got(u, Task(t), "alone") => task'[t] = task[t]
  BY <1>2, <1>3, HeldTask
<1>6. ASSUME NEW t \in Tasks, ~Got(u, Task(t), "alone") PROVE Leftover(t)'
  <2>1. CASE Root(t)
    BY <1>2, <1>4, <1>6, <2>1, LeftoverStands
  <2>2. CASE ~Root(t) /\ ~Got(u, Task(subject[t]), "alone")
    <3>1. subject[t] \in Tasks
      BY <1>1, <2>2 DEF RowsTyped, Root
    <3> QED BY <1>2, <1>4, <1>6, <2>2, <3>1, LeftoverStands
  <2>3. CASE ~Root(t) /\ Got(u, Task(subject[t]), "alone")
    <3>1. subject[t] \in Tasks
      BY <1>1, <2>3 DEF RowsTyped, Root
    <3>2. ~Checked(s, t)
      <4>1. ~Got(s, Task(subject[t]), "alone")
        BY <1>3, <2>3, <3>1, Excluded, LocksTyped DEF MissionInv, TxsRight
      <4> QED BY <4>1 DEF Checked
    <3>3. CASE task'[t] = task[t]
      <4>1. reworked \subseteq reworked'
        BY DEF Writes, LandingWrites
      <4> QED BY <1>1, <1>2, <1>6, <3>3, <4>1 DEF Leftover, Root
    <3>4. CASE Moves(s, t)
      <4>1. Leftover(t) /\ reworked \subseteq reworked' /\ task'[t] \in States \ {"absent"}
        BY <1>2, <1>6, <3>4 DEF Writes, LandingWrites, Moves
      <4>2. task[t] \notin Ended
        BY <2>3, <3>4 DEF Moves
      <4>3. task[t] \in {"proposed", "ready"}
        BY <3>4, <4>1, <4>2 DEF Leftover, Moves
      <4>4. task'[t] \in Ended
        BY <1>4, <3>4, <4>3 DEF Moves
      <4> QED BY <4>4 DEF Leftover
    <3> QED BY <2>3, <3>2, <3>3, <3>4 DEF Writes, TaskWrites
  <2> QED BY <2>1, <2>2, <2>3
<1>7. \A t \in Live' : t \in Live
  <2>1. ASSUME NEW t \in Tasks, task'[t] = "leased", task[t] # "leased" PROVE FALSE
    <3>1. tx[s].op = "claim" /\ tx[s].on = t
      BY <2>1 DEF Writes, TaskWrites, Moves, Checked
    <3>2. Got(s, Task(t), "alone")
      BY <2>1 DEF Writes, TaskWrites, Moves, Checked
    <3>3. task[t] \in {"proposed", "ready"} => FALSE
      BY <1>4, <2>1 DEF Writes, TaskWrites, Moves, Checked, Ended
    <3>4. ~Got(u, Task(t), "alone")
      BY <1>3, <1>5, <2>1
    <3> QED BY <1>2, <2>1, <3>3, <3>4 DEF Leftover, Writes, TaskWrites, Moves, Checked
  <2> QED BY <2>1 DEF Live
<1>8. \A t \in Tasks : Got(u, Task(t), "alone") => Open(t)'
  BY <1>2, <1>5 DEF Open
<1> QED BY <1>2, <1>4, <1>6, <1>7, <1>8 DEF KnowsCard, Got

\* Nothing that had ended opens again unsent, and nothing ends as accepted unseen.
LEMMA EndedStands ==
  ASSUME NEW s, Writes(s), NEW t \in Tasks, Root(t), task[t] \in Ended
  PROVE  task'[t] = task[t] \/ t \in reworked'
BY DEF Writes, TaskWrites, Checked, Moves, Ended

\* What has no landing record after a commit had none before.
LEMMA UnclaimedStands ==
  ASSUME NEW s, Writes(s), LandingsLand, NEW t \in Tasks, t \in Unclaimed', task[t] \in Ended \/ t \in reworked,
         Root(t)
  PROVE  t \in Unclaimed
<1>1. Lands(t) /\ task'[t] = "accepted" /\ landing'[t] = "none"
  BY DEF Unclaimed, Lands, Root, Writes
<1>2. landing[t] = "none"
  BY <1>1 DEF Writes, LandingWrites
<1>3. t \notin reworked
  BY <1>2 DEF LandingsLand
<1>4. t \notin reworked'
  BY <1>1, <1>3 DEF Writes, LandingWrites
<1> QED BY <1>1, <1>2, <1>3, <1>4, EndedStands DEF Unclaimed

\* what a close knows.
LEMMA CloseStands ==
  ASSUME MissionInv, NEW s \in Sessions, NEW u \in Sessions, s # u, Writes(s), tx'[u] = tx[u]
  PROVE  KnowsClose(u)'
<1> SUFFICES ASSUME tx[u].op = "close" PROVE KnowsClose(u)'
  BY DEF KnowsClose
<1> DEFINE n == tx[u].at
<1>1. KnowsClose(u) /\ LandingsLand /\ n \in Nat /\ subject' = subject /\ reworked \subseteq reworked'
  BY Running DEF MissionInv, RowsRight, TxsRight, Knows, Writes, LandingWrites
<1>2. \A t \in Work \ reworked' : Root(t)' => task'[t] \in Ended
  <2>1. ASSUME NEW t \in Work \ reworked', Root(t) PROVE task'[t] \in Ended
    <3>1. t \in Tasks /\ task[t] \in Ended
      BY <1>1, <2>1, MissionConstants DEF KnowsClose
    <3> QED BY <2>1, <3>1, EndedStands
  <2> QED BY <1>1, <2>1 DEF Root
<1>3. n > 1 => Got(u, Mission, "alone") /\ "alone" \in Modes /\ "share" \in Modes
  BY LocksHeld DEF Modes
<1>4. n > 1 => mission' = "active" /\ ~Got(s, Mission, "share")
  BY <1>1, <1>3, HeldMission, Excluded, LocksTyped DEF KnowsClose, MissionInv, TxsRight
<1>5. ASSUME n > 2, NEW t \in Tasks, Lands(t) PROVE landing'[t] # "main"
  <2>1. landing[t] # "main" /\ n > 1
    BY <1>1, <1>5 DEF KnowsClose
  <2> QED BY <1>4, <2>1 DEF Writes, LandingWrites
<1>6. ASSUME n > 2, Unclaimed' \cap Work # {} PROVE Has(u, 3, Stream, "alone")'
  <2>1. PICK t \in Work : t \in Unclaimed'
    BY <1>6
  <2>2. t \in Tasks /\ Root(t)
    BY <1>1, <2>1, MissionConstants DEF Unclaimed, Lands, Root
  <2>3. task[t] \in Ended \/ t \in reworked
    BY <1>1, <2>1, <2>2 DEF KnowsClose
  <2>4. t \in Unclaimed
    BY <1>1, <2>1, <2>2, <2>3, UnclaimedStands
  <2>5. Has(u, 3, Stream, "alone")
    BY <1>1, <1>6, <2>1, <2>4 DEF KnowsClose
  <2> QED BY <2>5 DEF Has, Got, Wants
<1>7. \A t \in Tasks : Lands(t)' <=> Lands(t)
  BY <1>1 DEF Lands, Root
<1>8. tx'[u].op = "close" /\ tx'[u].at = n
  OBVIOUS
<1>9. n > 2 => \A t \in Tasks : Lands(t)' => landing'[t] # "main"
  BY <1>5, <1>7
<1> QED BY <1>2, <1>4, <1>6, <1>8, <1>9 DEF KnowsClose

\* A commit of one session leaves another's transaction as right as it was.
LEMMA KnownStands ==
  ASSUME MissionInv, NEW s \in Sessions, NEW u \in Sessions, s # u, Writes(s), tx'[u] = tx[u]
  PROVE  TxTyped(u)' /\ HasLocks(u)' /\ Knows(u)'
<1>1. TxTyped(u) /\ HasLocks(u) /\ subject' = subject
  BY DEF MissionInv, TxsRight, Writes
<1>2. Knows(u)'
  BY ClaimStands, DispatchStands, TaskStands, CardStands, CloseStands DEF Knows
<1> QED BY <1>1, <1>2, QuietTyped, QuietLocks

\* The rows are right after a commit.
LEMMA WritesRows ==
  ASSUME MissionInv, NEW s \in Sessions, Writes(s)
  PROVE  RowsRight'
<1>1. RowsTyped /\ LandingsLand /\ WorkThere /\ AfterCard /\ DoneButForRework /\ Knows(s)
  BY DEF MissionInv, RowsRight, TxsRight
<1>2. subject' = subject /\ TaskWrites(s) /\ HoldWrites(s) /\ MissionWrites(s) /\ LandingWrites(s)
  BY DEF Writes
<1>3. RowsTyped'
  <2>1. task' \in [Tasks -> States]
    <3>1. \A t \in Tasks : task'[t] \in States
      BY <1>1, <1>2 DEF TaskWrites, Checked, Moves, RowsTyped, States
    <3> QED BY <1>2, <3>1 DEF TaskWrites
  <2>2. landing' \in [Tasks -> LandingStates]
    <3>1. \A t \in Tasks : landing'[t] \in LandingStates
      BY <1>1, <1>2 DEF LandingWrites, RowsTyped
    <3> QED BY <1>2, <3>1 DEF LandingWrites
  <2>3. mission' \in {"active", "done", "stopped"} /\ onCard' \in BOOLEAN
    BY <1>1, <1>2 DEF MissionWrites, RowsTyped
  <2>4. stops' \subseteq Stoppable
    BY <1>1, <1>2 DEF HoldWrites, RowsTyped
  <2>5. deps' \subseteq Edges /\ \A e \in deps' : Root(e[2])'
    <3>1. \A e \in deps' : e \in Edges /\ Root(e[2])
      BY <1>1, <1>2 DEF HoldWrites, RowsTyped
    <3> QED BY <1>2, <3>1 DEF Root
  <2>6. reworked' \subseteq Tasks
    BY <1>1, <1>2 DEF LandingWrites, RowsTyped
  <2> QED BY <1>1, <1>2, <2>1, <2>2, <2>3, <2>4, <2>5, <2>6 DEF RowsTyped
<1>4. LandingsLand'
  <2>1. \A t \in Tasks : landing'[t] # "none" => Lands(t)
    BY <1>1, <1>2 DEF LandingsLand, LandingWrites
  <2>2. \A t \in reworked' : landing'[t] # "none"
    BY <1>1, <1>2 DEF LandingsLand, LandingWrites, RowsTyped
  <2> QED BY <1>2, <2>1, <2>2 DEF LandingsLand, Lands, Root
<1>5. WorkThere'
  <2>1. \A t \in Tasks : task[t] # "absent" => task'[t] # "absent"
    BY <1>2 DEF TaskWrites, Checked, Moves
  <2> QED BY <1>1, <1>2, <2>1, MissionConstants DEF WorkThere, Root
<1>6. AfterCard'
  <2>1. CASE mission' = mission /\ onCard' = onCard
    <3>1. ASSUME onCard PROVE mission # "active" /\ \A t \in Tasks : Leftover(t)'
      <4>1. mission # "active" /\ \A t \in Tasks : Leftover(t)
        BY <1>1, <3>1 DEF AfterCard
      <4>2. \A t \in Tasks : ~Root(t) => Leftover(subject[t])
        BY <1>1, <4>1 DEF RowsTyped, Root
      <4> QED BY <4>1, <4>2, LeftoverStands
    <3> QED BY <2>1, <3>1 DEF AfterCard
  <2>2. CASE mission = "active" /\ mission' \in {"done", "stopped"} /\ onCard' = TRUE
             /\ \A t \in Tasks : Leftover(t)'
    BY <2>2 DEF AfterCard
  <2>3. CASE mission = "active" /\ onCard' = onCard
    BY <1>1, <2>3 DEF AfterCard
  <2> QED BY <1>2, <2>1, <2>2, <2>3 DEF MissionWrites
<1>7. DoneButForRework'
  <2> SUFFICES ASSUME mission' # "active", ~onCard', NEW t \in Work \ reworked', Root(t)
               PROVE  task'[t] \in Ended
    BY <1>2 DEF DoneButForRework, Root
  <2>1. t \in Tasks /\ t \notin reworked
    BY <1>2, MissionConstants DEF LandingWrites
  <2>2. task[t] \in Ended
    <3>1. CASE mission' = mission /\ onCard' = onCard
      BY <1>1, <2>1, <3>1 DEF DoneButForRework
    <3>2. CASE tx[s].op = "close"
      BY <1>1, <2>1, <3>2 DEF Knows, KnowsClose
    <3> QED BY <1>2, <3>1, <3>2 DEF MissionWrites
  <2> QED BY <2>1, <2>2, EndedStands
<1> QED BY <1>3, <1>4, <1>5, <1>6, <1>7 DEF RowsRight

\* A commit that writes under its locks keeps the invariant.
LEMMA CommitRight ==
  ASSUME MissionInv, NEW s \in Sessions, Writes(s), tx' = [tx EXCEPT ![s] = Idle]
  PROVE  MissionInv'
<1>1. tx' = [u \in Sessions |-> tx'[u]] /\ tx'[s] = Idle /\ \A u \in Sessions : u # s => tx'[u] = tx[u]
  BY TxSet DEF MissionInv
<1>2. \A u \in Sessions : TxTyped(u)' /\ HasLocks(u)' /\ Knows(u)'
  <2> TAKE u \in Sessions
  <2>1. CASE u = s
    BY <1>1, <2>1, IdleRight
  <2>2. CASE u # s
    BY <1>1, <2>2, KnownStands
  <2> QED BY <2>1, <2>2
<1>3. Exclusive'
  <2>1. \A row, mode : ~Got(s, row, mode)'
    BY <1>1 DEF Got, Idle
  <2>2. \A u \in Sessions : u # s => \A row, mode : Got(u, row, mode)' <=> Got(u, row, mode)
    BY <1>1 DEF Got
  <2>3. Exclusive
    BY DEF MissionInv, TxsRight
  <2> QED BY <2>1, <2>2, <2>3 DEF Exclusive
<1> QED BY <1>1, <1>2, <1>3, WritesRows DEF MissionInv, TxsRight

-----------------------------------------------------------------------------
(* Each commit writes under its locks.                                     *)

\* What a session that commits holds, knows and leaves.
LEMMA Committed ==
  ASSUME MissionInv, NEW s \in Sessions, NEW op \in Kinds, Commits(s, op)
  PROVE  /\ tx[s].op = op /\ tx[s].at = Steps(op) + 1 /\ Steps(op) \in 1..3 /\ About(op, tx[s].on)
         /\ tx[s].says \in Says(op)
         /\ op \notin {"stop", "depend", "close"} => tx[s].on \in Tasks
         /\ op = "stop" => tx[s].on \in Scopes
         /\ op = "depend" => tx[s].on \in Edges
         /\ op \in OnCheck => subject[tx[s].on] \in Tasks
         /\ tx' = [tx EXCEPT ![s] = Idle] /\ subject' = subject
         /\ Knows(s) /\ RowsTyped /\ LandingsLand
<1>1. tx[s].op = op /\ tx[s].at > Length(tx[s]) /\ tx' = [tx EXCEPT ![s] = Idle] /\ subject' = subject
  BY DEF Commits, AtCommit
<1>2. op # "none" /\ RowsTyped /\ LandingsLand /\ Knows(s)
  BY DEF Kinds, LoopOps, OtherOps, MissionInv, RowsRight, TxsRight
<1>3. /\ About(op, tx[s].on) /\ tx[s].says \in Says(op)
      /\ tx[s].at \in 1 .. Steps(op) + 1 /\ Steps(op) \in 1..3
      /\ op \notin {"stop", "depend", "close"} => tx[s].on \in Tasks
      /\ op = "stop" => tx[s].on \in Scopes
      /\ op = "depend" => tx[s].on \in Edges
      /\ op \in OnCheck => subject[tx[s].on] \in Tasks
  BY <1>1, <1>2, Running
<1>4. Length(tx[s]) = Steps(op)
  BY <1>1, <1>2, <1>3, StatementsListed DEF Listed, Length
<1> QED BY <1>1, <1>2, <1>3, <1>4

\* What is not written is written right.
LEMMA QuietWrites ==
  ASSUME RowsTyped, NEW s
  PROVE  /\ task' = task => TaskWrites(s)
         /\ stops' = stops /\ deps' = deps => HoldWrites(s)
         /\ mission' = mission /\ onCard' = onCard => MissionWrites(s)
         /\ landing' = landing /\ reworked' = reworked => LandingWrites(s)
<1>1. task' = task => TaskWrites(s)
  BY DEF TaskWrites, RowsTyped
<1>2. landing' = landing /\ reworked' = reworked => LandingWrites(s)
  BY DEF LandingWrites, RowsTyped
<1> QED BY <1>1, <1>2 DEF HoldWrites, MissionWrites, RowsTyped

\* One task is written.
LEMMA OneTask ==
  ASSUME RowsTyped, NEW s, NEW t \in Tasks, NEW to, task' = [task EXCEPT ![t] = to],
         to = task[t] \/ Moves(s, t) \/ (Root(t) /\ task[t] = "absent" /\ to = "proposed")
  PROVE  TaskWrites(s)
BY DEF TaskWrites, RowsTyped

\* One landing record is written.
LEMMA OneLanding ==
  ASSUME RowsTyped, NEW s, NEW t \in Tasks, NEW to, landing' = [landing EXCEPT ![t] = to], reworked' = reworked,
         to # landing[t] => /\ Lands(t) /\ to \in LandingStates \ {"none"}
                            /\ to = "main" => Got(s, Mission, "share")
  PROVE  LandingWrites(s)
BY DEF LandingWrites, RowsTyped

\* Per kind: a claim writes its task, which it holds alone.
LEMMA LeasedWrites ==
  ASSUME MissionInv, NEW s \in Sessions, Leased(s)
  PROVE  Writes(s)
<1> DEFINE t == tx[s].on
<1>1. "claim" \in Kinds /\ Commits(s, "claim") /\ UNCHANGED <<mission, onCard, stops, deps, landing, reworked>>
  BY DEF Leased, Kinds, OtherOps
<1>2. /\ tx[s].op = "claim" /\ tx[s].at = 4 /\ t \in Tasks /\ subject' = subject
      /\ Knows(s) /\ RowsTyped
  BY <1>1, Committed, StepsOf
<1>3. Got(s, Task(t), "alone") /\ Got(s, Mission, "alone") /\ "alone" \in Modes
  BY <1>2, LocksHeld DEF Modes
<1>4. task[t] = "ready" /\ mission = "active"
  BY <1>2 DEF Knows, KnowsClaim
<1>5. PICK to \in {"leased", "blocked"} : task' = [task EXCEPT ![t] = to]
  BY DEF Leased
<1>6. task'[t] = to
  BY <1>2, <1>5 DEF RowsTyped
<1>7. Moves(s, t)
  BY <1>2, <1>3, <1>4, <1>6 DEF Moves, States, Ended
<1>8. TaskWrites(s)
  BY <1>2, <1>5, <1>7, OneTask
<1> QED BY <1>1, <1>2, <1>8, QuietWrites DEF Writes

\* A stop writes the stop whose row it holds.
LEMMA ControlSetWrites ==
  ASSUME MissionInv, NEW s \in Sessions, ControlSet(s)
  PROVE  Writes(s)
<1>1. "stop" \in Kinds /\ Commits(s, "stop") /\ UNCHANGED <<task, mission, onCard, deps, landing, reworked>>
      /\ stops' = stops \cup {tx[s].on}
  BY DEF ControlSet, Kinds
<1>2. tx[s].op = "stop" /\ tx[s].at = 2 /\ tx[s].on \in Scopes /\ subject' = subject /\ RowsTyped
      /\ About("stop", tx[s].on)
  BY <1>1, Committed, StepsOf
<1>3. Got(s, tx[s].on, "alone")
  BY <1>2, LocksHeld
<1>4. tx[s].on \in Stoppable
  BY <1>2 DEF About, OnRoot, OnCheck
<1>5. HoldWrites(s)
  BY <1>1, <1>2, <1>3, <1>4 DEF HoldWrites, RowsTyped
<1> QED BY <1>1, <1>2, <1>5, QuietWrites DEF Writes

\* A dispatch writes its task.
LEMMA DispatchedWrites ==
  ASSUME MissionInv, NEW s \in Sessions, Dispatched(s)
  PROVE  Writes(s)
<1> DEFINE t == tx[s].on
<1>1. "dispatch" \in Kinds /\ Commits(s, "dispatch") /\ UNCHANGED <<mission, onCard, stops, deps, landing, reworked>>
      /\ task' = [task EXCEPT ![t] = tx[s].says]
  BY DEF Dispatched, Kinds, LoopOps
<1>2. /\ tx[s].op = "dispatch" /\ tx[s].at = 4 /\ t \in Tasks /\ subject' = subject
      /\ Knows(s) /\ RowsTyped
  BY <1>1, Committed, StepsOf
<1>3. Got(s, Task(t), "alone") /\ Got(s, Mission, "share") /\ "share" \in Modes
  BY <1>2, LocksHeld DEF Modes
<1>4. task[t] = "proposed" /\ mission = "active" /\ tx[s].says \in {"ready", "blocked"}
  BY <1>2 DEF Knows, KnowsDispatch
<1>5. task'[t] = tx[s].says
  BY <1>1, <1>2 DEF RowsTyped
<1>6. Moves(s, t)
  BY <1>2, <1>3, <1>4, <1>5 DEF Moves, States, Ended
<1>7. TaskWrites(s)
  BY <1>1, <1>2, <1>6, OneTask
<1> QED BY <1>1, <1>2, <1>7, QuietWrites DEF Writes

\* A dependency is written under the lock of the task that waits.
LEMMA DependencyAddedWrites ==
  ASSUME MissionInv, NEW s \in Sessions, DependencyAdded(s)
  PROVE  Writes(s)
<1>1. "depend" \in Kinds /\ Commits(s, "depend") /\ UNCHANGED <<task, mission, onCard, stops, landing, reworked>>
      /\ deps' = deps \cup {tx[s].on}
  BY DEF DependencyAdded, Kinds
<1>2. tx[s].op = "depend" /\ tx[s].at = 2 /\ tx[s].on \in Edges /\ subject' = subject /\ RowsTyped
      /\ About("depend", tx[s].on)
  BY <1>1, Committed, StepsOf
<1>3. Got(s, Task(tx[s].on[1]), "alone")
  BY <1>2, LocksHeld
<1>4. Root(tx[s].on[2])
  BY <1>2 DEF About, OnRoot, OnCheck
<1>5. HoldWrites(s)
  BY <1>1, <1>2, <1>3, <1>4 DEF HoldWrites, RowsTyped
<1> QED BY <1>1, <1>2, <1>5, QuietWrites DEF Writes

\* A proposal writes a task that was absent.
LEMMA ProposedWrites ==
  ASSUME MissionInv, NEW s \in Sessions, Proposed(s)
  PROVE  Writes(s)
<1> DEFINE t == tx[s].on
<1>1. "propose" \in Kinds /\ Commits(s, "propose") /\ UNCHANGED <<mission, onCard, stops, deps, landing, reworked>>
      /\ task' = [task EXCEPT ![t] = IF task[t] = "absent" THEN "proposed" ELSE task[t]]
  BY DEF Proposed, Kinds, OtherOps
<1>2. t \in Tasks /\ subject' = subject /\ RowsTyped /\ About("propose", t)
  BY <1>1, Committed
<1>3. Root(t)
  BY <1>2 DEF About, OnRoot, OnCheck
<1>4. TaskWrites(s)
  BY <1>1, <1>2, <1>3, OneTask
<1> QED BY <1>1, <1>2, <1>4, QuietWrites DEF Writes

\* A live task is submitted or set free by who holds it.
LEMMA LiveMoves ==
  ASSUME MissionInv, NEW s \in Sessions, NEW op \in {"submit", "sweep"}, Commits(s, op),
         NEW to \in {"submitted", "ready"}, task' = [task EXCEPT ![tx[s].on] = to],
         UNCHANGED <<mission, onCard, stops, deps, landing, reworked>>
  PROVE  Writes(s)
<1> DEFINE t == tx[s].on
<1>1. op \in Kinds
  BY DEF Kinds, OtherOps
<1>2. tx[s].op = op /\ tx[s].at = 2 /\ t \in Tasks /\ subject' = subject /\ Knows(s) /\ RowsTyped
  BY <1>1, Committed, StepsOf
<1>3. Got(s, Task(t), "alone")
  BY <1>2, LocksHeld
<1>4. task[t] = "leased"
  BY <1>2 DEF Knows, KnowsTask, Suits
<1>5. task'[t] = to
  BY <1>2 DEF RowsTyped
<1>6. Moves(s, t)
  BY <1>2, <1>3, <1>4, <1>5 DEF Moves, States, Ended
<1>7. TaskWrites(s)
  BY <1>2, <1>6, OneTask
<1> QED BY <1>2, <1>7, QuietWrites DEF Writes

\* A submit writes its task.
LEMMA SubmittedWrites ==
  ASSUME MissionInv, NEW s \in Sessions, Submitted(s)
  PROVE  Writes(s)
BY LiveMoves DEF Submitted

\* A pass of the lease loop writes its task.
LEMMA SweptWrites ==
  ASSUME MissionInv, NEW s \in Sessions, Swept(s)
  PROVE  Writes(s)
BY LiveMoves DEF Swept

\* The work moves on, and one of its checks with it or not.
LEMMA WithCheck ==
  ASSUME RowsTyped, NEW s, NEW t \in Tasks, NEW v \in Tasks, v # t, NEW a, NEW b,
         task' = [task EXCEPT ![t] = a, ![v] = b],
         a = task[t] \/ Moves(s, t), b = task[v] \/ Checked(s, v) \/ Moves(s, v)
  PROVE  TaskWrites(s)
<1>1. task'[t] = a /\ task'[v] = b /\ task' = [u \in Tasks |-> task'[u]]
      /\ \A u \in Tasks \ {t, v} : task'[u] = task[u]
  BY DEF RowsTyped
<1> QED BY <1>1 DEF TaskWrites

\* A verification writes its task and the check it opens.
LEMMA VerificationWrites ==
  ASSUME MissionInv, NEW s \in Sessions, VerificationStarted(s)
  PROVE  Writes(s)
<1> DEFINE t == tx[s].on
<1>1. "verify" \in Kinds /\ Commits(s, "verify") /\ UNCHANGED <<mission, onCard, stops, deps, reworked>>
  BY DEF VerificationStarted, Kinds, LoopOps
<1>2. /\ tx[s].op = "verify" /\ tx[s].at = 3 /\ t \in Tasks /\ subject' = subject
      /\ Knows(s) /\ RowsTyped /\ LandingsLand /\ About("verify", t)
  BY <1>1, Committed, StepsOf
<1>3. Got(s, Task(t), "alone") /\ task[t] = "submitted" /\ Root(t)
  BY <1>2, LocksHeld DEF Knows, KnowsTask, Suits, About, OnRoot, OnCheck
<1>4. ASSUME task'[t] \in {"accepted", "verifying"} PROVE Moves(s, t)
  BY <1>3, <1>4 DEF Moves, States, Ended
<1>5. CASE Checks(t) = {}
  <2>1. /\ task' = [task EXCEPT ![t] = "accepted"]
        /\ landing' = [landing EXCEPT ![t] = IF RetryDue(t) THEN "retried" ELSE landing[t]]
    BY <1>5 DEF VerificationStarted
  <2>2. task'[t] = "accepted"
    BY <1>2, <2>1 DEF RowsTyped
  <2>3. TaskWrites(s)
    BY <1>2, <1>4, <2>1, <2>2, OneTask
  <2>4. RetryDue(t) => Lands(t)
    BY <1>2 DEF RetryDue, LandingsLand
  <2>5. LandingWrites(s)
    <3>1. PICK to : to = IF RetryDue(t) THEN "retried" ELSE landing[t]
      OBVIOUS
    <3>2. landing' = [landing EXCEPT ![t] = to]
      BY <2>1, <3>1
    <3>3. to # landing[t] => Lands(t) /\ to \in LandingStates \ {"none"} /\ to # "main"
      BY <2>4, <3>1 DEF LandingStates
    <3> QED BY <1>1, <1>2, <3>2, <3>3, OneLanding
  <2> QED BY <1>1, <1>2, <2>3, <2>5, QuietWrites DEF Writes
<1>6. CASE Checks(t) # {}
  <2>1. PICK v \in Checks(t) :
          task' = [task EXCEPT ![t] = "verifying", ![v] = IF Open(v) THEN task[v] ELSE "ready"]
    <3>1. PICK v \in Checks(t) : task' = [task EXCEPT ![t] = "verifying", ![v] = IF Open(v) THEN @ ELSE "ready"]
      BY <1>6 DEF VerificationStarted
    <3>2. v # t
      BY <1>2, <1>3, MissionConstants DEF Checks, Root
    <3> QED BY <3>1, <3>2
  <2>2. v \in Tasks /\ v # t /\ ~Root(v) /\ subject[v] = t
    BY <1>2, <1>3, MissionConstants DEF Checks, Root
  <2>3. landing' = landing
    BY <1>6 DEF VerificationStarted
  <2>4. PICK b : b = IF Open(v) THEN task[v] ELSE "ready"
    OBVIOUS
  <2>5. task' = [task EXCEPT ![t] = "verifying", ![v] = b]
    BY <2>1, <2>4
  <2>6. task'[t] = "verifying" /\ task'[v] = b
    BY <1>2, <2>2, <2>5 DEF RowsTyped
  <2>7. b = task[v] \/ Checked(s, v)
    BY <1>3, <2>2, <2>4, <2>6 DEF Checked
  <2>8. TaskWrites(s)
    BY <1>2, <1>4, <2>2, <2>5, <2>6, <2>7, WithCheck
  <2> QED BY <1>1, <1>2, <2>3, <2>8, QuietWrites DEF Writes
<1> QED BY <1>5, <1>6

\* The check of a salvaged result opens the task's checks.
LEMMA SalvageWrites ==
  ASSUME MissionInv, NEW s \in Sessions, SalvageCheckStarted(s)
  PROVE  Writes(s)
<1> DEFINE t == tx[s].on
<1>1. "salvage" \in Kinds /\ Commits(s, "salvage") /\ UNCHANGED <<mission, onCard, stops, deps, landing, reworked>>
      /\ task' = [u \in Tasks |-> IF u \in Checks(t) THEN "ready" ELSE task[u]]
  BY DEF SalvageCheckStarted, Kinds, LoopOps
<1>2. tx[s].op = "salvage" /\ tx[s].at = 2 /\ t \in Tasks /\ subject' = subject /\ Knows(s) /\ RowsTyped
  BY <1>1, Committed, StepsOf
<1>3. Got(s, Task(t), "alone") /\ task[t] \in {"ready", "leased"} /\ \A v \in Checks(t) : ~Open(v)
  BY <1>2, LocksHeld DEF Knows, KnowsTask, Suits
<1>4. \A v \in Checks(t) : Checked(s, v)
  <2>1. \A v \in Checks(t) : v \in Tasks /\ ~Root(v) /\ subject[v] = t /\ task'[v] = "ready"
    BY <1>1, <1>2, MissionConstants DEF Checks, Root
  <2> QED BY <1>3, <2>1 DEF Checked
<1>5. TaskWrites(s)
  <2>1. \A u \in Tasks : task'[u] = task[u] \/ Checked(s, u)
    BY <1>1, <1>4
  <2>2. task' = [u \in Tasks |-> task'[u]]
    BY <1>1
  <2> QED BY <2>1, <2>2 DEF TaskWrites
<1> QED BY <1>1, <1>2, <1>5, QuietWrites DEF Writes

\* A conclusion writes the check and its subject, both held.
LEMMA ConcludedWrites ==
  ASSUME MissionInv, NEW s \in Sessions, Concluded(s)
  PROVE  Writes(s)
<1> DEFINE v == tx[s].on
           t == subject[v]
<1>1. "conclude" \in Kinds /\ Commits(s, "conclude") /\ UNCHANGED <<mission, onCard, stops, deps, reworked>>
  BY DEF Concluded, Kinds, LoopOps
<1>2. /\ tx[s].op = "conclude" /\ tx[s].at = 4 /\ v \in Tasks /\ t \in Tasks /\ subject' = subject
      /\ Knows(s) /\ RowsTyped /\ LandingsLand /\ About("conclude", v)
  BY <1>1, Committed, StepsOf DEF OnCheck
<1>3. Got(s, Task(v), "alone") /\ Got(s, Task(t), "alone") /\ task[v] = "submitted"
  BY <1>2, LocksHeld DEF Knows, KnowsTask
<1>4. Root(t) /\ t # v
  <2>1. ~Root(v)
    BY <1>2 DEF About, OnRoot, OnCheck
  <2> QED BY <1>2, <2>1 DEF RowsTyped, Root
<1>5. PICK verdict \in {"accepted", "ready", "blocked"} :
       /\ task' = [task EXCEPT ![v] = "accepted", ![t] = IF task[t] = "verifying" THEN verdict ELSE task[t]]
       /\ landing' = [landing EXCEPT ![t] =
            IF task[t] = "verifying" /\ verdict = "accepted" /\ RetryDue(t) THEN "retried" ELSE landing[t]]
  BY <1>4 DEF Concluded
<1>6. PICK b : b = IF task[t] = "verifying" THEN verdict ELSE task[t]
  OBVIOUS
<1>7. task' = [task EXCEPT ![v] = "accepted", ![t] = b]
  BY <1>5, <1>6
<1>8. task'[v] = "accepted" /\ task'[t] = b
  BY <1>2, <1>4, <1>7 DEF RowsTyped
<1>9. Moves(s, v)
  BY <1>3, <1>8 DEF Moves, States, Ended
<1>10. b = task[t] \/ Moves(s, t)
  BY <1>3, <1>6, <1>8 DEF Moves, States, Ended
<1>11. TaskWrites(s)
  BY <1>2, <1>4, <1>7, <1>9, <1>10, WithCheck
<1>12. LandingWrites(s)
  <2>1. PICK to : to = IF task[t] = "verifying" /\ verdict = "accepted" /\ RetryDue(t) THEN "retried" ELSE landing[t]
    OBVIOUS
  <2>2. landing' = [landing EXCEPT ![t] = to]
    BY <1>5, <2>1
  <2>3. RetryDue(t) => Lands(t)
    BY <1>2 DEF RetryDue, LandingsLand
  <2>4. to # landing[t] => Lands(t) /\ to \in LandingStates \ {"none"} /\ to # "main"
    BY <2>1, <2>3 DEF LandingStates
  <2> QED BY <1>1, <1>2, <2>2, <2>4, OneLanding
<1> QED BY <1>1, <1>2, <1>11, <1>12, QuietWrites DEF Writes

\* A decision on a card writes the blocked task it holds.
LEMMA DecidedWrites ==
  ASSUME MissionInv, NEW s \in Sessions, DecidedBlocked(s)
  PROVE  Writes(s)
<1> DEFINE t == tx[s].on
<1>1. "decide" \in Kinds /\ Commits(s, "decide") /\ UNCHANGED <<mission, onCard, stops, deps, landing, reworked>>
  BY DEF DecidedBlocked, Kinds, LoopOps
<1>2. tx[s].op = "decide" /\ tx[s].at = 2 /\ t \in Tasks /\ subject' = subject /\ Knows(s) /\ RowsTyped
  BY <1>1, Committed, StepsOf
<1>3. /\ Got(s, Task(t), "alone") /\ task[t] = "blocked"
      /\ subject[t] # None => Got(s, Task(subject[t]), "alone")
  BY <1>2, LocksHeld DEF Knows, KnowsTask, Suits
<1>4. ASSUME task'[t] \in {"ready", "dropped"} PROVE Moves(s, t)
  BY <1>3, <1>4 DEF Moves, States, Ended
<1>5. CASE task' = [task EXCEPT ![t] = "ready"]
  <2>1. task'[t] = "ready"
    BY <1>2, <1>5 DEF RowsTyped
  <2>2. TaskWrites(s)
    BY <1>2, <1>4, <1>5, <2>1, OneTask
  <2> QED BY <1>1, <1>2, <2>2, QuietWrites DEF Writes
<1>6. CASE task' = [u \in Tasks |-> IF u = t THEN "dropped"
                                    ELSE IF u = subject[t] /\ task[u] = "verifying" THEN "blocked" ELSE task[u]]
  <2>1. task'[t] = "dropped"
    BY <1>2, <1>6
  <2>2. ASSUME NEW u \in Tasks, u # t, task'[u] # task[u] PROVE Moves(s, u)
    <3>1. u = subject[t] /\ task[u] = "verifying" /\ task'[u] = "blocked"
      BY <1>6, <2>2
    <3>2. Got(s, Task(u), "alone")
      BY <1>3, <3>1, MissionConstants
    <3> QED BY <3>1, <3>2 DEF Moves, States, Ended
  <2>3. task' = [u \in Tasks |-> task'[u]]
    BY <1>6
  <2>4. TaskWrites(s)
    BY <1>4, <2>1, <2>2, <2>3 DEF TaskWrites
  <2> QED BY <1>1, <1>2, <2>4, QuietWrites DEF Writes
<1> QED BY <1>5, <1>6 DEF DecidedBlocked

\* A dropped check is written, and its subject is left as it was.
LEMMA StoppedCheckWrites ==
  ASSUME MissionInv, NEW s \in Sessions, StoppedCheckClosed(s)
  PROVE  Writes(s)
<1> DEFINE t == tx[s].on
<1>1. "uncheck" \in Kinds /\ Commits(s, "uncheck") /\ UNCHANGED <<mission, onCard, stops, deps, landing, reworked>>
      /\ task' = [task EXCEPT ![t] = "dropped"]
  BY DEF StoppedCheckClosed, Kinds, LoopOps
<1>2. tx[s].op = "uncheck" /\ tx[s].at = 2 /\ t \in Tasks /\ subject' = subject /\ Knows(s) /\ RowsTyped
  BY <1>1, Committed, StepsOf
<1>3. Got(s, Task(t), "alone") /\ task[t] \in {"proposed", "ready", "blocked"}
  BY <1>2, LocksHeld DEF Knows, KnowsTask, Suits
<1>4. task'[t] = "dropped"
  BY <1>1, <1>2 DEF RowsTyped
<1>5. Moves(s, t)
  BY <1>3, <1>4 DEF Moves, States, Ended
<1>6. TaskWrites(s)
  BY <1>1, <1>2, <1>5, OneTask
<1> QED BY <1>1, <1>2, <1>6, QuietWrites DEF Writes

\* The Owner's close writes the mission and all the tasks it holds.
LEMMA CardWrites ==
  ASSUME MissionInv, NEW s \in Sessions, ClosedOnCard(s)
  PROVE  /\ Writes(s)
         /\ \A t \in Live : Got(s, Attempt(t), "alone")
<1>1. /\ "card" \in Kinds /\ Commits(s, "card") /\ UNCHANGED <<stops, deps, landing, reworked>>
      /\ task' = [t \in Tasks |-> IF Got(s, Task(t), "alone") THEN "cancelled" ELSE task[t]]
      /\ mission' \in {"done", "stopped"} /\ onCard' = TRUE
  BY DEF ClosedOnCard, Kinds, LoopOps, Got
<1>2. tx[s].op = "card" /\ tx[s].at = 4 /\ subject' = subject /\ Knows(s) /\ RowsTyped
  BY <1>1, Committed, StepsOf
<1>3. /\ mission = "active" /\ Got(s, Mission, "alone")
      /\ \A t \in Tasks : Got(s, Task(t), "alone") => Open(t)
      /\ \A t \in Tasks : Got(s, Task(t), "alone") \/ Leftover(t)
      /\ \A t \in Live : Got(s, Attempt(t), "alone")
  BY <1>2, LocksHeld DEF Knows, KnowsCard
<1>4. \A t \in Tasks : Got(s, Task(t), "alone") => task'[t] = "cancelled" /\ Moves(s, t)
  <2>1. ASSUME NEW t \in Tasks, Got(s, Task(t), "alone") PROVE task'[t] = "cancelled" /\ Moves(s, t)
    <3>1. task'[t] = "cancelled" /\ task[t] \notin Ended \cup {"absent"}
      BY <1>1, <1>3, <2>1 DEF Open
    <3> QED BY <2>1, <3>1 DEF Moves, States, Ended
  <2> QED BY <2>1
<1>5. \A t \in Tasks : ~Got(s, Task(t), "alone") => task'[t] = task[t]
  BY <1>1
<1>6. TaskWrites(s)
  <2>1. task' = [t \in Tasks |-> task'[t]]
    BY <1>1
  <2> QED BY <1>4, <1>5, <2>1 DEF TaskWrites
<1>7. \A t \in Tasks : Leftover(t)'
  <2> TAKE t \in Tasks
  <2>1. CASE Got(s, Task(t), "alone")
    BY <1>4, <2>1 DEF Leftover, Ended
  <2>2. CASE ~Got(s, Task(t), "alone")
    <3>1. Leftover(t) /\ task'[t] = task[t] /\ subject' = subject /\ reworked' = reworked
      BY <1>1, <1>2, <1>3, <1>5, <2>2
    <3> QED BY <3>1 DEF Leftover, Root
  <2> QED BY <2>1, <2>2
<1>8. MissionWrites(s)
  BY <1>1, <1>2, <1>3, <1>7 DEF MissionWrites
<1> QED BY <1>1, <1>2, <1>3, <1>6, <1>8, QuietWrites DEF Writes

\* The pass over late proposals cancels the task it holds.
LEMMA LateWrites ==
  ASSUME MissionInv, NEW s \in Sessions, CancelledAfterClose(s)
  PROVE  Writes(s)
<1> DEFINE t == tx[s].on
<1>1. "late" \in Kinds /\ Commits(s, "late") /\ UNCHANGED <<mission, onCard, stops, deps, landing, reworked>>
      /\ task' = [task EXCEPT ![t] = "cancelled"]
  BY DEF CancelledAfterClose, Kinds, LoopOps
<1>2. tx[s].op = "late" /\ tx[s].at = 3 /\ t \in Tasks /\ subject' = subject /\ Knows(s) /\ RowsTyped
  BY <1>1, Committed, StepsOf
<1>3. Got(s, Task(t), "alone") /\ Open(t)
  BY <1>2, LocksHeld DEF Knows, KnowsTask
<1>4. task'[t] = "cancelled"
  BY <1>1, <1>2 DEF RowsTyped
<1>5. Moves(s, t)
  BY <1>3, <1>4 DEF Moves, Open, States, Ended
<1>6. TaskWrites(s)
  BY <1>1, <1>2, <1>5, OneTask
<1> QED BY <1>1, <1>2, <1>6, QuietWrites DEF Writes

\* The controller's close: nothing at main is let go of, nor the mission's own work that
\* never got a landing record.
LEMMA CloseWrites ==
  ASSUME MissionInv, NEW s \in Sessions, MissionClosed(s)
  PROVE  /\ Writes(s) /\ task' = task
         /\ \A t \in Tasks : Lands(t) /\ task[t] = "accepted" =>
              landing'[t] # "main" /\ (t \in Work => landing'[t] # "none")
<1>1. /\ "close" \in Kinds /\ Commits(s, "close") /\ UNCHANGED <<task, onCard, stops, deps, reworked>>
      /\ mission' = tx[s].says
      /\ landing' = [t \in Tasks |-> IF t \in Unclaimed /\ Got(s, Stream, "alone") THEN "failed" ELSE landing[t]]
  BY DEF MissionClosed, Kinds, Got
<1>2. tx[s].op = "close" /\ tx[s].at = 4 /\ subject' = subject /\ Knows(s) /\ RowsTyped /\ tx[s].says \in Says("close")
  BY <1>1, Committed, StepsOf
<1>3. /\ mission = "active" /\ Got(s, Mission, "alone")
      /\ \A t \in Tasks : Lands(t) => landing[t] # "main"
      /\ Unclaimed \cap Work # {} => Has(s, 3, Stream, "alone")
  BY <1>2, LocksHeld DEF Knows, KnowsClose
<1>4. mission' \in {"done", "stopped"}
  BY <1>1, <1>2 DEF Says
<1>5. MissionWrites(s)
  BY <1>1, <1>2, <1>3, <1>4 DEF MissionWrites
<1>6. LandingWrites(s)
  <2>1. \A t \in Tasks : landing'[t] # landing[t] => Lands(t) /\ landing'[t] = "failed"
    BY <1>1 DEF Unclaimed
  <2>2. landing' = [t \in Tasks |-> landing'[t]]
    BY <1>1
  <2> QED BY <1>1, <2>1, <2>2 DEF LandingWrites, LandingStates
<1>7. Unclaimed \cap Work # {} => Got(s, Stream, "alone")
  BY <1>2, <1>3 DEF Has
<1>8. \A t \in Tasks : Lands(t) /\ task[t] = "accepted" =>
        landing'[t] # "main" /\ (t \in Work => landing'[t] # "none")
  BY <1>1, <1>3, <1>7 DEF Unclaimed
<1> QED BY <1>1, <1>2, <1>5, <1>6, <1>8, QuietWrites DEF Writes

\* A landing record is written by who lands a root.
LEMMA LandingSet ==
  ASSUME MissionInv, NEW s \in Sessions, NEW op \in {"land", "push", "settle"}, Commits(s, op),
         UNCHANGED <<task, mission, onCard, stops, deps, reworked>>,
         NEW to, landing' = [landing EXCEPT ![tx[s].on] = to],
         to # landing[tx[s].on] => to \in LandingStates \ {"none"} /\ (to = "main" => op = "push")
  PROVE  Writes(s)
<1> DEFINE t == tx[s].on
<1>1. op \in Kinds
  BY DEF Kinds, OtherOps
<1>2. tx[s].op = op /\ tx[s].at = 2 /\ t \in Tasks /\ subject' = subject /\ RowsTyped /\ About(op, t)
  BY <1>1, Committed, StepsOf
<1>3. Lands(t)
  BY <1>2 DEF About, OnRoot, OnCheck
<1>4. op = "push" => Got(s, Mission, "share")
  BY <1>2, LocksHeld
<1>5. LandingWrites(s)
  BY <1>2, <1>3, <1>4, OneLanding
<1> QED BY <1>2, <1>5, QuietWrites DEF Writes

\* A claim of a landing writes its record alone.
LEMMA LandingClaimedWrites ==
  ASSUME MissionInv, NEW s \in Sessions, LandingClaimed(s)
  PROVE  Writes(s)
<1>1. PICK to : to = IF mission = "active" THEN "claimed" ELSE "failed"
  OBVIOUS
<1>2. to \in LandingStates \ {"none"} /\ to # "main"
  BY <1>1 DEF LandingStates
<1> QED BY <1>1, <1>2, LandingSet DEF LandingClaimed

\* So does the gate of a push,
LEMMA PushAuthorizedWrites ==
  ASSUME MissionInv, NEW s \in Sessions, PushAuthorized(s)
  PROVE  Writes(s)
<1>1. "main" \in LandingStates \ {"none"}
  BY DEF LandingStates
<1> QED BY <1>1, LandingSet DEF PushAuthorized

\* and the record of its end.
LEMMA LandingSettledWrites ==
  ASSUME MissionInv, NEW s \in Sessions, LandingSettled(s)
  PROVE  Writes(s)
<1> DEFINE t == tx[s].on
<1>1. PICK to : /\ landing' = [landing EXCEPT ![t] = to]
                /\ to \in {"landed", "retried", "failed"} \/ to = landing[t]
  <2>1. PICK to \in (CASE landing[t] = "main"    -> {"landed", "retried", "failed"}
                       [] landing[t] = "claimed" -> {"failed"}
                       [] OTHER -> {landing[t]}) : landing' = [landing EXCEPT ![t] = to]
    BY DEF LandingSettled
  <2>2. to \in {"landed", "retried", "failed"} \/ to = landing[t]
    <3>1. CASE landing[t] = "main"
      BY <2>1, <3>1
    <3>2. CASE landing[t] = "claimed"
      BY <2>1, <3>2
    <3>3. CASE landing[t] \notin {"main", "claimed"}
      BY <2>1, <3>3
    <3> QED BY <3>1, <3>2, <3>3
  <2> QED BY <2>1, <2>2
<1>2. to # landing[t] => to \in LandingStates \ {"none"} /\ to # "main"
  BY <1>1 DEF LandingStates
<1> QED BY <1>1, <1>2, LandingSet DEF LandingSettled

\* A red landing CI writes its task, which it holds, and counts it as sent back.
LEMMA LandingRedWrites ==
  ASSUME MissionInv, NEW s \in Sessions, LandingRed(s)
  PROVE  Writes(s)
<1> DEFINE t == tx[s].on
<1>1. /\ "red" \in Kinds /\ Commits(s, "red") /\ UNCHANGED <<mission, onCard, stops, deps>>
      /\ landing' = [landing EXCEPT ![t] = "failed"]
      /\ IF tx[s].says = "rework"
         THEN task' = [task EXCEPT ![t] = "ready"] /\ reworked' = reworked \cup {t}
         ELSE UNCHANGED <<task, reworked>>
  BY DEF LandingRed, Kinds, OtherOps
<1>2. /\ tx[s].op = "red" /\ tx[s].at = 3 /\ t \in Tasks /\ subject' = subject /\ Knows(s) /\ RowsTyped
      /\ About("red", t)
  BY <1>1, Committed, StepsOf
<1>3. Got(s, Task(t), "alone") /\ (tx[s].says = "rework" => task[t] = "accepted")
  BY <1>2, LocksHeld DEF Knows, KnowsTask
<1>4. Lands(t)
  BY <1>2 DEF About, OnRoot, OnCheck
<1>5. LandingWrites(s)
  <2>1. landing' = [u \in Tasks |-> landing'[u]] /\ landing'[t] = "failed"
        /\ \A u \in Tasks : landing'[u] # landing[u] => u = t
    BY <1>1, <1>2 DEF RowsTyped
  <2>2. reworked \subseteq reworked' /\ \A u \in reworked' \ reworked : u = t
    BY <1>1
  <2> QED BY <1>2, <1>4, <2>1, <2>2 DEF LandingWrites, LandingStates
<1>6. CASE tx[s].says = "rework"
  <2>1. task' = [task EXCEPT ![t] = "ready"] /\ t \in reworked'
    BY <1>1, <1>6
  <2>2. task'[t] = "ready"
    BY <1>2, <2>1 DEF RowsTyped
  <2>3. Moves(s, t)
    BY <1>3, <1>4, <1>6, <2>1, <2>2 DEF Moves, States, Ended, Lands
  <2>4. TaskWrites(s)
    BY <1>2, <2>1, <2>3, OneTask
  <2> QED BY <1>1, <1>2, <1>5, <2>4, QuietWrites DEF Writes
<1>7. CASE tx[s].says # "rework"
  BY <1>1, <1>2, <1>5, <1>7, QuietWrites DEF Writes
<1> QED BY <1>6, <1>7

\* A control that is lifted only lets more happen.
LEMMA LiftedRight ==
  ASSUME MissionInv, NEW r, ControlLifted(r)
  PROVE  MissionInv'
<1>1. stops' \subseteq stops /\ UNCHANGED <<subject, task, mission, onCard, deps, landing, reworked, tx>>
  BY DEF ControlLifted
<1>2. RowsRight'
  BY <1>1 DEF MissionInv, RowsRight, RowsTyped, LandingsLand, WorkThere, AfterCard, DoneButForRework, Leftover,
              Root, Lands, Ended
<1>3. Exclusive'
  BY <1>1 DEF MissionInv, TxsRight, Exclusive, Got
<1>4. ASSUME NEW u \in Sessions PROVE TxTyped(u)' /\ HasLocks(u)' /\ Knows(u)'
  <2>1. TxTyped(u) /\ HasLocks(u) /\ Knows(u) /\ tx'[u] = tx[u]
    BY <1>1 DEF MissionInv, TxsRight
  <2>2. TxTyped(u)' /\ HasLocks(u)'
    BY <1>1, <2>1, QuietTyped, QuietLocks
  <2>3. KnowsClaim(u)'
    BY <1>1, <2>1 DEF Knows, KnowsClaim, Stopped
  <2>4. KnowsDispatch(u)'
    BY <1>1, <2>1 DEF Knows, KnowsDispatch, Waited, Has, Got, Wants
  <2>5. KnowsTask(u)'
    BY <1>1, <2>1 DEF Knows, KnowsTask, Checks, Open
  <2>6. KnowsCard(u)'
    BY <1>1, <2>1 DEF Knows, KnowsCard, Open, Leftover, Live, Got, Root
  <2>7. KnowsClose(u)'
    BY <1>1, <2>1 DEF Knows, KnowsClose, Root, Lands, Unclaimed, Has, Got, Wants
  <2> QED BY <2>2, <2>3, <2>4, <2>5, <2>6, <2>7 DEF Knows
<1>5. tx' = [u \in Sessions |-> tx'[u]]
  BY <1>1 DEF MissionInv
<1> QED BY <1>2, <1>3, <1>4, <1>5 DEF MissionInv, TxsRight

-----------------------------------------------------------------------------
(* Every step.                                                             *)

OtherCommit(s) ==
  \/ Leased(s) \/ ControlSet(s) \/ Dispatched(s) \/ DependencyAdded(s) \/ Proposed(s)
  \/ Submitted(s) \/ Swept(s) \/ VerificationStarted(s) \/ SalvageCheckStarted(s) \/ Concluded(s)
  \/ DecidedBlocked(s) \/ StoppedCheckClosed(s) \/ CancelledAfterClose(s)
  \/ LandingClaimed(s) \/ PushAuthorized(s) \/ LandingRed(s) \/ LandingSettled(s)

\* What a step writes: nothing but the stops lifted, or what a commit may write.
Closes(s) ==
  /\ ~onCard /\ onCard' => \A t \in Live : Got(s, Attempt(t), "alone")
  /\ mission' # mission /\ ~onCard' =>
       \A t \in Tasks : Lands(t) /\ task'[t] = "accepted" =>
         landing'[t] # "main" /\ (t \in Work => landing'[t] # "none")

Written ==
  \/ UNCHANGED <<subject, task, mission, onCard, landing, reworked>>
  \/ \E s \in Sessions : Writes(s) /\ Closes(s)

\* The commits other than the two that close the mission.
LEMMA OtherCommitWrites ==
  ASSUME MissionInv, NEW s \in Sessions, OtherCommit(s)
  PROVE  Writes(s) /\ Closes(s) /\ tx' = [tx EXCEPT ![s] = Idle]
<1>1. Writes(s)
  BY LeasedWrites, ControlSetWrites, DispatchedWrites, DependencyAddedWrites, ProposedWrites, SubmittedWrites,
     SweptWrites, VerificationWrites, SalvageWrites, ConcludedWrites, DecidedWrites, StoppedCheckWrites, LateWrites,
     LandingClaimedWrites, PushAuthorizedWrites, LandingRedWrites, LandingSettledWrites
     DEF OtherCommit
<1>2. mission' = mission /\ onCard' = onCard
  BY DEF OtherCommit, Leased, ControlSet, Dispatched, DependencyAdded, Proposed, Submitted, Swept,
         VerificationStarted, SalvageCheckStarted, Concluded, DecidedBlocked, StoppedCheckClosed, CancelledAfterClose,
         LandingClaimed, PushAuthorized, LandingRed, LandingSettled
<1>3. \E op : Commits(s, op)
  BY DEF OtherCommit, Leased, ControlSet, Dispatched, DependencyAdded, Proposed, Submitted, Swept,
         VerificationStarted, SalvageCheckStarted, Concluded, DecidedBlocked, StoppedCheckClosed, CancelledAfterClose,
         LandingClaimed, PushAuthorized, LandingRed, LandingSettled
<1> QED BY <1>1, <1>2, <1>3 DEF Closes, Commits

\* A step keeps the invariant, and writes what its locks allow.
LEMMA NextRight ==
  ASSUME MissionInv, Next
  PROVE  MissionInv' /\ Written
<1>1. ASSUME NEW s \in Sessions, Begin(s) \/ Take(s) \/ Refused(s) \/ Aborted(s) \/ Step(s)
      PROVE  MissionInv' /\ Written
  <2>1. UNCHANGED rows
    BY <1>1 DEF Begin, Started, Take, Refused, Aborted, Step
  <2>2. MissionInv'
    <3>1. CASE Refused(s) \/ Aborted(s)
      <4>1. tx' = [tx EXCEPT ![s] = Idle]
        BY <3>1 DEF Refused, Aborted
      <4> QED BY <2>1, <4>1, RefusedRight
    <3> QED BY <1>1, <3>1, BeginRight, TakeRight, StepRight
  <2> QED BY <2>1, <2>2 DEF Written, rows
<1>2. ASSUME NEW s \in Sessions, OtherCommit(s) PROVE MissionInv' /\ Written
  BY <1>2, OtherCommitWrites, CommitRight DEF Written
<1>3. ASSUME NEW s \in Sessions, ClosedOnCard(s) PROVE MissionInv' /\ Written
  <2>1. Writes(s) /\ \A t \in Live : Got(s, Attempt(t), "alone")
    BY <1>3, CardWrites
  <2>2. tx' = [tx EXCEPT ![s] = Idle] /\ onCard' = TRUE
    BY <1>3 DEF ClosedOnCard, Commits
  <2>3. Closes(s)
    BY <2>1, <2>2 DEF Closes
  <2> QED BY <2>1, <2>2, <2>3, CommitRight DEF Written
<1>4. ASSUME NEW s \in Sessions, MissionClosed(s) PROVE MissionInv' /\ Written
  <2>1. /\ Writes(s) /\ task' = task
        /\ \A t \in Tasks : Lands(t) /\ task[t] = "accepted" =>
              landing'[t] # "main" /\ (t \in Work => landing'[t] # "none")
    BY <1>4, CloseWrites
  <2>2. tx' = [tx EXCEPT ![s] = Idle] /\ onCard' = onCard
    BY <1>4 DEF MissionClosed, Commits
  <2>3. Closes(s)
    BY <2>1, <2>2 DEF Closes
  <2> QED BY <2>1, <2>2, <2>3, CommitRight DEF Written
<1>5. ASSUME NEW r \in Stoppable, ControlLifted(r) PROVE MissionInv' /\ Written
  <2>1. UNCHANGED <<subject, task, mission, onCard, landing, reworked>>
    BY <1>5 DEF ControlLifted
  <2> QED BY <1>5, <2>1, LiftedRight DEF Written
<1> QED BY <1>1, <1>2, <1>3, <1>4, <1>5 DEF Next, OtherCommit

\* A step or a pause.
LEMMA NextOrStays ==
  ASSUME MissionInv, [Next]_vars
  PROVE  MissionInv' /\ Written
<1>1. CASE Next
  BY <1>1, NextRight
<1>2. CASE UNCHANGED vars
  <2>1. UNCHANGED rows /\ tx' = tx
    BY <1>2 DEF vars
  <2>2. RowsRight'
    BY <2>1, QuietRows DEF MissionInv
  <2>3. ASSUME NEW u \in Sessions PROVE TxTyped(u)' /\ HasLocks(u)' /\ Knows(u)'
    <3>1. TxTyped(u) /\ HasLocks(u) /\ Knows(u) /\ tx'[u] = tx[u] /\ subject' = subject
      BY <2>1 DEF MissionInv, TxsRight, rows
    <3> QED BY <2>1, <3>1, QuietTyped, QuietLocks, QuietKnows
  <2>4. Exclusive'
    BY <2>1 DEF MissionInv, TxsRight, Exclusive, Got
  <2>5. tx' = [s \in Sessions |-> tx'[s]]
    BY <2>1 DEF MissionInv
  <2>6. Written
    BY <2>1 DEF Written, rows
  <2> QED BY <2>2, <2>3, <2>4, <2>5, <2>6 DEF MissionInv, TxsRight
<1> QED BY <1>1, <1>2

\* The invariant holds at the start: no transaction runs, and no task is there
\* but work proposed with the mission.
LEMMA InitRight ==
  ASSUME Init
  PROVE  MissionInv
<1>1. tx = [s \in Sessions |-> Idle]
  BY DEF Init
<1>2. \A s \in Sessions : tx[s] = Idle
  BY <1>1
<1>3. tx = [s \in Sessions |-> tx[s]]
  BY <1>1
<1>4. RowsTyped
  <2>1. /\ subject \in [Tasks -> Tasks \cup {None}]
        /\ \A t \in Tasks : subject[t] # None => subject[subject[t]] = None
    BY MissionConstants DEF Init
  <2>2. task \in [Tasks -> States]
    BY DEF Init, States
  <2>3. landing \in [Tasks -> LandingStates]
    BY DEF Init, LandingStates
  <2> QED BY <2>1, <2>2, <2>3 DEF Init, RowsTyped
<1>5. LandingsLand /\ WorkThere /\ AfterCard /\ DoneButForRework
  BY MissionConstants DEF Init, LandingsLand, WorkThere, AfterCard, DoneButForRework
<1>6. \A s \in Sessions : TxTyped(s) /\ HasLocks(s) /\ Knows(s)
  <2> TAKE s \in Sessions
  <2>1. tx[s] = Idle
    BY <1>2
  <2>2. tx[s].op = "none" /\ tx[s].at = 0
    BY <2>1 DEF Idle
  <2>3. TxTyped(s)
    BY <2>1 DEF TxTyped
  <2>4. HasLocks(s)
    BY <2>2 DEF HasLocks, Has
  <2>5. Knows(s)
    BY <2>2 DEF Knows, KnowsClaim, KnowsDispatch, KnowsTask, KnowsCard, KnowsClose
  <2> QED BY <2>3, <2>4, <2>5
<1>7. Exclusive
  BY <1>2 DEF Exclusive, Got, Idle
<1> QED BY <1>3, <1>4, <1>5, <1>6, <1>7 DEF MissionInv, RowsRight, TxsRight

-----------------------------------------------------------------------------
(* The theorems.                                                           *)

\* The invariant holds of every run: each session has read its rows under locks that
\* keep what it read true until it commits.
THEOREM MissionIsRight == Spec => []MissionInv
<1>1. Init => MissionInv
  BY InitRight
<1>2. MissionInv /\ [Next]_vars => MissionInv'
  BY NextOrStays
<1> QED BY <1>1, <1>2, PTL DEF Spec

\* The rows hold what their CHECK constraints allow, and locks are on rows.
THEOREM MissionTypeCorrect == Spec => []MissionTypeOK
<1>1. MissionInv => MissionTypeOK
  <2> SUFFICES ASSUME MissionInv PROVE MissionTypeOK
    OBVIOUS
  <2>1. ASSUME NEW s \in Sessions
        PROVE  tx[s].at \in 0 .. 4 /\ \A l \in tx[s].held : l[1] \in AllRows /\ l[2] \in {"share", "alone"}
    <3>1. CASE tx[s] = Idle
      <4>1. tx[s].at = 0 /\ tx[s].held = {}
        BY <3>1 DEF Idle
      <4> QED BY <4>1
    <3>2. CASE tx[s] # Idle
      <4>1. /\ tx[s].op \in Kinds /\ tx[s].at \in 1 .. Steps(tx[s].op) + 1
            /\ tx[s].held \subseteq AllRows \X Modes
        BY <3>2 DEF MissionInv, TxsRight, TxTyped
      <4>2. Steps(tx[s].op) \in 1..3
        BY <4>1, StepsOf DEF Kinds, LoopOps, OtherOps
      <4> QED BY <4>1, <4>2 DEF Modes
    <3> QED BY <3>1, <3>2
  <2>2. RowsTyped
    BY DEF MissionInv, RowsRight
  <2> QED BY <2>1, <2>2 DEF MissionTypeOK, RowsTyped, LandingStates
<1> QED BY <1>1, MissionIsRight, PTL

\* No attempt is leased under a stop of the control plane, its mission, its task or the
\* task it checks, nor in a mission that has ended (take, setControl).
THEOREM LeasesUnheld == Spec => LeasedUnheld
<1> DEFINE A == \A t \in Tasks : task'[t] = "leased" /\ task[t] # "leased" =>
                  mission = "active" /\ stops \cap {Global, Mission, Task(t), Task(subject[t])} = {}
<1>1. MissionInv /\ [Next]_vars => A
  <2> SUFFICES ASSUME MissionInv, [Next]_vars, NEW t \in Tasks, task'[t] = "leased", task[t] # "leased"
               PROVE  mission = "active" /\ stops \cap {Global, Mission, Task(t), Task(subject[t])} = {}
    OBVIOUS
  <2>1. Written
    BY NextOrStays
  <2>2. PICK s \in Sessions : Writes(s)
    BY <2>1 DEF Written
  <2>3. tx[s].op = "claim" /\ tx[s].on = t /\ tx[s].at > 3
    BY <2>2 DEF Writes, TaskWrites, Checked, Moves
  <2>4. KnowsClaim(s) /\ tx[s].at \in Nat
    BY <2>3, Running DEF MissionInv, TxsRight, Knows
  <2>5. Global \notin stops /\ mission = "active" /\ ~Stopped(t)
    BY <2>3, <2>4 DEF KnowsClaim
  <2>6. \A r \in stops : r # Mission /\ r # Task(t) /\ (subject[t] # None => r # Task(subject[t]))
    BY <2>5 DEF Stopped
  <2>7. subject[t] = None => Task(subject[t]) \notin stops
    <3>1. Task(None) \notin Scopes
      BY MissionConstants DEF Scopes, Task, Global, Mission
    <3>2. stops \subseteq Scopes
      BY MissionConstants DEF MissionInv, RowsRight, RowsTyped
    <3> QED BY <3>1, <3>2
  <2> QED BY <2>5, <2>6, <2>7
<1>2. MissionInv /\ [Next]_vars => [A]_vars
  BY <1>1
<1> QED BY <1>2, MissionIsRight, PTL DEF Spec, LeasedUnheld

\* A proposed task is made ready only in an active mission, when everything it waits for
\* is accepted at that moment (dispatchOne).
THEOREM ReadiesOnAccepted == Spec => ReadiedOnAccepted
<1> DEFINE A == \A t \in Tasks : task[t] = "proposed" /\ task'[t] = "ready" =>
                  mission = "active" /\ \A d \in Waited(t) : task[d] = "accepted"
<1>1. MissionInv /\ [Next]_vars => A
  <2> SUFFICES ASSUME MissionInv, [Next]_vars, NEW t \in Tasks, task[t] = "proposed", task'[t] = "ready"
               PROVE  mission = "active" /\ \A d \in Waited(t) : task[d] = "accepted"
    OBVIOUS
  <2>1. Written
    BY NextOrStays
  <2>2. PICK s \in Sessions : Writes(s)
    BY <2>1 DEF Written
  <2>3. Moves(s, t)
    BY <2>2 DEF Writes, TaskWrites, Checked, Open, Ended
  <2>4. tx[s].op = "dispatch" /\ tx[s].on = t /\ tx[s].at > 3 /\ tx[s].says = "ready" /\ mission = "active"
    BY <2>3 DEF Moves, Ended
  <2>5. KnowsDispatch(s) /\ tx[s].at \in Nat
    BY <2>4, Running DEF MissionInv, TxsRight, Knows
  <2> QED BY <2>4, <2>5 DEF KnowsDispatch
<1>2. MissionInv /\ [Next]_vars => [A]_vars
  BY <1>1
<1> QED BY <1>2, MissionIsRight, PTL DEF Spec, ReadiedOnAccepted

\* The Owner's close leaves nothing running or to run but what came too late, was sent
\* back by a red landing CI, or checks that; and it held every live attempt.
THEOREM CardLeaves == Spec => CardLeavesNothing
<1> DEFINE A == onCard' =>
       /\ \A t \in Tasks : \/ task'[t] \in Ended \cup {"absent", "proposed"}
                           \/ task'[t] = "ready" /\ {t, subject[t]} \cap reworked' # {}
       /\ ~onCard => \A t \in Live : \E s \in Sessions : <<Attempt(t), "alone">> \in tx[s].held
<1>1. MissionInv /\ [Next]_vars => A
  <2> SUFFICES ASSUME MissionInv, [Next]_vars, onCard'
               PROVE  /\ \A t \in Tasks : \/ task'[t] \in Ended \cup {"absent", "proposed"}
                                          \/ task'[t] = "ready" /\ {t, subject[t]} \cap reworked' # {}
                      /\ ~onCard => \A t \in Live : \E s \in Sessions : <<Attempt(t), "alone">> \in tx[s].held
    OBVIOUS
  <2>1. MissionInv' /\ Written
    BY NextOrStays
  <2>2. \A t \in Tasks : Leftover(t)'
    BY <2>1 DEF MissionInv, RowsRight, AfterCard
  <2>3. subject' = subject
    BY <2>1 DEF Written, Writes
  <2>4. \A t \in Tasks : \/ task'[t] \in Ended \cup {"absent", "proposed"}
                         \/ task'[t] = "ready" /\ {t, subject[t]} \cap reworked' # {}
    BY <2>2, <2>3 DEF Leftover, Ended
  <2>5. ASSUME ~onCard PROVE \A t \in Live : \E s \in Sessions : <<Attempt(t), "alone">> \in tx[s].held
    <3>1. PICK s \in Sessions : Closes(s)
      BY <2>1, <2>5 DEF Written
    <3> QED BY <2>5, <3>1 DEF Closes, Got
  <2> QED BY <2>4, <2>5
<1>2. MissionInv /\ [Next]_vars => [A]_vars
  BY <1>1
<1> QED BY <1>2, MissionIsRight, PTL DEF Spec, CardLeavesNothing

\* The controller's close lets go of no root at main, and of none of the work it read
\* without a landing record (landingHolds).
THEOREM ClosesOffMain == Spec => ClosedOffMain
<1> DEFINE A == mission = "active" /\ mission' # "active" /\ ~onCard' =>
       \A t \in Tasks : Lands(t) /\ task'[t] = "accepted" =>
         landing'[t] # "main" /\ (t \in Work => landing'[t] # "none")
<1>1. MissionInv /\ [Next]_vars => A
  BY NextOrStays DEF Written, Closes
<1>2. MissionInv /\ [Next]_vars => [A]_vars
  BY <1>1
<1> QED BY <1>2, MissionIsRight, PTL DEF Spec, ClosedOffMain

\* A mission the controller closed has ended the work it was proposed with, but for a
\* root a red landing CI sent back (close.go's closable).
THEOREM DoneIsDone == Spec => []DoneButForRework
<1>1. MissionInv => DoneButForRework
  BY DEF MissionInv, RowsRight
<1> QED BY <1>1, MissionIsRight, PTL

-----------------------------------------------------------------------------
(* No transactions wait in a circle but in one: the lock order of          *)
(* kernel.go, and what the streams make of it.                             *)

\* The order of the rows: the control plane, attempts, tasks, missions, the mission's
\* stream, the landing's.
Level(row) ==
  CASE row[1] = "global"  -> 1
    [] row[1] = "attempt" -> 2
    [] row[1] = "task"    -> 3
    [] row[1] = "mission" -> 4
    [] row[1] = "events"  -> 5
    [] OTHER -> 6

\* The passes of the facts loop, which may lock several rows of one level.
InLoop == LoopOps \cup {"close"}

\* The highest level a kind has asked for up to its n-th statement.
Top(op, n) ==
  CASE op = "claim"             -> <<1, 3, 4, 4>>[n]
    [] op = "dispatch"          -> <<3, 3, 4, 4>>[n]
    [] op = "conclude"          -> <<3, 3, 6, 6>>[n]
    [] op \in {"depend", "propose", "submit", "sweep", "salvage", "uncheck"} -> 3
    [] op \in {"stop", "decide"} -> 4
    [] op \in {"verify", "red"} -> <<3, 6, 6>>[n]
    [] op = "card"              -> <<2, 3, 4, 4>>[n]
    [] op = "late"              -> <<2, 4, 4>>[n]
    [] op = "close"             -> <<4, 4, 6, 6>>[n]
    [] OTHER                    -> 6

\* Who holds a row asks for no row below it, and, but for the loop, waits for none
\* beside it.
Above(op, row, l) ==
  /\ Level(row) <= Level(l.row)
  /\ op \in InLoop \/ l.how = "leave" \/ Level(row) < Level(l.row)

Rises(op, q) == \A i, j \in DOMAIN q : i < j => Above(op, q[i].row, q[j])
UpTo(q, n) == \A i \in DOMAIN q : Level(q[i].row) <= n

\* The kinds that ask for the mission's stream and then the landing's.
Both == {"verify", "conclude", "red"}
Pair == <<Alone(Events), Alone(Stream)>>

\* The others ask for the mission's stream only when they commit.
Off(op, row) == row # Events /\ (op \in {"verify", "conclude"} => row # Stream)
OffAll(op, q) == \A i \in DOMAIN q : Off(op, q[i].row)
OnStreams(x) ==
  \/ OffAll(x.op, x.need) /\ \A p \in x.held : Off(x.op, p[1])
  \/ x.op \in Both /\ x.need = Pair /\ \A p \in x.held : p[1] # Events
  \/ x.op \in Both /\ x.need \in {<<Alone(Stream)>>, <<>>} /\ <<Events, "alone">> \in x.held

Climbs(s) == LET x == tx[s] IN
  x.op # "none" =>
    /\ OnStreams(x)
    /\ x.op \in InLoop => s \in Controllers
    /\ Rises(x.op, x.need) /\ UpTo(x.need, Top(x.op, x.at))
    /\ \A p \in x.held : /\ Level(p[1]) <= Top(x.op, x.at)
                         /\ \A i \in DOMAIN x.need : Above(x.op, p[1], x.need[i])

LocksClimb == \A s \in Sessions : Climbs(s)

\* The levels of the rows.
LEMMA Levels ==
  /\ \A r : Level(r) \in 1..6
  /\ Level(Global) = 1 /\ Level(Mission) = 4 /\ Level(Events) = 5 /\ Level(Stream) = 6
  /\ \A t : Level(Attempt(t)) = 2 /\ Level(Task(t)) = 3
  /\ \A r \in Scopes : Level(r) <= 4
  /\ \A r \in AllRows : r \notin {Events, Stream} => Level(r) <= 4
<1>1. \A r : Level(r) \in 1..6
  BY DEF Level
<1>2. /\ Global[1] = "global" /\ Mission[1] = "mission"
      /\ Events[1] = "events" /\ Stream[1] = "stream"
  BY DEF Global, Mission, Events, Stream
<1>3. \A t : Attempt(t)[1] = "attempt" /\ Task(t)[1] = "task"
  BY DEF Attempt, Task
<1>4. /\ Level(Global) = 1 /\ Level(Mission) = 4 /\ Level(Events) = 5 /\ Level(Stream) = 6
      /\ \A t : Level(Attempt(t)) = 2 /\ Level(Task(t)) = 3
  BY <1>2, <1>3 DEF Level
<1>5. ASSUME NEW r \in Scopes PROVE Level(r) <= 4
  BY <1>4 DEF Scopes
<1>6. ASSUME NEW r \in AllRows, r \notin {Events, Stream} PROVE Level(r) <= 4
  BY <1>4, <1>5, <1>6 DEF AllRows
<1> QED BY <1>1, <1>4, <1>5, <1>6

\* The n-th statement asks for rows in their order, up to its top and from that of the
\* statement before it.
Fits(op, q, n) ==
  /\ Rises(op, q) /\ UpTo(q, Top(op, n))
  /\ n > 1 => \A row : \A i \in DOMAIN q : Level(row) <= Top(op, n - 1) => Above(op, row, q[i])

\* Rows of one level are in order for the loop, and for whoever does not wait.
LEMMA FlatFits ==
  ASSUME NEW op, NEW q, NEW n \in 1..3, NEW v \in 1..6, \A i \in DOMAIN q : Level(q[i].row) = v,
         op \in InLoop \/ \A i \in DOMAIN q : q[i].how = "leave",
         v <= Top(op, n), n > 1 => Top(op, n - 1) <= v, Top(op, n) \in Nat, n > 1 => Top(op, n - 1) \in Nat
  PROVE  Fits(op, q, n)
<1>1. \A r : Level(r) \in 1..6
  BY Levels
<1> QED BY <1>1 DEF Fits, Rises, UpTo, Above

\* A statement of one row fits where the row does.
LEMMA OneFits ==
  ASSUME NEW op, NEW l, NEW n \in 1..3, Level(l.row) <= Top(op, n),
         n > 1 => \A row : Level(row) <= Top(op, n - 1) => Above(op, row, l)
  PROVE  Fits(op, <<l>>, n)
BY DEF Fits, Rises, UpTo

\* So does a statement that asks for none.
LEMMA NoneFits ==
  ASSUME NEW op, NEW n
  PROVE  Fits(op, <<>>, n)
BY DEF Fits, Rises, UpTo

\* So does a first statement of two rows that rise.
LEMMA TwoFits ==
  ASSUME NEW op, NEW a, NEW b, Above(op, a.row, b), Level(a.row) <= Top(op, 1), Level(b.row) <= Top(op, 1)
  PROVE  Fits(op, <<a, b>>, 1)
BY DEF Fits, Rises, UpTo

\* So does a later statement of the two streams.
LEMMA PairFits ==
  ASSUME NEW op, NEW n \in 2..3, Top(op, n) = 6, Top(op, n - 1) = 3
  PROVE  Fits(op, Pair, n)
<1>1. /\ 1 \in DOMAIN Pair /\ 2 \in DOMAIN Pair /\ \A i \in DOMAIN Pair : i = 1 \/ i = 2
      /\ Pair[1] = Alone(Events) /\ Pair[2] = Alone(Stream)
  BY DEF Pair
<1>2. Pair[1].row = Events /\ Pair[2].row = Stream
  BY <1>1, LockFields
<1>3. \A r : Level(r) \in 1..6
  BY Levels
<1>4. Level(Pair[1].row) = 5 /\ Level(Pair[2].row) = 6
  BY <1>2, Levels
<1>5. Rises(op, Pair) /\ UpTo(Pair, Top(op, n))
  BY <1>1, <1>4 DEF Rises, UpTo, Above
<1>6. ASSUME NEW row, NEW i \in DOMAIN Pair, Level(row) <= 3
      PROVE  Above(op, row, Pair[i])
  BY <1>1, <1>3, <1>4, <1>6 DEF Above
<1> QED BY <1>5, <1>6 DEF Fits

\* So does a first statement of three.
LEMMA ThreeFits ==
  ASSUME NEW op, NEW a, NEW b, NEW c, Above(op, a.row, b), Above(op, a.row, c), Above(op, b.row, c),
         Level(a.row) <= Top(op, 1), Level(b.row) <= Top(op, 1), Level(c.row) <= Top(op, 1)
  PROVE  Fits(op, <<a, b, c>>, 1)
BY DEF Fits, Rises, UpTo

\* The tops of each kind, statement by statement.
LEMMA Tops ==
  /\ Top("claim", 1) = 1 /\ Top("claim", 2) = 3 /\ Top("claim", 3) = 4 /\ Top("claim", 4) = 4
  /\ Top("dispatch", 1) = 3 /\ Top("dispatch", 2) = 3 /\ Top("dispatch", 3) = 4 /\ Top("dispatch", 4) = 4
  /\ Top("conclude", 1) = 3 /\ Top("conclude", 2) = 3 /\ Top("conclude", 3) = 6 /\ Top("conclude", 4) = 6
  /\ \A op \in {"depend", "propose", "submit", "sweep", "salvage", "uncheck"} : \A n : Top(op, n) = 3
  /\ \A op \in {"stop", "decide"} : \A n : Top(op, n) = 4
  /\ \A op \in {"verify", "red"} : Top(op, 1) = 3 /\ Top(op, 2) = 6 /\ Top(op, 3) = 6
  /\ Top("card", 1) = 2 /\ Top("card", 2) = 3 /\ Top("card", 3) = 4 /\ Top("card", 4) = 4
  /\ Top("late", 1) = 2 /\ Top("late", 2) = 4 /\ Top("late", 3) = 4
  /\ Top("close", 1) = 4 /\ Top("close", 2) = 4 /\ Top("close", 3) = 6 /\ Top("close", 4) = 6
  /\ \A op \in {"land", "push", "settle"} : \A n : Top(op, n) = 6
BY DEF Top

\* What a kind asked for up to a statement is no higher than what it may ask for by
\* the next.
LEMMA TopsRise ==
  ASSUME NEW op \in Kinds, NEW n \in 1 .. Steps(op)
  PROVE  Top(op, n) \in Nat /\ Top(op, n + 1) \in Nat /\ Top(op, n) <= Top(op, n + 1)
<1>1. CASE op \in {"claim", "dispatch", "conclude", "card", "close"}
  <2>1. n = 1 \/ n = 2 \/ n = 3
    BY <1>1, StepsOf
  <2> QED BY <1>1, <2>1, Tops
<1>2. CASE op \in {"verify", "late", "red"}
  <2>1. n = 1 \/ n = 2
    BY <1>2, StepsOf
  <2> QED BY <1>2, <2>1, Tops
<1>3. CASE op \in {"stop", "depend", "propose", "submit", "sweep", "salvage", "decide", "uncheck", "land", "push", "settle"}
  BY <1>3, Tops
<1> QED BY <1>1, <1>2, <1>3 DEF Kinds, LoopOps, OtherOps

\* How the locks that are not waited for are told.
LEMMA LockHows ==
  \A r : /\ OrLeave(Shared(r)).how = "leave" /\ OrLeave(Alone(r)).how = "leave"
         /\ Shared(r).how = "wait" /\ Alone(r).how = "wait"
BY DEF Shared, Alone, OrLeave

\* The lists of locks, one for each of a list of tasks.
LEMMA EachRows ==
  ASSUME NEW q \in Seq(Tasks)
  PROVE  /\ \A i \in DOMAIN Each(LAMBDA u : Alone(Attempt(u)), q) :
              Each(LAMBDA u : Alone(Attempt(u)), q)[i] = Alone(Attempt(q[i]))
         /\ \A i \in DOMAIN Each(LAMBDA u : OrLeave(Alone(Task(u))), q) :
              Each(LAMBDA u : OrLeave(Alone(Task(u))), q)[i] = OrLeave(Alone(Task(q[i])))
         /\ \A i \in DOMAIN Each(LAMBDA d : Shared(Task(d)), q) :
              Each(LAMBDA d : Shared(Task(d)), q)[i] = Shared(Task(q[i]))
BY DEF Each

\* One list after another, lock by lock.
LEMMA OneThenOne ==
  ASSUME NEW a \in Locks, NEW b \in Locks
  PROVE  <<a>> \o <<b>> = <<a, b>>
<1>1. <<a>> \in Seq(Locks) /\ <<b>> \in Seq(Locks) /\ <<a, b>> \in Seq(Locks)
  OBVIOUS
<1>2. <<a>> \o <<b>> \in Seq(Locks) /\ Len(<<a>> \o <<b>>) = 2
  BY <1>1, ConcatProperties
<1>3. (<<a>> \o <<b>>)[1] = a /\ (<<a>> \o <<b>>)[2] = b
  BY <1>1, ConcatProperties
<1>4. \A i \in 1..2 : (<<a>> \o <<b>>)[i] = <<a, b>>[i]
  BY <1>3
<1> QED BY <1>1, <1>2, <1>4, SeqEqual

\* The same of one and two.
LEMMA OneThenTwo ==
  ASSUME NEW a \in Locks, NEW b \in Locks, NEW c \in Locks
  PROVE  <<a>> \o <<b, c>> = <<a, b, c>>
<1>1. <<a>> \in Seq(Locks) /\ <<b, c>> \in Seq(Locks) /\ <<a, b, c>> \in Seq(Locks)
  OBVIOUS
<1>2. <<a>> \o <<b, c>> \in Seq(Locks) /\ Len(<<a>> \o <<b, c>>) = 3
  BY <1>1, ConcatProperties
<1>3. /\ (<<a>> \o <<b, c>>)[1] = a /\ (<<a>> \o <<b, c>>)[2] = b
      /\ (<<a>> \o <<b, c>>)[3] = c
  BY <1>1, ConcatProperties
<1>4. \A i \in 1..3 : (<<a>> \o <<b, c>>)[i] = <<a, b, c>>[i]
  BY <1>3
<1> QED BY <1>1, <1>2, <1>4, SeqEqual

\* The Owner's close: all live attempts, then all tasks that are left.
LEMMA CardClimbs ==
  ASSUME RowsTyped, NEW t \in Tasks, NEW n \in 1..3
  PROVE  Fits("card", Statements("card", t)[n], n)
<1> DEFINE p == Each(LAMBDA u : Alone(Attempt(u)), Sorted(Live))
           q == Each(LAMBDA u : OrLeave(Alone(Task(u))), WorkFirst({u \in Tasks : Open(u)}))
<1>1. Statements("card", t) = <<p, q, <<Alone(Mission)>> >>
  BY DEF Statements
<1>2. Live \in SUBSET Tasks /\ {u \in Tasks : Open(u)} \in SUBSET Tasks
  BY DEF Live
<1>3. Sorted(Live) \in Seq(Tasks) /\ WorkFirst({u \in Tasks : Open(u)}) \in Seq(Tasks)
  BY <1>2, SortedTyped, WorkFirstTyped
<1>4. \A i \in DOMAIN p : p[i].row = Attempt(Sorted(Live)[i])
  BY <1>3, EachRows, LockFields
<1>5. \A i \in DOMAIN q : q[i].row = Task(WorkFirst({u \in Tasks : Open(u)})[i])
  BY <1>3, EachRows, LockFields
<1>6. "card" \in InLoop
  BY DEF InLoop, LoopOps
<1> HIDE DEF p, q
<1>7. (\A i \in DOMAIN p : Level(p[i].row) = 2) /\ (\A i \in DOMAIN q : Level(q[i].row) = 3)
  BY <1>4, <1>5, Levels
<1>8. Fits("card", p, 1) /\ Fits("card", q, 2)
  BY <1>6, <1>7, FlatFits, Tops
<1>9. Fits("card", <<Alone(Mission)>>, 3)
  BY <1>6, Levels, LockFields, Tops, OneFits DEF Above
<1> QED BY <1>1, <1>8, <1>9

\* A dispatch: its task, all it waits for, its mission.
LEMMA DispatchClimbs ==
  ASSUME RowsTyped, NEW t \in Tasks, NEW n \in 1..3
  PROVE  Fits("dispatch", Statements("dispatch", t)[n], n)
<1> DEFINE q == Each(LAMBDA d : Shared(Task(d)), Sorted(Waited(t)))
<1>1. Statements("dispatch", t) = << <<Alone(Task(t))>>, q, <<Shared(Mission)>> >>
  BY DEF Statements
<1>2. Waited(t) \in SUBSET Tasks
  BY MissionConstants DEF Waited, RowsTyped
<1>3. \A i \in DOMAIN q : q[i].row = Task(Sorted(Waited(t))[i])
  BY <1>2, SortedTyped, EachRows, LockFields
<1>4. "dispatch" \in InLoop
  BY DEF InLoop, LoopOps
<1> HIDE DEF q
<1>5. \A i \in DOMAIN q : Level(q[i].row) = 3
  BY <1>3, Levels
<1>6. Fits("dispatch", q, 2)
  BY <1>4, <1>5, FlatFits, Tops
<1>7. Fits("dispatch", <<Alone(Task(t))>>, 1)
  BY Levels, LockFields, Tops, OneFits
<1>8. Fits("dispatch", <<Shared(Mission)>>, 3)
  BY <1>4, Levels, LockFields, Tops, OneFits DEF Above
<1> QED BY <1>1, <1>6, <1>7, <1>8

\* A claim leaves out the tasks it cannot lock, and waits for the rest in order.
LEMMA ClaimClimbs ==
  ASSUME RowsTyped, NEW t \in Tasks, NEW n \in 1..3
  PROVE  Fits("claim", Statements("claim", t)[n], n)
<1> DEFINE a == OrLeave(Alone(Task(t)))
           b == OrLeave(Shared(Task(subject[t])))
           q == OfSubject(t, LAMBDA s : OrLeave(Shared(Task(s))))
<1>1. Statements("claim", t) = << <<Shared(Global)>>, <<a>> \o q, <<Alone(Mission)>> >>
  BY DEF Statements
<1>2. <<a>> \o q = <<a>> \/ <<a>> \o q = <<a, b>>
  <2>1. a \in Locks
    BY LocksTyped
  <2>2. CASE Root(t)
    <3>1. q = <<>>
      BY <2>2 DEF OfSubject
    <3> HIDE DEF a, q
    <3>2. <<a>> \o <<>> = <<a>>
      BY <2>1
    <3> QED BY <3>1, <3>2
  <2>3. CASE ~Root(t)
    <3>1. q = <<b>> /\ b \in Locks
      BY <2>3, SubjectLocks, LocksTyped
    <3> HIDE DEF a, b, q
    <3>2. <<a>> \o <<b>> = <<a, b>>
      BY <2>1, <3>1, OneThenOne
    <3> QED BY <3>1, <3>2
  <2> QED BY <2>2, <2>3
<1>3. Level(a.row) = 3 /\ Level(b.row) = 3 /\ a.how = "leave" /\ b.how = "leave"
  BY Levels, LockFields, LockHows
<1> HIDE DEF a, b, q
<1>4. /\ \A i \in DOMAIN (<<a>> \o q) : Level((<<a>> \o q)[i].row) = 3
      /\ \A i \in DOMAIN (<<a>> \o q) : (<<a>> \o q)[i].how = "leave"
  <2> DEFINE p == <<a>> \o q
  <2>1. p = <<a>> \/ p = <<a, b>>
    BY <1>2
  <2> HIDE DEF p
  <2>2. (\A i \in DOMAIN p : Level(p[i].row) = 3) /\ (\A i \in DOMAIN p : p[i].how = "leave")
    BY <1>3, <2>1
  <2> QED BY <2>2 DEF p
<1>5. Fits("claim", <<a>> \o q, 2)
  <2> DEFINE p == <<a>> \o q
  <2>1. (\A i \in DOMAIN p : Level(p[i].row) = 3) /\ (\A i \in DOMAIN p : p[i].how = "leave")
    BY <1>4
  <2> HIDE DEF p
  <2>2. Fits("claim", p, 2)
    BY <2>1, FlatFits, Tops
  <2> QED BY <2>2 DEF p
<1>6. Fits("claim", <<Shared(Global)>>, 1)
  BY Levels, LockFields, Tops, OneFits
<1>7. Fits("claim", <<Alone(Mission)>>, 3)
  BY Levels, LockFields, Tops, OneFits DEF Above
<1>8. CASE n = 1
  BY <1>1, <1>6, <1>8
<1>9. CASE n = 2
  <2>1. Statements("claim", t)[2] = <<a>> \o q
    BY <1>1
  <2> QED BY <1>5, <1>9, <2>1
<1>10. CASE n = 3
  BY <1>1, <1>7, <1>10
<1> QED BY <1>8, <1>9, <1>10

\* A decision on a card: the subject, if there is one, its task, the mission.
LEMMA DecideClimbs ==
  ASSUME RowsTyped, NEW t \in Tasks
  PROVE  Fits("decide", Statements("decide", t)[1], 1)
<1> DEFINE a == Alone(Task(subject[t]))
           b == Alone(Task(t))
           c == Shared(Mission)
           p == OfSubject(t, LAMBDA s : Alone(Task(s))) \o <<b, c>>
<1>1. Statements("decide", t) = <<p>>
  BY DEF Statements
<1>2. p = <<b, c>> \/ p = <<a, b, c>>
  <2>1. b \in Locks /\ c \in Locks
    BY LocksTyped
  <2>2. CASE Root(t)
    <3>1. OfSubject(t, LAMBDA s : Alone(Task(s))) = <<>>
      BY <2>2 DEF OfSubject
    <3> HIDE DEF b, c
    <3>2. <<>> \o <<b, c>> = <<b, c>>
      BY <2>1
    <3> QED BY <3>1, <3>2
  <2>3. CASE ~Root(t)
    <3>1. OfSubject(t, LAMBDA s : Alone(Task(s))) = <<a>> /\ a \in Locks
      BY <2>3, SubjectLocks, LocksTyped
    <3> HIDE DEF a, b, c
    <3>2. <<a>> \o <<b, c>> = <<a, b, c>>
      BY <2>1, <3>1, OneThenTwo
    <3> QED BY <3>1, <3>2
  <2> QED BY <2>2, <2>3
<1>3. Level(a.row) = 3 /\ Level(b.row) = 3 /\ Level(c.row) = 4
  BY Levels, LockFields
<1>4. "decide" \in InLoop
  BY DEF InLoop, LoopOps
<1> HIDE DEF a, b, c, p
<1>5. Above("decide", a.row, b) /\ Above("decide", a.row, c) /\ Above("decide", b.row, c)
  BY <1>3, <1>4 DEF Above
<1>6. Fits("decide", <<b, c>>, 1) /\ Fits("decide", <<a, b, c>>, 1)
  BY <1>3, <1>5, Tops, TwoFits, ThreeFits
<1>7. Statements("decide", t)[1] = p
  BY <1>1
<1> QED BY <1>2, <1>6, <1>7

\* A proposal: the subject, if there is one.
LEMMA ProposeClimbs ==
  ASSUME NEW t
  PROVE  Fits("propose", Statements("propose", t)[1], 1)
<1>1. Statements("propose", t) = << OfSubject(t, LAMBDA s : Shared(Task(s))) >>
  BY DEF Statements
<1>2. OfSubject(t, LAMBDA s : Shared(Task(s))) = <<>> \/ OfSubject(t, LAMBDA s : Shared(Task(s))) = <<Shared(Task(subject[t]))>>
  BY DEF OfSubject
<1>3. Fits("propose", <<Shared(Task(subject[t]))>>, 1)
  BY Levels, LockFields, Tops, OneFits
<1> QED BY <1>1, <1>2, <1>3, NoneFits

\* The statements of the kinds that name their rows one by one, in turn.
LEMMA PlainFirst ==
  ASSUME NEW t
  PROVE  /\ Statements("stop", t)[1] = <<Alone(t)>>
         /\ Statements("depend", t)[1] = <<Alone(Task(t[1]))>>
         /\ Statements("submit", t)[1] = <<Alone(Attempt(t)), Alone(Task(t))>>
         /\ Statements("sweep", t)[1] = <<OrLeave(Alone(Attempt(t))), Alone(Task(t))>>
         /\ Statements("salvage", t)[1] =
              (IF t \in Live THEN <<Alone(Task(t))>> ELSE <<Shared(Attempt(t)), Alone(Task(t))>>)
         /\ Statements("uncheck", t)[1] = <<Shared(Task(subject[t])), Alone(Task(t))>>
         /\ Statements("settle", t)[1] = <<Alone(Stream)>>
         /\ Statements("land", t)[1] = <<Shared(Task(t)), Shared(Mission), Alone(Stream)>>
         /\ Statements("push", t)[1] = <<Shared(Task(t)), Shared(Mission), Alone(Stream)>>
<1>1. Statements("stop", t)[1] = <<Alone(t)>> /\ Statements("depend", t)[1] = <<Alone(Task(t[1]))>>
  BY DEF Statements
<1>2. Statements("submit", t)[1] = <<Alone(Attempt(t)), Alone(Task(t))>>
  BY DEF Statements
<1>3. Statements("sweep", t)[1] = <<OrLeave(Alone(Attempt(t))), Alone(Task(t))>>
  BY DEF Statements
<1>4. /\ Statements("salvage", t)[1] =
           (IF t \in Live THEN <<Alone(Task(t))>> ELSE <<Shared(Attempt(t)), Alone(Task(t))>>)
      /\ Statements("settle", t)[1] = <<Alone(Stream)>>
  BY DEF Statements
<1>5. Statements("uncheck", t)[1] = <<Shared(Task(subject[t])), Alone(Task(t))>>
  BY DEF Statements
<1>6. /\ Statements("land", t)[1] = <<Shared(Task(t)), Shared(Mission), Alone(Stream)>>
      /\ Statements("push", t)[1] = <<Shared(Task(t)), Shared(Mission), Alone(Stream)>>
  BY DEF Statements
<1> QED BY <1>1, <1>2, <1>3, <1>4, <1>5, <1>6

\* The kinds that name their rows one by one, of one statement, ...
LEMMA ShortClimb ==
  ASSUME NEW t
  PROVE  /\ t \in Scopes => Fits("stop", Statements("stop", t)[1], 1)
         /\ Fits("depend", Statements("depend", t)[1], 1)
         /\ Fits("submit", Statements("submit", t)[1], 1)
         /\ Fits("sweep", Statements("sweep", t)[1], 1)
         /\ Fits("salvage", Statements("salvage", t)[1], 1)
         /\ Fits("uncheck", Statements("uncheck", t)[1], 1)
         /\ Fits("settle", Statements("settle", t)[1], 1)
         /\ Fits("land", Statements("land", t)[1], 1)
         /\ Fits("push", Statements("push", t)[1], 1)
<1>1. t \in Scopes => Fits("stop", <<Alone(t)>>, 1)
  BY Levels, LockFields, Tops, OneFits
<1>2. Fits("depend", <<Alone(Task(t[1]))>>, 1) /\ Fits("salvage", <<Alone(Task(t))>>, 1)
      /\ Fits("salvage", <<Shared(Attempt(t)), Alone(Task(t))>>, 1)
  BY Levels, LockFields, Tops, OneFits, TwoFits DEF Above
<1>3. Fits("settle", <<Alone(Stream)>>, 1)
  BY Levels, LockFields, Tops, OneFits
<1>4. Fits("submit", <<Alone(Attempt(t)), Alone(Task(t))>>, 1)
  BY Levels, LockFields, Tops, TwoFits DEF Above
<1>5. Fits("sweep", <<OrLeave(Alone(Attempt(t))), Alone(Task(t))>>, 1)
  BY Levels, LockFields, Tops, TwoFits DEF Above
<1>6. Fits("uncheck", <<Shared(Task(subject[t])), Alone(Task(t))>>, 1)
  <2>1. "uncheck" \in InLoop
    BY DEF InLoop, LoopOps
  <2> QED BY <2>1, Levels, LockFields, Tops, TwoFits DEF Above
<1>7. \A op \in {"land", "push"} : Fits(op, <<Shared(Task(t)), Shared(Mission), Alone(Stream)>>, 1)
  <2> TAKE op \in {"land", "push"}
  <2>1. /\ Above(op, Shared(Task(t)).row, Shared(Mission)) /\ Above(op, Shared(Task(t)).row, Alone(Stream))
        /\ Above(op, Shared(Mission).row, Alone(Stream))
    BY Levels, LockFields DEF Above
  <2> QED BY <2>1, Levels, LockFields, Tops, ThreeFits
<1>8. /\ Statements("stop", t)[1] = <<Alone(t)>>
      /\ Statements("depend", t)[1] = <<Alone(Task(t[1]))>>
      /\ Statements("submit", t)[1] = <<Alone(Attempt(t)), Alone(Task(t))>>
      /\ Statements("sweep", t)[1] = <<OrLeave(Alone(Attempt(t))), Alone(Task(t))>>
      /\ Statements("salvage", t)[1] =
           (IF t \in Live THEN <<Alone(Task(t))>> ELSE <<Shared(Attempt(t)), Alone(Task(t))>>)
      /\ Statements("uncheck", t)[1] = <<Shared(Task(subject[t])), Alone(Task(t))>>
      /\ Statements("settle", t)[1] = <<Alone(Stream)>>
      /\ Statements("land", t)[1] = <<Shared(Task(t)), Shared(Mission), Alone(Stream)>>
      /\ Statements("push", t)[1] = <<Shared(Task(t)), Shared(Mission), Alone(Stream)>>
  BY PlainFirst
<1> QED BY <1>1, <1>2, <1>3, <1>4, <1>5, <1>6, <1>7, <1>8

\* ... and of two or three.
LEMMA LongClimb ==
  ASSUME NEW t
  PROVE  /\ \A n \in 1..2, op \in {"verify", "late", "red"} : Fits(op, Statements(op, t)[n], n)
         /\ \A n \in 1..3, op \in {"conclude", "close"} : Fits(op, Statements(op, t)[n], n)
<1>0. \A op \in {"verify", "conclude", "late", "close"} : op \in InLoop
  BY DEF InLoop, LoopOps
<1>1. Fits("verify", Statements("verify", t)[1], 1) /\ Fits("verify", Statements("verify", t)[2], 2)
  <2>1. Fits("verify", <<Shared(Attempt(t)), Alone(Task(t))>>, 1)
    BY Levels, LockFields, Tops, TwoFits DEF Above
  <2>2. Fits("verify", Pair, 2)
    BY Tops, PairFits
  <2>3. /\ Statements("verify", t)[1] = <<Shared(Attempt(t)), Alone(Task(t))>>
        /\ Statements("verify", t)[2] = (IF Checks(t) = {} /\ RetryDue(t) THEN Pair ELSE <<>>)
    BY DEF Statements, Pair
  <2> QED BY <2>1, <2>2, <2>3, NoneFits
<1>2. /\ Fits("conclude", Statements("conclude", t)[1], 1) /\ Fits("conclude", Statements("conclude", t)[2], 2)
      /\ Fits("conclude", Statements("conclude", t)[3], 3)
  <2> DEFINE a == Alone(Attempt(t))
             b == Judged(subject[t])
             c == Alone(Task(subject[t]))
  <2>1. Level(a.row) = 2 /\ Level(b.row) = 2 /\ Level(c.row) = 3
    BY Levels, LockFields DEF Judged
  <2> HIDE DEF a, b, c
  <2>2. Above("conclude", a.row, b) /\ Above("conclude", a.row, c) /\ Above("conclude", b.row, c)
    BY <1>0, <2>1 DEF Above
  <2>3. Fits("conclude", <<a, b, c>>, 1)
    BY <2>1, <2>2, Tops, ThreeFits
  <2>4. Fits("conclude", <<Alone(Task(t))>>, 2)
    BY <1>0, Levels, LockFields, Tops, OneFits DEF Above
  <2>5. /\ Statements("conclude", t)[1] = <<a, b, c>> /\ Statements("conclude", t)[2] = <<Alone(Task(t))>>
        /\ Statements("conclude", t)[3] = (IF RetryDue(subject[t]) THEN Pair ELSE <<>>)
    BY DEF Statements, Pair, a, b, c
  <2>6. Fits("conclude", Pair, 3)
    BY Tops, PairFits
  <2> QED BY <2>3, <2>4, <2>5, <2>6, NoneFits
<1>3. Fits("late", Statements("late", t)[1], 1) /\ Fits("late", Statements("late", t)[2], 2)
  <2>1. Fits("late", <<Alone(Attempt(t))>>, 1)
    BY Levels, LockFields, Tops, OneFits
  <2> DEFINE a == Alone(Task(t))
             b == Shared(Mission)
  <2>2. Level(a.row) = 3 /\ Level(b.row) = 4
    BY Levels, LockFields
  <2> HIDE DEF a, b
  <2>3. \A r : Level(r) \in 1..6
    BY Levels
  <2>4. Fits("late", <<a, b>>, 2)
    BY <1>0, <2>2, <2>3, Tops DEF Fits, Rises, UpTo, Above
  <2>5. /\ Statements("late", t)[1] = (IF t \in Live THEN <<Alone(Attempt(t))>> ELSE <<>>)
        /\ Statements("late", t)[2] = <<a, b>>
    BY DEF Statements, a, b
  <2> QED BY <2>1, <2>4, <2>5, NoneFits
<1>4. Fits("red", Statements("red", t)[1], 1) /\ Fits("red", Statements("red", t)[2], 2)
  <2>1. Fits("red", <<Alone(Task(t))>>, 1)
    BY Levels, LockFields, Tops, OneFits
  <2>2. Fits("red", <<Alone(Stream)>>, 2) /\ Fits("red", Pair, 2)
    BY Levels, LockFields, Tops, OneFits, PairFits DEF Above
  <2>3. /\ Statements("red", t)[1] = <<Alone(Task(t))>>
        /\ Statements("red", t)[2] = (IF Reworks(t) THEN Pair ELSE <<Alone(Stream)>>)
    BY DEF Statements, Pair
  <2> QED BY <2>1, <2>2, <2>3
<1>5. /\ Fits("close", Statements("close", t)[1], 1) /\ Fits("close", Statements("close", t)[2], 2)
      /\ Fits("close", Statements("close", t)[3], 3)
  <2>1. Fits("close", <<Alone(Mission)>>, 1)
    BY Levels, LockFields, Tops, OneFits
  <2>2. Fits("close", <<Alone(Stream)>>, 3)
    BY Levels, LockFields, Tops, OneFits DEF Above
  <2>3. /\ Statements("close", t)[1] = <<Alone(Mission)>> /\ Statements("close", t)[2] = <<>>
        /\ Statements("close", t)[3] = (IF Unclaimed = {} THEN <<>> ELSE <<Alone(Stream)>>)
    BY DEF Statements
  <2> QED BY <2>1, <2>2, <2>3, NoneFits
<1> QED BY <1>1, <1>2, <1>3, <1>4, <1>5

\* Every statement of every kind fits the order.
LEMMA StatementsClimb ==
  ASSUME RowsTyped, NEW op \in Kinds, NEW t, About(op, t), NEW n \in 1 .. Steps(op)
  PROVE  Fits(op, Statements(op, t)[n], n)
<1>1. op \notin {"stop", "depend", "close"} => t \in Tasks
  BY AboutRows
<1>2. CASE op \in {"claim", "dispatch", "card"}
  BY <1>1, <1>2, StepsOf, ClaimClimbs, DispatchClimbs, CardClimbs
<1>3. CASE op \in {"verify", "late", "red"}
  BY <1>3, StepsOf, LongClimb
<1>4. CASE op \in {"conclude", "close"}
  BY <1>4, StepsOf, LongClimb
<1>5. CASE op = "decide"
  BY <1>1, <1>5, StepsOf, DecideClimbs
<1>6. CASE op = "propose"
  BY <1>6, StepsOf, ProposeClimbs
<1>7. CASE op \in {"stop", "depend", "submit", "sweep", "salvage", "uncheck", "settle", "land", "push"}
  <2>1. n = 1
    BY <1>7, StepsOf
  <2>2. op = "stop" => t \in Scopes
    BY AboutRows
  <2> QED BY <1>7, <2>1, <2>2, ShortClimb
<1> QED BY <1>2, <1>3, <1>4, <1>5, <1>6, <1>7 DEF Kinds, LoopOps, OtherOps

\* A statement of rows below the streams asks for no stream.
LEMMA LowOff ==
  ASSUME NEW op, NEW q, NEW n, UpTo(q, n), n \in 1..4
  PROVE  OffAll(op, q)
<1>1. \A r : Level(r) \in 1..6
  BY Levels
<1>2. Level(Events) = 5 /\ Level(Stream) = 6
  BY Levels
<1> QED BY <1>1, <1>2 DEF UpTo, OffAll, Off

\* Any statement of any kind asks for both streams or leaves the mission's alone.
LEMMA StatementsOff ==
  ASSUME RowsTyped, NEW op \in Kinds, NEW t, About(op, t), NEW n \in 1 .. Steps(op)
  PROVE  \/ OffAll(op, Statements(op, t)[n])
         \/ op \in Both /\ n > 1 /\ Top(op, n - 1) = 3 /\ Statements(op, t)[n] = Pair
<1> DEFINE q == Statements(op, t)[n]
<1>1. UpTo(q, Top(op, n))
  BY StatementsClimb DEF Fits
<1>2. Stream # Events
  BY Levels
<1>3. OffAll(op, <<>>) /\ (op \notin {"verify", "conclude"} => OffAll(op, <<Alone(Stream)>>))
  BY <1>2, LockFields DEF OffAll, Off
<1>4. CASE op \in {"claim", "dispatch", "card"}
  <2>1. Top(op, n) \in 1..4
    BY <1>4, StepsOf, Tops
  <2> HIDE DEF q
  <2>2. OffAll(op, q)
    BY <1>1, <2>1, LowOff
  <2> QED BY <2>2 DEF q
<1>5. CASE op \in {"stop", "depend", "propose", "submit", "sweep", "salvage", "decide", "uncheck", "late"}
  <2>1. Top(op, n) \in 1..4
    BY <1>5, StepsOf, Tops
  <2> HIDE DEF q
  <2>2. OffAll(op, q)
    BY <1>1, <2>1, LowOff
  <2> QED BY <2>2 DEF q
<1>6. CASE op \in {"conclude", "verify", "red", "close"}
  <2>1. CASE Top(op, n) \in 1..4
    <3> HIDE DEF q
    <3>1. OffAll(op, q)
      BY <1>1, <2>1, LowOff
    <3> QED BY <3>1 DEF q
  <2>2. CASE Top(op, n) \notin 1..4
    <3>1. /\ op \in {"conclude", "close"} => n = 3
          /\ op \in {"verify", "red"} => n = 2
      BY <1>6, <2>2, StepsOf, Tops
    <3>2. op \in Both => n > 1 /\ Top(op, n - 1) = 3
      BY <3>1, Tops DEF Both
    <3>3. q \in {Pair, <<>>, <<Alone(Stream)>>}
      BY <1>6, <3>1 DEF Statements, Pair
    <3>4. /\ op = "close" => q # Pair
          /\ op \in {"verify", "conclude"} => q # <<Alone(Stream)>>
      <4>1. Pair # <<Alone(Stream)>> /\ Pair # <<>> /\ <<>> # <<Alone(Stream)>>
        BY DEF Pair
      <4>2. op = "close" => q \in {<<>>, <<Alone(Stream)>>}
        BY <3>1 DEF Statements
      <4>3. op \in {"verify", "conclude"} => q \in {<<>>, Pair}
        BY <3>1 DEF Statements, Pair
      <4> HIDE DEF q
      <4> QED BY <4>1, <4>2, <4>3
    <3> HIDE DEF q
    <3>5. OffAll(op, q) \/ (op \in Both /\ n > 1 /\ Top(op, n - 1) = 3 /\ q = Pair)
      BY <1>3, <1>6, <3>2, <3>3, <3>4 DEF Both
    <3> QED BY <3>5 DEF q
  <2> QED BY <2>1, <2>2
<1>7. CASE op \in {"land", "push", "settle"}
  <2>1. n = 1
    BY <1>7, StepsOf
  <2>2. q = <<Alone(Stream)>> \/ q = <<Shared(Task(t)), Shared(Mission), Alone(Stream)>>
    BY <1>7, <2>1, PlainFirst
  <2>3. Task(t) # Events /\ Mission # Events
    BY Levels
  <2>4. OffAll(op, <<Shared(Task(t)), Shared(Mission), Alone(Stream)>>)
    BY <1>2, <1>7, <2>3, LockFields DEF OffAll, Off
  <2> HIDE DEF q
  <2>5. OffAll(op, q)
    BY <1>3, <1>7, <2>2, <2>4
  <2> QED BY <2>5 DEF q
<1> QED BY <1>4, <1>5, <1>6, <1>7 DEF Kinds, LoopOps, OtherOps

\* A transaction that begins is about rows there are, and those of the facts loop
\* are its controller's.
LEMMA Begun ==
  ASSUME MissionInv, NEW s \in Sessions, Begin(s)
  PROVE  \E op, t, says : op \in Kinds /\ About(op, t) /\ Started(s, op, t, says) /\ (op \in InLoop => s \in Controllers)
<1>1. ASSUME NEW op \in OtherOps \cup LoopOps, NEW t \in Tasks, Starts(op, t) PROVE op \in Kinds /\ About(op, t)
  <2>1. op \in Kinds /\ op \notin {"stop", "depend", "close"}
    BY DEF Kinds, OtherOps, LoopOps
  <2>2. op \in OnRoot => Root(t)
    BY <1>1 DEF Starts, OnRoot, SalvagedOpen
  <2>3. op \in OnCheck => ~Root(t)
    BY <1>1 DEF Starts, OnCheck
  <2>4. op \in {"land", "push", "red", "settle"} => Lands(t)
    BY <1>1 DEF MissionInv, RowsRight, Starts, LandingsLand
  <2> QED BY <2>1, <2>2, <2>3, <2>4 DEF About
<1>2. ASSUME NEW op \in OtherOps \cup (IF s \in Controllers THEN LoopOps ELSE {}), NEW t \in Tasks,
             Starts(op, t), Started(s, op, t, "go")
      PROVE  op \in Kinds /\ About(op, t) /\ Started(s, op, t, "go") /\ (op \in InLoop => s \in Controllers)
  BY <1>1, <1>2 DEF InLoop, OtherOps, LoopOps
<1>3. ASSUME NEW r \in Stoppable
      PROVE  "stop" \in Kinds /\ About("stop", r) /\ "stop" \notin InLoop
  BY DEF Kinds, About, OnRoot, OnCheck, InLoop, LoopOps
<1>4. ASSUME NEW e \in Edges, Root(e[2])
      PROVE  "depend" \in Kinds /\ About("depend", e) /\ "depend" \notin InLoop
  BY <1>4 DEF Kinds, About, OnRoot, OnCheck, InLoop, LoopOps
<1>5. ASSUME NEW limits \in {"early", "late"}
      PROVE  "close" \in Kinds /\ About("close", limits)
  BY DEF Kinds, About, OnRoot, OnCheck
<1>6. CASE \E op \in OtherOps \cup (IF s \in Controllers THEN LoopOps ELSE {}), t \in Tasks :
             Starts(op, t) /\ Started(s, op, t, "go")
  BY <1>2, <1>6
<1>7. CASE \E r \in Stoppable \ stops : Cardinality(stops) < MaxStops /\ Started(s, "stop", r, "go")
  BY <1>3, <1>7
<1>8. CASE \E e \in Edges \ deps :
             Root(e[2]) /\ task[e[1]] = "proposed" /\ task[e[2]] # "absent" /\ Started(s, "depend", e, "go")
  BY <1>4, <1>8
<1>9. CASE /\ s \in Controllers /\ Closable
           /\ \E limits \in {"early", "late"} : Started(s, "close", limits, IF Delivered THEN "done" ELSE "stopped")
  BY <1>5, <1>9
<1> QED BY <1>6, <1>7, <1>8, <1>9 DEF Begin

\* A session's step keeps the order when what it becomes does.
LEMMA OwnClimb ==
  ASSUME MissionInv, LocksClimb, NEW s \in Sessions, NEW y, tx' = [tx EXCEPT ![s] = y], Climbs(s)'
  PROVE  LocksClimb'
<1>1. \A u \in Sessions : u # s => tx'[u] = tx[u]
  BY TxSet DEF MissionInv
<1>2. ASSUME NEW u \in Sessions, u # s PROVE Climbs(u)'
  BY <1>1, <1>2 DEF LocksClimb, Climbs
<1> QED BY <1>2 DEF LocksClimb

\* An idle session holds nothing.
LEMMA IdleClimbs ==
  ASSUME MissionInv, LocksClimb, NEW s \in Sessions, tx' = [tx EXCEPT ![s] = Idle]
  PROVE  LocksClimb'
<1>1. tx'[s] = Idle
  BY TxSet DEF MissionInv
<1>2. Climbs(s)'
  BY <1>1 DEF Climbs, Idle
<1> QED BY <1>2, OwnClimb

\* A transaction begins with nothing held.
LEMMA BeginClimbs ==
  ASSUME MissionInv, LocksClimb, NEW s \in Sessions, Begin(s)
  PROVE  LocksClimb'
<1>1. PICK op, t, says : op \in Kinds /\ About(op, t) /\ Started(s, op, t, says) /\ (op \in InLoop => s \in Controllers)
  BY Begun
<1> DEFINE y == [op |-> op, on |-> t, at |-> 1, need |-> Statements(op, t)[1], held |-> {}, says |-> says]
<1>2. tx' = [tx EXCEPT ![s] = y]
  BY <1>1 DEF Started
<1>3. tx'[s] = y
  BY <1>2, TxSet DEF MissionInv
<1>4. tx'[s].op = op /\ tx'[s].at = 1 /\ tx'[s].need = Statements(op, t)[1] /\ tx'[s].held = {}
  BY <1>3
<1>5. Fits(op, Statements(op, t)[1], 1)
  <2>1. 1 \in 1 .. Steps(op)
    BY <1>1, StepsOf DEF Kinds, LoopOps, OtherOps
  <2> QED BY <1>1, <2>1, StatementsClimb DEF MissionInv, RowsRight
<1>6. OnStreams(tx[s])'
  <2>1. 1 \in 1 .. Steps(op)
    BY <1>1, StepsOf DEF Kinds, LoopOps, OtherOps
  <2>2. OffAll(op, Statements(op, t)[1])
    BY <1>1, <2>1, StatementsOff DEF MissionInv, RowsRight
  <2>3. OffAll(tx'[s].op, tx'[s].need) /\ \A p \in tx'[s].held : Off(tx'[s].op, p[1])
    BY <1>4, <2>2
  <2> HIDE DEF y
  <2> QED BY <2>3 DEF OnStreams, OffAll, Off
<1>7. Climbs(s)'
  BY <1>1, <1>4, <1>5, <1>6 DEF Climbs, Fits
<1> HIDE DEF y
<1> QED BY <1>2, <1>7, OwnClimb

\* Taking the first of what it asks for leaves a transaction in order with the streams.
LEMMA TakeOnStreams ==
  ASSUME NEW x, NEW h, x.need \in Seq(Locks), x.need # <<>>, OnStreams(x),
         x.held \subseteq h, \A p \in h : p \in x.held \/ p[1] = Head(x.need).row,
         x.op # "card" => <<Head(x.need).row, Head(x.need).mode>> \in h
  PROVE  OnStreams(Further(x, x.at, Tail(x.need), h, x.says))
<1> DEFINE y == Further(x, x.at, Tail(x.need), h, x.says)
<1>1. y.op = x.op /\ y.need = Tail(x.need) /\ y.held = h
  BY DEF Further
<1>2. /\ Len(x.need) \in Nat \ {0} /\ DOMAIN x.need = 1 .. Len(x.need) /\ Head(x.need) = x.need[1]
      /\ DOMAIN Tail(x.need) = 1 .. Len(x.need) - 1
      /\ \A i \in 1 .. Len(x.need) - 1 : Tail(x.need)[i] = x.need[i + 1]
  BY HeadTailProperties
<1>3. Events # Stream
  BY Levels
<1> HIDE DEF y
<1>4. ASSUME OffAll(x.op, x.need) /\ \A p \in x.held : Off(x.op, p[1]) PROVE OnStreams(y)
  <2>1. OffAll(x.op, Tail(x.need))
    <3>1. ASSUME NEW i \in DOMAIN Tail(x.need) PROVE Off(x.op, Tail(x.need)[i].row)
      <4>1. i + 1 \in DOMAIN x.need /\ Tail(x.need)[i] = x.need[i + 1]
        BY <1>2
      <4> QED BY <1>4, <4>1 DEF OffAll
    <3> QED BY <3>1 DEF OffAll
  <2>2. 1 \in DOMAIN x.need
    BY <1>2
  <2>3. Off(x.op, Head(x.need).row)
    BY <1>2, <1>4, <2>2 DEF OffAll
  <2>4. \A p \in h : Off(x.op, p[1])
    BY <1>4, <2>3
  <2> QED BY <1>1, <2>1, <2>4 DEF OnStreams
<1>5. ASSUME x.op \in Both /\ x.need = Pair PROVE OnStreams(y)
  <2>1. Tail(x.need) = <<Alone(Stream)>> /\ Head(x.need) = Alone(Events)
    BY <1>5 DEF Pair
  <2>2. <<Events, "alone">> \in h
    BY <1>5, <2>1, LockFields DEF Both
  <2> QED BY <1>1, <1>5, <2>1, <2>2 DEF OnStreams
<1>6. ASSUME x.op \in Both /\ x.need = <<Alone(Stream)>> /\ <<Events, "alone">> \in x.held PROVE OnStreams(y)
  <2>1. Tail(x.need) = <<>>
    BY <1>6
  <2> QED BY <1>1, <1>6, <2>1 DEF OnStreams
<1>7. OnStreams(y)
  BY <1>4, <1>5, <1>6 DEF OnStreams
<1> QED BY <1>7 DEF y

\* What a transaction takes is the first of what it asks for, and the lowest.
LEMMA TakeClimbs ==
  ASSUME MissionInv, LocksClimb, NEW s \in Sessions, Take(s)
  PROVE  LocksClimb'
<1> DEFINE x == tx[s]
           l == Head(x.need)
           h == IF NoLongerAsked(x, l.row) THEN x.held ELSE x.held \cup {<<l.row, l.mode>>}
           y == Further(x, x.at, Tail(x.need), h, x.says)
<1>1. x.need # <<>> /\ tx' = [tx EXCEPT ![s] = y]
  BY DEF Take
<1>2. tx'[s] = y
  BY <1>1, TxSet DEF MissionInv
<1>3. tx'[s].op = x.op /\ tx'[s].at = x.at /\ tx'[s].need = Tail(x.need) /\ tx'[s].held = h
  BY <1>2 DEF Further
<1>4. x.op # "none" /\ x.need \in Seq(Locks)
  <2>1. TxTyped(s) /\ x # Idle
    BY <1>1 DEF MissionInv, TxsRight, Idle
  <2> QED BY <2>1 DEF TxTyped, Kinds, LoopOps, OtherOps
<1>5. /\ Len(x.need) \in Nat \ {0} /\ DOMAIN x.need = 1 .. Len(x.need) /\ l = x.need[1]
      /\ DOMAIN Tail(x.need) = 1 .. Len(x.need) - 1
      /\ \A i \in 1 .. Len(x.need) - 1 : Tail(x.need)[i] = x.need[i + 1]
  BY <1>1, <1>4, HeadTailProperties
<1>6. /\ x.op \in InLoop => s \in Controllers
      /\ Rises(x.op, x.need) /\ UpTo(x.need, Top(x.op, x.at))
      /\ \A p \in x.held : /\ Level(p[1]) <= Top(x.op, x.at)
                           /\ \A i \in DOMAIN x.need : Above(x.op, p[1], x.need[i])
  BY <1>4 DEF LocksClimb, Climbs
<1>7. \A i \in DOMAIN Tail(x.need) : /\ i + 1 \in DOMAIN x.need /\ Tail(x.need)[i] = x.need[i + 1]
                                     /\ Above(x.op, l.row, x.need[i + 1])
  BY <1>5, <1>6 DEF Rises
<1>8. Rises(x.op, Tail(x.need)) /\ UpTo(Tail(x.need), Top(x.op, x.at))
  <2>1. ASSUME NEW i \in DOMAIN Tail(x.need), NEW j \in DOMAIN Tail(x.need), i < j
        PROVE  Above(x.op, Tail(x.need)[i].row, Tail(x.need)[j])
    <3>1. i + 1 \in DOMAIN x.need /\ j + 1 \in DOMAIN x.need /\ i + 1 < j + 1
      BY <1>5, <1>7, <2>1
    <3> QED BY <1>6, <1>7, <3>1 DEF Rises
  <2> QED BY <1>6, <1>7, <2>1 DEF Rises, UpTo
<1>9. ASSUME NEW p \in h
      PROVE  Level(p[1]) <= Top(x.op, x.at) /\ \A i \in DOMAIN Tail(x.need) : Above(x.op, p[1], Tail(x.need)[i])
  <2>1. CASE p \in x.held
    BY <1>6, <1>7, <2>1
  <2>2. CASE p \notin x.held
    <3>1. p[1] = l.row /\ 1 \in DOMAIN x.need
      BY <1>5, <1>9, <2>2
    <3> QED BY <1>5, <1>6, <1>7, <3>1 DEF UpTo
  <2> QED BY <2>1, <2>2
<1>10. OnStreams(y)
  <2>1. OnStreams(x)
    BY <1>4 DEF LocksClimb, Climbs
  <2>2. x.held \subseteq h /\ \A p \in h : p \in x.held \/ p[1] = l.row
    OBVIOUS
  <2>3. x.op # "card" => <<l.row, l.mode>> \in h
    BY DEF NoLongerAsked
  <2> HIDE DEF x, h
  <2> QED BY <1>1, <1>4, <2>1, <2>2, <2>3, TakeOnStreams
<1>11. OnStreams(tx[s])'
  BY <1>2, <1>10 DEF OnStreams, OffAll, Off
<1> HIDE DEF x, h, y
<1>12. Climbs(s)'
  BY <1>3, <1>6, <1>8, <1>9, <1>11 DEF Climbs
<1> QED BY <1>1, <1>12, OwnClimb

\* So does going on to the next statement, or to the commit.
LEMMA StepOnStreams ==
  ASSUME NEW x, NEW y, OnStreams(x), x.need = <<>>, y.op = x.op, y.held = x.held,
         \/ OffAll(x.op, y.need) /\ (y.need # <<>> => \A p \in x.held : p[1] # Events)
         \/ x.op \in Both /\ y.need = Pair /\ \A p \in x.held : p[1] # Events
  PROVE  OnStreams(y)
<1>1. CASE x.op \in Both /\ y.need = Pair /\ \A p \in x.held : p[1] # Events
  BY <1>1 DEF OnStreams
<1>2. CASE OffAll(x.op, y.need) /\ \A p \in x.held : Off(x.op, p[1])
  BY <1>2 DEF OnStreams
<1>3. CASE OffAll(x.op, y.need) /\ (y.need # <<>> => \A p \in x.held : p[1] # Events)
           /\ x.op \in Both /\ <<Events, "alone">> \in x.held
  <2>1. <<Events, "alone">>[1] = Events
    OBVIOUS
  <2>2. y.need = <<>>
    BY <1>3, <2>1
  <2> QED BY <1>3, <2>2 DEF OnStreams
<1>4. Pair # <<>>
  BY DEF Pair
<1> QED BY <1>1, <1>2, <1>3, <1>4 DEF OnStreams

\* The next statement asks for nothing below what is held.
LEMMA StepClimbs ==
  ASSUME MissionInv, LocksClimb, NEW s \in Sessions, Step(s)
  PROVE  LocksClimb'
<1> DEFINE x == tx[s]
           need == IF x.at < Length(x) THEN Statements(x.op, x.on)[x.at + 1] ELSE <<>>
           y == Further(x, x.at + 1, need, x.held, Decides(x))
<1>1. /\ x.op # "none" /\ x.need = <<>> /\ x.at <= Length(x)
      /\ tx' = [tx EXCEPT ![s] = IF Decides(x) = Leave THEN Idle ELSE y]
  BY DEF Step
<1>2. CASE Decides(x) = Leave
  BY <1>1, <1>2, IdleClimbs
<1>3. CASE Decides(x) # Leave
  <2>1. tx' = [tx EXCEPT ![s] = y]
    BY <1>1, <1>3
  <2>2. tx'[s] = y
    BY <2>1, TxSet DEF MissionInv
  <2>3. tx'[s].op = x.op /\ tx'[s].at = x.at + 1 /\ tx'[s].held = x.held /\ tx'[s].need = need
    BY <2>2 DEF Further
  <2>4. RowsTyped /\ x.op \in Kinds /\ About(x.op, x.on)
    <3>1. TxTyped(s) /\ x # Idle
      BY <1>1 DEF MissionInv, TxsRight, Idle
    <3> QED BY <3>1 DEF TxTyped, MissionInv, RowsRight
  <2>5. Length(x) = Steps(x.op) /\ Steps(x.op) \in 1..3
    <3>1. Listed(x.op, x.on)
      BY <2>4, StatementsListed
    <3>2. Steps(x.op) \in 1..3
      BY <2>4, StepsOf DEF Kinds, LoopOps, OtherOps
    <3> QED BY <3>1, <3>2 DEF Listed, Length
  <2>6. x.at \in 1 .. Steps(x.op)
    <3>1. TxTyped(s) /\ x # Idle
      BY <1>1 DEF MissionInv, TxsRight, Idle
    <3>2. x.at \in 1 .. Steps(x.op) + 1
      BY <3>1 DEF TxTyped
    <3> QED BY <1>1, <2>5, <3>2
  <2>7. /\ Top(x.op, x.at) \in Nat /\ Top(x.op, x.at + 1) \in Nat
        /\ Top(x.op, x.at) <= Top(x.op, x.at + 1)
    BY <2>4, <2>6, TopsRise
  <2>8. /\ x.op \in InLoop => s \in Controllers
        /\ \A p \in x.held : Level(p[1]) <= Top(x.op, x.at)
    BY <1>1 DEF LocksClimb, Climbs
  <2>9. \A p \in x.held : Level(p[1]) <= Top(x.op, x.at + 1)
    <3>1. \A p \in x.held : Level(p[1]) \in Nat
      BY Levels
    <3> QED BY <2>7, <2>8, <3>1
  <2>10. /\ Rises(x.op, need) /\ UpTo(need, Top(x.op, x.at + 1))
         /\ \A p \in x.held, i \in DOMAIN need : Above(x.op, p[1], need[i])
    <3>1. CASE x.at < Length(x)
      <4>1. x.at + 1 \in 1 .. Steps(x.op) /\ x.at + 1 > 1 /\ (x.at + 1) - 1 = x.at
        BY <2>5, <2>6, <3>1
      <4>2. need = Statements(x.op, x.on)[x.at + 1]
        BY <3>1
      <4> HIDE DEF x, need
      <4>3. Fits(x.op, need, x.at + 1)
        BY <2>4, <4>1, <4>2, StatementsClimb
      <4>4. \A row : \A i \in DOMAIN need : Level(row) <= Top(x.op, x.at) => Above(x.op, row, need[i])
        BY <4>1, <4>3 DEF Fits
      <4>5. ASSUME NEW p \in x.held, NEW i \in DOMAIN need
            PROVE  Above(x.op, p[1], need[i])
        <5>1. Level(p[1]) <= Top(x.op, x.at)
          BY <2>8
        <5> QED BY <4>4, <5>1
      <4>6. Rises(x.op, need) /\ UpTo(need, Top(x.op, x.at + 1))
        BY <4>3 DEF Fits
      <4> QED BY <4>5, <4>6
    <3>2. CASE ~(x.at < Length(x))
      <4>1. need = <<>>
        BY <3>2
      <4> HIDE DEF need
      <4> QED BY <4>1 DEF Rises, UpTo
    <3> QED BY <3>1, <3>2
  <2>11. OnStreams(x)
    BY <1>1 DEF LocksClimb, Climbs
  <2>12. ASSUME x.at < Length(x), Top(x.op, x.at) \in 1..4, NEW p \in x.held PROVE p[1] # Events
    <3>1. Level(p[1]) \in 1..6 /\ Level(p[1]) <= Top(x.op, x.at) /\ Level(Events) = 5
      BY <2>8, Levels
    <3> QED BY <2>12, <3>1
  <2>13. \/ OffAll(x.op, need) /\ (need # <<>> => \A p \in x.held : p[1] # Events)
         \/ x.op \in Both /\ need = Pair /\ \A p \in x.held : p[1] # Events
    <3>1. CASE x.at < Length(x)
      <4>1. x.at + 1 \in 1 .. Steps(x.op) /\ (x.at + 1) - 1 = x.at
        BY <2>5, <2>6, <3>1
      <4>2. need = Statements(x.op, x.on)[x.at + 1]
        BY <3>1
      <4>3. Top(x.op, x.at) \in 1..4
        BY <2>4, <2>5, <2>6, <3>1, StepsOf, Tops DEF Kinds, LoopOps, OtherOps
      <4>4. \A p \in x.held : p[1] # Events
        BY <2>12, <3>1, <4>3
      <4>5. OffAll(x.op, Statements(x.op, x.on)[x.at + 1]) \/ (x.op \in Both /\ Statements(x.op, x.on)[x.at + 1] = Pair)
        BY <2>4, <4>1, StatementsOff
      <4> QED BY <4>2, <4>4, <4>5
    <3>2. CASE ~(x.at < Length(x))
      <4>1. need = <<>>
        BY <3>2
      <4> HIDE DEF need
      <4> QED BY <4>1 DEF OffAll
    <3> QED BY <3>1, <3>2
  <2> HIDE DEF x, need, y
  <2>14. OnStreams(tx'[s])
    BY <1>1, <2>3, <2>11, <2>13, StepOnStreams
  <2>15. OnStreams(tx[s])'
    BY <2>14 DEF OnStreams, OffAll, Off
  <2>16. Climbs(s)'
    BY <2>3, <2>8, <2>9, <2>10, <2>15 DEF Climbs
  <2> QED BY <2>1, <2>16, OwnClimb
<1> QED BY <1>2, <1>3

\* A commit lets go of its locks.
LEMMA CommitIdles ==
  ASSUME NEW s \in Sessions, OtherCommit(s) \/ ClosedOnCard(s) \/ MissionClosed(s)
  PROVE  tx' = [tx EXCEPT ![s] = Idle]
<1>1. \E op : Commits(s, op)
  BY DEF OtherCommit, Leased, ControlSet, Dispatched, DependencyAdded, Proposed, Submitted, Swept,
         VerificationStarted, SalvageCheckStarted, Concluded, DecidedBlocked, StoppedCheckClosed, CancelledAfterClose,
         LandingClaimed, PushAuthorized, LandingRed, LandingSettled, ClosedOnCard, MissionClosed
<1> QED BY <1>1 DEF Commits

\* Every step keeps the order of the locks.
LEMMA ClimbStep ==
  ASSUME MissionInv, LocksClimb, [Next]_vars
  PROVE  LocksClimb'
<1>1. ASSUME NEW s \in Sessions, Begin(s) \/ Take(s) \/ Refused(s) \/ Aborted(s) \/ Step(s) PROVE LocksClimb'
  <2>1. CASE Refused(s) \/ Aborted(s)
    BY <2>1, IdleClimbs DEF Refused, Aborted
  <2> QED BY <1>1, <2>1, BeginClimbs, TakeClimbs, StepClimbs
<1>2. ASSUME NEW s \in Sessions, OtherCommit(s) \/ ClosedOnCard(s) \/ MissionClosed(s) PROVE LocksClimb'
  BY <1>2, CommitIdles, IdleClimbs
<1>3. ASSUME tx' = tx PROVE LocksClimb'
  BY <1>3 DEF LocksClimb, Climbs
<1>4. ASSUME NEW r \in Stoppable, ControlLifted(r) PROVE LocksClimb'
  BY <1>3, <1>4 DEF ControlLifted
<1>5. CASE UNCHANGED vars
  BY <1>3, <1>5 DEF vars
<1> QED BY <1>1, <1>2, <1>4, <1>5 DEF Next, OtherCommit

\* What a session waits for: the row it asks for, or the mission's stream at its commit.
WaitedRow(s) == IF tx[s].need # <<>> THEN Head(tx[s].need) ELSE Alone(Events)
At(s) == Level(WaitedRow(s).row)

\* Who waits has an operation, and who appends last is at its commit.
LEMMA WaitsFor ==
  ASSUME MissionInv, NEW s \in Sessions, NEW u \in Sessions, Waits(s, u)
  PROVE  /\ u # s /\ WaitedRow(s).how = "wait" /\ Conflicts(u, WaitedRow(s))
         /\ tx[s].op \in Kinds /\ tx[s].need \in Seq(Locks) /\ tx[s].held \subseteq AllRows \X Modes
         /\ tx[s].need = <<>> => tx[s].op \in Appends /\ tx[s].at = Steps(tx[s].op) + 1
<1>1. u # s /\ WaitedRow(s).how = "wait" /\ Conflicts(u, WaitedRow(s))
  BY DEF Waits, Needs, WaitedRow
<1>2. tx[s].need = <<>> => AtCommit(tx[s]) /\ tx[s].op \in Appends
  BY DEF Waits, Needs
<1>3. tx[s] # Idle /\ TxTyped(s) /\ RowsTyped
  BY <1>2 DEF Idle, AtCommit, Waits, Needs, MissionInv, RowsRight, TxsRight
<1>4. /\ tx[s].op \in Kinds /\ About(tx[s].op, tx[s].on) /\ tx[s].need \in Seq(Locks)
      /\ tx[s].held \subseteq AllRows \X Modes /\ tx[s].at \in 1 .. Steps(tx[s].op) + 1
  BY <1>3 DEF TxTyped
<1>5. Steps(tx[s].op) \in 1..3
  BY <1>4, StepsOf DEF Kinds, LoopOps, OtherOps
<1>6. Length(tx[s]) = Steps(tx[s].op)
  BY <1>3, <1>4, StatementsListed DEF Listed, Length
<1>7. tx[s].need = <<>> => tx[s].at = Steps(tx[s].op) + 1
  BY <1>2, <1>4, <1>5, <1>6 DEF AtCommit
<1> QED BY <1>1, <1>2, <1>4, <1>7

\* Of those that wait at their commit only the close holds a stream, the landing's.
LEMMA HeldAtCommit ==
  ASSUME MissionInv, LocksClimb, NEW s \in Sessions, NEW u \in Sessions, Waits(s, u), tx[s].need = <<>>,
         NEW p \in tx[s].held
  PROVE  Level(p[1]) <= 4 \/ (tx[s].op = "close" /\ p[1] = Stream)
<1>1. /\ u # s /\ tx[s].op \in Kinds /\ tx[s].held \subseteq AllRows \X Modes
      /\ tx[s].op \in Appends /\ tx[s].at = Steps(tx[s].op) + 1 /\ Conflicts(u, Alone(Events))
  BY WaitsFor DEF WaitedRow
<1>2. OnStreams(tx[s]) /\ Level(p[1]) <= Top(tx[s].op, tx[s].at)
  BY <1>1 DEF LocksClimb, Climbs, Kinds, LoopOps, OtherOps
<1>3. Level(p[1]) \in 1..6
  BY Levels
<1>4. CASE tx[s].op \notin {"verify", "conclude", "close"}
  <2>1. Top(tx[s].op, tx[s].at) \in 1..4
    BY <1>1, <1>4, StepsOf, Tops DEF Appends, LoopOps, OtherOps
  <2> QED BY <1>2, <1>3, <2>1
<1>5. CASE tx[s].op \in {"verify", "conclude", "close"}
  <2>1. <<Events, "alone">> \notin tx[s].held
    <3>1. PICK m \in {"share", "alone"} : <<Events, m>> \in tx[u].held
      BY <1>1, LockFields DEF Conflicts
    <3>2. Exclusive /\ Events \in AllRows /\ m \in Modes
      BY <3>1, LocksTyped DEF MissionInv, TxsRight, Modes
    <3> QED BY <1>1, <3>1, <3>2 DEF Exclusive, Got
  <2>2. Off(tx[s].op, p[1])
    <3>1. Pair # <<>>
      BY DEF Pair
    <3> QED BY <1>2, <2>1, <3>1 DEF OnStreams
  <2>3. p[1] \in AllRows
    BY <1>1
  <2>4. p[1] = Stream => tx[s].op = "close"
    BY <1>5, <2>2 DEF Off
  <2> QED BY <2>2, <2>3, <2>4, Levels DEF Off
<1> QED BY <1>4, <1>5

\* A close that waits to append with the landing's stream in hand.
Appending(u) == tx[u].op = "close" /\ tx[u].need = <<>> /\ \E m \in Modes : Got(u, Stream, m)

\* But for such a close, who is waited for waits higher up, or beside it in the loop.
LEMMA WaitsClimb ==
  ASSUME MissionInv, LocksClimb, NEW s \in Sessions, NEW u \in Sessions, NEW w \in Sessions,
         Waits(s, u), Waits(u, w), ~Appending(u)
  PROVE  At(s) <= At(u) /\ (At(s) = At(u) => u \in Controllers)
<1> DEFINE l == WaitedRow(s)
           k == WaitedRow(u)
<1>1. Conflicts(u, l) /\ k.how = "wait" /\ tx[u].op # "none" /\ tx[u].need \in Seq(Locks)
  BY WaitsFor DEF Kinds, LoopOps, OtherOps
<1>2. PICK m \in {"share", "alone"} : <<l.row, m>> \in tx[u].held
  BY <1>1 DEF Conflicts
<1>3. Level(l.row) \in 1..6 /\ Level(k.row) \in 1..6
  BY Levels
<1>4. <<l.row, m>>[1] = l.row
  OBVIOUS
<1>5. CASE tx[u].need # <<>>
  <2>1. 1 \in DOMAIN tx[u].need /\ k = tx[u].need[1]
    BY <1>1, <1>5, HeadTailProperties DEF WaitedRow
  <2>2. Above(tx[u].op, <<l.row, m>>[1], k) /\ (tx[u].op \in InLoop => u \in Controllers)
    BY <1>1, <1>2, <2>1 DEF LocksClimb, Climbs
  <2>3. Above(tx[u].op, l.row, k)
    BY <2>2
  <2> HIDE DEF l, k
  <2>4. Level(l.row) <= Level(k.row) /\ (Level(l.row) = Level(k.row) => u \in Controllers)
    BY <1>1, <1>3, <2>2, <2>3 DEF Above
  <2> QED BY <2>4 DEF At, l, k
<1>6. CASE tx[u].need = <<>>
  <2>1. Level(k.row) = 5
    BY <1>6, Levels, LockFields DEF WaitedRow
  <2>2. Level(l.row) <= 4 \/ (tx[u].op = "close" /\ l.row = Stream)
    <3> HIDE DEF l, k
    <3>1. Level(<<l.row, m>>[1]) <= 4 \/ (tx[u].op = "close" /\ <<l.row, m>>[1] = Stream)
      BY <1>2, <1>6, HeldAtCommit
    <3> QED BY <3>1
  <2>3. ~(tx[u].op = "close" /\ l.row = Stream)
    BY <1>2, <1>6 DEF Appending, Got, Modes
  <2> HIDE DEF l, k
  <2>4. Level(l.row) < Level(k.row)
    BY <1>3, <2>1, <2>2, <2>3
  <2> QED BY <1>3, <2>4 DEF At, l, k
<1> QED BY <1>5, <1>6

\* The loop is one goroutine's.
OneController == \A c, d \in Controllers : c = d

\* Such a close in a circle: whoever holds the mission's stream asks for the landing's,
\* and is a red landing, as the loop's other transactions run after the close.
LEMMA RedWaits ==
  ASSUME MissionInv, LocksClimb, OneController, NEW s \in Sessions, NEW u \in Sessions, NEW w \in Sessions,
         Waits(s, u), Waits(u, w), Appending(s)
  PROVE  tx[s].op = "close" /\ tx[u].op = "red" /\ Waits(u, s)
<1>1. tx[s].op = "close" /\ tx[s].need = <<>> /\ u # s
  BY WaitsFor DEF Appending
<1>2. Conflicts(u, Alone(Events)) /\ tx[u].op # "none"
  BY <1>1, WaitsFor DEF WaitedRow, Kinds, LoopOps, OtherOps
<1>3. PICK m \in {"share", "alone"} : <<Events, m>> \in tx[u].held
  BY <1>2, LockFields DEF Conflicts
<1>4. <<Events, m>>[1] = Events
  OBVIOUS
<1>5. tx[u].op \in Both /\ tx[u].need \in {<<Alone(Stream)>>, <<>>}
  BY <1>2, <1>3, <1>4 DEF LocksClimb, Climbs, OnStreams, Off
<1>6. tx[u].need # <<>>
  <2> SUFFICES ASSUME tx[u].need = <<>> PROVE FALSE
    OBVIOUS
  <2>1. Level(<<Events, m>>[1]) <= 4 \/ (tx[u].op = "close" /\ <<Events, m>>[1] = Stream)
    BY <1>3, HeldAtCommit
  <2> QED BY <1>4, <1>5, <2>1, Levels DEF Both
<1>7. tx[u].op = "red"
  <2>1. "close" \in InLoop /\ "verify" \in InLoop /\ "conclude" \in InLoop
    BY DEF InLoop, LoopOps
  <2>2. s \in Controllers /\ (tx[u].op \in InLoop => u \in Controllers)
    BY <1>1, <1>2, <2>1 DEF LocksClimb, Climbs
  <2> QED BY <1>1, <1>5, <2>1, <2>2 DEF OneController, Both
<1>8. Waits(u, s)
  <2>1. tx[u].need = <<Alone(Stream)>> /\ Head(<<Alone(Stream)>>) = Alone(Stream)
    BY <1>5, <1>6
  <2>2. Alone(Stream) \in Needs(u)
    BY <1>6, <2>1 DEF Needs
  <2>3. Conflicts(s, Alone(Stream))
    BY LockFields DEF Appending, Got, Modes, Conflicts
  <2> QED BY <1>1, <2>2, <2>3, LockHows DEF Waits
<1> QED BY <1>1, <1>7, <1>8

\* A circle without such a close: of its sessions that wait at the highest level, one
\* waits for another that waits there too, and both would run the one loop.
LEMMA NoOtherCircle ==
  ASSUME MissionInv, LocksClimb, OneController, NEW C \in SUBSET Sessions, Circle(C), \A s \in C : ~Appending(s)
  PROVE  FALSE
<1>1. \A s \in C : At(s) \in 1..6 /\ \E u \in C : Waits(s, u)
  BY Levels DEF At, Circle
<1>2. PICK s \in C : \A u \in C : At(u) <= At(s)
  <2>1. CASE \E s \in C : At(s) = 6
    BY <1>1, <2>1
  <2>2. CASE (~\E s \in C : At(s) = 6) /\ \E s \in C : At(s) = 5
    BY <1>1, <2>2
  <2>3. CASE (~\E s \in C : At(s) \in {5, 6}) /\ \E s \in C : At(s) = 4
    BY <1>1, <2>3
  <2>4. CASE (~\E s \in C : At(s) \in {4, 5, 6}) /\ \E s \in C : At(s) = 3
    BY <1>1, <2>4
  <2>5. CASE (~\E s \in C : At(s) \in {3, 4, 5, 6}) /\ \E s \in C : At(s) = 2
    BY <1>1, <2>5
  <2>6. CASE ~\E s \in C : At(s) \in {2, 3, 4, 5, 6}
    BY <1>1, <2>6 DEF Circle
  <2> QED BY <2>1, <2>2, <2>3, <2>4, <2>5, <2>6
<1>3. PICK u \in C : Waits(s, u)
  BY <1>1
<1>4. PICK w \in C : Waits(u, w)
  BY <1>1
<1>5. PICK v \in C : Waits(w, v)
  BY <1>1
<1>6. At(s) <= At(u) /\ (At(s) = At(u) => u \in Controllers)
  BY <1>3, <1>4, WaitsClimb
<1>7. At(u) <= At(w) /\ (At(u) = At(w) => w \in Controllers)
  BY <1>4, <1>5, WaitsClimb
<1>8. u \in Controllers /\ w \in Controllers
  BY <1>1, <1>2, <1>6, <1>7
<1>9. u # w
  BY <1>4 DEF Waits
<1> QED BY <1>8, <1>9 DEF OneController

\* As long as one goroutine runs the facts loop, transactions wait for one another in a
\* circle only where a close of the mission, with the landing's stream in hand, appends
\* to the mission's (close.go:186) while a red landing, with the mission's, asks for the
\* landing's (precheck.go:289): every other kind takes its rows in the order of
\* kernel.go, or leaves out what it cannot have.
THEOREM OnlyOneCircle == Spec => [](OneController => OnlyCloseAndRed)
<1>1. Init => MissionInv
  BY InitRight
<1>2. Init => LocksClimb
  BY DEF Init, LocksClimb, Climbs, Idle
<1>3. MissionInv /\ LocksClimb /\ [Next]_vars => MissionInv' /\ LocksClimb'
  BY NextOrStays, ClimbStep
<1>4. ASSUME MissionInv, LocksClimb, OneController, NEW C \in SUBSET Sessions, Circle(C)
      PROVE  \E s, u \in C : tx[s].op = "close" /\ tx[u].op = "red" /\ Waits(s, u) /\ Waits(u, s)
  <2>1. PICK s \in C : Appending(s)
    BY <1>4, NoOtherCircle
  <2>2. PICK u \in C : Waits(s, u)
    BY <1>4 DEF Circle
  <2>3. PICK w \in C : Waits(u, w)
    BY <1>4 DEF Circle
  <2>4. tx[s].op = "close" /\ tx[u].op = "red" /\ Waits(u, s)
    BY <1>4, <2>1, <2>2, <2>3, RedWaits
  <2> QED BY <2>2, <2>4
<1>5. MissionInv /\ LocksClimb => (OneController => OnlyCloseAndRed)
  BY <1>4 DEF OnlyCloseAndRed
<1> QED BY <1>1, <1>2, <1>3, <1>5, PTL DEF Spec
=============================================================================
