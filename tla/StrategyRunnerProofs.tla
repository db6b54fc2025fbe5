------------------------ MODULE StrategyRunnerProofs ------------------------
(***************************************************************************)
(* The record of a run is true, for any number of invocations, agents,     *)
(* symbols and actions in a decision: "completed" means traded, and a run  *)
(* that ends closes its row.  No agent is lost from the schedule or        *)
(* scheduled twice, whichever invocations bump it; nobody overtakes a due  *)
(* agent, and an archived one is never taken again.                        *)
(***************************************************************************)
EXTENDS StrategyRunner, FiniteSetTheorems, TLAPS

Fields == {"stage", "queue", "context", "todo", "results"}

\* What an invocation remembers at each of its stages: the decision and its results exist
\* from the answer of the model to the end of the run, a run that reaches its last write
\* has nothing left to do, and an action is never reported ok unless it is mined.
RunOK(i) ==
    /\ DOMAIN i = Fields
    /\ i.stage \in Stages
    /\ i.queue \in Seq(ManagedIds) /\ (i.stage # "idle" => i.queue # <<>>)
    /\ i.context \in Context
    /\ i.todo \in Seq(Action)
    /\ i.stage \in {"idle", "read", "decide", "bump"} => i.todo = <<>> /\ i.results = {}
    /\ i.stage \in {"key", "execute"} => i.todo # <<>>
    /\ i.stage = "complete" => i.todo = <<>>
    /\ i.results \subseteq Result /\ \A result \in i.results : result.ok => result.mined

\* A row that says "running" belongs to a run that goes on.
RowsClosed ==
    \A w \in Workers : run[w].stage \in {"idle", "read", "bump"} => rows[w] # "running"

RunsInv ==
    /\ DOMAIN run = Workers /\ DOMAIN rows = Workers
    /\ \A w \in Workers : RunOK(run[w])
    /\ RowsClosed

\* What the allocation of an agent pays for.
Funded == \A a \in ManagedIds : IsFiniteSet(holdings[a]) /\ Cardinality(holdings[a]) <= Budget

\* The tables, the schedule and the chain.
TablesInv ==
    /\ ManagedTypeOK
    /\ line \in SetToSeqs(ManagedIds) /\ due \in 0 .. Len(line)
    /\ recent \subseteq Callers
    /\ holdings \in [ManagedIds -> SUBSET Symbols] /\ Funded
    /\ rows \in [Workers -> RowStatus]
    /\ crashes \in 0 .. MaxCrashes

RunnerInv == RunsInv /\ TablesInv

USE RunnerAssumption

-----------------------------------------------------------------------------
(* One step of an invocation. *)

LEMMA Steps ==
    ASSUME RunsInv, NEW w \in Workers, NEW from, NEW new, Step(w, from, new)
    PROVE  /\ run[w].stage = from /\ RunOK(run[w])
           /\ DOMAIN run' = Workers /\ run'[w] = new
           /\ \A v \in Workers \ {w} : run'[v] = run[v]
  BY DEF RunsInv, Step

\* One invocation moves; its row is written or not.
LEMMA Assemble ==
    ASSUME RunsInv, NEW w \in Workers, DOMAIN run' = Workers, DOMAIN rows' = Workers,
           \A v \in Workers \ {w} : run'[v] = run[v] /\ rows'[v] = rows[v],
           RunOK(run'[w]), run'[w].stage \in {"idle", "read", "bump"} => rows'[w] # "running"
    PROVE  RunsInv'
<1>1. \A v \in Workers : RunOK(run'[v])
  BY DEF RunsInv
<1>2. RowsClosed'
  BY DEF RunsInv, RowsClosed
<1> QED
  BY <1>1, <1>2 DEF RunsInv, RunOK

\* An invocation at work has an agent to work for.
LEMMA QueueFacts ==
    ASSUME RunsInv, NEW w \in Workers, run[w].stage # "idle"
    PROVE  /\ run[w].queue \in Seq(ManagedIds) /\ run[w].queue # <<>>
           /\ Agent(w) \in ManagedIds
<1>1. run[w].queue \in Seq(ManagedIds) /\ run[w].queue # <<>>
  BY DEF RunsInv, RunOK
<1>2. ASSUME NEW q \in Seq(ManagedIds), q # <<>> PROVE Head(q) \in ManagedIds
  BY <1>2
<1> QED
  BY <1>1, <1>2 DEF Agent

LEMMA RowWritten ==
    ASSUME RunsInv, NEW w \in Workers, NEW status, SetRow(w, status)
    PROVE  /\ DOMAIN rows' = Workers /\ rows'[w] = status
           /\ \A v \in Workers \ {w} : rows'[v] = rows[v]
  BY DEF RunsInv, SetRow

\* A stage entered with the decision and the results as they are.
LEMMA MovesOn ==
    ASSUME RunsInv, NEW w \in Workers, NEW from, NEW to, Goto(w, from, to)
    PROVE  /\ run[w].stage = from /\ RunOK(run[w]) /\ DOMAIN run' = Workers
           /\ \A v \in Workers \ {w} : run'[v] = run[v]
           /\ DOMAIN run'[w] = Fields /\ run'[w].stage = to
           /\ run'[w].todo = run[w].todo /\ run'[w].results = run[w].results
           /\ run'[w].queue = run[w].queue /\ run'[w].context = run[w].context
<1> DEFINE new == [run[w] EXCEPT !.stage = to]
<1>1. Step(w, from, new)
  BY DEF Goto
<1>2. DOMAIN run[w] = Fields
  BY DEF RunsInv, RunOK
<1>3. /\ DOMAIN new = Fields /\ new.stage = to
      /\ new.todo = run[w].todo /\ new.results = run[w].results
      /\ new.queue = run[w].queue /\ new.context = run[w].context
  BY <1>2 DEF Fields
<1> HIDE DEF new
<1> QED
  BY <1>1, <1>3, Steps

LEMMA NoContextIsContext == NoContext \in Context
  BY DEF NoContext, Context

\* A run that ends forgets everything but the agents still to be served.
LEMMA Ends ==
    ASSUME RunsInv, NEW w \in Workers, NEW from, NEW queue \in Seq(ManagedIds), queue # <<>>,
           Step(w, from, [IdleRun EXCEPT !.stage = "bump", !.queue = queue])
    PROVE  /\ run[w].stage = from /\ RunOK(run[w]) /\ DOMAIN run' = Workers
           /\ \A v \in Workers \ {w} : run'[v] = run[v]
           /\ RunOK(run'[w]) /\ run'[w].stage = "bump"
<1> DEFINE new == [IdleRun EXCEPT !.stage = "bump", !.queue = queue]
<1>0. Step(w, from, new)
  OBVIOUS
<1>1. DOMAIN new = Fields
  BY DEF IdleRun, Fields
<1>2. /\ new.stage = "bump" /\ new.todo = <<>> /\ new.results = {}
      /\ new.queue = queue /\ new.context = NoContext
  BY DEF IdleRun
<1> HIDE DEF new
<1>3. /\ DOMAIN run'[w] = Fields /\ run'[w].stage = "bump"
      /\ run'[w].todo = <<>> /\ run'[w].results = {}
      /\ run'[w].queue = queue /\ run'[w].context = NoContext
  BY <1>0, <1>1, <1>2, Steps
<1>4. RunOK(run'[w])
  BY <1>3, NoContextIsContext DEF RunOK, Stages
<1> QED
  BY <1>0, <1>3, <1>4, Steps

-----------------------------------------------------------------------------
(* The steps of runAgent. *)

\* Where a run starts, and what the steps that leave the runs alone keep.
LEMMA Quiet ==
    ASSUME RunsInv, UNCHANGED <<run, rows>>
    PROVE  RunsInv'
  BY DEF RunsInv, RowsClosed, RunOK

LEMMA BeginKeeps ==
    ASSUME RunsInv, NEW w \in Workers, NEW queue \in Seq(ManagedIds), queue # <<>>,
           Step(w, "idle", [run[w] EXCEPT !.stage = "read", !.queue = queue]),
           UNCHANGED rows
    PROVE  RunsInv'
<1> DEFINE new == [run[w] EXCEPT !.stage = "read", !.queue = queue]
<1>0. Step(w, "idle", new) /\ DOMAIN run[w] = Fields
  BY DEF RunsInv, RunOK
<1>1. /\ DOMAIN new = Fields /\ new.stage = "read"
      /\ new.todo = run[w].todo /\ new.results = run[w].results
      /\ new.queue = queue /\ new.context = run[w].context
  BY <1>0 DEF Fields
<1> HIDE DEF new
<1>2. /\ run[w].stage = "idle" /\ RunOK(run[w])
      /\ DOMAIN run' = Workers /\ \A v \in Workers \ {w} : run'[v] = run[v]
      /\ DOMAIN run'[w] = Fields /\ run'[w].stage = "read"
      /\ run'[w].todo = run[w].todo /\ run'[w].results = run[w].results
      /\ run'[w].queue = queue /\ run'[w].context = run[w].context
  BY <1>0, <1>1, Steps
<1>3. RunOK(run'[w])
  BY <1>2 DEF RunOK, Stages
<1>4. rows'[w] # "running"
  BY <1>2 DEF RunsInv, RowsClosed
<1> QED
  BY <1>2, <1>3, <1>4, Assemble DEF RunsInv

LEMMA ReadKeeps ==
    ASSUME RunsInv, TablesInv, NEW w \in Workers, ReadContext(w)
    PROVE  RunsInv'
<1>1. CASE Goto(w, "read", "bump") /\ UNCHANGED rows
  <2>1. /\ run[w].stage = "read" /\ RunOK(run[w])
        /\ DOMAIN run' = Workers /\ \A v \in Workers \ {w} : run'[v] = run[v]
        /\ DOMAIN run'[w] = Fields /\ run'[w].stage = "bump"
        /\ run'[w].todo = run[w].todo /\ run'[w].results = run[w].results
        /\ run'[w].queue = run[w].queue /\ run'[w].context = run[w].context
    BY <1>1, MovesOn
  <2>2. RunOK(run'[w])
    BY <2>1 DEF RunOK, Stages
  <2>3. rows'[w] # "running"
    BY <1>1, <2>1 DEF RunsInv, RowsClosed
  <2> QED
    BY <1>1, <2>1, <2>2, <2>3, Assemble DEF RunsInv
<1>2. ASSUME NEW context \in Context, SetRow(w, "running"),
             Step(w, "read", [run[w] EXCEPT !.stage = "decide", !.context = context])
      PROVE  RunsInv'
  <2> DEFINE new == [run[w] EXCEPT !.stage = "decide", !.context = context]
  <2>0. Step(w, "read", new) /\ DOMAIN run[w] = Fields
    BY <1>2 DEF RunsInv, RunOK
  <2>1. /\ DOMAIN new = Fields /\ new.stage = "decide"
        /\ new.todo = run[w].todo /\ new.results = run[w].results
        /\ new.queue = run[w].queue /\ new.context = context
    BY <2>0 DEF Fields
  <2> HIDE DEF new
  <2>2. /\ run[w].stage = "read" /\ RunOK(run[w])
        /\ DOMAIN run' = Workers /\ \A v \in Workers \ {w} : run'[v] = run[v]
        /\ DOMAIN run'[w] = Fields /\ run'[w].stage = "decide"
        /\ run'[w].todo = run[w].todo /\ run'[w].results = run[w].results
        /\ run'[w].queue = run[w].queue /\ run'[w].context = context
    BY <2>0, <2>1, Steps
  <2>3. RunOK(run'[w])
    BY <2>2 DEF RunOK, Stages
  <2>4. DOMAIN rows' = Workers /\ \A v \in Workers \ {w} : rows'[v] = rows[v]
    BY <1>2, RowWritten
  <2> QED
    BY <2>2, <2>3, <2>4, Assemble
<1>3. ASSUME NEW breach \in BOOLEAN
      PROVE  [positions |-> holdings[Agent(w)], breach |-> breach,
              available |-> Budget - Cardinality(holdings[Agent(w)])] \in Context
  <2> DEFINE held == holdings[Agent(w)]
  <2>1. Agent(w) \in ManagedIds
    BY QueueFacts DEF ReadContext, Goto, Step
  <2>2. held \in SUBSET Symbols /\ Cardinality(held) \in Nat /\ Cardinality(held) <= Budget
    BY <2>1, FS_CardinalityType DEF TablesInv, Funded
  <2> HIDE DEF held
  <2>3. Budget - Cardinality(held) \in Nat
    BY <2>2
  <2>4. [positions |-> held, breach |-> breach, available |-> Budget - Cardinality(held)]
          \in Context
    BY <2>2, <2>3 DEF Context
  <2> QED
    BY <2>4 DEF held
<1>4. CASE \E breach \in Breaches :
             /\ Step(w, "read", [run[w] EXCEPT !.stage = "decide", !.context =
                   [positions |-> holdings[Agent(w)], breach |-> breach,
                    available |-> Budget - Cardinality(holdings[Agent(w)])]])
             /\ SetRow(w, "running")
  <2>1. PICK breach \in Breaches :
             /\ Step(w, "read", [run[w] EXCEPT !.stage = "decide", !.context =
                   [positions |-> holdings[Agent(w)], breach |-> breach,
                    available |-> Budget - Cardinality(holdings[Agent(w)])]])
             /\ SetRow(w, "running")
    BY <1>4
  <2>2. breach \in BOOLEAN
    OBVIOUS
  <2> DEFINE context == [positions |-> holdings[Agent(w)], breach |-> breach,
                         available |-> Budget - Cardinality(holdings[Agent(w)])]
  <2>3. context \in Context
    BY <1>3, <2>2
  <2>4. Step(w, "read", [run[w] EXCEPT !.stage = "decide", !.context = context])
    BY <2>1
  <2> HIDE DEF context
  <2> QED
    BY <1>2, <2>1, <2>3, <2>4
<1> QED
  BY <1>1, <1>4 DEF ReadContext

LEMMA DecideKeeps ==
    ASSUME RunsInv, NEW w \in Workers, Decide(w)
    PROVE  RunsInv'
<1>0. UNCHANGED rows
  BY DEF Decide
<1>1. CASE Goto(w, "decide", "fail")
  <2>1. /\ run[w].stage = "decide" /\ RunOK(run[w])
        /\ DOMAIN run' = Workers /\ \A v \in Workers \ {w} : run'[v] = run[v]
        /\ DOMAIN run'[w] = Fields /\ run'[w].stage = "fail"
        /\ run'[w].todo = run[w].todo /\ run'[w].results = run[w].results
        /\ run'[w].queue = run[w].queue /\ run'[w].context = run[w].context
    BY <1>1, MovesOn
  <2>2. RunOK(run'[w])
    BY <2>1 DEF RunOK, Stages
  <2> QED
    BY <1>0, <2>1, <2>2, Assemble DEF RunsInv
<1>2. ASSUME NEW actions \in Decisions(Agent(w)), actions # <<>>,
             Step(w, "decide", [run[w] EXCEPT !.stage = "key", !.context = NoContext,
                                              !.todo = actions])
      PROVE  RunsInv'
  <2> DEFINE new == [run[w] EXCEPT !.stage = "key", !.context = NoContext, !.todo = actions]
  <2>0. Step(w, "decide", new) /\ DOMAIN run[w] = Fields
    BY <1>2 DEF RunsInv, RunOK
  <2>1. /\ DOMAIN new = Fields /\ new.stage = "key"
        /\ new.todo = actions /\ new.results = run[w].results
        /\ new.queue = run[w].queue /\ new.context = NoContext
    BY <2>0 DEF Fields
  <2> HIDE DEF new
  <2>2. /\ run[w].stage = "decide" /\ RunOK(run[w])
        /\ DOMAIN run' = Workers /\ \A v \in Workers \ {w} : run'[v] = run[v]
        /\ DOMAIN run'[w] = Fields /\ run'[w].stage = "key"
        /\ run'[w].todo = actions /\ run'[w].results = run[w].results
        /\ run'[w].queue = run[w].queue /\ run'[w].context = NoContext
    BY <2>0, <2>1, Steps
  <2>3. actions \in Seq(Action)
    BY DEF Decisions
  <2>4. RunOK(run'[w])
    BY <1>2, <2>2, <2>3, NoContextIsContext DEF RunOK, Stages
  <2> QED
    BY <1>0, <2>2, <2>4, Assemble DEF RunsInv
<1>3. CASE Step(w, "decide", [run[w] EXCEPT !.stage = "complete", !.context = NoContext])
  <2> DEFINE new == [run[w] EXCEPT !.stage = "complete", !.context = NoContext]
  <2>0. Step(w, "decide", new) /\ DOMAIN run[w] = Fields
    BY <1>3 DEF RunsInv, RunOK
  <2>1. /\ DOMAIN new = Fields /\ new.stage = "complete"
        /\ new.todo = run[w].todo /\ new.results = run[w].results
        /\ new.queue = run[w].queue /\ new.context = NoContext
    BY <2>0 DEF Fields
  <2> HIDE DEF new
  <2>2. /\ run[w].stage = "decide" /\ RunOK(run[w])
        /\ DOMAIN run' = Workers /\ \A v \in Workers \ {w} : run'[v] = run[v]
        /\ DOMAIN run'[w] = Fields /\ run'[w].stage = "complete"
        /\ run'[w].todo = run[w].todo /\ run'[w].results = run[w].results
        /\ run'[w].queue = run[w].queue /\ run'[w].context = NoContext
    BY <2>0, <2>1, Steps
  <2>3. RunOK(run'[w])
    BY <2>2, NoContextIsContext DEF RunOK, Stages
  <2> QED
    BY <1>0, <2>2, <2>3, Assemble DEF RunsInv
<1> QED
  BY <1>1, <1>2, <1>3 DEF Decide, ShouldExecute

LEMMA KeyKeeps ==
    ASSUME RunsInv, NEW w \in Workers, LoadKey(w)
    PROVE  RunsInv'
<1>1. PICK to \in {"execute", "fail"} : Goto(w, "key", to)
  BY DEF LoadKey
<1>2. /\ run[w].stage = "key" /\ RunOK(run[w])
      /\ DOMAIN run' = Workers /\ \A v \in Workers \ {w} : run'[v] = run[v]
      /\ DOMAIN run'[w] = Fields /\ run'[w].stage = to
      /\ run'[w].todo = run[w].todo /\ run'[w].results = run[w].results
      /\ run'[w].queue = run[w].queue /\ run'[w].context = run[w].context
  BY <1>1, MovesOn
<1>3. RunOK(run'[w])
  BY <1>1, <1>2 DEF RunOK, Stages
<1> QED
  BY <1>1, <1>2, <1>3, Assemble DEF RunsInv, LoadKey

\* An action is reported failed, or it is mined.
LEMMA ExecuteKeeps ==
    ASSUME RunsInv, NEW w \in Workers, Execute(w)
    PROVE  RunsInv'
<1> DEFINE todo == run[w].todo
<1>1. PICK result \in Result :
        /\ result.ok => result.mined
        /\ Step(w, "execute", [run[w] EXCEPT
               !.results = run[w].results \cup {result}, !.todo = Tail(todo),
               !.stage = IF Len(todo) = 1 THEN "complete" ELSE "execute"])
  BY DEF Execute, Result
<1> DEFINE to == IF Len(todo) = 1 THEN "complete" ELSE "execute"
           new == [run[w] EXCEPT !.results = run[w].results \cup {result},
                                 !.todo = Tail(todo), !.stage = to]
<1>2. Step(w, "execute", new) /\ DOMAIN run[w] = Fields
  BY <1>1 DEF RunsInv, RunOK
<1>3. /\ DOMAIN new = Fields /\ new.stage = to
      /\ new.todo = Tail(todo) /\ new.results = run[w].results \cup {result}
      /\ new.queue = run[w].queue /\ new.context = run[w].context
  BY <1>2 DEF Fields
<1> HIDE DEF new
<1>4. /\ run[w].stage = "execute" /\ RunOK(run[w])
      /\ DOMAIN run' = Workers /\ \A v \in Workers \ {w} : run'[v] = run[v]
      /\ DOMAIN run'[w] = Fields /\ run'[w].stage = to
      /\ run'[w].todo = Tail(todo) /\ run'[w].results = run[w].results \cup {result}
      /\ run'[w].queue = run[w].queue /\ run'[w].context = run[w].context
  BY <1>2, <1>3, Steps
<1>5. /\ Tail(todo) \in Seq(Action)
      /\ Len(todo) = 1 => Tail(todo) = <<>>
      /\ Len(todo) # 1 => Tail(todo) # <<>>
  <2>1. todo \in Seq(Action) /\ todo # <<>>
    BY <1>4 DEF RunOK
  <2> HIDE DEF todo
  <2>2. Tail(todo) \in Seq(Action) /\ Len(Tail(todo)) = Len(todo) - 1 /\ Len(todo) \in Nat
    BY <2>1
  <2>3. ASSUME NEW rest \in Seq(Action) PROVE rest = <<>> <=> Len(rest) = 0
    OBVIOUS
  <2>4. Tail(todo) = <<>> <=> Len(Tail(todo)) = 0
    BY <2>2, <2>3, Zenon
  <2> QED
    BY <2>2, <2>4
<1>6. RunOK(run'[w])
  BY <1>1, <1>4, <1>5 DEF RunOK, Stages
<1>7. UNCHANGED rows
  BY DEF Execute
<1> QED
  BY <1>4, <1>6, <1>7, Assemble DEF RunsInv

LEMMA CompleteKeeps ==
    ASSUME RunsInv, NEW w \in Workers, Complete(w)
    PROVE  RunsInv'
<1>1. CASE EndRun(w, "complete") /\ SetRow(w, StatusOf(run[w].results))
  <2>1. /\ DOMAIN run' = Workers /\ \A v \in Workers \ {w} : run'[v] = run[v]
        /\ RunOK(run'[w])
    BY <1>1, Ends, QueueFacts DEF EndRun, Step
  <2>2. /\ DOMAIN rows' = Workers /\ rows'[w] = StatusOf(run[w].results)
        /\ \A v \in Workers \ {w} : rows'[v] = rows[v]
    BY <1>1, RowWritten
  <2>3. rows'[w] # "running"
    BY <2>2 DEF StatusOf
  <2> QED
    BY <2>1, <2>2, <2>3, Assemble
<1>2. CASE Goto(w, "complete", "fail") /\ UNCHANGED rows
  <2>1. /\ run[w].stage = "complete" /\ RunOK(run[w])
        /\ DOMAIN run' = Workers /\ \A v \in Workers \ {w} : run'[v] = run[v]
        /\ DOMAIN run'[w] = Fields /\ run'[w].stage = "fail"
        /\ run'[w].todo = run[w].todo /\ run'[w].results = run[w].results
        /\ run'[w].queue = run[w].queue /\ run'[w].context = run[w].context
    BY <1>2, MovesOn
  <2>2. RunOK(run'[w])
    BY <2>1 DEF RunOK, Stages
  <2> QED
    BY <1>2, <2>1, <2>2, Assemble DEF RunsInv
<1> QED
  BY <1>1, <1>2 DEF Complete

LEMMA FailKeeps ==
    ASSUME RunsInv, NEW w \in Workers, Fail(w)
    PROVE  RunsInv'
<1>0. run[w].stage = "fail"
  BY DEF Fail, EndRun, Step
<1>1. ASSUME NEW queue \in Seq(ManagedIds), queue # <<>>,
             NEW status, status # "running", SetRow(w, status),
             Step(w, "fail", [IdleRun EXCEPT !.stage = "bump", !.queue = queue])
      PROVE  RunsInv'
  <2>1. /\ DOMAIN run' = Workers /\ \A v \in Workers \ {w} : run'[v] = run[v]
        /\ RunOK(run'[w])
    BY <1>1, Ends
  <2>2. /\ DOMAIN rows' = Workers /\ rows'[w] = status
        /\ \A v \in Workers \ {w} : rows'[v] = rows[v]
    BY <1>1, RowWritten
  <2> QED
    BY <1>1, <2>1, <2>2, Assemble
<1>2. CASE EndRun(w, "fail") /\ FailRow(w)
  <2>1. run[w].queue \in Seq(ManagedIds) /\ run[w].queue # <<>>
    BY <1>0, QueueFacts
  <2> QED
    BY <1>1, <1>2, <2>1, Zenon DEF EndRun, FailRow
<1>3. CASE /\ Step(w, "fail", [IdleRun EXCEPT !.stage = "bump", !.queue = <<Agent(w)>>])
           /\ SetRow(w, "none")
  <2>1. <<Agent(w)>> \in Seq(ManagedIds) /\ <<Agent(w)>> # <<>>
    BY <1>0, QueueFacts
  <2> QED
    BY <1>1, <1>3, <2>1, Zenon
<1> QED
  BY <1>2, <1>3 DEF Fail

LEMMA IdleIsOK == RunOK(IdleRun) /\ IdleRun.stage = "idle"
<1>1. /\ DOMAIN IdleRun = Fields /\ IdleRun.stage = "idle"
      /\ IdleRun.todo = <<>> /\ IdleRun.results = {}
      /\ IdleRun.queue = <<>> /\ IdleRun.context = NoContext
  BY DEF IdleRun, Fields
<1>2. IdleRun.todo \in Seq(Action) /\ IdleRun.queue \in Seq(ManagedIds)
  BY <1>1
<1> QED
  BY <1>1, <1>2, NoContextIsContext DEF RunOK, Stages

\* A sequence without length is the empty one.
LEMMA EmptyFacts ==
    ASSUME NEW S, NEW q \in Seq(S)
    PROVE  Len(q) = 0 <=> q = <<>>
<1>1. Len(q) = 0 => q = <<>>
  <2>1. q \in [1 .. Len(q) -> S]
    OBVIOUS
  <2>2. ASSUME Len(q) = 0 PROVE q \in [{} -> S]
    BY <2>1, <2>2, 1 .. 0 = {}
  <2> QED
    BY <2>2
<1>2. q = <<>> => Len(q) = 0
  OBVIOUS
<1> QED
  BY <1>1, <1>2

\* The next agent of the list starts with nothing of the last one.
LEMMA BumpKeeps ==
    ASSUME RunsInv, NEW w \in Workers, Bump(w)
    PROVE  RunsInv'
<1> DEFINE next == [run[w] EXCEPT !.stage = "read", !.queue = Tail(run[w].queue)]
<1>1. /\ run[w].stage = "bump" /\ RunOK(run[w]) /\ DOMAIN run = Workers
      /\ DOMAIN rows = Workers /\ rows[w] # "running"
  BY DEF Bump, RunsInv, RowsClosed
<1>2. /\ run' = [run EXCEPT ![w] = IF Len(run[w].queue) = 1 THEN IdleRun ELSE next]
      /\ rows' = [rows EXCEPT ![w] = IF rows[w] = "running" THEN rows[w] ELSE "none"]
  <2>1. run' = [run EXCEPT ![w] = IF Len(run[w].queue) = 1 THEN IdleRun ELSE next]
    BY Zenon DEF Bump
  <2> QED
    BY <2>1 DEF Bump
<1>3. /\ DOMAIN next = Fields /\ next.stage = "read"
      /\ next.todo = run[w].todo /\ next.results = run[w].results
      /\ next.queue = Tail(run[w].queue) /\ next.context = run[w].context
  BY <1>1 DEF RunOK, Fields
<1> HIDE DEF next
<1>4. ASSUME Len(run[w].queue) # 1 PROVE RunOK(next)
  <2>1. run[w].queue \in Seq(ManagedIds) /\ run[w].queue # <<>>
    BY <1>1, QueueFacts
  <2>2. ASSUME NEW q \in Seq(ManagedIds), q # <<>>, Len(q) # 1
        PROVE  Tail(q) \in Seq(ManagedIds) /\ Tail(q) # <<>>
    <3>1. Tail(q) \in Seq(ManagedIds) /\ Len(Tail(q)) = Len(q) - 1 /\ Len(q) \in Nat
      BY <2>2
    <3>2. Len(q) # 0
      BY <2>2, EmptyFacts, Zenon
    <3>3. Len(Tail(q)) # 0
      BY <2>2, <3>1, <3>2
    <3> QED
      BY <3>1, <3>3, EmptyFacts
  <2>3. next.queue \in Seq(ManagedIds) /\ next.queue # <<>>
    BY <1>3, <1>4, <2>1, <2>2
  <2> QED
    BY <1>1, <1>3, <2>3 DEF RunOK, Stages
<1>5. /\ DOMAIN run' = Workers /\ \A v \in Workers \ {w} : run'[v] = run[v]
      /\ run'[w] = IF Len(run[w].queue) = 1 THEN IdleRun ELSE next
  BY <1>1, <1>2
<1>6. /\ DOMAIN rows' = Workers /\ rows'[w] = "none"
      /\ \A v \in Workers \ {w} : rows'[v] = rows[v]
  BY <1>1, <1>2
<1>7. RunOK(run'[w])
  BY <1>4, <1>5, IdleIsOK
<1> QED
  BY <1>5, <1>6, <1>7, Assemble

LEMMA CrashKeeps ==
    ASSUME RunsInv, NEW w \in Workers, Crash(w)
    PROVE  RunsInv'
<1>1. /\ DOMAIN run' = Workers /\ run'[w] = IdleRun
      /\ \A v \in Workers \ {w} : run'[v] = run[v]
  BY DEF Crash, RunsInv
<1>2. /\ DOMAIN rows' = Workers /\ rows'[w] = "none"
      /\ \A v \in Workers \ {w} : rows'[v] = rows[v]
  BY RowWritten DEF Crash
<1> QED
  BY <1>1, <1>2, IdleIsOK, Assemble

-----------------------------------------------------------------------------
(* The schedule. *)

\* As many different values as there are agents are all of them.
LEMMA AllTaken ==
    ASSUME NEW S, IsFiniteSet(S), NEW T, IsFiniteSet(T), Cardinality(S) = Cardinality(T),
           NEW f \in [S -> T], \A x, y \in S : f[x] = f[y] => x = y
    PROVE  \A t \in T : \E x \in S : f[x] = t
<1>1. f \in Injection(S, T)
  BY DEF Injection, IsInjective
<1>2. f \in Surjection(S, T)
  BY <1>1, FS_Injection
<1> QED
  BY <1>2 DEF Surjection

\* line is an order of all agents.
LEMMA LineFacts ==
    ASSUME line \in SetToSeqs(ManagedIds)
    PROVE  /\ line \in Seq(ManagedIds) /\ Len(line) = Cardinality(ManagedIds)
           /\ Len(line) \in Nat
           /\ \A i, j \in 1 .. Len(line) : i # j => line[i] # line[j]
           /\ \A a \in ManagedIds : \E i \in 1 .. Len(line) : line[i] = a
<1> DEFINE n == Cardinality(ManagedIds)
<1>1. n \in Nat
  BY FS_CardinalityType
<1>2. line \in [1 .. n -> ManagedIds] /\ \A i, j \in 1 .. n : i # j => line[i] # line[j]
  BY DEF SetToSeqs
<1>3. IsFiniteSet(1 .. n) /\ Cardinality(1 .. n) = n
  <2> HIDE DEF n
  <2> QED
    BY <1>1, FS_Interval
<1>4. \A a \in ManagedIds : \E i \in 1 .. n : line[i] = a
  <2>1. \A i, j \in 1 .. n : line[i] = line[j] => i = j
    BY <1>2
  <2>2. IsFiniteSet(ManagedIds) /\ Cardinality(1 .. n) = Cardinality(ManagedIds)
    BY <1>3, RunnerAssumption
  <2>3. ASSUME NEW D, D = 1 .. n
        PROVE  \A a \in ManagedIds : \E i \in D : line[i] = a
    <3>1. /\ line \in [D -> ManagedIds] /\ IsFiniteSet(D)
          /\ Cardinality(D) = Cardinality(ManagedIds)
          /\ \A i, j \in D : line[i] = line[j] => i = j
      BY <1>2, <1>3, <2>1, <2>2, <2>3
    <3> QED
      BY <2>2, <3>1, AllTaken
  <2> QED
    BY <2>3
<1> HIDE DEF n
<1>5. line \in Seq(ManagedIds) /\ Len(line) = n
  BY <1>1, <1>2
<1> QED
  BY <1>1, <1>2, <1>4, <1>5 DEF n

\* z is s followed by t.
Joined(S, s, t, z) ==
    /\ z \in Seq(S) /\ Len(z) = Len(s) + Len(t)
    /\ \A k \in 1 .. Len(s) : z[k] = s[k]
    /\ \A k \in 1 .. Len(t) : z[Len(s) + k] = t[k]

LEMMA JoinFacts ==
    ASSUME NEW S, NEW s \in Seq(S), NEW t \in Seq(S)
    PROVE  Joined(S, s, t, s \o t)
BY SMTT(30) DEF Joined

LEMMA RemoveFacts ==
    ASSUME NEW S, NEW s \in Seq(S), NEW p \in 1 .. Len(s)
    PROVE  /\ RemoveAt(s, p) \in Seq(S) /\ Len(RemoveAt(s, p)) = Len(s) - 1
           /\ \A k \in 1 .. Len(s) - 1 : RemoveAt(s, p)[k] = IF k < p THEN s[k] ELSE s[k + 1]
<1> DEFINE x == SubSeq(s, 1, p - 1)
           y == SubSeq(s, p + 1, Len(s))
<1>1. /\ x \in Seq(S) /\ Len(x) = p - 1 /\ \A k \in 1 .. p - 1 : x[k] = s[k]
      /\ y \in Seq(S) /\ Len(y) = Len(s) - p /\ \A k \in 1 .. Len(s) - p : y[k] = s[k + p]
      /\ Len(s) \in Nat
  OBVIOUS
<1>2. RemoveAt(s, p) = x \o y
  BY DEF RemoveAt
<1> HIDE DEF x, y
<1>3. /\ x \o y \in Seq(S) /\ Len(x \o y) = Len(x) + Len(y)
      /\ \A k \in 1 .. Len(x) : (x \o y)[k] = x[k]
      /\ \A k \in 1 .. Len(y) : (x \o y)[Len(x) + k] = y[k]
  <2>1. x \in Seq(S) /\ y \in Seq(S)
    BY <1>1
  <2>2. Joined(S, x, y, x \o y)
    BY <2>1, JoinFacts
  <2> QED
    BY <2>2 DEF Joined
<1> DEFINE z == x \o y
<1>4. /\ z \in Seq(S) /\ Len(z) = Len(s) - 1
      /\ \A k \in 1 .. p - 1 : z[k] = s[k]
      /\ \A k \in 1 .. Len(s) - p : z[p - 1 + k] = s[k + p]
  BY <1>1, <1>3
<1> HIDE DEF z
<1>5. ASSUME NEW k \in 1 .. Len(s) - 1, ~(k < p) PROVE z[k] = s[k + 1]
  <2> DEFINE j == k - p + 1
  <2>1. j \in 1 .. Len(s) - p /\ p - 1 + j = k /\ j + p = k + 1
    BY <1>1, <1>5
  <2> HIDE DEF j
  <2> QED
    BY <1>4, <2>1
<1>6. \A k \in 1 .. Len(s) - 1 : k < p => k \in 1 .. p - 1
  BY <1>1
<1> QED
  BY <1>2, <1>4, <1>5, <1>6 DEF z

\* z is s with e behind its first i entries.
Inserted(S, s, i, e, z) ==
    /\ z \in Seq(S) /\ Len(z) = Len(s) + 1 /\ z[i + 1] = e
    /\ \A k \in 1 .. i : z[k] = s[k]
    /\ \A k \in i + 2 .. Len(s) + 1 : z[k] = s[k - 1]

LEMMA InsertFacts ==
    ASSUME NEW S, NEW s \in Seq(S), NEW e \in S, NEW i \in 0 .. Len(s)
    PROVE  Inserted(S, s, i, e, InsertAt(s, i + 1, e))
<1> DEFINE x == SubSeq(s, 1, i)
           y == SubSeq(s, i + 1, Len(s))
           m == <<e>>
           xm == x \o m
<1>1. /\ x \in Seq(S) /\ Len(x) = i /\ \A k \in 1 .. i : x[k] = s[k]
      /\ y \in Seq(S) /\ Len(y) = Len(s) - i /\ \A k \in 1 .. Len(s) - i : y[k] = s[k + i]
      /\ Len(s) \in Nat /\ m \in Seq(S) /\ Len(m) = 1 /\ m[1] = e
  OBVIOUS
<1>2. InsertAt(s, i + 1, e) = xm \o y
  <2>1. ASSUME NEW p, p = i + 1 PROVE InsertAt(s, p, e) = xm \o y
    <3>1. InsertAt(s, p, e) = (SubSeq(s, 1, p - 1) \o <<e>>) \o SubSeq(s, p, Len(s))
      BY ZenonT(20) DEF InsertAt
    <3>2. p - 1 = i
      BY <2>1
    <3> QED
      BY <2>1, <3>1, <3>2
  <2> HIDE DEF x, y, m, xm
  <2> QED
    BY <2>1, Zenon
<1> HIDE DEF x, y, m
<1>3. /\ x \o m \in Seq(S) /\ Len(x \o m) = Len(x) + Len(m)
      /\ \A k \in 1 .. Len(x) : (x \o m)[k] = x[k]
      /\ \A k \in 1 .. Len(m) : (x \o m)[Len(x) + k] = m[k]
  <2>1. x \in Seq(S) /\ m \in Seq(S)
    BY <1>1
  <2>2. Joined(S, x, m, x \o m)
    BY <2>1, JoinFacts
  <2> QED
    BY <2>2 DEF Joined
<1>4. xm \in Seq(S) /\ Len(xm) = i + 1 /\ xm[i + 1] = e /\ \A k \in 1 .. i : xm[k] = s[k]
  BY <1>1, <1>3
<1> HIDE DEF xm
<1>5. /\ xm \o y \in Seq(S) /\ Len(xm \o y) = Len(xm) + Len(y)
      /\ \A k \in 1 .. Len(xm) : (xm \o y)[k] = xm[k]
      /\ \A k \in 1 .. Len(y) : (xm \o y)[Len(xm) + k] = y[k]
  <2>1. xm \in Seq(S) /\ y \in Seq(S)
    BY <1>1, <1>4
  <2>2. Joined(S, xm, y, xm \o y)
    BY <2>1, JoinFacts
  <2> QED
    BY <2>2 DEF Joined
<1> DEFINE z == xm \o y
<1>6. /\ z \in Seq(S) /\ Len(z) = Len(s) + 1
      /\ \A k \in 1 .. i + 1 : z[k] = xm[k]
      /\ \A k \in 1 .. Len(s) - i : z[i + 1 + k] = s[k + i]
  <2>1. Len(xm) = i + 1 /\ Len(y) = Len(s) - i /\ Len(s) \in Nat /\ i \in Int
    BY <1>1, <1>4
  <2>2. /\ z \in Seq(S) /\ Len(z) = i + 1 + Len(y)
        /\ \A k \in 1 .. i + 1 : z[k] = xm[k]
        /\ \A k \in 1 .. Len(y) : z[i + 1 + k] = y[k]
    BY <1>5, <2>1
  <2> HIDE DEF z
  <2>3. \A k \in 1 .. Len(s) - i : z[i + 1 + k] = s[k + i]
    BY <1>1, <2>1, <2>2
  <2> QED
    BY <2>1, <2>2, <2>3
<1> HIDE DEF z
<1>7. ASSUME NEW k \in i + 2 .. Len(s) + 1 PROVE z[k] = s[k - 1]
  <2> DEFINE j == k - i - 1
  <2>1. j \in 1 .. Len(s) - i /\ i + 1 + j = k /\ j + i = k - 1
    BY <1>1
  <2> HIDE DEF j
  <2> QED
    BY <1>6, <2>1
<1>8. z[i + 1] = e /\ \A k \in 1 .. i : z[k] = s[k]
  BY <1>4, <1>6
<1>9. InsertAt(s, i + 1, e) = z
  BY <1>2 DEF z
<1> QED
  BY <1>6, <1>7, <1>8, <1>9, Zenon DEF Inserted

\* A bump takes the agent from place p to place i + 1, behind all due ones.
Moved(p, i) ==
    /\ due' = (IF p <= due THEN due - 1 ELSE due) /\ due' <= i
    /\ line' \in Seq(ManagedIds) /\ Len(line') = Len(line)
    /\ line'[i + 1] = line[p]
    /\ \A k \in 1 .. i : line'[k] = IF k < p THEN line[k] ELSE line[k + 1]
    /\ \A k \in i + 2 .. Len(line) : line'[k] = IF k - 1 < p THEN line[k - 1] ELSE line[k]

LEMMA BumpMoves ==
    ASSUME line \in SetToSeqs(ManagedIds), due \in 0 .. Len(line), NEW p \in 1 .. Len(line),
           bumpNextRunAt(line[p])
    PROVE  \E i \in 0 .. Len(line) - 1 : Moved(p, i)
<1> DEFINE n == Len(line)
           a == line[p]
           at == CHOOSE k \in 1 .. n : line[k] = a
           others == RemoveAt(line, at)
           left == IF IsDue(a) THEN due - 1 ELSE due
<1>1. /\ line \in Seq(ManagedIds) /\ n \in Nat /\ a \in ManagedIds
      /\ \A i, j \in 1 .. n : i # j => line[i] # line[j]
  BY LineFacts
<1>2. PICK i \in left .. Len(others) : line' = InsertAt(others, i + 1, a) /\ due' = left
  BY DEF bumpNextRunAt
<1>3. at = p
  <2>1. at \in 1 .. n /\ line[at] = a
    OBVIOUS
  <2> HIDE DEF at
  <2> QED
    BY <1>1, <2>1
<1>4. left = (IF p <= due THEN due - 1 ELSE due) /\ left \in 0 .. n - 1
  <2>1. IsDue(a) <=> p <= due
    BY <1>1 DEF IsDue
  <2>2. left = (IF p <= due THEN due - 1 ELSE due)
    BY <2>1
  <2> QED
    BY <1>1, <2>2
<1> HIDE DEF at, left
<1>5. /\ others \in Seq(ManagedIds) /\ Len(others) = n - 1
      /\ \A k \in 1 .. n - 1 : others[k] = IF k < p THEN line[k] ELSE line[k + 1]
  BY <1>1, <1>3, RemoveFacts
<1> HIDE DEF others
<1>6. i \in 0 .. n - 1 /\ due' <= i
  BY <1>1, <1>2, <1>4, <1>5
<1>7. Inserted(ManagedIds, others, i, a, line')
  <2>1. others \in Seq(ManagedIds) /\ i \in 0 .. Len(others) /\ a \in ManagedIds
    BY <1>1, <1>5, <1>6
  <2>2. Inserted(ManagedIds, others, i, a, InsertAt(others, i + 1, a))
    BY <2>1, InsertFacts
  <2> QED
    BY <1>2, <2>2
<1> HIDE DEF a, n
<1>8. /\ line' \in Seq(ManagedIds) /\ Len(line') = n /\ line'[i + 1] = a
      /\ \A k \in 1 .. i : line'[k] = others[k]
      /\ \A k \in i + 2 .. n : line'[k] = others[k - 1]
  <2>1. Len(others) + 1 = n
    BY <1>1, <1>5
  <2> QED
    BY <1>7, <2>1 DEF Inserted
<1>9. ASSUME NEW k \in 1 .. i PROVE line'[k] = IF k < p THEN line[k] ELSE line[k + 1]
  <2>1. k \in 1 .. n - 1
    BY <1>1, <1>6
  <2> QED
    BY <1>5, <1>8, <2>1
<1>10. ASSUME NEW k \in i + 2 .. n
       PROVE  line'[k] = IF k - 1 < p THEN line[k - 1] ELSE line[k]
  <2>1. k - 1 \in 1 .. n - 1 /\ k - 1 + 1 = k
    BY <1>1, <1>6
  <2> QED
    BY <1>5, <1>8, <2>1
<1>11. due' = (IF p <= due THEN due - 1 ELSE due)
  BY <1>2, <1>4
<1> QED
  BY <1>6, <1>8, <1>9, <1>10, <1>11 DEF Moved, n, a

\* It loses no agent, and lists none twice.
LEMMA BumpOrders ==
    ASSUME line \in SetToSeqs(ManagedIds), due \in 0 .. Len(line), NEW a \in ManagedIds,
           bumpNextRunAt(a)
    PROVE  line' \in SetToSeqs(ManagedIds) /\ due' \in 0 .. Len(line')
<1> DEFINE n == Len(line)
<1>1. /\ line \in Seq(ManagedIds) /\ n = Cardinality(ManagedIds) /\ n \in Nat
      /\ \A i, j \in 1 .. n : i # j => line[i] # line[j]
  BY LineFacts
<1>2. PICK p \in 1 .. n : line[p] = a
  BY LineFacts
<1>3. PICK i \in 0 .. n - 1 : Moved(p, i)
  BY <1>2, BumpMoves
<1> HIDE DEF n
<1>4. /\ line' \in Seq(ManagedIds) /\ Len(line') = n
      /\ line'[i + 1] = line[p]
      /\ \A k \in 1 .. i : line'[k] = IF k < p THEN line[k] ELSE line[k + 1]
      /\ \A k \in i + 2 .. n : line'[k] = IF k - 1 < p THEN line[k - 1] ELSE line[k]
  BY <1>3 DEF Moved, n
<1> DEFINE from(k) == IF k = i + 1 THEN p
                      ELSE IF k <= i THEN IF k < p THEN k ELSE k + 1
                                     ELSE IF k - 1 < p THEN k - 1 ELSE k
<1>5. ASSUME NEW k \in 1 .. n PROVE from(k) \in 1 .. n /\ line'[k] = line[from(k)]
  <2>1. CASE k = i + 1
    BY <1>4, <2>1
  <2>2. CASE k <= i
    <3>1. k \in 1 .. i /\ k # i + 1 /\ k + 1 \in 1 .. n
      BY <1>1, <2>2
    <3> QED
      BY <1>4, <2>2, <3>1
  <2>3. CASE k > i + 1
    <3>1. k \in i + 2 .. n /\ k # i + 1 /\ ~(k <= i) /\ k - 1 \in 1 .. n
      BY <1>1, <2>3
    <3> QED
      BY <1>4, <3>1
  <2> QED
    BY <1>1, <2>1, <2>2, <2>3
<1>6. ASSUME NEW k \in 1 .. n, NEW l \in 1 .. n, k # l PROVE from(k) # from(l)
  BY <1>1, <1>6
<1> HIDE DEF from
<1>7. ASSUME NEW k \in 1 .. n, NEW l \in 1 .. n, k # l PROVE line'[k] # line'[l]
  <2>1. /\ from(k) \in 1 .. n /\ line'[k] = line[from(k)]
        /\ from(l) \in 1 .. n /\ line'[l] = line[from(l)]
    BY <1>5
  <2>2. from(k) # from(l)
    BY <1>6, <1>7
  <2>3. \A x, y \in 1 .. n : x # y => line[x] # line[y]
    BY <1>1
  <2> QED
    BY <2>1, <2>2, <2>3, Zenon
<1>8. line' \in [1 .. n -> ManagedIds]
  BY <1>4
<1>9. line' \in SetToSeqs(ManagedIds)
  BY <1>1, <1>7, <1>8 DEF SetToSeqs
<1>10. due' \in 0 .. n
  BY <1>1, <1>3 DEF Moved, n
<1> QED
  BY <1>4, <1>9, <1>10

\* The due and active agents from the front of the line to the one in slot i.
UpTo(i) == {j \in DueSlots : j <= i}

\* A tick takes active agents only, and those that DueLimit leaves room for.
LEMMA DueAgents ==
    ASSUME line \in SetToSeqs(ManagedIds), due \in 0 .. Len(line)
    PROVE  /\ listDue \in Seq(ManagedIds)
           /\ \A k \in 1 .. Len(listDue) : IsActive(listDue[k])
           /\ \A i \in DueSlots : Cardinality(UpTo(i)) <= DueLimit =>
                 \E k \in 1 .. Len(listDue) : listDue[k] = line[i]
<1> DEFINE D == DueSlots
           c == Cardinality(D)
           upTo(i) == {j \in D : j <= i}
           rank == [i \in D |-> Cardinality(upTo(i))]
           slot(n) == CHOOSE i \in D : Cardinality(upTo(i)) = n
           last == IF c < DueLimit THEN c ELSE DueLimit
<1>1. line \in Seq(ManagedIds) /\ Len(line) \in Nat
  BY LineFacts
<1>2. D \subseteq 1 .. due /\ due \in Nat
  BY <1>1 DEF DueSlots
<1>3. IsFiniteSet(D) /\ c \in Nat
  <2>1. IsFiniteSet(1 .. due)
    BY <1>2, FS_Interval
  <2> QED
    BY <1>2, <2>1, FS_Subset, FS_CardinalityType
<1>4. listDue = [n \in 1 .. last |-> line[slot(n)]]
  BY DEF listDue
<1>0. \A i \in D : IsActive(line[i])
  BY DEF DueSlots
<1>16. \A i \in D : UpTo(i) = upTo(i)
  BY DEF UpTo
<1> HIDE DEF D
<1>5. ASSUME NEW i \in D
      PROVE  IsFiniteSet(upTo(i)) /\ Cardinality(upTo(i)) \in 1 .. c
  <2>1. upTo(i) \subseteq D /\ i \in upTo(i)
    <3>1. i \in Int /\ i <= i
      BY <1>2
    <3> QED
      BY <1>5, <3>1
  <2>2. /\ IsFiniteSet(upTo(i)) /\ Cardinality(upTo(i)) \in Nat /\ Cardinality(upTo(i)) <= c
    BY <1>3, <2>1, FS_Subset, FS_CardinalityType
  <2>3. Cardinality(upTo(i)) # 0
    BY <2>1, <2>2, FS_EmptySet
  <2> HIDE DEF c, upTo
  <2> QED
    BY <1>3, <2>2, <2>3
<1>6. ASSUME NEW i \in D, NEW j \in D, i < j PROVE rank[i] # rank[j]
  <2>1. /\ i \in Int /\ j \in Int /\ \A k \in D : k \in Int
    BY <1>2
  <2>2. \A k \in D : k <= i => k <= j
    BY <1>6, <2>1
  <2>3. j <= j /\ ~(j <= i)
    BY <1>6, <2>1
  <2>4. upTo(i) \in SUBSET upTo(j) /\ j \in upTo(j) /\ j \notin upTo(i)
    BY <1>6, <2>2, <2>3
  <2> HIDE DEF upTo
  <2> QED
    BY <1>5, <2>4, FS_Subset
<1>7. \A i, j \in D : rank[i] = rank[j] => i = j
  BY <1>2, <1>6
<1>8. IsFiniteSet(1 .. c) /\ Cardinality(1 .. c) = c
  <2> HIDE DEF c
  <2> QED
    BY <1>3, FS_Interval
<1>9. rank \in [D -> 1 .. c]
  BY <1>5
<1> HIDE DEF rank
<1>10. \A n \in 1 .. c : \E i \in D : rank[i] = n
  <2>1. ASSUME NEW T, T = 1 .. c
        PROVE  \A n \in T : \E i \in D : rank[i] = n
    <3>1. /\ rank \in [D -> T] /\ IsFiniteSet(D) /\ IsFiniteSet(T)
          /\ Cardinality(D) = Cardinality(T)
          /\ \A x, y \in D : rank[x] = rank[y] => x = y
      BY <1>3, <1>7, <1>8, <1>9, <2>1
    <3> HIDE DEF c
    <3> QED
      BY <3>1, AllTaken
  <2> QED
    BY <2>1
<1>11. ASSUME NEW n \in 1 .. c PROVE slot(n) \in D /\ rank[slot(n)] = n
  <2>1. \E i \in D : Cardinality(upTo(i)) = n
    BY <1>10 DEF rank
  <2> HIDE DEF upTo
  <2>2. slot(n) \in D /\ Cardinality(upTo(slot(n))) = n
    BY <2>1
  <2> HIDE DEF slot
  <2> QED
    BY <2>2 DEF rank
<1> HIDE DEF slot
<1>12. last \in Nat /\ last <= c
  <2> HIDE DEF c
  <2> QED
    BY <1>3
<1> HIDE DEF last, c
<1>13. ASSUME NEW n \in 1 .. last PROVE line[slot(n)] \in ManagedIds /\ IsActive(line[slot(n)])
  <2>1. n \in 1 .. c
    BY <1>3, <1>12
  <2>2. slot(n) \in D
    BY <1>11, <2>1
  <2>3. \A i \in 1 .. due : i \in 1 .. Len(line)
    BY <1>1
  <2>4. slot(n) \in 1 .. Len(line)
    BY <1>2, <2>2, <2>3, Zenon
  <2> QED
    BY <1>0, <1>1, <2>2, <2>4
<1> DEFINE f == [n \in 1 .. last |-> line[slot(n)]]
<1>14. f \in [1 .. last -> ManagedIds] /\ \A n \in 1 .. last : IsActive(f[n])
  BY <1>13
<1>15. ASSUME NEW i \in D, rank[i] <= DueLimit
       PROVE  rank[i] \in 1 .. last /\ f[rank[i]] = line[i]
  <2>1. rank[i] \in 1 .. c
    BY <1>9
  <2>2. rank[i] \in 1 .. last
    BY <1>3, <1>15, <2>1 DEF last
  <2>3. slot(rank[i]) \in D /\ rank[slot(rank[i])] = rank[i]
    BY <1>11, <2>1
  <2>4. slot(rank[i]) = i
    BY <1>7, <2>3
  <2> QED
    BY <2>2, <2>4
<1> HIDE DEF f
<1>17. f \in Seq(ManagedIds) /\ Len(f) = last
  BY <1>12, <1>14
<1>18. \A i \in D : rank[i] = Cardinality(UpTo(i))
  BY <1>16 DEF rank
<1>19. \A i \in D : Cardinality(UpTo(i)) <= DueLimit => \E k \in 1 .. Len(f) : f[k] = line[i]
  BY <1>15, <1>17, <1>18
<1>20. listDue = f
  BY <1>4 DEF f
<1> QED
  BY <1>14, <1>17, <1>19, <1>20 DEF D

-----------------------------------------------------------------------------
(* The tables. *)

\* Positions are opened within the budget, whoever trades.
LEMMA HoldingsMove ==
    ASSUME TablesInv, NEW a \in ManagedIds, NEW held \in SUBSET Symbols, IsFiniteSet(held),
           Cardinality(held) <= Budget, holdings' = [holdings EXCEPT ![a] = held]
    PROVE  holdings' \in [ManagedIds -> SUBSET Symbols] /\ Funded'
<1>1. holdings \in [ManagedIds -> SUBSET Symbols] /\ Funded
  BY DEF TablesInv
<1>2. \A b \in ManagedIds : holdings'[b] = IF b = a THEN held ELSE holdings[b]
  BY <1>1
<1> QED
  BY <1>1, <1>2 DEF Funded

LEMMA Shrinks ==
    ASSUME TablesInv, NEW a \in ManagedIds, NEW s,
           holdings' = [holdings EXCEPT ![a] = holdings[a] \ {s}]
    PROVE  holdings' \in [ManagedIds -> SUBSET Symbols] /\ Funded'
<1>1. /\ holdings[a] \in SUBSET Symbols /\ IsFiniteSet(holdings[a])
      /\ Cardinality(holdings[a]) <= Budget
  BY DEF TablesInv, Funded
<1> DEFINE held == holdings[a] \ {s}
<1>2. held \in SUBSET holdings[a]
  OBVIOUS
<1>3. held \in SUBSET Symbols
  BY <1>1
<1>4. holdings' = [holdings EXCEPT ![a] = held]
  OBVIOUS
<1> HIDE DEF held
<1>5. IsFiniteSet(held) /\ Cardinality(held) <= Cardinality(holdings[a])
  BY <1>1, <1>2, FS_Subset
<1>6. Cardinality(held) \in Nat /\ Cardinality(holdings[a]) \in Nat
  BY <1>1, <1>5, FS_CardinalityType
<1>7. Cardinality(held) <= Budget
  BY <1>1, <1>5, <1>6
<1> QED
  BY <1>3, <1>4, <1>5, <1>7, HoldingsMove

LEMMA TradesKeep ==
    ASSUME RunsInv, TablesInv, NEW w \in Workers, Execute(w)
    PROVE  holdings' \in [ManagedIds -> SUBSET Symbols] /\ Funded'
<1> DEFINE a == Agent(w)
           action == Head(run[w].todo)
<1>1. run[w].stage = "execute"
  BY DEF Execute
<1>2. a \in ManagedIds
  BY <1>1, QueueFacts
<1>3. action \in Action
  <2>1. run[w].todo \in Seq(Action) /\ run[w].todo # <<>>
    BY <1>1 DEF RunsInv, RunOK
  <2>2. ASSUME NEW q \in Seq(Action), q # <<>> PROVE Head(q) \in Action
    BY <2>2
  <2> QED
    BY <2>1, <2>2
<1>4. CASE UNCHANGED holdings
  BY <1>4 DEF TablesInv, Funded
<1>5. CASE /\ Accepted(a, action)
           /\ holdings' = [holdings EXCEPT ![a] = Traded(a, action)]
  <2> HIDE DEF a, action
  <2>1. CASE action.type = "open"
    <3> DEFINE held == holdings[a] \cup {action.symbol}
    <3>1. /\ action.symbol \notin holdings[a] /\ Cardinality(holdings[a]) < Budget
          /\ holdings' = [holdings EXCEPT ![a] = held]
      BY <1>5, <2>1 DEF Accepted, Traded
    <3>2. holdings[a] \in SUBSET Symbols /\ IsFiniteSet(holdings[a])
      BY <1>2 DEF TablesInv, Funded
    <3>3. held \in SUBSET Symbols
      BY <1>3, <3>2 DEF Action
    <3>4. IsFiniteSet(held) /\ Cardinality(held) = Cardinality(holdings[a]) + 1
      BY <3>1, <3>2, FS_AddElement
    <3>5. Cardinality(holdings[a]) \in Nat
      BY <3>2, FS_CardinalityType
    <3> HIDE DEF held
    <3>6. Cardinality(held) <= Budget
      BY <3>1, <3>4, <3>5
    <3> QED
      BY <1>2, <3>1, <3>3, <3>4, <3>6, HoldingsMove
  <2>2. CASE action.type # "open"
    <3>1. holdings' = [holdings EXCEPT ![a] = holdings[a] \ {action.symbol}]
      BY <1>5, <2>2 DEF Traded
    <3> QED
      BY <1>2, <3>1, Shrinks
  <2> QED
    BY <2>1, <2>2
<1> QED
  BY <1>4, <1>5 DEF Execute

LEMMA ScheduleKeeps ==
    ASSUME TablesInv, UNCHANGED scheduleVars \/ \E a \in ManagedIds : bumpNextRunAt(a)
    PROVE  line' \in SetToSeqs(ManagedIds) /\ due' \in 0 .. Len(line')
  BY BumpOrders DEF TablesInv, scheduleVars

LEMMA StatusKeeps ==
    ASSUME TablesInv, NEW w \in Workers, NEW status \in RowStatus, SetRow(w, status)
    PROVE  rows' \in [Workers -> RowStatus]
  BY DEF TablesInv, SetRow

LEMMA ArchiveKeeps ==
    ASSUME TablesInv, NEW a \in ManagedIds, Archive(a)
    PROVE  ManagedTypeOK'
<1>1. ManagedTypeOK
  BY DEF TablesInv
<1>2. CASE ArchiveProfile(a)
  BY <1>1, <1>2 DEF ManagedTypeOK, ArchiveProfile
<1>3. CASE WipeKey(a)
  BY <1>1, <1>3 DEF ManagedTypeOK, WipeKey, KeyAfterWipe
<1> QED
  BY <1>2, <1>3 DEF Archive

LEMMA TablesStart == RunnerInit => TablesInv
<1> SUFFICES ASSUME RunnerInit PROVE TablesInv
  OBVIOUS
<1>1. ManagedTypeOK
  BY DEF RunnerInit, ManagedTypeOK
<1>2. line \in SetToSeqs(ManagedIds) /\ due \in 0 .. Len(line)
  BY LineFacts DEF RunnerInit
<1>3. holdings \in [ManagedIds -> SUBSET Symbols] /\ Funded
  <2>1. \A a \in ManagedIds : holdings[a] = {}
    BY DEF RunnerInit
  <2> QED
    BY <2>1, FS_EmptySet DEF RunnerInit, Funded
<1>4. rows \in [Workers -> RowStatus] /\ crashes \in 0 .. MaxCrashes /\ recent \subseteq Callers
  BY DEF RunnerInit, RowStatus
<1> QED
  BY <1>1, <1>2, <1>3, <1>4 DEF TablesInv

\* What a step leaves alone stays as it was.
LEMMA TablesStay ==
    ASSUME TablesInv
    PROVE  /\ UNCHANGED managedVars => ManagedTypeOK'
           /\ UNCHANGED scheduleVars => line' \in SetToSeqs(ManagedIds) /\ due' \in 0 .. Len(line')
           /\ UNCHANGED recent => recent' \subseteq Callers
           /\ UNCHANGED holdings => holdings' \in [ManagedIds -> SUBSET Symbols] /\ Funded'
           /\ UNCHANGED rows => rows' \in [Workers -> RowStatus]
           /\ UNCHANGED crashes => crashes' \in 0 .. MaxCrashes
           /\ crashes < MaxCrashes /\ crashes' = crashes + 1 => crashes' \in 0 .. MaxCrashes
  BY DEF TablesInv, ManagedTypeOK, managedVars, scheduleVars, Funded

LEMMA TablesKeep ==
    ASSUME RunsInv, TablesInv, [RunnerNext]_runnerVars
    PROVE  TablesInv'
<1> USE TablesStay
<1>1. ASSUME NEW w \in Workers, CronTick(w) PROVE TablesInv'
  BY <1>1 DEF CronTick, TablesInv
<1>2. ASSUME NEW w \in Workers, ReadContext(w) PROVE TablesInv'
  <2>1. recent' \subseteq Callers
    BY <1>2 DEF ReadContext, TablesInv
  <2>2. rows' \in [Workers -> RowStatus]
    BY <1>2, StatusKeeps DEF ReadContext, RowStatus
  <2> QED
    BY <1>2, <2>1, <2>2 DEF ReadContext, TablesInv
<1>3. ASSUME NEW w \in Workers, Decide(w) \/ LoadKey(w) PROVE TablesInv'
  BY <1>3 DEF Decide, LoadKey, TablesInv
<1>4. ASSUME NEW w \in Workers, Execute(w) PROVE TablesInv'
  <2>1. UNCHANGED <<managedVars, scheduleVars, recent, rows, crashes>>
    BY <1>4 DEF Execute
  <2> QED
    BY <1>4, <2>1, TradesKeep DEF TablesInv
<1>5. ASSUME NEW w \in Workers, Complete(w) PROVE TablesInv'
  <2>1. rows' \in [Workers -> RowStatus]
    BY <1>5, StatusKeeps DEF Complete, StatusOf, RowStatus
  <2>2. crashes' \in 0 .. MaxCrashes
    BY <1>5 DEF Complete
  <2> QED
    BY <1>5, <2>1, <2>2 DEF Complete, TablesInv
<1>6. ASSUME NEW w \in Workers, Fail(w) PROVE TablesInv'
  <2>1. rows' \in [Workers -> RowStatus]
    BY <1>6, StatusKeeps DEF Fail, FailRow, RowStatus
  <2>2. crashes' \in 0 .. MaxCrashes
    BY <1>6 DEF Fail
  <2> QED
    BY <1>6, <2>1, <2>2 DEF Fail, TablesInv
<1>7. ASSUME NEW w \in Workers, Bump(w) PROVE TablesInv'
  <2>1. Agent(w) \in ManagedIds
    BY <1>7, QueueFacts DEF Bump
  <2>2. line' \in SetToSeqs(ManagedIds) /\ due' \in 0 .. Len(line')
    BY <1>7, <2>1, ScheduleKeeps DEF Bump, Reschedule
  <2>3. rows' \in [Workers -> RowStatus]
    BY <1>7 DEF Bump, TablesInv, RowStatus
  <2> QED
    BY <1>7, <2>2, <2>3 DEF Bump, TablesInv
<1>8. ASSUME NEW w \in Workers, Crash(w) PROVE TablesInv'
  <2>1. rows' \in [Workers -> RowStatus]
    BY <1>8, StatusKeeps DEF Crash, RowStatus
  <2> QED
    BY <1>8, <2>1 DEF Crash, TablesInv
<1>9. ASSUME NEW w \in RequestWorkers, NEW a \in Callers, ManualRun(w, a) PROVE TablesInv'
  BY <1>9 DEF ManualRun, TablesInv
<1>10. ASSUME NEW a \in ManagedIds, Archive(a) PROVE TablesInv'
  BY <1>10, ArchiveKeeps DEF Archive, TablesInv
<1>11. ASSUME NEW a \in ManagedIds, UpdateFrequency(a) PROVE TablesInv'
  BY <1>11, ScheduleKeeps DEF UpdateFrequency, TablesInv
<1>12. ASSUME NEW a \in ManagedIds, CooldownOver(a) PROVE TablesInv'
  BY <1>12 DEF CooldownOver, TablesInv
<1>13. ASSUME NEW a \in ManagedIds, NEW s \in Symbols, KeeperExit(a, s) PROVE TablesInv'
  <2>1. holdings' = [holdings EXCEPT ![a] = holdings[a] \ {s}]
    BY <1>13 DEF KeeperExit
  <2> QED
    BY <1>13, <2>1, Shrinks DEF KeeperExit, TablesInv
<1>14. CASE TimePasses
  <2>1. due' \in 0 .. Len(line')
    BY <1>14, LineFacts DEF TimePasses, TablesInv
  <2> QED
    BY <1>14, <2>1 DEF TimePasses, TablesInv
<1>15. CASE UNCHANGED runnerVars
  BY <1>15 DEF runnerVars, TablesInv
<1> QED
  BY <1>1, <1>2, <1>3, <1>4, <1>5, <1>6, <1>7, <1>8, <1>9, <1>10, <1>11, <1>12, <1>13, <1>14,
     <1>15
  DEF RunnerNext, RunStep

-----------------------------------------------------------------------------
(* The specification. *)

LEMMA RunsStart == RunnerInit => RunsInv
<1> SUFFICES ASSUME RunnerInit PROVE RunsInv
  OBVIOUS
<1>1. /\ DOMAIN run = Workers /\ DOMAIN rows = Workers
      /\ \A w \in Workers : run[w] = IdleRun /\ rows[w] = "none"
  BY DEF RunnerInit
<1> QED
  BY <1>1, IdleIsOK DEF RunsInv, RowsClosed

LEMMA RunsKeep ==
    ASSUME RunsInv, TablesInv, [RunnerNext]_runnerVars
    PROVE  RunsInv'
<1>1. ASSUME NEW w \in Workers, CronTick(w) PROVE RunsInv'
  <2>1. listDue \in Seq(ManagedIds)
    BY DueAgents DEF TablesInv
  <2> QED
    BY <1>1, <2>1, BeginKeeps DEF CronTick
<1>2. ASSUME NEW w \in Workers, RunStep(w) PROVE RunsInv'
  BY <1>2, ReadKeeps, DecideKeeps, KeyKeeps, ExecuteKeeps, CompleteKeeps, FailKeeps, BumpKeeps
  DEF RunStep
<1>3. ASSUME NEW w \in Workers, Crash(w) PROVE RunsInv'
  BY <1>3, CrashKeeps
<1>4. ASSUME NEW w \in RequestWorkers, NEW a \in Callers, ManualRun(w, a) PROVE RunsInv'
  <2>1. <<a>> \in Seq(ManagedIds) /\ <<a>> # <<>>
    OBVIOUS
  <2> QED
    BY <1>4, <2>1, BeginKeeps DEF ManualRun
<1>5. ASSUME NEW a \in ManagedIds, Archive(a) \/ UpdateFrequency(a) \/ CooldownOver(a)
      PROVE  RunsInv'
  BY <1>5, Quiet DEF Archive, UpdateFrequency, CooldownOver
<1>6. ASSUME NEW a \in ManagedIds, NEW s \in Symbols, KeeperExit(a, s) PROVE RunsInv'
  BY <1>6, Quiet DEF KeeperExit
<1>7. CASE TimePasses
  BY <1>7, Quiet DEF TimePasses
<1>8. CASE UNCHANGED runnerVars
  BY <1>8, Quiet DEF runnerVars
<1> QED
  BY <1>1, <1>2, <1>3, <1>4, <1>5, <1>6, <1>7, <1>8 DEF RunnerNext

\* Whatever other invocations, keepers, archive requests and crashes do, an invocation
\* keeps the decision it took until its run is over (runAgent).
THEOREM RunnerInvariant == RunnerSpec => []RunnerInv
<1>1. RunnerInit => RunnerInv
  BY RunsStart, TablesStart DEF RunnerInv
<1>2. RunnerInv /\ [RunnerNext]_runnerVars => RunnerInv'
  BY RunsKeep, TablesKeep DEF RunnerInv
<1> QED
  BY <1>1, <1>2, PTL DEF RunnerSpec

\* The types of the tables and of the memory of every invocation; the schedule is an order
\* of all agents at all times: an agent that two invocations, a request and the clock move
\* at once is never lost from it (bumpNextRunAt, tick, runAgent).
THEOREM RunnerTypeCorrect == RunnerSpec => []RunnerTypeOK
<1>1. RunnerInv => RunnerTypeOK
  BY DEF RunnerInv, RunsInv, RunOK, RowsClosed, TablesInv, RunnerTypeOK
<1> QED
  BY <1>1, RunnerInvariant, PTL

\* A run that ends, on whichever path, leaves no row that says "running": only a kill or
\* a lost connection can, and such a row is nobody's any more (the catch and finally
\* blocks of runAgent).
THEOREM RowsCorrect == RunnerSpec => []RowsClosed
<1>1. RunnerInv => RowsClosed
  BY DEF RunnerInv, RunsInv
<1> QED
  BY <1>1, RunnerInvariant, PTL

-----------------------------------------------------------------------------
(* "completed" means traded. *)

\* Only the last write of a run that traded everything says "completed".
LEMMA OnlyComplete ==
    ASSUME RunsInv, [RunnerNext]_runnerVars, NEW w \in Workers,
           rows[w] = "running", rows'[w] = "completed"
    PROVE  Complete(w) /\ run[w].stage = "complete" /\ AllOk(run[w].results)
<1>0. DOMAIN rows = Workers
  BY DEF RunsInv
<1>1. ASSUME UNCHANGED rows PROVE FALSE
  BY <1>1
<1>2. ASSUME NEW v \in Workers, NEW status, SetRow(v, status)
      PROVE  v = w /\ status = "completed"
  BY <1>2, <1>0 DEF SetRow
<1>3. ASSUME NEW v \in Workers, ReadContext(v) PROVE FALSE
  BY <1>1, <1>2, <1>3 DEF ReadContext
<1>4. ASSUME NEW v \in Workers, Fail(v) PROVE FALSE
  BY <1>2, <1>4 DEF Fail, FailRow
<1>5. ASSUME NEW v \in Workers, Bump(v) PROVE FALSE
  BY <1>0, <1>5 DEF Bump
<1>6. ASSUME NEW v \in Workers, Crash(v) PROVE FALSE
  BY <1>2, <1>6 DEF Crash
<1>7. ASSUME NEW v \in Workers, Complete(v)
      PROVE  v = w /\ run[w].stage = "complete" /\ AllOk(run[w].results)
  <2>1. EndRun(v, "complete") /\ SetRow(v, StatusOf(run[v].results))
    BY <1>1, <1>7 DEF Complete
  <2>2. v = w /\ StatusOf(run[w].results) = "completed"
    BY <2>1, <1>2
  <2> QED
    BY <2>1, <2>2 DEF EndRun, Step, StatusOf
<1>8. ASSUME NEW v \in Workers, RunStep(v)
      PROVE  Complete(w) /\ run[w].stage = "complete" /\ AllOk(run[w].results)
  BY <1>1, <1>3, <1>4, <1>5, <1>7, <1>8 DEF RunStep, Decide, LoadKey, Execute
<1>9. ASSUME ~ \E v \in Workers : RunStep(v) PROVE FALSE
  BY <1>1, <1>6, <1>9
  DEF RunnerNext, runnerVars, CronTick, ManualRun, Archive, UpdateFrequency, CooldownOver,
      KeeperExit, TimePasses
<1> QED
  BY <1>8, <1>9

\* A run recorded as completed did what it set out to do: nothing is left of its decision,
\* and every action was reported ok and is mined (runAgent, summarizeExecutionFailures).
THEOREM CompletedCorrect == RunnerSpec => CompletedRunsTraded
<1> DEFINE Traded1(w) == (rows[w] = "running" /\ rows'[w] = "completed") =>
               /\ run[w].todo = <<>>
               /\ \A result \in run[w].results : result.ok /\ result.mined
<1>1. ASSUME RunnerInv, [RunnerNext]_runnerVars
      PROVE  [\A w \in Workers : Traded1(w)]_runnerVars
  <2> SUFFICES ASSUME NEW w \in Workers, rows[w] = "running", rows'[w] = "completed"
               PROVE  /\ run[w].todo = <<>>
                      /\ \A result \in run[w].results : result.ok /\ result.mined
    OBVIOUS
  <2>1. run[w].stage = "complete" /\ AllOk(run[w].results)
    BY <1>1, OnlyComplete DEF RunnerInv
  <2>2. RunOK(run[w])
    BY <1>1 DEF RunnerInv, RunsInv
  <2> QED
    BY <2>1, <2>2 DEF RunOK, AllOk
<1> QED
  BY <1>1, RunnerInvariant, PTL DEF RunnerSpec, CompletedRunsTraded

-----------------------------------------------------------------------------
(* Progress without fairness: nobody overtakes, and a tick takes the front. *)

\* A due agent stays due or is rescheduled itself, never moves back in the line, and moves
\* forward whenever somebody in front of it is rescheduled.
WaitShrinks ==
    \A i \in 1 .. due :
        \/ bumpNextRunAt(line[i]) /\ \A k \in 1 .. due' : line'[k] # line[i]
        \/ \E j \in 1 .. i : /\ j <= due' /\ line'[j] = line[i]
                             /\ (\E q \in 1 .. i - 1 : bumpNextRunAt(line[q])) => j < i

LEMMA BumpShrinks ==
    ASSUME TablesInv, NEW i \in 1 .. due, NEW p \in 1 .. Len(line), bumpNextRunAt(line[p])
    PROVE  /\ p = i => \A k \in 1 .. due' : line'[k] # line[i]
           /\ p < i => i - 1 \in 1 .. i /\ i - 1 <= due' /\ line'[i - 1] = line[i]
           /\ p > i => i <= due' /\ line'[i] = line[i]
<1> DEFINE n == Len(line)
<1>1. /\ line \in SetToSeqs(ManagedIds) /\ due \in 0 .. n /\ n \in Nat
      /\ \A x, y \in 1 .. n : x # y => line[x] # line[y]
  BY LineFacts DEF TablesInv
<1>2. PICK m \in 0 .. n - 1 : Moved(p, m)
  BY <1>1, BumpMoves
<1>3. /\ due' = (IF p <= due THEN due - 1 ELSE due) /\ due' <= m
      /\ \A k \in 1 .. m : line'[k] = IF k < p THEN line[k] ELSE line[k + 1]
  BY <1>2 DEF Moved
<1> HIDE DEF n
<1>4. ASSUME p = i, NEW k \in 1 .. due' PROVE line'[k] # line[i]
  <2>1. k \in 1 .. m /\ k + 1 \in 1 .. n /\ k \in 1 .. n
    BY <1>1, <1>3
  <2> QED
    BY <1>1, <1>3, <1>4, <2>1
<1>5. ASSUME p < i PROVE i - 1 \in 1 .. i /\ i - 1 <= due' /\ line'[i - 1] = line[i]
  <2>1. i - 1 \in 1 .. m /\ i - 1 + 1 = i /\ ~(i - 1 < p) /\ i - 1 <= due'
    BY <1>1, <1>3, <1>5
  <2>2. line'[i - 1] = line[i - 1 + 1]
    BY <1>3, <2>1
  <2> QED
    BY <2>1, <2>2
<1>6. ASSUME p > i PROVE i <= due' /\ line'[i] = line[i]
  <2>1. i \in 1 .. m /\ i < p /\ i <= due'
    BY <1>1, <1>3, <1>6
  <2> QED
    BY <1>3, <2>1
<1> QED
  BY <1>4, <1>5, <1>6

\* What moves the schedule: a reschedule of one agent, or the clock.
LEMMA ScheduleMoves ==
    ASSUME RunsInv, TablesInv, [RunnerNext]_runnerVars
    PROVE  \/ \E p \in 1 .. Len(line) : bumpNextRunAt(line[p])
           \/ line' = line /\ due' \in Int /\ due' >= due
<1>0. ASSUME NEW a \in ManagedIds, bumpNextRunAt(a)
      PROVE  \E p \in 1 .. Len(line) : bumpNextRunAt(line[p])
  BY <1>0, LineFacts DEF TablesInv
<1>1. ASSUME UNCHANGED scheduleVars PROVE line' = line /\ due' \in Int /\ due' >= due
  BY <1>1, LineFacts DEF scheduleVars, TablesInv
<1>2. ASSUME NEW w \in Workers, Bump(w)
      PROVE  \E p \in 1 .. Len(line) : bumpNextRunAt(line[p])
  BY <1>0, <1>2, QueueFacts DEF Bump, Reschedule
<1>3. ASSUME NEW w \in Workers, RunStep(w), ~Bump(w) PROVE UNCHANGED scheduleVars
  BY <1>3 DEF RunStep, ReadContext, Decide, LoadKey, Execute, Complete, Fail
<1>4. CASE TimePasses
  BY <1>4, LineFacts DEF TimePasses, TablesInv
<1>5. CASE \E a \in ManagedIds : UpdateFrequency(a)
  BY <1>0, <1>5 DEF UpdateFrequency
<1>6. CASE UNCHANGED runnerVars
  BY <1>1, <1>6 DEF runnerVars
<1>7. CASE \/ \E w \in Workers : CronTick(w) \/ Crash(w)
           \/ \E w \in RequestWorkers, a \in Callers : ManualRun(w, a)
           \/ \E a \in ManagedIds : Archive(a) \/ CooldownOver(a)
           \/ \E a \in ManagedIds, s \in Symbols : KeeperExit(a, s)
  BY <1>1, <1>7 DEF CronTick, Crash, ManualRun, Archive, CooldownOver, KeeperExit
<1> QED
  BY <1>1, <1>2, <1>3, <1>4, <1>5, <1>6, <1>7 DEF RunnerNext

\* bumpNextRunAt: whatever other invocations, owners and the clock do, nobody is put in
\* front of an agent that is due, and each reschedule of one before it brings it forward.
\* It is the argument behind DueAgentsServed that needs no fairness.
THEOREM NobodyOvertakes == RunnerSpec => [][WaitShrinks]_runnerVars
<1>1. ASSUME RunnerInv, [RunnerNext]_runnerVars PROVE WaitShrinks
  <2> SUFFICES ASSUME NEW i \in 1 .. due
               PROVE  \/ bumpNextRunAt(line[i]) /\ \A k \in 1 .. due' : line'[k] # line[i]
                      \/ \E j \in 1 .. i :
                            /\ j <= due' /\ line'[j] = line[i]
                            /\ (\E q \in 1 .. i - 1 : bumpNextRunAt(line[q])) => j < i
    BY DEF WaitShrinks
  <2>1. RunsInv /\ TablesInv /\ due \in 0 .. Len(line) /\ Len(line) \in Nat
    BY <1>1, LineFacts DEF RunnerInv, TablesInv
  <2>2. i \in 1 .. Len(line) /\ i \in 1 .. i /\ i \in Int
    BY <2>1
  <2>3. CASE bumpNextRunAt(line[i])
    BY <2>1, <2>2, <2>3, BumpShrinks
  <2>4. CASE \E q \in 1 .. i - 1 : bumpNextRunAt(line[q])
    <3>1. PICK q \in 1 .. i - 1 : bumpNextRunAt(line[q])
      BY <2>4
    <3>2. q \in 1 .. Len(line) /\ q < i /\ i - 1 < i
      BY <2>1, <2>2
    <3>3. i - 1 \in 1 .. i /\ i - 1 <= due' /\ line'[i - 1] = line[i]
      BY <2>1, <3>1, <3>2, BumpShrinks
    <3> QED
      BY <3>2, <3>3
  <2>5. CASE ~bumpNextRunAt(line[i]) /\ ~ \E q \in 1 .. i - 1 : bumpNextRunAt(line[q])
    <3>1. i <= due' /\ line'[i] = line[i]
      <4>1. CASE line' = line /\ due' \in Int /\ due' >= due
        BY <2>1, <2>2, <4>1
      <4>2. CASE \E p \in 1 .. Len(line) : bumpNextRunAt(line[p])
        <5>1. PICK p \in 1 .. Len(line) : bumpNextRunAt(line[p])
          BY <4>2
        <5>2. p # i /\ p \notin 1 .. i - 1
          BY <2>5, <5>1
        <5>3. p > i
          BY <2>1, <2>2, <5>2
        <5> QED
          BY <2>1, <5>1, <5>3, BumpShrinks
      <4> QED
        BY <1>1, <2>1, <4>1, <4>2, ScheduleMoves
    <3> QED
      BY <2>2, <2>5, <3>1
  <2> QED
    BY <2>3, <2>4, <2>5
<1> QED
  BY <1>1, RunnerInvariant, PTL DEF RunnerSpec

\* listDue: a tick takes every active agent with fewer than DUE_LIMIT active ones before it.
TickTakesFront ==
    \A w \in Workers : CronTick(w) =>
        \A i \in DueSlots : Cardinality(UpTo(i)) <= DueLimit =>
            \E k \in 1 .. Len(run'[w].queue) : run'[w].queue[k] = line[i]

\* The other half of the argument: with the line moving on, every due agent comes to the
\* front, and the next tick takes it there (tick, listDue).
THEOREM FrontIsTaken == RunnerSpec => [][TickTakesFront]_runnerVars
<1>1. ASSUME RunnerInv, NEW w \in Workers, CronTick(w) PROVE run'[w].queue = listDue
  <2> DEFINE new == [run[w] EXCEPT !.stage = "read", !.queue = listDue]
  <2>1. DOMAIN run[w] = Fields
    BY <1>1 DEF RunnerInv, RunsInv, RunOK
  <2>2. new.queue = listDue
    BY <2>1 DEF Fields
  <2>3. Step(w, "idle", new)
    BY <1>1 DEF CronTick
  <2> HIDE DEF new
  <2> QED
    BY <1>1, <2>2, <2>3, Steps DEF RunnerInv
<1>2. ASSUME RunnerInv PROVE TickTakesFront
  <2>1. \A i \in DueSlots : Cardinality(UpTo(i)) <= DueLimit =>
           \E k \in 1 .. Len(listDue) : listDue[k] = line[i]
    BY <1>2, DueAgents DEF RunnerInv, TablesInv
  <2>2. \A w \in Workers : CronTick(w) => run'[w].queue = listDue
    BY <1>1, <1>2
  <2> HIDE DEF listDue
  <2> QED
    BY <2>1, <2>2, Zenon DEF TickTakesFront
<1> QED
  BY <1>2, RunnerInvariant, PTL DEF RunnerSpec

-----------------------------------------------------------------------------
(* Archived agents. *)

Queued(w, a) == \E k \in 1 .. Len(run[w].queue) : run[w].queue[k] = a

\* What an archived agent loses it never gets back: the profile stays archived, a wiped
\* key wiped; no list takes it in, and no run of it gets past loading a wiped key.
ArchivedKept ==
    \A a \in ManagedIds : profiles[a] = "archived" =>
        /\ profiles'[a] = "archived"
        /\ signers[a] = Wiped => signers'[a] = Wiped
        /\ \A w \in Workers :
             /\ Queued(w, a)' => Queued(w, a)
             /\ signers[a] = Wiped /\ run'[w].stage = "execute" /\ Agent(w)' = a =>
                   run[w].stage = "execute" /\ Agent(w) = a

\* A step of runAgent keeps the list of its tick or shortens it, and comes to the trades
\* through a key only.
Shortened(w) ==
    /\ \A v \in Workers \ {w} : run'[v] = run[v]
    /\ \/ run'[w].queue = run[w].queue \/ run'[w].queue = Tail(run[w].queue)
       \/ run'[w].queue = <<Agent(w)>> \/ run'[w].queue = <<>>
    /\ run'[w].stage = "execute" =>
          /\ run'[w].queue = run[w].queue
          /\ run[w].stage = "execute" \/ (run[w].stage = "key" /\ HasKey(Agent(w)))

LEMMA Shortens ==
    ASSUME RunsInv, NEW w \in Workers, RunStep(w) \/ Crash(w)
    PROVE  Shortened(w)
<1>0. DOMAIN run[w] = Fields /\ w \in DOMAIN run
  BY DEF RunsInv, RunOK
<1>1. ASSUME NEW from, NEW new, Step(w, from, new), new.queue = run[w].queue,
             new.stage # "execute" \/ from = "execute" \/ (from = "key" /\ HasKey(Agent(w)))
      PROVE  Shortened(w)
  <2>1. /\ run[w].stage = from /\ run'[w] = new
        /\ \A v \in Workers \ {w} : run'[v] = run[v]
    BY <1>1, Steps
  <2>2. new.stage = "execute" =>
           run[w].stage = "execute" \/ (run[w].stage = "key" /\ HasKey(Agent(w)))
    BY <1>1, <2>1
  <2> QED
    BY <1>1, <2>1, <2>2 DEF Shortened
<1>2. ASSUME NEW from, NEW to, Goto(w, from, to),
             to # "execute" \/ (from = "key" /\ HasKey(Agent(w)))
      PROVE  Shortened(w)
  BY <1>2, MovesOn DEF Shortened
<1>3. ASSUME NEW from, NEW queue,
             Step(w, from, [IdleRun EXCEPT !.stage = "bump", !.queue = queue]),
             queue = run[w].queue \/ queue = <<Agent(w)>>
      PROVE  Shortened(w)
  <2> DEFINE new == [IdleRun EXCEPT !.stage = "bump", !.queue = queue]
  <2>1. new.queue = queue /\ new.stage = "bump" /\ Step(w, from, new)
    BY <1>3 DEF IdleRun
  <2> HIDE DEF new
  <2> QED
    BY <1>3, <2>1, Steps DEF Shortened
<1>4. CASE ReadContext(w)
  <2>1. CASE Goto(w, "read", "bump")
    BY <1>2, <2>1
  <2>2. ASSUME NEW context, Step(w, "read", [run[w] EXCEPT !.stage = "decide", !.context = context])
        PROVE  Shortened(w)
    <3> DEFINE new == [run[w] EXCEPT !.stage = "decide", !.context = context]
    <3>1. new.queue = run[w].queue /\ new.stage = "decide" /\ Step(w, "read", new)
      BY <1>0, <2>2 DEF Fields
    <3> HIDE DEF new
    <3> QED
      BY <1>1, <3>1
  <2> QED
    BY <1>4, <2>1, <2>2 DEF ReadContext
<1>5. CASE Decide(w)
  <2>1. CASE Goto(w, "decide", "fail")
    BY <1>2, <2>1
  <2>2. ASSUME NEW actions,
               Step(w, "decide", [run[w] EXCEPT !.stage = "key", !.context = NoContext,
                                                !.todo = actions])
        PROVE  Shortened(w)
    <3> DEFINE new == [run[w] EXCEPT !.stage = "key", !.context = NoContext, !.todo = actions]
    <3>1. new.queue = run[w].queue /\ new.stage = "key" /\ Step(w, "decide", new)
      BY <1>0, <2>2 DEF Fields
    <3> HIDE DEF new
    <3> QED
      BY <1>1, <3>1
  <2>3. CASE Step(w, "decide", [run[w] EXCEPT !.stage = "complete", !.context = NoContext])
    <3> DEFINE new == [run[w] EXCEPT !.stage = "complete", !.context = NoContext]
    <3>1. new.queue = run[w].queue /\ new.stage = "complete" /\ Step(w, "decide", new)
      BY <1>0, <2>3 DEF Fields
    <3> HIDE DEF new
    <3> QED
      BY <1>1, <3>1
  <2> QED
    BY <1>5, <2>1, <2>2, <2>3 DEF Decide
<1>6. CASE LoadKey(w)
  BY <1>2, <1>6 DEF LoadKey
<1>7. CASE Execute(w)
  <2>1. ASSUME NEW results, NEW todo, NEW stage,
               Step(w, "execute", [run[w] EXCEPT !.results = results, !.todo = todo,
                                                 !.stage = stage])
        PROVE  Shortened(w)
    <3> DEFINE new == [run[w] EXCEPT !.results = results, !.todo = todo, !.stage = stage]
    <3>1. new.queue = run[w].queue /\ Step(w, "execute", new)
      BY <1>0, <2>1 DEF Fields
    <3> HIDE DEF new
    <3> QED
      BY <1>1, <3>1
  <2> QED
    BY <1>7, <2>1 DEF Execute
<1>8. CASE Complete(w)
  BY <1>2, <1>3, <1>8 DEF Complete, EndRun
<1>9. CASE Fail(w)
  BY <1>3, <1>9 DEF Fail, EndRun
<1>10. CASE Bump(w)
  <2> DEFINE next == [run[w] EXCEPT !.stage = "read", !.queue = Tail(run[w].queue)]
  <2>1. next.queue = Tail(run[w].queue) /\ next.stage = "read"
    BY <1>0 DEF Fields
  <2>2. run' = [run EXCEPT ![w] = IF Len(run[w].queue) = 1 THEN IdleRun ELSE next]
    BY <1>10, Zenon DEF Bump
  <2> HIDE DEF next
  <2>3. /\ \A v \in Workers \ {w} : run'[v] = run[v]
        /\ run'[w] = IdleRun \/ run'[w] = next
    BY <1>0, <2>2 DEF RunsInv
  <2>4. IdleRun.queue = <<>> /\ IdleRun.stage = "idle"
    BY DEF IdleRun
  <2> QED
    BY <2>1, <2>3, <2>4 DEF Shortened
<1>11. CASE Crash(w)
  <2>1. /\ \A v \in Workers \ {w} : run'[v] = run[v]
        /\ run'[w] = IdleRun
    BY <1>0, <1>11 DEF Crash, RunsInv
  <2>2. IdleRun.queue = <<>> /\ IdleRun.stage = "idle"
    BY DEF IdleRun
  <2> QED
    BY <2>1, <2>2 DEF Shortened
<1> QED
  BY <1>4, <1>5, <1>6, <1>7, <1>8, <1>9, <1>10, <1>11 DEF RunStep

\* A shortened list holds nobody new.
LEMMA NobodyNew ==
    ASSUME RunsInv, NEW w \in Workers, RunStep(w) \/ Crash(w), NEW v \in Workers, NEW a,
           Queued(v, a)'
    PROVE  Queued(v, a)
<1>1. Shortened(w)
  BY Shortens
<1>2. CASE v # w
  BY <1>1, <1>2 DEF Shortened, Queued
<1>3. ASSUME v = w, run[w].queue # <<>> PROVE Queued(v, a)
  <2> DEFINE q == run[w].queue
  <2>1. q \in Seq(ManagedIds) /\ q # <<>> /\ Len(q) \in Nat
    BY <1>3 DEF RunsInv, RunOK
  <2>2. PICK k \in 1 .. Len(run'[w].queue) : run'[w].queue[k] = a
    BY <1>3 DEF Queued
  <2>3. Len(q) >= 1
    BY <2>1, EmptyFacts
  <2>4. CASE run'[w].queue = q
    BY <1>3, <2>2, <2>4 DEF Queued
  <2>5. CASE run'[w].queue = Tail(q)
    <3> HIDE DEF q
    <3>1. k + 1 \in 1 .. Len(q) /\ q[k + 1] = a
      BY <2>1, <2>2, <2>3, <2>5
    <3> QED
      BY <1>3, <3>1 DEF Queued, q
  <2>6. CASE run'[w].queue = <<Agent(w)>>
    <3>1. a = q[1]
      BY <2>1, <2>2, <2>6 DEF Agent
    <3> QED
      BY <1>3, <2>1, <2>3, <3>1 DEF Queued
  <2>7. CASE run'[w].queue = <<>>
    BY <2>2, <2>7
  <2> QED
    BY <1>1, <2>4, <2>5, <2>6, <2>7 DEF Shortened
<1>4. run[w].stage # "idle"
  BY DEF RunStep, ReadContext, Decide, LoadKey, Execute, Complete, Fail, Bump, Crash, EndRun,
         Goto, Step
<1> QED
  BY <1>2, <1>3, <1>4, QueueFacts

\* A list that begins holds active agents only.
LEMMA BeginsActive ==
    ASSUME RunsInv, TablesInv, NEW w \in Workers,
           \/ CronTick(w)
           \/ \E a \in Callers : ManualRun(w, a)
    PROVE  /\ \A v \in Workers \ {w} : run'[v] = run[v]
           /\ run'[w].stage = "read"
           /\ \A k \in 1 .. Len(run'[w].queue) : IsActive(run'[w].queue[k])
<1>1. ASSUME NEW queue, \A k \in 1 .. Len(queue) : IsActive(queue[k]),
             Step(w, "idle", [run[w] EXCEPT !.stage = "read", !.queue = queue])
      PROVE  /\ \A v \in Workers \ {w} : run'[v] = run[v]
             /\ run'[w].stage = "read"
             /\ \A k \in 1 .. Len(run'[w].queue) : IsActive(run'[w].queue[k])
  <2> DEFINE new == [run[w] EXCEPT !.stage = "read", !.queue = queue]
  <2>1. DOMAIN run[w] = Fields
    BY DEF RunsInv, RunOK
  <2>2. new.queue = queue /\ new.stage = "read" /\ Step(w, "idle", new)
    BY <1>1, <2>1 DEF Fields
  <2> HIDE DEF new
  <2>3. run'[w] = new /\ \A v \in Workers \ {w} : run'[v] = run[v]
    BY <2>2, Steps
  <2> QED
    BY <1>1, <2>2, <2>3
<1>2. CASE CronTick(w)
  <2>1. \A k \in 1 .. Len(listDue) : IsActive(listDue[k])
    BY DueAgents DEF TablesInv
  <2>2. Step(w, "idle", [run[w] EXCEPT !.stage = "read", !.queue = listDue])
    BY <1>2 DEF CronTick
  <2> HIDE DEF listDue
  <2> QED
    BY <1>1, <2>1, <2>2
<1>3. ASSUME NEW a \in Callers, ManualRun(w, a)
      PROVE  \A k \in 1 .. Len(<<a>>) : IsActive(<<a>>[k])
  <2>1. IsActive(a)
    BY <1>3 DEF ManualRun
  <2>2. Len(<<a>>) = 1 /\ <<a>>[1] = a
    OBVIOUS
  <2> QED
    BY <2>1, <2>2
<1> QED
  BY <1>1, <1>2, <1>3 DEF ManualRun

\* Archiving is final and the runs in flight are the last ones, whichever list, route or
\* crash comes between the two statements of the request (archiveManagedAgent, listDue,
\* runStrategyHandler, loadManagedSigner): the part of ArchivedRunsStop without fairness.
THEOREM ArchivedStayStopped == RunnerSpec => [][ArchivedKept]_runnerVars
<1>1. ASSUME RunnerInv, [RunnerNext]_runnerVars PROVE ArchivedKept
  <2> SUFFICES ASSUME NEW a \in ManagedIds, profiles[a] = "archived"
               PROVE  /\ profiles'[a] = "archived"
                      /\ signers[a] = Wiped => signers'[a] = Wiped
                      /\ \A w \in Workers :
                           /\ Queued(w, a)' => Queued(w, a)
                           /\ signers[a] = Wiped /\ run'[w].stage = "execute" /\ Agent(w)' = a =>
                                 run[w].stage = "execute" /\ Agent(w) = a
    BY DEF ArchivedKept
  <2>1. RunsInv /\ TablesInv
    BY <1>1 DEF RunnerInv
  <2>2. ~IsActive(a) /\ (signers[a] = Wiped => ~HasKey(a))
    BY ManagedAssumption DEF IsActive, HasKey
  <2>3. profiles'[a] = "archived" /\ (signers[a] = Wiped => signers'[a] = Wiped)
    <3>1. CASE UNCHANGED managedVars
      BY <3>1 DEF managedVars
    <3>2. ASSUME NEW b \in ManagedIds, Archive(b)
          PROVE  profiles'[a] = "archived" /\ (signers[a] = Wiped => signers'[a] = Wiped)
      BY <2>1, <3>2, ManagedAssumption
      DEF Archive, ArchiveProfile, WipeKey, KeyAfterWipe, TablesInv, ManagedTypeOK
    <3>3. ASSUME NEW w \in Workers, RunStep(w) PROVE UNCHANGED managedVars
      BY <3>3 DEF RunStep, ReadContext, Decide, LoadKey, Execute, Complete, Fail, Bump
    <3>4. ASSUME ~ \E b \in ManagedIds : Archive(b), ~ \E w \in Workers : RunStep(w)
          PROVE  UNCHANGED managedVars
      BY <1>1, <3>4 DEF RunnerNext, runnerVars, CronTick, Crash, ManualRun, UpdateFrequency,
                        CooldownOver, KeeperExit, TimePasses
    <3> QED
      BY <3>1, <3>2, <3>3, <3>4
  <2>4. ASSUME NEW w \in Workers PROVE Queued(w, a)' => Queued(w, a)
    <3>1. CASE UNCHANGED run
      BY <3>1 DEF Queued
    <3>2. ASSUME NEW v \in Workers, RunStep(v) \/ Crash(v) PROVE Queued(w, a)' => Queued(w, a)
      BY <2>1, <3>2, NobodyNew
    <3>3. ASSUME NEW v \in Workers, CronTick(v) \/ \E b \in Callers : ManualRun(v, b)
          PROVE  Queued(w, a)' => Queued(w, a)
      BY <2>1, <2>2, <3>3, BeginsActive DEF Queued
    <3>4. CASE UNCHANGED runnerVars
      BY <3>1, <3>4 DEF runnerVars
    <3> QED
      BY <1>1, <3>1, <3>2, <3>3, <3>4
      DEF RunnerNext, Archive, UpdateFrequency, CooldownOver, KeeperExit, TimePasses
  <2>5. ASSUME NEW w \in Workers, signers[a] = Wiped, run'[w].stage = "execute", Agent(w)' = a
        PROVE  run[w].stage = "execute" /\ Agent(w) = a
    <3>1. CASE UNCHANGED run
      BY <2>5, <3>1 DEF Agent
    <3>2. ASSUME NEW v \in Workers, RunStep(v) \/ Crash(v)
          PROVE  run[w].stage = "execute" /\ Agent(w) = a
      <4>1. Shortened(v)
        BY <2>1, <3>2, Shortens
      <4> QED
        BY <2>2, <2>5, <4>1 DEF Shortened, Agent
    <3>3. ASSUME NEW v \in Workers, CronTick(v) \/ \E b \in Callers : ManualRun(v, b)
          PROVE  run[w].stage = "execute" /\ Agent(w) = a
      <4>1. run'[v].stage = "read" /\ \A u \in Workers \ {v} : run'[u] = run[u]
        BY <2>1, <3>3, BeginsActive
      <4> QED
        BY <2>5, <4>1 DEF Agent
    <3>4. CASE UNCHANGED runnerVars
      BY <3>1, <3>4 DEF runnerVars
    <3> QED
      BY <1>1, <3>1, <3>2, <3>3, <3>4
      DEF RunnerNext, Archive, UpdateFrequency, CooldownOver, KeeperExit, TimePasses
  <2> QED
    BY <2>3, <2>4, <2>5
<1> QED
  BY <1>1, RunnerInvariant, PTL DEF RunnerSpec
=============================================================================
