--------------------------- MODULE StrategyRunner ---------------------------
(***************************************************************************)
(* The strategy runner: cron ticks and manual runs, each an invocation of  *)
(* its own, take agents whose next_run_at has passed, read the chain, ask  *)
(* the model, check its decision against what was read, sign and submit    *)
(* the trades with the custodial key and record the run.  Invocations      *)
(* overlap, may be killed at any step, and share the tables only.          *)
(*                                                                         *)
(* Time is abstract: `line' lists the agents by next_run_at and the first  *)
(* `due' of them are due.  A bump puts an agent behind all due ones, at    *)
(* any place, which covers every mix of hourly and daily frequencies.      *)
(***************************************************************************)
EXTENDS ManagedAgents, Sequences, SequencesExt

CONSTANTS Workers,        \* invocations in flight at a time
          RequestWorkers, \* those that may also serve a manual run
          DueLimit,       \* DUE_LIMIT, 10 in the code
          Traders,        \* agents with a decision provider; "none" always holds
          Callers,        \* agents whose owners ask for manual runs
          Symbols,        \* tokens an agent may hold
          Breaches,       \* whether a drawdown or daily loss breach may be reported
          Budget,         \* positions an agent's allocation pays for
          CooldownMs,     \* STRATEGY_RUN_MANUAL_COOLDOWN_SECONDS, 0 for none
          DecisionSizes,  \* bound: numbers of actions in a trading decision
          MaxArchived,    \* bound: agents archived
          MaxCrashes      \* bound: invocations killed or cut off from the tables

ASSUME RunnerAssumption ==
    /\ DueLimit \in Nat \ {0} /\ RequestWorkers \subseteq Workers
    /\ IsFiniteSet(ManagedIds)
    /\ Breaches \subseteq BOOLEAN
    /\ Traders \subseteq ManagedIds /\ Callers \subseteq ManagedIds
    /\ Budget \in Nat /\ DecisionSizes \subseteq Nat
    /\ MaxArchived \in Nat /\ MaxCrashes \in Nat

VARIABLES line,           \* agents ordered by next_run_at
          due,            \* how many of them have next_run_at <= now
          recent,         \* callers with a run row started within the cooldown
          run,            \* the invocations
          rows,           \* strategy_runs: status of the row of the invocation's run
          holdings,       \* external: open positions on chain
          crashes

scheduleVars == <<line, due>>
runnerVars == <<managedVars, scheduleVars, recent, run, rows, holdings, crashes>>

Action == [type : {"open", "close"}, symbol : Symbols]
Context == [positions : SUBSET Symbols, available : Nat, breach : BOOLEAN]
Result == [ok : BOOLEAN, mined : BOOLEAN]
Stages == {"idle", "read", "decide", "key", "execute",
           "complete", "fail", "bump"}
RowStatus == {"none", "running", "completed", "failed"}

NoContext == [positions |-> {}, available |-> 0, breach |-> FALSE]
IdleRun == [stage |-> "idle", queue |-> <<>>,
            context |-> NoContext, todo |-> <<>>, results |-> {}]

Agent(w) == Head(run[w].queue)
Running(w, a) == run[w].stage # "idle" /\ Agent(w) = a

RunnerInit ==
    /\ profiles = [a \in ManagedIds |-> "active"]
    /\ signers \in [ManagedIds -> Keys]
    /\ archiving = {}
    /\ line \in SetToSeqs(ManagedIds)
    /\ due = 0
    /\ recent = {}
    /\ run = [w \in Workers |-> IdleRun]
    /\ rows = [w \in Workers |-> "none"]
    /\ holdings = [a \in ManagedIds |-> {}]
    /\ crashes = 0

-----------------------------------------------------------------------------
(* Scheduling. *)

\* listDue: active profiles whose time has come, earliest first, at most DUE_LIMIT.
AnyDueSlots == 1 .. due
DueSlots == {i \in 1 .. due : IsActive(line[i])}
listDue ==
    LET count == Cardinality(DueSlots)
        slot(n) == CHOOSE i \in DueSlots : Cardinality({j \in DueSlots : j <= i}) = n
    IN  [n \in 1 .. IF count < DueLimit THEN count ELSE DueLimit |-> line[slot(n)]]

IsDue(a) == \E i \in 1..due : line[i] = a

BumpByInsert(a) == line' = Append(line, a) /\ due' = due
\* computeNextRunAt is later than now: the agent goes behind all due ones.
bumpNextRunAt(a) ==
    LET others == RemoveAt(line, CHOOSE i \in 1 .. Len(line) : line[i] = a)
        left == IF IsDue(a) THEN due - 1 ELSE due
    IN  \E i \in left .. Len(others) :
            /\ line' = InsertAt(others, i + 1, a)
            /\ due' = left

\* The clock reaches the next_run_at of one more agent.
TimePasses ==
    /\ due < Len(line)
    /\ due' = due + 1
    /\ UNCHANGED <<managedVars, line, recent, run, rows, holdings, crashes>>

\* getStrategyRunCooldown allows a manual run again.
CooldownOver(a) ==
    /\ a \in recent
    /\ recent' = recent \ {a}
    /\ UNCHANGED <<managedVars, scheduleVars, run, rows, holdings, crashes>>

\* updateManagedProfile with a new frequency restarts the clock of the agent.
UpdateFrequency(a) ==
    /\ IsActive(a)
    /\ bumpNextRunAt(a)
    /\ UNCHANGED <<managedVars, recent, run, rows, holdings, crashes>>

Archive(a) ==
    /\ \/ ArchiveProfile(a) /\ Cardinality({b \in ManagedIds : ~IsActive(b)}) < MaxArchived
       \/ WipeKey(a)
    /\ UNCHANGED <<scheduleVars, recent, run, rows, holdings, crashes>>

\* A keeper executes a ladder rule and closes a position.
KeeperExit(a, s) ==
    /\ s \in holdings[a]
    /\ holdings' = [holdings EXCEPT ![a] = @ \ {s}]
    /\ UNCHANGED <<managedVars, scheduleVars, recent, run, rows, crashes>>

-----------------------------------------------------------------------------
(* One invocation.  A step ends where the code awaits. *)

Step(w, from, new) ==
    /\ run[w].stage = from
    /\ run' = [run EXCEPT ![w] = new]
Goto(w, from, to) == Step(w, from, [run[w] EXCEPT !.stage = to])
SetRow(w, status) == rows' = [rows EXCEPT ![w] = status]

\* tick: the due profiles are read once, prices are optional.
CronTick(w) ==
    /\ Step(w, "idle", [run[w] EXCEPT !.stage = "read", !.queue = listDue])
    /\ listDue # <<>>
    /\ UNCHANGED <<managedVars, scheduleVars, recent, rows, holdings, crashes>>

\* runStrategyHandler: owner, archived and cooldown are read, then runAgentById.
ManualRun(w, a) ==
    /\ IsActive(a) /\ a \notin recent
    /\ Step(w, "idle", [run[w] EXCEPT !.stage = "read", !.queue = <<a>>])
    /\ UNCHANGED <<managedVars, scheduleVars, recent, rows, holdings, crashes>>

\* runAgent reads owner, positions, risk and quote and stores them in a new row; when a
\* read or the insert fails the run ends without a row.
ReadContext(w) ==
    LET a == Agent(w) IN
    /\ run[w].stage = "read"
    /\ \/ /\ Goto(w, "read", "bump")
          /\ UNCHANGED <<rows, recent>>
       \/ /\ \E breach \in Breaches :
               Step(w, "read", [run[w] EXCEPT !.stage = "decide", !.context =
                   [positions |-> holdings[a], breach |-> breach,
                    available |-> Budget - Cardinality(holdings[a])]])
          /\ SetRow(w, "running")
          /\ recent' = IF CooldownMs > 0 THEN recent \cup ({a} \cap Callers) ELSE recent
    /\ UNCHANGED <<managedVars, scheduleVars, holdings, crashes>>

\* assertStrategyDecisionGuardrails: every action against the same context.
GuardrailsPass(actions, context) ==
    \A i \in 1..Len(actions) :
        IF actions[i].type = "open"
          THEN /\ ~context.breach
               /\ actions[i].symbol \notin context.positions
               /\ context.available > 0
          ELSE actions[i].symbol \in context.positions

\* resolveStrategyDecisionAdapter: the none adapter answers with no actions.
Decisions(a) == UNION {[1..n -> Action] : n \in IF a \in Traders THEN DecisionSizes ELSE {0}}

\* A dry run: STRATEGY_RUNNER_EXECUTE is off, or the request says execute=false.
ShouldExecute(execute, actions) == execute /\ actions # <<>>

\* The model answers with an error, a decision the guardrails refuse, or one they accept.
Decide(w) ==
    /\ run[w].stage = "decide"
    /\ \/ Goto(w, "decide", "fail")
       \/ \E actions \in Decisions(Agent(w)), execute \in BOOLEAN :
            /\ GuardrailsPass(actions, run[w].context)
            /\ Step(w, "decide", IF ShouldExecute(execute, actions)
                   THEN [run[w] EXCEPT !.stage = "key", !.context = NoContext, !.todo = actions]
                   ELSE [run[w] EXCEPT !.stage = "complete", !.context = NoContext])
    /\ UNCHANGED <<managedVars, scheduleVars, recent, rows, holdings, crashes>>

\* The signer row is read now, long after the profile: it may be wiped by then.
LoadKey(w) ==
    /\ Goto(w, "key", IF HasKey(Agent(w)) THEN "execute" ELSE "fail")
    /\ UNCHANGED <<managedVars, scheduleVars, recent, rows, holdings, crashes>>

\* What the router does with the action, in the state it then finds.
Accepted(a, action) ==
    IF action.type = "open"
      THEN action.symbol \notin holdings[a] /\ Cardinality(holdings[a]) < Budget
      ELSE action.symbol \in holdings[a]
Traded(a, action) ==
    IF action.type = "open" THEN holdings[a] \cup {action.symbol}
                            ELSE holdings[a] \ {action.symbol}

\* executeStrategyDecision: a failed action does not stop the following ones, and an
\* action may be reported failed although its transaction is mined.
Execute(w) ==
    LET a == Agent(w)
        action == Head(run[w].todo)
        Record(result) == Step(w, "execute", [run[w] EXCEPT
            !.results = run[w].results \cup {result}, !.todo = Tail(run[w].todo),
            !.stage = IF Len(run[w].todo) = 1 THEN "complete" ELSE "execute"])
    IN
    /\ run[w].stage = "execute"
    /\ \/ /\ Accepted(a, action)
          /\ holdings' = [holdings EXCEPT ![a] = Traded(a, action)]
          /\ \E ok \in BOOLEAN : Record([ok |-> ok, mined |-> TRUE])
       \/ Record([ok |-> FALSE, mined |-> FALSE]) /\ UNCHANGED holdings
    /\ UNCHANGED <<managedVars, scheduleVars, recent, rows, crashes>>

\* summarizeExecutionFailures: one failed action makes the run failed.
AnyOk(results) == results = {} \/ \E result \in results : result.ok
AllOk(results) == \A result \in results : result.ok
StatusOf(results) == IF AllOk(results) THEN "completed" ELSE "failed"

EndRun(w, from) ==
    Step(w, from, [IdleRun EXCEPT !.stage = "bump", !.queue = run[w].queue])

\* The row is completed; when that write fails the catch block takes over.
Complete(w) ==
    /\ \/ EndRun(w, "complete") /\ SetRow(w, StatusOf(run[w].results)) /\ UNCHANGED crashes
       \/ /\ crashes < MaxCrashes /\ crashes' = crashes + 1
          /\ Goto(w, "complete", "fail") /\ UNCHANGED rows
    /\ UNCHANGED <<managedVars, scheduleVars, recent, holdings>>

\* The catch block of runAgent, for a run that has its row.  When its write fails too,
\* the row stays as it is, the agent is still bumped, and the tick ends with it.
FailRow(w) == SetRow(w, "failed")
Fail(w) ==
    /\ \/ EndRun(w, "fail") /\ FailRow(w) /\ UNCHANGED crashes
       \/ /\ crashes < MaxCrashes /\ crashes' = crashes + 1
          /\ Step(w, "fail", [IdleRun EXCEPT !.stage = "bump", !.queue = <<Agent(w)>>])
          /\ SetRow(w, "none")
    /\ UNCHANGED <<managedVars, scheduleVars, recent, holdings>>

\* The finally block, whatever happened before; then the next agent of the tick's list.
BumpWhenDone(w) ==
    IF rows[w] = "completed" THEN bumpNextRunAt(Agent(w)) ELSE UNCHANGED scheduleVars
Reschedule(w) == bumpNextRunAt(Agent(w))
Bump(w) ==
    /\ run[w].stage = "bump"
    /\ run' = [run EXCEPT ![w] = IF Len(@.queue) = 1 THEN IdleRun
                        ELSE [@ EXCEPT !.stage = "read", !.queue = Tail(run[w].queue)]]
    /\ Reschedule(w)
    /\ rows' = [rows EXCEPT ![w] = IF @ = "running" THEN @ ELSE "none"]
    /\ UNCHANGED <<managedVars, recent, holdings, crashes>>

\* The invocation is killed: its memory and the rest of its list are gone, and its row,
\* which nobody completes any more, leaves the model as it is.
Crash(w) ==
    /\ crashes < MaxCrashes
    /\ run[w].stage # "idle"
    /\ crashes' = crashes + 1
    /\ run' = [run EXCEPT ![w] = IdleRun]
    /\ SetRow(w, "none")
    /\ UNCHANGED <<managedVars, scheduleVars, recent, holdings>>

RunStep(w) ==
    \/ ReadContext(w) \/ Decide(w) \/ LoadKey(w)
    \/ Execute(w) \/ Complete(w) \/ Fail(w) \/ Bump(w)

RunnerNext ==
    \/ \E w \in Workers : CronTick(w) \/ RunStep(w) \/ Crash(w)
    \/ \E w \in RequestWorkers, a \in Callers : ManualRun(w, a)
    \/ \E a \in ManagedIds : Archive(a) \/ UpdateFrequency(a) \/ CooldownOver(a)
    \/ \E a \in ManagedIds, s \in Symbols : KeeperExit(a, s)
    \/ TimePasses

\* A request or invocation goes on until it ends, and the cron trigger fires again and
\* again: requests do not keep the platform from starting its invocation.
RunnerFairness ==
    /\ \A w \in Workers : WF_runnerVars(RunStep(w))
    /\ \A w \in Workers \ RequestWorkers : WF_runnerVars(CronTick(w))
    /\ \A a \in ManagedIds : WF_runnerVars(a \in archiving /\ Archive(a))

RunnerSpec == RunnerInit /\ [][RunnerNext]_runnerVars /\ RunnerFairness

-----------------------------------------------------------------------------
(* Properties. *)

\* Types of the tables and of the memory of every invocation; a run that ends, however,
\* leaves no row "running" behind unless it is killed or cut off.
RunnerTypeOK ==
    /\ ManagedTypeOK
    /\ line \in SetToSeqs(ManagedIds) /\ due \in 0..Len(line)
    /\ recent \subseteq Callers
    /\ holdings \in [ManagedIds -> SUBSET Symbols]
    /\ rows \in [Workers -> RowStatus]
    /\ crashes \in 0..MaxCrashes
    /\ \A w \in Workers :
        /\ run[w].stage \in Stages
        /\ run[w].stage # "idle" => run[w].queue # <<>>
        /\ run[w].stage \in {"idle", "read", "bump"} => rows[w] # "running"
        /\ run[w].context \in Context
        /\ run[w].todo \in Seq(Action) /\ run[w].results \subseteq Result

\* A run is recorded as completed only when it did what it set out to do: every action was
\* submitted, reported ok and is mined, whatever other runs, keepers and archive requests
\* did meanwhile; a dry run sets out to do nothing (runAgent, strategy-runner.service.ts).
CompletedRunsTraded ==
    [][\A w \in Workers :
        (rows[w] = "running" /\ rows'[w] = "completed") =>
            /\ run[w].todo = <<>>
            /\ \A result \in run[w].results : result.ok /\ result.mined]_runnerVars

\* No agent starves: a due agent is run, or archived, in the end, although one tick
\* takes only DUE_LIMIT agents and the earlier ones may fail every time (tick).
DueAgentsServed ==
    \A a \in ManagedIds : (IsActive(a) /\ IsDue(a)) ~> (~IsDue(a) \/ ~IsActive(a))

\* After an agent is archived its executions stop for good: those in flight end and
\* none starts again, and the key is wiped (archiveManagedAgent, listDue, runAgentById).
ArchivedRunsStop ==
    \A a \in ManagedIds :
        profiles[a] = "archived" ~> [](signers[a] = Wiped /\ \A w \in Workers : ~Running(w, a))
=============================================================================
