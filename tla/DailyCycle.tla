----------------------------- MODULE DailyCycle -----------------------------
(***************************************************************************)
(* scripts/daily_cycle.py: one cycle specification, its fixed plan of      *)
(* stages, the report that records them, and the operator who runs the     *)
(* same specification again until the report says passed.  Each stage is a *)
(* make command the runner waits for; the runner may be killed at any      *)
(* point, also while a command runs, and the file lock admits one runner   *)
(* at a time.                                                              *)
(***************************************************************************)
EXTENDS Naturals, Sequences

CONSTANTS
    Accounts,   \* number of paper accounts in the specification
    MaxCrashes, \* bound on killed runners
    None        \* no report, no runner

ASSUME CycleAssumption == Accounts \in Nat \ {0} /\ MaxCrashes \in Nat

(***************************************************************************)
(* build_plan.  A stage is a name and its account, 0 for the cycle's own.  *)
(***************************************************************************)
PaperStages == <<"validate-inputs", "create", "run", "reconcile">>

Plan ==
    << <<"preflight", 0>>, <<"collection", 0>>, <<"reconcile-before-derived", 0>>,
       <<"feature-batch", 0>> >>
    \o [i \in 1..(4 * Accounts) |-> << PaperStages[((i - 1) % 4) + 1], ((i - 1) \div 4) + 1 >>]
    \o << <<"backup", 0>>, <<"reconcile-after-derived", 0>>, <<"observe", 0>> >>

Stages == {Plan[i] : i \in DOMAIN Plan}

Dependencies(stage) ==
    CASE stage[1] = "preflight"                -> {}
      [] stage[1] = "collection"               -> {<<"preflight", 0>>}
      [] stage[1] = "reconcile-before-derived" -> {<<"collection", 0>>}
      [] stage[1] = "feature-batch"            -> {<<"reconcile-before-derived", 0>>}
      [] stage[1] = "validate-inputs"          -> {<<"feature-batch", 0>>}
      [] stage[1] = "create"                   -> {<<"validate-inputs", stage[2]>>}
      [] stage[1] = "run"                      -> {<<"create", stage[2]>>}
      [] stage[1] = "reconcile"                -> {<<"run", stage[2]>>}
      [] stage[1] = "backup"                   -> {<<"preflight", 0>>}
      [] stage[1] = "reconcile-after-derived"  -> {<<"reconcile-before-derived", 0>>}
      [] stage[1] = "observe"                  -> {}

Entry  == [status : {"pending", "running", "passed", "failed", "skipped", "resumed"},
           exit   : {"none", "zero", "nonzero"}]
Report == [status : {"running", "passed", "attention"}, stages : [DOMAIN Plan -> Entry]]
Runner == [report : Report, next : 1..(Len(Plan) + 1), waiting : BOOLEAN]

VARIABLES
    report,   \* the report file, or None
    runner,   \* the live runner: its copy of the report, its position, and
              \* whether it waits for a command; or None
    run,      \* the ingestion run of the pinned run key, as PostgreSQL has it
    done,     \* the stages whose command has ever exited 0 (history)
    crashes

vars == <<report, runner, run, done, crashes>>

NewReport ==
    [status |-> "running", stages |-> [i \in DOMAIN Plan |-> [status |-> "pending", exit |-> "none"]]]

\* Faulty variant: a stage that was resumed once is not taken for done again.
ExactlyPassed(e) == e.status = "passed"

\* What the loop does not try again.
Completed(e) == e.status \in {"passed", "resumed"}

\* What a dependency and the verdict ask for.
Passed(e) == e.status \in {"passed", "resumed"}

(***************************************************************************)
(* What _load_existing_report requires of an entry.                        *)
(***************************************************************************)
Consistent(e) ==
    /\ e.status \in {"passed", "resumed"} => e.exit = "zero"
    /\ e.status = "failed" => e.exit = "nonzero"
    /\ e.status \in {"pending", "skipped"} => e.exit = "none"

Accepted(r) ==
    \A i \in DOMAIN Plan :
       Consistent(r.stages[i]) /\ (r.stages[i].status = "running" => r.stages[i].exit = "none")

\* The entry of a stage in the runner's copy.
Current(stage) == runner.report.stages[CHOOSE i \in DOMAIN Plan : Plan[i] = stage]

\* Faulty variant: only a failed dependency holds a stage back.
ReadyUnlessFailed(i) ==
    \A d \in Dependencies(Plan[i]) : Current(d).status # "failed"

\* Faulty variant: a dependency must have run in this very cycle.
ReadyThisTime(i) == \A d \in Dependencies(Plan[i]) : Current(d).status = "passed"

Ready(i) == \A d \in Dependencies(Plan[i]) : Passed(Current(d))

(***************************************************************************)
(* What a command leaves behind, with its exit code.  Collection runs      *)
(* under the pinned key: it skips a succeeded run, refuses an active or    *)
(* otherwise finished one, and leaves a run it started succeeded,          *)
(* unsuccessful, or active if the collector dies.                          *)
(***************************************************************************)
Collection(ok) ==
    \/ /\ run = "absent"
       /\ \/ run' = "succeeded" /\ ok
          \/ run' \in {"absent", "active", "unsuccessful"} /\ ~ok
    \/ run # "absent" /\ ok = (run = "succeeded") /\ UNCHANGED run

Effect(stage, ok) ==
    /\ done' = IF ok THEN done \cup {stage} ELSE done
    /\ IF stage = <<"collection", 0>> THEN Collection(ok) ELSE UNCHANGED run

\* The runner goes on with this copy of the report, written or not.
Keep(r, position, waits) == runner' = [report |-> r, next |-> position, waiting |-> waits]
Save(r, position, waits) == Keep(r, position, waits) /\ report' = r

Deciding(i) == runner # None /\ runner.next = i /\ ~runner.waiting
Waiting(i)  == runner # None /\ runner.next = i /\ runner.waiting

SetEntry(i, e) == [runner.report EXCEPT !.stages[i] = e]

-----------------------------------------------------------------------------

Init ==
    /\ report = None
    /\ runner = None
    /\ run = "absent"
    /\ done = {}
    /\ crashes = 0

(***************************************************************************)
(* run_cycle up to its loop.  A report that is not accepted ends it with   *)
(* an error and no change.                                                 *)
(***************************************************************************)
StartCycle ==
    /\ runner = None
    /\ report # None => Accepted(report)
    /\ Save(IF report = None THEN NewReport ELSE report, 1, FALSE)
    /\ UNCHANGED <<run, done, crashes>>

\* A stage that has passed is only noted, in memory.
Resume(i) ==
    /\ Deciding(i) /\ Completed(runner.report.stages[i])
    /\ Keep(SetEntry(i, [runner.report.stages[i] EXCEPT !.status = "resumed"]), i + 1, FALSE)
    /\ UNCHANGED <<report, run, done, crashes>>

Skip(i) ==
    /\ Deciding(i) /\ ~Completed(runner.report.stages[i]) /\ ~Ready(i)
    /\ Save(SetEntry(i, [status |-> "skipped", exit |-> "none"]), i + 1, FALSE)
    /\ UNCHANGED <<run, done, crashes>>

\* The exit code of an earlier failure stays in the entry until the new one is known.
StartCommand(i) ==
    /\ Deciding(i) /\ ~Completed(runner.report.stages[i]) /\ Ready(i)
    /\ Save(SetEntry(i, [runner.report.stages[i] EXCEPT !.status = "running"]), i, TRUE)
    /\ UNCHANGED <<run, done, crashes>>

FinishCommand(i, ok) ==
    /\ Waiting(i)
    /\ Effect(Plan[i], ok)
    /\ Save(SetEntry(i, IF ok THEN [status |-> "passed", exit |-> "zero"]
                        ELSE [status |-> "failed", exit |-> "nonzero"]), i + 1, FALSE)
    /\ UNCHANGED crashes

Verdict(r) == IF \A i \in DOMAIN Plan : Passed(r.stages[i]) THEN "passed" ELSE "attention"

FinishCycle ==
    /\ Deciding(Len(Plan) + 1)
    /\ report' = [runner.report EXCEPT !.status = Verdict(runner.report)]
    /\ runner' = None
    /\ UNCHANGED <<run, done, crashes>>

(***************************************************************************)
(* The runner is killed, or cannot write its report; a command it waits    *)
(* for has its effect or not, and its exit code is lost.                   *)
(***************************************************************************)
Crash ==
    /\ runner # None /\ crashes < MaxCrashes
    /\ runner' = None
    /\ crashes' = crashes + 1
    /\ \/ \E i \in DOMAIN Plan, ok \in BOOLEAN : Waiting(i) /\ Effect(Plan[i], ok)
       \/ UNCHANGED <<run, done>>
    /\ UNCHANGED report

RunnerStep ==
    \/ \E i \in DOMAIN Plan :
          \/ Resume(i)
          \/ Skip(i)
          \/ StartCommand(i)
          \/ \E ok \in BOOLEAN : FinishCommand(i, ok)
    \/ FinishCycle

Next == StartCycle \/ RunnerStep \/ Crash

Spec == Init /\ [][Next]_vars

(***************************************************************************)
(* The operator runs the specification again, a live runner goes on, and   *)
(* of commands that are tried for ever not all fail for ever, which is up  *)
(* to the commands and not to this script.                                 *)
(***************************************************************************)
Fairness ==
    /\ WF_vars(StartCycle)
    /\ WF_vars(RunnerStep)
    /\ SF_vars(\E i \in DOMAIN Plan : FinishCommand(i, TRUE))

FairSpec == Spec /\ Fairness

-----------------------------------------------------------------------------

TypeOK ==
    /\ report \in Report \cup {None}
    /\ runner \in Runner \cup {None}
    /\ run \in {"absent", "active", "succeeded", "unsuccessful"}
    /\ done \subseteq Stages
    /\ crashes \in 0..MaxCrashes
    /\ report # None => \A i \in DOMAIN Plan : Consistent(report.stages[i])

(***************************************************************************)
(* A command only runs when every stage it depends on has really succeeded *)
(* under this specification, in this cycle or an earlier one.              *)
(***************************************************************************)
CommandsFollowTheirDependencies ==
    \A i \in DOMAIN Plan : Waiting(i) => Dependencies(Plan[i]) \subseteq done

(***************************************************************************)
(* A report that says passed tells the truth about the world: every        *)
(* command has exited 0 and the collection run has succeeded.              *)
(***************************************************************************)
PassedCycleRanEverything ==
    report # None /\ report.status = "passed" => done = Stages /\ run = "succeeded"

(***************************************************************************)
(* What the report once records as done stays done, however often the      *)
(* specification is run again and whenever the runner is killed: no paper  *)
(* order is placed twice by the cycle.                                     *)
(***************************************************************************)
RecordedStagesStayDone ==
    [][report # None =>
          \A i \in DOMAIN Plan :
             Passed(report.stages[i]) => Passed(report'.stages[i])]_vars

(***************************************************************************)
(* Running the specification again completes the cycle, however often the  *)
(* runner has died, unless its pinned run has ended otherwise than         *)
(* succeeded or a death has left a report that no runner accepts.          *)
(***************************************************************************)
CycleCompletes ==
    <>(\/ report # None /\ report.status = "passed"
       \/ runner = None /\ report # None /\ ~ Accepted(report)
       \/ run \in {"active", "unsuccessful"})

(***************************************************************************)
(* The report the runner leaves is one it accepts ("rerun the same         *)
(* specification ... failed downstream stages are retried",                *)
(* operations-recovery.md).                                                *)
(***************************************************************************)
ReportIsAccepted == report # None => Accepted(report)

=============================================================================
