-------------------------- MODULE DailyCycleProofs --------------------------
(***************************************************************************)
(* Proofs about DailyCycle for any number of accounts and of killed        *)
(* runners.  The inductive invariant says that the file and the runner's   *)
(* copy of it only record what has been done, and that the copy never      *)
(* forgets what the file records.                                          *)
(***************************************************************************)
EXTENDS DailyCycle, TLAPS

(***************************************************************************)
(* A report r is sound when what it records as passed is among the done    *)
(* stages D, and a verdict of passed stands over passed stages only.       *)
(***************************************************************************)
Sound(r, D) ==
    /\ \A i \in DOMAIN Plan : /\ Consistent(r.stages[i])
                              /\ Passed(r.stages[i]) => Plan[i] \in D
    /\ r.status = "passed" => \A i \in DOMAIN Plan : Passed(r.stages[i])

\* Whatever the report q records as passed, the report r does too.
Remembers(r, q) == \A i \in DOMAIN Plan : Passed(q.stages[i]) => Passed(r.stages[i])

WaitsRightly ==
    runner.waiting => /\ runner.next \in DOMAIN Plan
                      /\ ~Passed(runner.report.stages[runner.next])
                      /\ Dependencies(Plan[runner.next]) \subseteq done

CycleInv ==
    /\ TypeOK
    /\ report # None => Sound(report, done)
    /\ runner # None => /\ Sound(runner.report, done)
                        /\ report # None => Remembers(runner.report, report)
                        /\ WaitsRightly
    /\ <<"collection", 0>> \in done => run = "succeeded"

PaperPlan == [i \in 1..(4 * Accounts) |-> << PaperStages[((i - 1) % 4) + 1], ((i - 1) \div 4) + 1 >>]

(***************************************************************************)
(* Two lists one after the other, and what precedes a paper stage that is  *)
(* not the first of its account (the arithmetic of build_plan's loop).     *)
(***************************************************************************)
LEMMA Concatenation ==
    ASSUME NEW S, NEW s \in Seq(S), NEW t \in Seq(S)
    PROVE  /\ s \o t \in Seq(S) /\ Len(s \o t) = Len(s) + Len(t)
           /\ \A i \in 1..Len(s) : (s \o t)[i] = s[i]
           /\ \A i \in 1..Len(t) : (s \o t)[Len(s) + i] = t[i]
OBVIOUS

LEMMA PaperPosition ==
    ASSUME NEW p \in Nat \ {0}
    PROVE  /\ ((p - 1) % 4) + 1 \in 1..4 /\ ((p - 1) \div 4) + 1 \in Nat
           /\ ((p - 1) % 4) + 1 # 1 => /\ p - 1 \in Nat \ {0}
                                       /\ ((p - 2) % 4) + 1 = (p - 1) % 4
                                       /\ (p - 2) \div 4 = (p - 1) \div 4
OBVIOUS

(***************************************************************************)
(* A list of four, a list and a list of three, one after the other.        *)
(***************************************************************************)
LEMMA ThreeParts ==
    ASSUME NEW S, NEW a \in S, NEW b \in S, NEW c \in S, NEW d \in S,
           NEW n \in Nat, NEW f \in [1..n -> S],
           NEW x \in S, NEW y \in S, NEW z \in S,
           NEW s, s = <<a, b, c, d>> \o f \o <<x, y, z>>
    PROVE  /\ Len(s) = n + 7 /\ DOMAIN s = 1..(n + 7)
           /\ s[1] = a /\ s[2] = b /\ s[3] = c /\ s[4] = d
           /\ \A i \in 1..n : s[4 + i] = f[i]
           /\ s[n + 5] = x /\ s[n + 6] = y /\ s[n + 7] = z
<1> DEFINE head == <<a, b, c, d>>
           tail == <<x, y, z>>
<1>1. /\ head \in Seq(S) /\ Len(head) = 4
      /\ head[1] = a /\ head[2] = b /\ head[3] = c /\ head[4] = d
    OBVIOUS
<1>2. /\ tail \in Seq(S) /\ Len(tail) = 3
      /\ tail[1] = x /\ tail[2] = y /\ tail[3] = z
    OBVIOUS
<1>3. f \in Seq(S) /\ Len(f) = n
    OBVIOUS
<1> HIDE DEF head, tail
<1> DEFINE front == head \o f
<1>4. /\ front \in Seq(S) /\ Len(front) = Len(head) + Len(f)
      /\ \A i \in 1..Len(head) : front[i] = head[i]
      /\ \A i \in 1..Len(f) : front[Len(head) + i] = f[i]
    <2>1. head \in Seq(S) /\ f \in Seq(S)
        BY <1>1, <1>3
    <2> HIDE DEF front
    <2>2. front = head \o f
        BY DEF front
    <2> QED  BY <2>1, <2>2, Concatenation
<1>5. s = front \o tail
    BY DEF head, tail
<1> HIDE DEF front
<1>6. /\ s \in Seq(S) /\ Len(s) = n + 7
      /\ \A i \in 1..(4 + n) : s[i] = front[i]
      /\ \A i \in 1..3 : s[4 + n + i] = tail[i]
    <2>1. Len(front) = 4 + n
        BY <1>1, <1>3, <1>4
    <2>2. /\ s \in Seq(S) /\ Len(s) = Len(front) + Len(tail)
          /\ \A i \in 1..Len(front) : s[i] = front[i]
          /\ \A i \in 1..Len(tail) : s[Len(front) + i] = tail[i]
        <3>1. front \in Seq(S) /\ tail \in Seq(S)
            BY <1>2, <1>4
        <3>2. /\ front \o tail \in Seq(S) /\ Len(front \o tail) = Len(front) + Len(tail)
              /\ \A i \in 1..Len(front) : (front \o tail)[i] = front[i]
              /\ \A i \in 1..Len(tail) : (front \o tail)[Len(front) + i] = tail[i]
            BY <3>1, Concatenation
        <3> QED  BY <1>5, <3>2
    <2>3. Len(s) = n + 7 /\ \A i \in 1..(4 + n) : s[i] = front[i]
        <3>1. Len(tail) = 3
            BY <1>2
        <3>2. Len(s) = Len(front) + Len(tail)
            BY <2>2
        <3>3. Len(s) = n + 7
            BY <2>1, <3>1, <3>2
        <3>4. \A i \in 1..Len(front) : s[i] = front[i]
            BY <2>2
        <3>5. 1..Len(front) = 1..(4 + n)
            BY <2>1
        <3> QED  BY <3>3, <3>4, <3>5
    <2>4. \A i \in 1..3 : s[4 + n + i] = tail[i]
        <3>1. 1..Len(tail) = 1..3
            BY <1>2
        <3> QED  BY <2>1, <2>2, <3>1
    <2> QED  BY <2>2, <2>3, <2>4
<1>7. s[n + 5] = tail[1] /\ s[n + 6] = tail[2] /\ s[n + 7] = tail[3]
    <2>1. s[4 + n + 1] = tail[1] /\ s[4 + n + 2] = tail[2] /\ s[4 + n + 3] = tail[3]
        BY <1>6
    <2>2. 4 + n + 1 = n + 5 /\ 4 + n + 2 = n + 6 /\ 4 + n + 3 = n + 7
        OBVIOUS
    <2> QED  BY <2>1, <2>2
<1>8. s[1] = a /\ s[2] = b /\ s[3] = c /\ s[4] = d
    BY <1>1, <1>4, <1>6
<1>9. ASSUME NEW i \in 1..n PROVE s[4 + i] = f[i]
    <2>1. PICK k : k = 4 + i
        OBVIOUS
    <2>2. k \in 1..(4 + n)
        BY <2>1
    <2>3. s[k] = front[k]
        BY <1>6, <2>2
    <2>4. front[k] = f[i]
        BY <1>1, <1>3, <1>4, <2>1
    <2> QED  BY <2>1, <2>3, <2>4
<1> QED  BY <1>2, <1>6, <1>7, <1>8, <1>9

(***************************************************************************)
(* Where each stage is in the plan (build_plan).                           *)
(***************************************************************************)
LEMMA PlanShape ==
    /\ Len(Plan) = 4 * Accounts + 7 /\ DOMAIN Plan = 1..(4 * Accounts + 7)
    /\ Plan[1] = <<"preflight", 0>> /\ Plan[2] = <<"collection", 0>>
    /\ Plan[3] = <<"reconcile-before-derived", 0>> /\ Plan[4] = <<"feature-batch", 0>>
    /\ \A i \in 1..(4 * Accounts) :
          Plan[4 + i] = << PaperStages[((i - 1) % 4) + 1], ((i - 1) \div 4) + 1 >>
    /\ Plan[4 * Accounts + 5] = <<"backup", 0>>
    /\ Plan[4 * Accounts + 6] = <<"reconcile-after-derived", 0>>
    /\ Plan[4 * Accounts + 7] = <<"observe", 0>>
<1> DEFINE names == {"preflight", "collection", "reconcile-before-derived", "feature-batch",
                      "validate-inputs", "create", "run", "reconcile",
                      "backup", "reconcile-after-derived", "observe"}
           S == names \X Nat
           n == 4 * Accounts
           stage(name) == <<name, 0>>
<1>1. Accounts \in Nat \ {0} /\ n \in Nat
    BY CycleAssumption
<1>2. \A name \in names : stage(name) \in S
    OBVIOUS
<1>3. PaperPlan \in [1..n -> S]
    <2> SUFFICES ASSUME NEW i \in 1..n
                 PROVE  << PaperStages[((i - 1) % 4) + 1], ((i - 1) \div 4) + 1 >> \in S
        BY DEF PaperPlan
    <2>1. ((i - 1) % 4) + 1 \in {1, 2, 3, 4} /\ ((i - 1) \div 4) + 1 \in Nat
        BY <1>1, PaperPosition
    <2>2. /\ PaperStages[1] = "validate-inputs" /\ PaperStages[2] = "create"
          /\ PaperStages[3] = "run" /\ PaperStages[4] = "reconcile"
        BY DEF PaperStages
    <2>3. PaperStages[((i - 1) % 4) + 1] \in names
        BY <2>1, <2>2
    <2> QED  BY <2>1, <2>3
<1>4. Plan = << stage("preflight"), stage("collection"), stage("reconcile-before-derived"),
                stage("feature-batch") >>
             \o PaperPlan
             \o << stage("backup"), stage("reconcile-after-derived"), stage("observe") >>
    BY DEF Plan, PaperPlan
<1> HIDE DEF names, S, stage, n
<1>5. /\ Len(Plan) = n + 7 /\ DOMAIN Plan = 1..(n + 7)
      /\ Plan[1] = stage("preflight") /\ Plan[2] = stage("collection")
      /\ Plan[3] = stage("reconcile-before-derived") /\ Plan[4] = stage("feature-batch")
      /\ \A i \in 1..n : Plan[4 + i] = PaperPlan[i]
      /\ Plan[n + 5] = stage("backup") /\ Plan[n + 6] = stage("reconcile-after-derived")
      /\ Plan[n + 7] = stage("observe")
    <2>1. /\ stage("preflight") \in S /\ stage("collection") \in S
          /\ stage("reconcile-before-derived") \in S /\ stage("feature-batch") \in S
          /\ stage("backup") \in S /\ stage("reconcile-after-derived") \in S /\ stage("observe") \in S
        BY <1>2 DEF names
    <2> QED  BY <1>1, <1>3, <1>4, <2>1, ThreeParts
<1> QED  BY <1>5 DEF stage, n, PaperPlan

(***************************************************************************)
(* What a stage depends on is itself a stage of the plan, for every number *)
(* of accounts.                                                            *)
(***************************************************************************)
LEMMA DependenciesAreStages ==
    ASSUME NEW i \in DOMAIN Plan, NEW d \in Dependencies(Plan[i])
    PROVE  \E j \in DOMAIN Plan : Plan[j] = d
<1>0. Accounts \in Nat \ {0}
    BY CycleAssumption
<1>1. {1, 2, 3, 4} \subseteq DOMAIN Plan
    BY <1>0, PlanShape
<1>2. CASE i \in 1..4
    <2>1. i \in {1, 2, 3, 4}
        BY <1>2
    <2> QED  BY <1>1, <2>1, PlanShape DEF Dependencies
<1>3. CASE i > 4 * Accounts + 4
    <2>1. i \in {4 * Accounts + 5, 4 * Accounts + 6, 4 * Accounts + 7}
        BY <1>0, <1>3, PlanShape
    <2>2. \/ Plan[i] = <<"backup", 0>> \/ Plan[i] = <<"reconcile-after-derived", 0>>
          \/ Plan[i] = <<"observe", 0>>
        BY <2>1, PlanShape
    <2> QED  BY <1>1, <2>1, <2>2, PlanShape DEF Dependencies
<1>4. CASE i > 4 /\ i <= 4 * Accounts + 4
    <2> DEFINE p == i - 4
               n == ((p - 1) % 4) + 1
               a == ((p - 1) \div 4) + 1
    <2>1. p \in 1..(4 * Accounts) /\ n \in 1..4 /\ a \in Nat /\ i = 4 + p
        <3>1. i \in Nat /\ p \in Nat \ {0} /\ p <= 4 * Accounts
            BY <1>0, <1>4, PlanShape
        <3> QED  BY <1>0, <3>1, PaperPosition
    <2> HIDE DEF p
    <2>2. Plan[i] = <<PaperStages[n], a>>
        BY <2>1, PlanShape
    <2>3. CASE n = 1
        <3>1. d = <<"feature-batch", 0>>
            BY <2>2, <2>3 DEF PaperStages, Dependencies
        <3> QED  BY <1>1, <3>1, PlanShape
    <2>4. CASE n # 1
        <3>1. d = <<PaperStages[n - 1], a>>
            <4>1. n \in {2, 3, 4}
                BY <2>1, <2>4
            <4> QED  BY <2>2, <4>1 DEF PaperStages, Dependencies
        <3>2. /\ p - 1 \in 1..(4 * Accounts) /\ ((p - 2) % 4) + 1 = n - 1
              /\ ((p - 2) \div 4) + 1 = a
            <4>1. p \in Nat \ {0} /\ p <= 4 * Accounts
                BY <1>0, <2>1
            <4> QED  BY <1>0, <2>4, <4>1, PaperPosition
        <3>3. Plan[i - 1] = <<PaperStages[n - 1], a>>
            <4> DEFINE q == p - 1
            <4>1. q \in 1..(4 * Accounts) /\ i - 1 = 4 + q /\ q - 1 = p - 2
                BY <2>1, <3>2
            <4> HIDE DEF q
            <4>2. Plan[4 + q] = << PaperStages[((q - 1) % 4) + 1], ((q - 1) \div 4) + 1 >>
                BY <4>1, PlanShape
            <4> QED  BY <3>2, <4>1, <4>2
        <3>4. i - 1 \in DOMAIN Plan
            BY <1>0, <1>4, PlanShape
        <3> QED  BY <3>1, <3>3, <3>4
    <2> QED  BY <2>3, <2>4
<1> QED  BY <1>0, <1>2, <1>3, <1>4, PlanShape

-----------------------------------------------------------------------------

(***************************************************************************)
(* A report with the entry of stage i replaced.                            *)
(***************************************************************************)
LEMMA SetEntryEffect ==
    ASSUME NEW r \in Report, NEW i \in DOMAIN Plan, NEW e \in Entry
    PROVE  LET n == [r EXCEPT !.stages[i] = e] IN
           /\ n \in Report /\ n.status = r.status /\ n.stages[i] = e
           /\ \A j \in DOMAIN Plan : j # i => n.stages[j] = r.stages[j]
BY DEF Report

(***************************************************************************)
(* Replacing an entry keeps a report sound when it does not unpass a stage *)
(* and passes only a stage that is done.                                   *)
(***************************************************************************)
LEMMA SetEntrySound ==
    ASSUME NEW r \in Report, NEW i \in DOMAIN Plan, NEW e \in Entry, NEW D, NEW E,
           Sound(r, D), D \subseteq E, Consistent(e),
           Passed(e) => Plan[i] \in E, Passed(r.stages[i]) => Passed(e)
    PROVE  LET n == [r EXCEPT !.stages[i] = e] IN
           /\ n \in Report /\ Sound(n, E) /\ Remembers(n, r)
           /\ n.stages[i] = e
<1> DEFINE n == [r EXCEPT !.stages[i] = e]
<1>1. /\ n \in Report /\ n.status = r.status /\ n.stages[i] = e
      /\ \A j \in DOMAIN Plan : j # i => n.stages[j] = r.stages[j]
    BY SetEntryEffect
<1> HIDE DEF n
<1>2. Remembers(n, r)
    BY <1>1 DEF Remembers
<1>3. Sound(n, E)
    BY <1>1, <1>2 DEF Sound, Remembers
<1> QED  BY <1>1, <1>2, <1>3 DEF n

LEMMA KeepEffect ==
    ASSUME NEW r \in Report, NEW position \in 1..(Len(Plan) + 1), NEW waits \in BOOLEAN,
           Keep(r, position, waits)
    PROVE  /\ runner' \in Runner /\ runner'.report = r /\ runner'.next = position
           /\ runner'.waiting = waits
BY DEF Keep, Runner

(***************************************************************************)
(* What a runner that goes on has to see to: its copy stays sound and      *)
(* remembers the file, and it waits only for a command that was ready.     *)
(***************************************************************************)
LEMMA GoingOnKeeps ==
    ASSUME CycleInv, NEW r \in Report, NEW position \in 1..(Len(Plan) + 1), NEW waits \in BOOLEAN,
           Keep(r, position, waits), Sound(r, done'),
           report' = r \/ (report' = report /\ (report # None => Remembers(r, report))),
           waits => /\ position \in DOMAIN Plan /\ ~Passed(r.stages[position])
                    /\ Dependencies(Plan[position]) \subseteq done',
           done \subseteq done', done' \subseteq Stages,
           run' \in {"absent", "active", "succeeded", "unsuccessful"},
           <<"collection", 0>> \in done' => run' = "succeeded",
           UNCHANGED crashes
    PROVE  CycleInv'
<1>1. /\ runner' \in Runner /\ runner'.report = r /\ runner'.next = position
      /\ runner'.waiting = waits
    BY KeepEffect
<1>2. report' # None => Sound(report', done') /\ Remembers(r, report') /\ report' \in Report
    BY DEF CycleInv, TypeOK, Sound, Remembers
<1>3. TypeOK'
    <2>1. report' \in Report \cup {None} /\ crashes' \in 0..MaxCrashes
        BY DEF CycleInv, TypeOK
    <2>2. report' # None => \A i \in DOMAIN Plan : Consistent(report'.stages[i])
        BY <1>2 DEF Sound
    <2> QED  BY <1>1, <2>1, <2>2 DEF TypeOK
<1>4. WaitsRightly'
    BY <1>1 DEF WaitsRightly
<1> QED  BY <1>1, <1>2, <1>3, <1>4 DEF CycleInv

LEMMA StartCycleKeeps ==
    ASSUME CycleInv, StartCycle
    PROVE  CycleInv'
<1> DEFINE r == IF report = None THEN NewReport ELSE report
<1>1. NewReport \in Report /\ Sound(NewReport, done)
    BY DEF NewReport, Report, Entry, Sound, Consistent, Passed
<1>2. r \in Report /\ Sound(r, done)
    BY <1>1 DEF CycleInv, TypeOK
<1>3. 1 \in 1..(Len(Plan) + 1)
    BY PlanShape, CycleAssumption
<1>4. Keep(r, 1, FALSE) /\ report' = r /\ UNCHANGED <<run, done, crashes>>
    BY DEF StartCycle, Save
<1> HIDE DEF r
<1> QED  BY <1>2, <1>3, <1>4, GoingOnKeeps DEF CycleInv, TypeOK

(***************************************************************************)
(* The runner that decides or waits, and the place it is at.               *)
(***************************************************************************)
LEMMA AtStage ==
    ASSUME CycleInv, NEW i \in DOMAIN Plan, runner # None, runner.next = i
    PROVE  /\ runner \in Runner /\ runner.report \in Report
           /\ Sound(runner.report, done)
           /\ report # None => Remembers(runner.report, report)
           /\ runner.report.stages[i] \in Entry
           /\ i \in 1..(Len(Plan) + 1) /\ i + 1 \in 1..(Len(Plan) + 1)
<1>1. i \in 1..(Len(Plan) + 1) /\ i + 1 \in 1..(Len(Plan) + 1)
    BY PlanShape, CycleAssumption
<1>2. runner \in Runner /\ runner.report \in Report
    BY DEF CycleInv, TypeOK, Runner
<1>3. runner.report.stages[i] \in Entry
    BY <1>2 DEF Report
<1> QED  BY <1>1, <1>2, <1>3 DEF CycleInv

LEMMA ResumeKeeps ==
    ASSUME CycleInv, NEW i \in DOMAIN Plan, Resume(i)
    PROVE  CycleInv'
<1> DEFINE old == runner.report.stages[i]
           e == [old EXCEPT !.status = "resumed"]
           r == SetEntry(i, e)
<1>0. runner # None /\ runner.next = i /\ Completed(old)
    BY DEF Resume, Deciding
<1>1. /\ runner.report \in Report /\ Sound(runner.report, done) /\ old \in Entry
      /\ i + 1 \in 1..(Len(Plan) + 1)
      /\ report # None => Remembers(runner.report, report)
    BY <1>0, AtStage
<1>2. Passed(old) /\ Consistent(old) /\ Plan[i] \in done
    <2>1. Passed(old)
        BY <1>0 DEF Completed, Passed
    <2> QED  BY <1>1, <2>1 DEF Sound
<1>3. e \in Entry /\ e.status = "resumed" /\ e.exit = old.exit
    BY <1>1 DEF Entry
<1>4. Consistent(e) /\ Passed(e)
    BY <1>0, <1>2, <1>3 DEF Consistent, Passed, Completed
<1>5. Keep(r, i + 1, FALSE) /\ UNCHANGED <<report, run, done, crashes>>
    BY DEF Resume
<1> HIDE DEF e
<1>6. r \in Report /\ Sound(r, done) /\ Remembers(r, runner.report)
    BY <1>1, <1>2, <1>3, <1>4, SetEntrySound DEF SetEntry
<1>7. report # None => Remembers(r, report)
    BY <1>1, <1>6 DEF Remembers
<1> HIDE DEF r
<1> QED  BY <1>1, <1>5, <1>6, <1>7, GoingOnKeeps DEF CycleInv, TypeOK

LEMMA SkipKeeps ==
    ASSUME CycleInv, NEW i \in DOMAIN Plan, Skip(i)
    PROVE  CycleInv'
<1> DEFINE e == [status |-> "skipped", exit |-> "none"]
           r == SetEntry(i, e)
<1>0. runner # None /\ runner.next = i /\ ~Completed(runner.report.stages[i])
    BY DEF Skip, Deciding
<1>1. /\ runner.report \in Report /\ Sound(runner.report, done)
      /\ i + 1 \in 1..(Len(Plan) + 1)
    BY <1>0, AtStage
<1>2. e \in Entry /\ Consistent(e) /\ ~Passed(e)
    BY DEF Entry, Consistent, Passed
<1>3. Keep(r, i + 1, FALSE) /\ report' = r /\ UNCHANGED <<run, done, crashes>>
    BY DEF Skip, Save
<1> HIDE DEF e
<1>4. r \in Report /\ Sound(r, done)
    BY <1>0, <1>1, <1>2, SetEntrySound DEF SetEntry, Passed, Completed
<1> HIDE DEF r
<1> QED  BY <1>1, <1>3, <1>4, GoingOnKeeps DEF CycleInv, TypeOK

(***************************************************************************)
(* A stage is ready when everything it depends on has really succeeded:    *)
(* the entry a dependency is looked up by is that of the dependency.       *)
(***************************************************************************)
LEMMA ReadyMeansDone ==
    ASSUME NEW i \in DOMAIN Plan, Ready(i), Sound(runner.report, done)
    PROVE  Dependencies(Plan[i]) \subseteq done
<1> SUFFICES ASSUME NEW d \in Dependencies(Plan[i]) PROVE d \in done
    OBVIOUS
<1> DEFINE j == CHOOSE j \in DOMAIN Plan : Plan[j] = d
<1>1. j \in DOMAIN Plan /\ Plan[j] = d
    BY DependenciesAreStages
<1>2. Passed(runner.report.stages[j])
    BY DEF Ready, Current
<1> HIDE DEF j
<1> QED  BY <1>1, <1>2 DEF Sound

LEMMA StartCommandKeeps ==
    ASSUME CycleInv, NEW i \in DOMAIN Plan, StartCommand(i)
    PROVE  CycleInv'
<1> DEFINE old == runner.report.stages[i]
           e == [old EXCEPT !.status = "running"]
           r == SetEntry(i, e)
<1>0. runner # None /\ runner.next = i /\ ~Completed(old) /\ Ready(i)
    BY DEF StartCommand, Deciding
<1>1. /\ runner.report \in Report /\ Sound(runner.report, done) /\ old \in Entry
      /\ i \in 1..(Len(Plan) + 1)
    BY <1>0, AtStage
<1>2. e \in Entry /\ e.status = "running"
    BY <1>1 DEF Entry
<1>3. Consistent(e) /\ ~Passed(e)
    BY <1>2 DEF Consistent, Passed
<1>4. Keep(r, i, TRUE) /\ report' = r /\ UNCHANGED <<run, done, crashes>>
    BY DEF StartCommand, Save
<1> HIDE DEF e
<1>5. r \in Report /\ Sound(r, done) /\ r.stages[i] = e
    <2>1. ~Passed(old)
        BY <1>0 DEF Passed, Completed
    <2> HIDE DEF old
    <2>2. r = [runner.report EXCEPT !.stages[i] = e]
        BY DEF SetEntry
    <2>3. r.stages[i] = e
        BY <1>1, <1>2, <2>2, SetEntryEffect
    <2>4. Passed(runner.report.stages[i]) => Passed(e)
        BY <2>1 DEF old
    <2> HIDE DEF r
    <2>5. Passed(e) => Plan[i] \in done
        BY <1>3
    <2>6. r \in Report /\ Sound(r, done)
        BY <1>1, <1>2, <1>3, <2>2, <2>4, <2>5, SetEntrySound
    <2> QED  BY <2>3, <2>6
<1>6. Dependencies(Plan[i]) \subseteq done
    BY <1>0, <1>1, ReadyMeansDone
<1> HIDE DEF r
<1> QED  BY <1>1, <1>3, <1>4, <1>5, <1>6, GoingOnKeeps DEF CycleInv, TypeOK

(***************************************************************************)
(* What a command leaves behind (run_collection's skip and refusal).       *)
(***************************************************************************)
LEMMA EffectKeeps ==
    ASSUME CycleInv, NEW stage \in Stages, NEW ok \in BOOLEAN, Effect(stage, ok)
    PROVE  /\ done \subseteq done' /\ done' \subseteq Stages
           /\ ok => stage \in done'
           /\ run' \in {"absent", "active", "succeeded", "unsuccessful"}
           /\ <<"collection", 0>> \in done' => run' = "succeeded"
<1>1. done' = IF ok THEN done \cup {stage} ELSE done
    BY DEF Effect
<1>2. CASE stage = <<"collection", 0>>
    <2>1. Collection(ok)
        BY <1>2 DEF Effect
    <2>2. run' \in {"absent", "active", "succeeded", "unsuccessful"}
        BY <2>1 DEF Collection, CycleInv, TypeOK
    <2>3. ok => run' = "succeeded"
        BY <2>1 DEF Collection
    <2>4. run = "succeeded" => run' = "succeeded"
        BY <2>1 DEF Collection
    <2> QED  BY <1>1, <2>2, <2>3, <2>4 DEF CycleInv, TypeOK
<1>3. CASE stage # <<"collection", 0>>
    <2>1. run' = run
        BY <1>3 DEF Effect
    <2> QED  BY <1>1, <1>3, <2>1 DEF CycleInv, TypeOK
<1> QED  BY <1>2, <1>3

LEMMA FinishCommandKeeps ==
    ASSUME CycleInv, NEW i \in DOMAIN Plan, NEW ok \in BOOLEAN, FinishCommand(i, ok)
    PROVE  CycleInv'
<1> DEFINE e == IF ok THEN [status |-> "passed", exit |-> "zero"]
                ELSE [status |-> "failed", exit |-> "nonzero"]
           r == SetEntry(i, e)
<1>0. runner # None /\ runner.next = i /\ runner.waiting
    BY DEF FinishCommand, Waiting
<1>1. /\ runner.report \in Report /\ Sound(runner.report, done)
      /\ i + 1 \in 1..(Len(Plan) + 1)
    BY <1>0, AtStage
<1>2. ~Passed(runner.report.stages[i])
    BY <1>0 DEF CycleInv, WaitsRightly
<1>3. Plan[i] \in Stages
    BY DEF Stages
<1>4. /\ done \subseteq done' /\ done' \subseteq Stages /\ (ok => Plan[i] \in done')
      /\ run' \in {"absent", "active", "succeeded", "unsuccessful"}
      /\ <<"collection", 0>> \in done' => run' = "succeeded"
    BY <1>3, EffectKeeps DEF FinishCommand
<1>5. e \in Entry /\ Consistent(e) /\ (Passed(e) => ok)
    BY DEF Entry, Consistent, Passed
<1>6. Keep(r, i + 1, FALSE) /\ report' = r /\ UNCHANGED crashes
    BY DEF FinishCommand, Save
<1> HIDE DEF e
<1>7. r \in Report /\ Sound(r, done')
    BY <1>1, <1>2, <1>4, <1>5, SetEntrySound DEF SetEntry
<1> HIDE DEF r
<1> QED  BY <1>1, <1>4, <1>6, <1>7, GoingOnKeeps

LEMMA FinishCycleKeeps ==
    ASSUME CycleInv, FinishCycle
    PROVE  CycleInv'
<1> DEFINE r == runner.report
           v == Verdict(r)
           f == [r EXCEPT !.status = v]
<1>1. runner # None /\ r \in Report /\ Sound(r, done)
    BY DEF FinishCycle, Deciding, CycleInv, TypeOK, Runner
<1>2. v \in {"passed", "attention"} /\ (v = "passed" => \A i \in DOMAIN Plan : Passed(r.stages[i]))
    BY DEF Verdict
<1> HIDE DEF v
<1>3. f \in Report /\ f.stages = r.stages /\ f.status = v
    BY <1>1, <1>2 DEF Report
<1>4. report' = f /\ runner' = None /\ UNCHANGED <<run, done, crashes>>
    BY DEF FinishCycle, v
<1> HIDE DEF f
<1>5. Sound(f, done)
    BY <1>1, <1>2, <1>3 DEF Sound
<1>6. TypeOK'
    <2>1. \A i \in DOMAIN Plan : Consistent(report'.stages[i])
        BY <1>4, <1>5 DEF Sound
    <2> QED  BY <1>3, <1>4, <2>1 DEF CycleInv, TypeOK
<1> QED  BY <1>4, <1>5, <1>6 DEF CycleInv

LEMMA CrashKeeps ==
    ASSUME CycleInv, Crash
    PROVE  CycleInv'
<1>1. /\ done \subseteq done' /\ done' \subseteq Stages
      /\ run' \in {"absent", "active", "succeeded", "unsuccessful"}
      /\ <<"collection", 0>> \in done' => run' = "succeeded"
    <2>1. ASSUME NEW i \in DOMAIN Plan, NEW ok \in BOOLEAN, Effect(Plan[i], ok)
          PROVE  /\ done \subseteq done' /\ done' \subseteq Stages
                 /\ run' \in {"absent", "active", "succeeded", "unsuccessful"}
                 /\ <<"collection", 0>> \in done' => run' = "succeeded"
        <3>1. Plan[i] \in Stages
            BY DEF Stages
        <3> QED  BY <2>1, <3>1, EffectKeeps
    <2>2. CASE UNCHANGED <<run, done>>
        BY <2>2 DEF CycleInv, TypeOK
    <2> QED  BY <2>1, <2>2 DEF Crash
<1>2. report' = report /\ runner' = None /\ crashes' = crashes + 1 /\ crashes < MaxCrashes
    BY DEF Crash
<1>3. report # None => Sound(report, done')
    BY <1>1 DEF CycleInv, Sound
<1>4. crashes' \in 0..MaxCrashes
    BY <1>2, CycleAssumption DEF CycleInv, TypeOK
<1>5. TypeOK'
    BY <1>1, <1>2, <1>4 DEF CycleInv, TypeOK
<1> QED  BY <1>1, <1>2, <1>3, <1>5 DEF CycleInv

LEMMA CycleNextKeeps == CycleInv /\ [Next]_vars => CycleInv'
<1> SUFFICES ASSUME CycleInv, [Next]_vars PROVE CycleInv'
    OBVIOUS
<1>1. ASSUME NEW i \in DOMAIN Plan,
             \/ Resume(i)
             \/ Skip(i)
             \/ StartCommand(i)
             \/ \E ok \in BOOLEAN : FinishCommand(i, ok)
      PROVE  CycleInv'
    BY <1>1, ResumeKeeps, SkipKeeps, StartCommandKeeps, FinishCommandKeeps
<1>2. CASE StartCycle
    BY <1>2, StartCycleKeeps
<1>3. CASE FinishCycle
    BY <1>3, FinishCycleKeeps
<1>4. CASE Crash
    BY <1>4, CrashKeeps
<1>5. CASE UNCHANGED vars
    BY <1>5 DEF vars, CycleInv, TypeOK, WaitsRightly
<1> QED  BY <1>1, <1>2, <1>3, <1>4, <1>5 DEF Next, RunnerStep

LEMMA CycleInitEstablishes == Init => CycleInv
BY CycleAssumption DEF Init, CycleInv, TypeOK

-----------------------------------------------------------------------------

THEOREM CycleInductive == Spec => []CycleInv
BY CycleInitEstablishes, CycleNextKeeps, PTL DEF Spec

(***************************************************************************)
(* The type invariant of the cycle.                                        *)
(***************************************************************************)
THEOREM CycleTypeCorrect == Spec => []TypeOK
BY CycleInductive, PTL DEF CycleInv

(***************************************************************************)
(* A command only ever runs when everything it depends on has really       *)
(* exited 0 under this specification, for any number of accounts and       *)
(* however often the runner is killed (the dependencies of run_cycle).     *)
(***************************************************************************)
THEOREM CommandsFollowTheirDependenciesHolds == Spec => []CommandsFollowTheirDependencies
<1>1. CycleInv => CommandsFollowTheirDependencies
    BY DEF CycleInv, WaitsRightly, CommandsFollowTheirDependencies, Waiting
<1> QED  BY <1>1, CycleInductive, PTL

(***************************************************************************)
(* A report that says passed means that every command of the plan has      *)
(* exited 0 and that the collection run is recorded as succeeded.          *)
(***************************************************************************)
THEOREM PassedCycleRanEverythingHolds == Spec => []PassedCycleRanEverything
<1>1. CycleInv => PassedCycleRanEverything
    <2> SUFFICES ASSUME CycleInv, report # None, report.status = "passed"
                 PROVE  done = Stages /\ run = "succeeded"
        BY DEF PassedCycleRanEverything
    <2>1. \A i \in DOMAIN Plan : Plan[i] \in done
        BY DEF CycleInv, Sound
    <2>2. done = Stages
        BY <2>1 DEF Stages, CycleInv, TypeOK
    <2>3. <<"collection", 0>> \in done
        <3>1. 2 \in DOMAIN Plan
            BY PlanShape, CycleAssumption
        <3> QED  BY <2>1, <3>1, PlanShape
    <2> QED  BY <2>2, <2>3 DEF CycleInv
<1> QED  BY <1>1, CycleInductive, PTL

(***************************************************************************)
(* What the report records as done stays recorded as done, through every   *)
(* rerun, resumption, skip and death of the runner (_write_report).        *)
(***************************************************************************)
THEOREM RecordedStagesStayDoneHolds == Spec => RecordedStagesStayDone
<1> DEFINE Stay == report # None =>
                      \A i \in DOMAIN Plan :
                         Passed(report.stages[i]) => Passed(report'.stages[i])
<1>1. CycleInv /\ [Next]_vars => [Stay]_vars
    <2> SUFFICES ASSUME CycleInv, Next, report # None PROVE Remembers(report', report)
        BY DEF Remembers
    <2>1. CASE StartCycle
        BY <2>1 DEF StartCycle, Save, Remembers
    <2>2. ASSUME NEW i \in DOMAIN Plan, NEW e \in Entry, runner # None, runner.next = i,
                 ~Passed(runner.report.stages[i]), report' = SetEntry(i, e)
          PROVE  Remembers(report', report)
        <3> DEFINE r == runner.report
        <3>1. r \in Report /\ Remembers(r, report)
            BY <2>2, AtStage
        <3>2. \A j \in DOMAIN Plan : j # i => report'.stages[j] = r.stages[j]
            BY <2>2, <3>1, SetEntryEffect DEF SetEntry
        <3>3. ~Passed(report.stages[i])
            BY <2>2, <3>1 DEF Remembers
        <3> QED  BY <3>1, <3>2, <3>3 DEF Remembers
    <2>3. ASSUME NEW i \in DOMAIN Plan, Resume(i) PROVE Remembers(report', report)
        BY <2>3 DEF Resume, Remembers
    <2>4. ASSUME NEW i \in DOMAIN Plan, Skip(i) PROVE Remembers(report', report)
        <3>1. [status |-> "skipped", exit |-> "none"] \in Entry
            BY DEF Entry
        <3> QED  BY <2>2, <2>4, <3>1 DEF Skip, Deciding, Save, Completed, Passed
    <2>5. ASSUME NEW i \in DOMAIN Plan, StartCommand(i) PROVE Remembers(report', report)
        <3> DEFINE e == [runner.report.stages[i] EXCEPT !.status = "running"]
        <3>1. /\ runner # None /\ runner.next = i /\ ~Passed(runner.report.stages[i])
              /\ report' = SetEntry(i, e)
            BY <2>5 DEF StartCommand, Deciding, Save, Completed, Passed
        <3>2. e \in Entry
            <4>1. runner.report.stages[i] \in Entry
                BY <3>1, AtStage
            <4> QED  BY <4>1 DEF Entry
        <3> HIDE DEF e
        <3> QED  BY <2>2, <3>1, <3>2
    <2>6. ASSUME NEW i \in DOMAIN Plan, NEW ok \in BOOLEAN, FinishCommand(i, ok)
          PROVE  Remembers(report', report)
        <3> DEFINE e == IF ok THEN [status |-> "passed", exit |-> "zero"]
                        ELSE [status |-> "failed", exit |-> "nonzero"]
        <3>1. /\ runner # None /\ runner.next = i /\ runner.waiting
              /\ report' = SetEntry(i, e)
            BY <2>6 DEF FinishCommand, Waiting, Save
        <3>2. ~Passed(runner.report.stages[i])
            BY <3>1 DEF CycleInv, WaitsRightly
        <3>3. e \in Entry
            BY DEF Entry
        <3> HIDE DEF e
        <3> QED  BY <2>2, <3>1, <3>2, <3>3
    <2>7. CASE FinishCycle
        <3>1. /\ runner # None /\ runner \in Runner /\ Remembers(runner.report, report)
              /\ report' = [runner.report EXCEPT !.status = Verdict(runner.report)]
            BY <2>7 DEF FinishCycle, Deciding, CycleInv, TypeOK
        <3>2. report'.stages = runner.report.stages
            BY <3>1 DEF Runner, Report
        <3> QED  BY <3>1, <3>2 DEF Remembers
    <2>8. CASE Crash
        BY <2>8 DEF Crash, Remembers
    <2> QED  BY <2>1, <2>3, <2>4, <2>5, <2>6, <2>7, <2>8 DEF Next, RunnerStep
<1> QED  BY <1>1, CycleInductive, PTL DEF Spec, RecordedStagesStayDone

=============================================================================
