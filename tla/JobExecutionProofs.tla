------------------------- MODULE JobExecutionProofs -------------------------
(***************************************************************************)
(* Proofs for module JobExecution, for every set of machines and bundles,  *)
(* every program length and every number of restores and crashes.  One     *)
(* inductive invariant carries all the safety properties: it says what an  *)
(* attempt has behind it at each point of JobRunner::run and what the job  *)
(* row, the disks and the client may already know of it.                   *)
(***************************************************************************)
EXTENDS JobExecution, TotalTheorems, TLAPS

\* An upper bound for the lines of a log.
MaxLines == Units * Cardinality(Attempts)

JobType ==
  [state : {"none", "queued", "assigned", "running"} \cup Terminal,
   client : Clients \cup {NULL}, bundle : Bundles \cup {<<>>},
   script : {NULL} \cup UNION {Names(b) : b \in Bundles},
   provider : Machines \cup {NULL}, checkpoint_url : BOOLEAN, saved : 0 .. Units,
   restore_attempts : 0 .. MaxRestoreAttempts,
   output_log : Seq([by : Attempts, lines : 1 .. MaxLines]), ended_by : {0} \cup Attempts]

AttemptType ==
  [pc : {"none", "start", "download", "extract", "launch", "sandbox", "exec", "push", "report",
         "done"},
   machine : Machines \cup {NULL}, files : Bundles \cup {<<>>},
   mode : {NULL, "vm", "direct", "dmtcp"}, progress : 0 .. Units, known : 0 .. Units, ok : BOOLEAN]

DiskType == [work_dir : BOOLEAN, log : 0 .. MaxLines, profile : BOOLEAN, image : 0 .. Units]

ClientType == [offset : Nat, streaming : BOOLEAN, ended_by : {0} \cup Attempts,
               told : {NULL} \cup Terminal]

\* TypeOK, with all fields of all records.
Types ==
  /\ artifacts \subseteq [hash : Seq(STRING), bundle : Bundles]
  /\ job \in JobType
  /\ attempt \in [Attempts -> AttemptType]
  /\ disk \in [Machines -> DiskType]
  /\ up \subseteq Machines
  /\ net \subseteq 1 .. Units
  /\ client \in ClientType
  /\ crashes \in 0 .. MaxCrashes
  /\ faulty \in BOOLEAN

\* An attempt that was not started has done nothing; one that was has a machine.
Started ==
  \A a \in Attempts : IF At(a, "none") THEN attempt[a].progress = 0 /\ On(a) = NULL ELSE On(a) \in Machines

\* A result without an error comes at the end of the whole program.
OkRan ==
  \A a \in Attempts : attempt[a].ok =>
    attempt[a].pc \in {"push", "report", "done"} /\ attempt[a].progress = Units

\* Before the first assignment there is no attempt and no report.  A job that
\* is back in the queue has a checkpoint and another restore to go.
QueueOK ==
  /\ job.state = "none" => ~job.checkpoint_url /\ job.output_log = <<>>
  /\ job.state \in {"none", "queued"} =>
       IF job.checkpoint_url THEN job.restore_attempts < MaxRestoreAttempts
       ELSE net = {} /\ \A a \in Attempts : At(a, "none")

\* What a log holds was printed by attempts, a line for each unit of work.
Progress == [a \in Attempts |-> attempt[a].progress]
LinesPrinted == \A m \in Machines : disk[m].log <= Total(Progress, Attempts)

\* A checkpoint that is recorded or reported has an image, until an attempt
\* has ended well.
ReportBacked ==
  net # {} \/ job.checkpoint_url =>
    \/ \E m \in Machines : disk[m].image > 0
    \/ \E a \in Attempts : attempt[a].ok

\* Whoever ended the job has nothing left to say.
EndedDone ==
  \A a \in Attempts : a = job.ended_by \/ a = client.ended_by => At(a, "done")

Shown == client.offset <= Len(job.output_log)

ExecInv ==
  /\ Types /\ Started /\ OkRan /\ QueueOK /\ LinesPrinted /\ ReportBacked
  /\ EndedDone /\ Shown /\ CompleteMeansRan /\ PushedIsPrinted

-----------------------------------------------------------------------------
(* What a step of an attempt does to it *)

\* Attempt a, which is under way, goes on as r.
Runs(a, r) ==
  /\ ~At(a, "none") /\ ~At(a, "done")
  /\ attempt' = [attempt EXCEPT ![a] = r]
  /\ r \in AttemptType /\ r.machine = On(a) /\ r.pc # "none"
  /\ r.progress >= attempt[a].progress
  /\ r.ok => r.pc \in {"push", "report", "done"} /\ r.progress = Units
  /\ attempt[a].ok => r.ok

\* What all steps leave of the attempts.
Kept ==
  /\ Started' /\ OkRan'
  /\ attempt' \in [Attempts -> AttemptType]
  /\ \A b \in Attempts : attempt[b].ok => attempt'[b].ok /\ attempt'[b].progress = attempt[b].progress
                                           /\ attempt'[b].machine = attempt[b].machine
  /\ \A b \in Attempts : attempt[b].pc = "done" => attempt'[b].pc = "done"
  /\ Total(Progress, Attempts)' >= Total(Progress, Attempts)

\* There are finitely many attempts and printed lines.
LEMMA AttemptsFinite == IsFiniteSet(Attempts) /\ MaxLines \in Nat
<1>1. IsFiniteSet(Attempts)
  BY FS_Interval, ExecutionAssumption DEF Attempts
<1>2. Cardinality(Attempts) \in Nat
  BY <1>1, FS_CardinalityType
<1> QED BY <1>1, <1>2, ExecutionAssumption DEF MaxLines

\* The total of what the attempts have done does not fall when none is undone.
LEMMA ProgressGrows ==
  ASSUME attempt \in [Attempts -> AttemptType], attempt' \in [Attempts -> AttemptType],
         \A b \in Attempts : attempt'[b].progress >= attempt[b].progress
  PROVE  /\ Total(Progress, Attempts) \in Int /\ Total(Progress, Attempts)' \in Int
         /\ Total(Progress, Attempts)' >= Total(Progress, Attempts)
         /\ \A a \in Attempts : attempt'[a].progress = attempt[a].progress + 1
              => Total(Progress, Attempts)' >= Total(Progress, Attempts) + 1
<1> DEFINE f == Progress
           g == Progress'
<1>1. \A b \in Attempts : /\ f[b] = attempt[b].progress /\ g[b] = attempt'[b].progress
                          /\ f[b] \in Int /\ g[b] \in Int /\ g[b] >= f[b]
  BY ExecutionAssumption DEF Progress, AttemptType
<1> HIDE DEF f, g
<1>2. Total(f, Attempts) \in Int /\ Total(g, Attempts) \in Int
  BY <1>1, AttemptsFinite, TotalInt
<1>3. Total(f, Attempts) <= Total(g, Attempts)
  BY <1>1, AttemptsFinite, TotalMonotone
<1>4. ASSUME NEW a \in Attempts, g[a] = f[a] + 1
      PROVE  Total(g, Attempts) >= Total(f, Attempts) + 1
  <2>1. Total(f, Attempts) <= Total(g, Attempts) - g[a] + f[a]
    BY <1>1, AttemptsFinite, TotalAtMost
  <2> QED BY <1>1, <1>2, <1>4, <2>1
<1>5. \A a \in Attempts : attempt'[a].progress = attempt[a].progress + 1
        => Total(g, Attempts) >= Total(f, Attempts) + 1
  BY <1>1, <1>4
<1> QED BY <1>2, <1>3, <1>5 DEF f, g

\* A step of one attempt's runner keeps what is recorded of the attempts.
LEMMA RunsKept ==
  ASSUME ExecInv, NEW a \in Attempts, NEW r, Runs(a, r)
  PROVE  Kept
<1> USE DEF ExecInv, Types, Runs, At, On
<1>1. attempt' \in [Attempts -> AttemptType]
  OBVIOUS
<1>2. attempt'[a] = r /\ \A b \in Attempts \ {a} : attempt'[b] = attempt[b]
  OBVIOUS
<1>3. Started'
  BY <1>2 DEF Started
<1>4. OkRan'
  BY <1>2 DEF OkRan
<1>5. \A b \in Attempts : attempt[b].ok => /\ attempt'[b].ok
                                           /\ attempt'[b].progress = attempt[b].progress
                                           /\ attempt'[b].machine = attempt[b].machine
  BY <1>2 DEF OkRan
<1>6. \A b \in Attempts : attempt[b].pc = "done" => attempt'[b].pc = "done"
  BY <1>2
<1>7. Total(Progress, Attempts)' >= Total(Progress, Attempts)
  <2>1. \A b \in Attempts : attempt'[b].progress >= attempt[b].progress
    BY <1>2, ExecutionAssumption DEF AttemptType
  <2> QED BY <1>1, <2>1, ProgressGrows
<1> QED BY <1>1, <1>3, <1>4, <1>5, <1>6, <1>7 DEF Kept

\* The attempts stay as they are.
LEMMA SameKept ==
  ASSUME ExecInv, UNCHANGED attempt
  PROVE  Kept
<1> USE DEF ExecInv, Types, At, On
<1>1. Started' /\ OkRan'
  BY DEF Started, OkRan
<1>2. Total(Progress, Attempts)' >= Total(Progress, Attempts)
  <2>1. \A b \in Attempts : attempt'[b].progress >= attempt[b].progress
    BY ExecutionAssumption DEF AttemptType
  <2> QED BY <2>1, ProgressGrows
<1> QED BY <1>1, <1>2 DEF Kept

-----------------------------------------------------------------------------
(* Steps that leave the job row and the client alone *)

\* Reports and images: nothing that a report relies on goes away.
ImagesKept ==
  \/ \E a \in Attempts : attempt'[a].ok
  \/ \A m \in Machines : disk'[m].image >= disk[m].image
 
\* A step of a runner keeps the invariant if its disk still backs it.
LEMMA RunnerFrame ==
  ASSUME ExecInv, Kept, disk' \in [Machines -> DiskType], LinesPrinted', ImagesKept,
         UNCHANGED <<artifacts, job, up, net, client>>, crashes' \in 0 .. MaxCrashes,
         faulty' \in BOOLEAN, \E a \in Attempts : ~At(a, "none")
  PROVE  ExecInv'
<1> USE DEF ExecInv, Kept, At, On
<1>1. Types'
  BY DEF Types
<1>2. QueueOK'
  BY DEF QueueOK
<1>3. ReportBacked'
  <2>1. CASE \E a \in Attempts : attempt'[a].ok
    BY <2>1 DEF ReportBacked
  <2>2. CASE ~(\E a \in Attempts : attempt'[a].ok)
    <3>1. \A m \in Machines : disk'[m].image >= disk[m].image /\ disk[m].image \in Int
                              /\ disk'[m].image \in Int
      BY <2>2, ExecutionAssumption DEF ImagesKept, Types, DiskType
    <3>2. (\E m \in Machines : disk[m].image > 0) => \E m \in Machines : disk'[m].image > 0
      BY <3>1
    <3>3. ~ \E a \in Attempts : attempt[a].ok
      BY <2>2
    <3> QED BY <3>2, <3>3 DEF ReportBacked
  <2> QED BY <2>1, <2>2
<1>4. EndedDone' /\ Shown'
  BY DEF EndedDone, Shown
<1>5. CompleteMeansRan' /\ PushedIsPrinted'
  BY DEF CompleteMeansRan, PushedIsPrinted
<1> QED BY <1>1, <1>2, <1>3, <1>4, <1>5

\* A log that only shrinks holds no line that was not printed.
LEMMA LinesKept ==
  ASSUME ExecInv, Kept, disk' \in [Machines -> DiskType],
         \A m \in Machines : disk'[m].log <= disk[m].log
  PROVE  LinesPrinted'
<1> DEFINE t == Total(Progress, Attempts)
<1>1. t \in Int /\ t' \in Int /\ t' >= t
  <2>1. \A b \in Attempts : Progress[b] \in Int /\ Progress'[b] \in Int
    BY ExecutionAssumption DEF Progress, ExecInv, Types, Kept, AttemptType
  <2> DEFINE f == Progress
             g == Progress'
  <2>2. \A b \in Attempts : f[b] \in Int /\ g[b] \in Int
    BY <2>1
  <2> HIDE DEF f, g
  <2>3. Total(f, Attempts) \in Int /\ Total(g, Attempts) \in Int
    BY <2>2, AttemptsFinite, TotalInt
  <2>4. t' >= t
    BY DEF Kept
  <2> QED BY <2>3, <2>4 DEF f, g
<1>2. \A m \in Machines : disk[m].log <= t /\ disk[m].log \in Int /\ disk'[m].log \in Int
  BY AttemptsFinite DEF ExecInv, LinesPrinted, Types, DiskType
<1> HIDE DEF t
<1>3. \A m \in Machines : disk'[m].log <= t'
  BY <1>1, <1>2
<1> QED BY <1>3 DEF LinesPrinted, t

-----------------------------------------------------------------------------
(* The records a step puts in the place of an attempt's and of a disk's *)

\* An attempt that goes to another point of run, to the end of it, or fails.
LEMMA GotoRuns ==
  ASSUME ExecInv, NEW a \in Attempts, ~At(a, "none"), ~At(a, "done"),
         NEW pc \in {"download", "launch", "sandbox", "report", "done"}, Goto(a, pc),
         attempt[a].ok => pc \in {"report", "done"}
  PROVE  \E r : Runs(a, r)
<1> DEFINE r == [attempt[a] EXCEPT !.pc = pc]
<1>1. attempt[a] \in AttemptType /\ (attempt[a].ok => attempt[a].progress = Units)
  BY DEF ExecInv, Types, OkRan
<1>2. r \in AttemptType
  BY <1>1 DEF AttemptType
<1>3. /\ r.pc = pc /\ r.machine = On(a) /\ r.progress = attempt[a].progress
      /\ r.ok = attempt[a].ok /\ r.progress \in Int
  BY <1>1, ExecutionAssumption DEF AttemptType, On
<1>4. attempt' = [attempt EXCEPT ![a] = r]
  BY DEF Goto, Set
<1> HIDE DEF r
<1>5. Runs(a, r)
  BY <1>1, <1>2, <1>3, <1>4 DEF Runs
<1> QED BY <1>5

\* Giving up an attempt is a step of its runner.
LEMMA FailsRuns ==
  ASSUME ExecInv, NEW a \in Attempts, ~At(a, "none"), ~At(a, "done"), ~attempt[a].ok, Fails(a)
  PROVE  \E r : Runs(a, r)
<1> DEFINE r == [attempt[a] EXCEPT !.pc = "push", !.ok = FALSE]
<1>1. attempt[a] \in AttemptType
  BY DEF ExecInv, Types
<1>2. r \in AttemptType
  BY <1>1 DEF AttemptType
<1>3. /\ r.pc = "push" /\ r.machine = On(a) /\ r.progress = attempt[a].progress
      /\ r.ok = FALSE /\ r.progress \in Int
  BY <1>1, ExecutionAssumption DEF AttemptType, On
<1>4. attempt' = [attempt EXCEPT ![a] = r]
  BY DEF Fails, Set
<1> HIDE DEF r
<1>5. Runs(a, r)
  BY <1>2, <1>3, <1>4 DEF Runs
<1> QED BY <1>5

\* An attempt starts the program.
LEMMA ExecRuns ==
  ASSUME ExecInv, NEW a \in Attempts, attempt[a].pc \in {"launch", "sandbox"},
         NEW mode \in {"vm", "direct", "dmtcp"},
         Set(a, [attempt[a] EXCEPT !.pc = "exec", !.mode = mode])
  PROVE  \E r : Runs(a, r)
<1> DEFINE r == [attempt[a] EXCEPT !.pc = "exec", !.mode = mode]
<1>1. attempt[a] \in AttemptType /\ ~attempt[a].ok
  BY DEF ExecInv, Types, OkRan
<1>2. r \in AttemptType
  BY <1>1 DEF AttemptType
<1>3. /\ r.pc = "exec" /\ r.machine = On(a) /\ r.progress = attempt[a].progress
      /\ ~r.ok /\ r.progress \in Int
  BY <1>1, ExecutionAssumption DEF AttemptType, On
<1>4. attempt' = [attempt EXCEPT ![a] = r]
  BY DEF Set
<1> HIDE DEF r
<1>5. Runs(a, r)
  BY <1>1, <1>2, <1>3, <1>4 DEF Runs, At
<1> QED BY <1>5

\* What preparations and ends make of a disk.
LEMMA DiskRecords ==
  ASSUME NEW d \in DiskType
  PROVE  /\ [d EXCEPT !.work_dir = TRUE] \in DiskType
         /\ SandboxProfile(d) \in DiskType
         /\ [SandboxProfile(d) EXCEPT !.log = 0] \in DiskType
         /\ [d EXCEPT !.work_dir = FALSE, !.log = 0] \in DiskType
         /\ sandbox_cleanup(d) \in DiskType
         /\ dmtcp_cleanup(d) \in DiskType
<1> USE DEF DiskType, SandboxProfile, sandbox_cleanup, dmtcp_cleanup
<1>1. 0 \in 0 .. MaxLines /\ 0 \in 0 .. Units
  BY AttemptsFinite, ExecutionAssumption
<1>2. [d EXCEPT !.work_dir = TRUE] \in DiskType /\ SandboxProfile(d) \in DiskType
  OBVIOUS
<1>3. [SandboxProfile(d) EXCEPT !.log = 0] \in DiskType
  BY <1>1
<1>4. [d EXCEPT !.work_dir = FALSE, !.log = 0] \in DiskType
  BY <1>1
<1>5. sandbox_cleanup(d) \in DiskType
  BY <1>1
<1>6. dmtcp_cleanup(d) \in DiskType
  BY <1>1
<1> QED BY <1>2, <1>3, <1>4, <1>5, <1>6

\* One disk changes.
LEMMA DiskStep ==
  ASSUME ExecInv, NEW m \in Machines, NEW d \in DiskType, disk' = [disk EXCEPT ![m] = d]
  PROVE  /\ disk' \in [Machines -> DiskType]
         /\ disk'[m] = d /\ \A k \in Machines \ {m} : disk'[k] = disk[k]
         /\ \A k \in Machines : /\ disk[k] \in DiskType /\ disk[k].log \in Nat /\ disk[k].image \in Nat
                                 /\ d.log \in Nat /\ d.image \in Nat
BY AttemptsFinite, ExecutionAssumption DEF ExecInv, Types, DiskType

-----------------------------------------------------------------------------
(* JobRunner::run *)

\* The steps of JobRunner::run up to the execution of the program.
LEMMA PrepareKeeps ==
  ASSUME ExecInv, NEW a \in Attempts,
         \/ run_start(a) \/ download_bundle(a) \/ extract_bundle(a)
         \/ run_in_vm(a) \/ run_direct(a) \/ run_with_dmtcp(a)
  PROVE  ExecInv'
<1>0. /\ attempt[a].pc \in {"start", "download", "extract", "launch", "sandbox"}
      /\ attempt[a] \in AttemptType /\ On(a) \in Machines
      /\ disk[On(a)] \in DiskType /\ ~attempt[a].ok
  BY DEF ExecInv, Types, Started, OkRan, run_start, download_bundle,
         extract_bundle, run_in_vm, run_direct, run_with_dmtcp, At, On
<1>00. ~At(a, "none") /\ ~At(a, "done")
  BY <1>0 DEF At
<1>1. \E r : Runs(a, r)
  <2>1. CASE Fails(a)
    BY <1>0, <1>00, <2>1, FailsRuns
  <2>2. CASE run_start(a) /\ Goto(a, "download")
    BY <1>0, <1>00, <2>2, GotoRuns
  <2>3. CASE HashMatches(Fetched) /\ Set(a, [attempt[a] EXCEPT !.pc = "extract", !.files = Fetched])
    <3> DEFINE r == [attempt[a] EXCEPT !.pc = "extract", !.files = Fetched]
    <3>1. Fetched = job.bundle /\ job.bundle \in Bundles \cup {<<>>}
      BY <2>3 DEF HashMatches, ExecInv, Types, JobType
    <3>2. r \in AttemptType
      BY <1>0, <3>1 DEF AttemptType
    <3>3. /\ r.pc = "extract" /\ r.machine = On(a) /\ r.progress = attempt[a].progress
          /\ ~r.ok /\ r.progress \in Int
      BY <1>0, <3>1, ExecutionAssumption DEF AttemptType, On
    <3>4. attempt' = [attempt EXCEPT ![a] = r]
      BY <2>3 DEF Set
    <3> HIDE DEF r
    <3>5. Runs(a, r)
      BY <1>0, <1>00, <3>2, <3>3, <3>4 DEF Runs
    <3> QED BY <3>5
  <2>4. CASE extract_bundle(a) /\ ~Fails(a)
    BY <1>0, <1>00, <2>4, GotoRuns DEF extract_bundle, At
  <2>5. CASE run_in_vm(a)
    <3>1. CASE Goto(a, "sandbox")
      BY <1>0, <1>00, <2>5, <3>1, GotoRuns DEF run_in_vm, At
    <3>2. CASE Set(a, [attempt[a] EXCEPT !.pc = "exec", !.mode = "vm"])
      BY <2>5, <3>2, ExecRuns DEF run_in_vm, At
    <3> QED BY <2>5, <3>1, <3>2 DEF run_in_vm
  <2>6. CASE (run_direct(a) \/ run_with_dmtcp(a)) /\ ~Fails(a)
    BY <2>6, ExecRuns DEF run_direct, run_with_dmtcp, launch, At
  <2> QED
    BY <2>1, <2>2, <2>3, <2>4, <2>5, <2>6 DEF run_start, download_bundle
<1>2. UNCHANGED <<artifacts, job, up, net, client, crashes>> /\ faulty' \in BOOLEAN
  BY DEF run_start, download_bundle, extract_bundle, run_in_vm, run_direct, run_with_dmtcp, launch,
         ExecInv, Types
<1>3. Kept
  BY <1>1, <1>2, RunsKept
<1>4. /\ disk' \in [Machines -> DiskType]
      /\ \A m \in Machines : disk'[m].log <= disk[m].log /\ disk'[m].image >= disk[m].image
  <2>1. CASE UNCHANGED disk
    BY <2>1, AttemptsFinite, ExecutionAssumption DEF ExecInv, Types, DiskType
  <2>2. ASSUME NEW d \in DiskType, disk' = [disk EXCEPT ![On(a)] = d],
               d.image = disk[On(a)].image, d.log \in {0, disk[On(a)].log}
        PROVE  /\ disk' \in [Machines -> DiskType]
               /\ \A m \in Machines :
                    disk'[m].log <= disk[m].log /\ disk'[m].image >= disk[m].image
    <3>1. /\ disk' \in [Machines -> DiskType] /\ disk'[On(a)] = d
          /\ \A m \in Machines \ {On(a)} : disk'[m] = disk[m]
          /\ \A m \in Machines : disk[m].log \in Nat /\ disk[m].image \in Nat
      BY <1>0, <2>2, DiskStep
    <3> QED BY <1>0, <2>2, <3>1
  <2>3. CASE run_start(a) /\ ~UNCHANGED disk
    <3> DEFINE d == [disk[On(a)] EXCEPT !.work_dir = TRUE]
    <3>1. d \in DiskType /\ d.image = disk[On(a)].image /\ d.log = disk[On(a)].log
      BY <1>0 DEF DiskType
    <3>2. disk' = [disk EXCEPT ![On(a)] = d]
      BY <1>0, <2>3 DEF run_start, ExecInv, Types, DiskType
    <3> HIDE DEF d
    <3> QED BY <2>2, <3>1, <3>2
  <2>4. CASE run_direct(a)
    <3> DEFINE x == [SandboxProfile(disk[On(a)]) EXCEPT !.log = 0]
               y == SandboxProfile(disk[On(a)])
    <3>1. /\ x \in DiskType /\ x.image = disk[On(a)].image /\ x.log = 0
          /\ y \in DiskType /\ y.image = disk[On(a)].image /\ y.log = disk[On(a)].log
      <4>1. x \in DiskType /\ y \in DiskType
        BY <1>0, DiskRecords
      <4> QED BY <1>0, <4>1 DEF DiskType, SandboxProfile
    <3>2. disk' = [disk EXCEPT ![On(a)] = x] \/ disk' = [disk EXCEPT ![On(a)] = y]
      BY <1>0, <2>4 DEF run_direct, ExecInv, Types
    <3> HIDE DEF x, y
    <3> QED BY <2>2, <3>1, <3>2
  <2>5. CASE run_with_dmtcp(a)
    <3> DEFINE y == SandboxProfile(disk[On(a)])
    <3>1. y \in DiskType /\ y.image = disk[On(a)].image /\ y.log = disk[On(a)].log
      BY <1>0 DEF DiskType, SandboxProfile
    <3>2. disk' = [disk EXCEPT ![On(a)] = y]
      BY <1>0, <2>5 DEF run_with_dmtcp, launch, open_log_stdio, ExecInv, Types
    <3> HIDE DEF y
    <3> QED BY <2>2, <3>1, <3>2
  <2> QED
    BY <2>1, <2>3, <2>4, <2>5 DEF download_bundle, extract_bundle, run_in_vm
<1>5. LinesPrinted' /\ ImagesKept
  BY <1>3, <1>4, LinesKept DEF ImagesKept
<1>6. \E b \in Attempts : ~At(b, "none")
  BY <1>00
<1>7. crashes' \in 0 .. MaxCrashes
  BY <1>2 DEF ExecInv, Types
<1> QED BY <1>2, <1>3, <1>4, <1>5, <1>6, <1>7, RunnerFrame

\* A unit of work adds a line at most, and counts as progress.
LEMMA WorkKeeps ==
  ASSUME ExecInv, NEW a \in Attempts, Work(a)
  PROVE  ExecInv'
<1> USE DEF At, On, Set
<1>0. /\ attempt[a].pc = "exec" /\ attempt[a] \in AttemptType /\ On(a) \in Machines
      /\ disk[On(a)] \in DiskType /\ ~attempt[a].ok
      /\ attempt[a].progress \in Nat /\ attempt[a].progress < Units
  BY ExecutionAssumption DEF ExecInv, Types, Started, OkRan, Work, AttemptType
<1>1. \E r : Runs(a, r)
  <2> DEFINE r == [attempt[a] EXCEPT !.progress = @ + 1]
  <2>1. r \in AttemptType
    BY <1>0, ExecutionAssumption DEF AttemptType
  <2>2. /\ r.pc = "exec" /\ r.machine = On(a) /\ r.progress = attempt[a].progress + 1
        /\ ~r.ok
    BY <1>0 DEF AttemptType
  <2>3. attempt' = [attempt EXCEPT ![a] = r]
    BY <1>0 DEF Work, ExecInv, Types
  <2> HIDE DEF r
  <2>4. Runs(a, r)
    BY <1>0, <2>1, <2>2, <2>3 DEF Runs
  <2> QED BY <2>4
<1>2. UNCHANGED <<artifacts, job, up, net, client, crashes, faulty>>
  BY DEF Work
<1>3. Kept
  BY <1>1, <1>2, RunsKept
<1>4. /\ \A b \in Attempts : attempt'[b].progress >= attempt[b].progress
      /\ attempt'[a].progress = attempt[a].progress + 1
  BY <1>0, ExecutionAssumption DEF Work, ExecInv, Types, AttemptType
<1> DEFINE t == Total(Progress, Attempts)
<1>5. t \in Int /\ t' \in Int /\ t' >= t + 1
  BY <1>3, <1>4, ProgressGrows DEF ExecInv, Types, Kept
<1>6. t' <= MaxLines
  <2> DEFINE g == Progress'
  <2>1. \A b \in Attempts : g[b] \in Nat /\ g[b] <= Units
    BY <1>3, ExecutionAssumption DEF Progress, Kept, AttemptType
  <2> HIDE DEF g
  <2>2. Total(g, Attempts) <= Units * Cardinality(Attempts)
    BY <2>1, AttemptsFinite, TotalBound, ExecutionAssumption
  <2> QED BY <2>2 DEF g, MaxLines
<1>7. /\ \A m \in Machines : /\ disk[m].log <= t /\ disk[m].log \in Nat /\ disk[m].image \in Nat
                             /\ disk[m] \in DiskType
  BY AttemptsFinite, ExecutionAssumption DEF ExecInv, LinesPrinted, Types, DiskType
<1>8. \A m \in Machines : /\ disk'[m].log \in {disk[m].log, disk[m].log + 1}
                          /\ disk'[m].image = disk[m].image
                          /\ disk'[m] = [disk[m] EXCEPT !.log = disk'[m].log]
  BY <1>0, <1>7 DEF Work, ExecInv, Types, DiskType
<1>9. LinesPrinted'
  <2> HIDE DEF t
  <2>1. ASSUME NEW m \in Machines PROVE disk'[m].log <= t'
    <3>1. disk[m].log <= t /\ disk[m].log \in Nat
      BY <1>7
    <3>2. disk'[m].log = disk[m].log \/ disk'[m].log = disk[m].log + 1
      BY <1>8
    <3> QED BY <1>5, <3>1, <3>2
  <2> QED BY <2>1 DEF LinesPrinted, t
<1>10. disk' \in [Machines -> DiskType]
  <2>1. \A m \in Machines : disk'[m].log \in 0 .. MaxLines
    <3>1. \A m \in Machines : disk'[m].log <= t' /\ disk'[m].log \in Nat
      <4>1. \A m \in Machines : disk'[m].log <= t'
        BY <1>9 DEF LinesPrinted
      <4>2. ASSUME NEW m \in Machines PROVE disk'[m].log \in Nat
        <5>1. disk[m].log \in Nat
          BY <1>7
        <5>2. disk'[m].log = disk[m].log \/ disk'[m].log = disk[m].log + 1
          BY <1>8
        <5> QED BY <5>1, <5>2
      <4> QED BY <4>1, <4>2
    <3> HIDE DEF t
    <3> QED BY <1>5, <1>6, <3>1, AttemptsFinite
  <2>2. \A m \in Machines : disk'[m] \in DiskType
    BY <1>7, <1>8, <2>1 DEF DiskType
  <2>3. disk' = [m \in Machines |-> disk'[m]]
    BY DEF Work, ExecInv, Types
  <2> QED BY <2>2, <2>3
<1>11. ImagesKept
  <2>1. ASSUME NEW m \in Machines PROVE disk'[m].image >= disk[m].image
    <3>1. disk[m].image \in Nat
      BY <1>7
    <3>2. disk'[m].image = disk[m].image
      BY <1>8
    <3> QED BY <3>1, <3>2
  <2> QED BY <2>1 DEF ImagesKept
<1>12. (\E b \in Attempts : ~At(b, "none")) /\ crashes' \in 0 .. MaxCrashes /\ faulty' \in BOOLEAN
  BY <1>0, <1>2 DEF ExecInv, Types
<1> QED BY <1>2, <1>3, <1>9, <1>10, <1>11, <1>12, RunnerFrame

\* The program ends: log and work directory go, the images only with a result.
LEMMA ExitKeeps ==
  ASSUME ExecInv, NEW a \in Attempts, NEW code \in {0, 1},
         run_vm_exit(a, code) \/ run_sandboxed_exit(a, code)
  PROVE  ExecInv'
<1> USE DEF At, On, Set, Exits
<1>0. /\ attempt[a].pc = "exec" /\ attempt[a] \in AttemptType /\ On(a) \in Machines
      /\ disk[On(a)] \in DiskType /\ ~attempt[a].ok /\ (code = 0 => attempt[a].progress = Units)
  BY DEF ExecInv, Types, Started, OkRan, run_vm_exit, run_sandboxed_exit
<1>1. /\ \E r : Runs(a, r)
      /\ attempt'[a].ok <=> code = 0
  <2> DEFINE r == [attempt[a] EXCEPT !.pc = "push", !.ok = (code = 0)]
  <2>1. r \in AttemptType
    BY <1>0 DEF AttemptType
  <2>2. /\ r.pc = "push" /\ r.machine = On(a) /\ r.progress = attempt[a].progress
        /\ r.ok = (code = 0) /\ r.progress \in Int
    BY <1>0, ExecutionAssumption DEF AttemptType
  <2>5. r.ok <=> code = 0
    <3>1. r.ok = (code = 0)
      BY <2>2
    <3> HIDE DEF r
    <3> QED BY <3>1, Zenon
  <2>3. attempt' = [attempt EXCEPT ![a] = r] /\ attempt'[a] = r
    BY <1>0 DEF run_vm_exit, run_sandboxed_exit, ExecInv, Types
  <2> HIDE DEF r
  <2>4. Runs(a, r)
    <3>1. r.pc = "push" /\ r.machine = On(a) /\ r.progress = attempt[a].progress /\ r.progress \in Int
      BY <2>2, Zenon
    <3> QED BY <1>0, <2>1, <2>3, <2>5, <3>1 DEF Runs
  <2> QED BY <2>3, <2>4, <2>5
<1>2. UNCHANGED <<artifacts, job, up, net, client, crashes, faulty>>
  BY DEF run_vm_exit, run_sandboxed_exit
<1>3. Kept
  BY <1>1, <1>2, RunsKept
<1>4. \E d \in DiskType : /\ disk' = [disk EXCEPT ![On(a)] = d] /\ d.log = 0
                          /\ code # 0 => d.image = disk[On(a)].image
  <2>1. CASE run_vm_exit(a, code)
    <3> DEFINE d == [disk[On(a)] EXCEPT !.work_dir = FALSE, !.log = 0]
    <3>1. d \in DiskType /\ d.log = 0 /\ d.image = disk[On(a)].image
      BY <1>0, DiskRecords DEF DiskType
    <3>2. disk' = [disk EXCEPT ![On(a)] = d]
      BY <1>0, <2>1 DEF run_vm_exit, ExecInv, Types, DiskType
    <3> HIDE DEF d
    <3> QED BY <3>1, <3>2
  <2>2. CASE run_sandboxed_exit(a, code)
    <3> DEFINE d == sandbox_cleanup(IF code = 0 THEN dmtcp_cleanup(disk[On(a)]) ELSE disk[On(a)])
    <3>1. d \in DiskType
      BY <1>0, DiskRecords
    <3>2. d.log = 0 /\ (code # 0 => d.image = disk[On(a)].image)
      BY <1>0 DEF DiskType, sandbox_cleanup, dmtcp_cleanup
    <3>3. disk' = [disk EXCEPT ![On(a)] = d]
      BY <1>0, <2>2 DEF run_sandboxed_exit, ExecInv, Types
    <3> HIDE DEF d
    <3> QED BY <3>1, <3>2, <3>3
  <2> QED BY <2>1, <2>2
<1>5. \A m \in Machines : disk[m].log \in Nat /\ disk[m].image \in Nat
  BY AttemptsFinite, ExecutionAssumption DEF ExecInv, Types, DiskType
<1>6. /\ disk' \in [Machines -> DiskType]
      /\ \A m \in Machines : disk'[m].log <= disk[m].log
      /\ code # 0 => \A m \in Machines : disk'[m].image >= disk[m].image
  BY <1>0, <1>4, <1>5 DEF ExecInv, Types
<1>7. LinesPrinted' /\ ImagesKept
  BY <1>1, <1>3, <1>6, LinesKept DEF ImagesKept
<1>8. (\E b \in Attempts : ~At(b, "none")) /\ crashes' \in 0 .. MaxCrashes /\ faulty' \in BOOLEAN
  BY <1>0, <1>2 DEF ExecInv, Types
<1> QED BY <1>2, <1>3, <1>6, <1>7, <1>8, RunnerFrame

-----------------------------------------------------------------------------
(* Steps that leave the disks alone *)

\* A step of the coordinator keeps the invariant if the recorded facts stay.
LEMMA RowFrame ==
  ASSUME ExecInv, Kept, UNCHANGED disk, net' \subseteq net,
         artifacts' \subseteq [hash : Seq(STRING), bundle : Bundles], job' \in JobType,
         up' \subseteq Machines, client' \in ClientType, crashes' \in 0 .. MaxCrashes,
         faulty' \in BOOLEAN,
         net' # {} \/ job'.checkpoint_url => net # {} \/ job.checkpoint_url,
         QueueOK', EndedDone', Shown', CompleteMeansRan', PushedIsPrinted'
  PROVE  ExecInv'
<1> USE DEF ExecInv
<1>1. Types'
  BY DEF Types, Kept
<1>2. LinesPrinted'
  <2>1. /\ disk' \in [Machines -> DiskType]
        /\ \A m \in Machines : disk'[m].log <= disk[m].log
    BY AttemptsFinite DEF Types, DiskType
  <2> QED BY <2>1, LinesKept
<1>3. ReportBacked'
  BY DEF ReportBacked, Kept
<1> QED BY <1>1, <1>2, <1>3 DEF Kept

\* What a complete job or a consumer who was told so relies on stays.
LEMMA CompleteKept ==
  ASSUME ExecInv, Kept,
         job'.state = "complete" => job.state = "complete" /\ job'.provider = job.provider,
         client'.told = "complete" => client.told = "complete" \/ job.state = "complete"
  PROVE  CompleteMeansRan'
<1> USE DEF ExecInv, CompleteMeansRan, Kept, On
<1>1. job'.state = "complete" =>
        \E a \in Attempts : attempt'[a].ok /\ attempt'[a].progress = Units
                              /\ attempt'[a].machine = job'.provider
  OBVIOUS
<1>2. client'.told = "complete" =>
        \E a \in Attempts : attempt'[a].ok /\ attempt'[a].progress = Units
  OBVIOUS
<1> QED BY <1>1, <1>2

\* The hash of a bundle is the sequence of its contents.
LEMMA HashType == ASSUME NEW b \in Bundles PROVE hash_files(b) \in Seq(STRING)
BY ExecutionAssumption DEF hash_files

\* upload_bundle files a bundle under its own hash.
LEMMA UploadKeeps ==
  ASSUME ExecInv, NEW b \in Bundles, upload_bundle(b)
  PROVE  ExecInv'
<1> USE DEF upload_bundle
<1>1. artifacts' \subseteq [hash : Seq(STRING), bundle : Bundles]
  BY HashType DEF upload_artifact, ExecInv, Types
<1>2. Kept
  BY SameKept
<1>3. CompleteMeansRan'
  BY <1>2, CompleteKept
<1>4. QueueOK' /\ EndedDone' /\ Shown' /\ PushedIsPrinted'
  BY DEF ExecInv, QueueOK, EndedDone, Shown, PushedIsPrinted, At
<1> QED BY <1>1, <1>2, <1>3, <1>4, RowFrame DEF ExecInv, Types

\* A new row for a job without attempts and reports.
LEMMA SubmitKeeps ==
  ASSUME ExecInv, NEW b \in Bundles, NEW c \in Clients, NEW script \in Names(b) \cup {NULL},
         submit(c, b, script)
  PROVE  ExecInv'
<1> USE DEF submit
<1>1. artifacts' \subseteq [hash : Seq(STRING), bundle : Bundles]
  BY HashType DEF upload_artifact, ExecInv, Types
<1>2. /\ job.state = "none" /\ net = {} /\ \A a \in Attempts : At(a, "none")
      /\ ~job.checkpoint_url
  BY DEF ExecInv, QueueOK
<1>3. /\ job' \in JobType /\ job'.state = "queued" /\ ~job'.checkpoint_url
      /\ job'.output_log = <<>> /\ job'.ended_by = 0
  <2>1. <<>> \in Seq([by : Attempts, lines : 1 .. MaxLines])
    OBVIOUS
  <2>2. 0 \in 0 .. Units /\ 0 \in 0 .. MaxRestoreAttempts
    BY ExecutionAssumption
  <2>3. script \in {NULL} \cup UNION {Names(x) : x \in Bundles}
    OBVIOUS
  <2> QED BY <2>1, <2>2, <2>3 DEF JobType, NoJob, Terminal
<1>4. Kept
  BY <1>2, SameKept
<1>5. CompleteMeansRan'
  BY <1>3, <1>4, CompleteKept
<1>6. QueueOK' /\ EndedDone'
  BY <1>2, <1>3 DEF ExecInv, QueueOK, EndedDone, At, Attempts
<1>7. Shown' /\ PushedIsPrinted'
  <2>1. Len(job'.output_log) = 0 /\ client'.offset <= 0
    BY <1>2, <1>3 DEF ExecInv, Shown, QueueOK
  <2> QED BY <2>1 DEF ExecInv, Types, ClientType, Shown, PushedIsPrinted
<1> QED BY <1>1, <1>2, <1>3, <1>4, <1>5, <1>6, <1>7, RowFrame DEF ExecInv, Types

\* The consumer cancels, follows the log, or learns the end.
LEMMA ConsumerKeeps ==
  ASSUME ExecInv, cancel_job \/ stream_logs \/ wait_for_completion
  PROVE  ExecInv'
<1> USE DEF get_job, get_job_logs
<1>1. UNCHANGED <<artifacts, attempt, disk, up, net, crashes, faulty>>
  BY DEF cancel_job, stream_logs, wait_for_completion
<1>2. /\ job' \in JobType /\ job'.bundle = job.bundle /\ job'.checkpoint_url = job.checkpoint_url
      /\ job'.output_log = job.output_log /\ job'.ended_by = job.ended_by
      /\ job'.state = job.state \/ job'.state = "cancelled"
      /\ job'.provider = job.provider /\ job'.restore_attempts = job.restore_attempts
  BY DEF cancel_job, stream_logs, wait_for_completion, ExecInv, Types, JobType, Terminal
<1>3. Kept
  BY <1>1, <1>2, SameKept
<1>4. client' \in ClientType
  <2>1. client \in ClientType /\ job \in JobType
    BY DEF ExecInv, Types
  <2>2. CASE cancel_job
    BY <2>1, <2>2 DEF cancel_job
  <2>3. CASE wait_for_completion
    BY <2>1, <2>3 DEF wait_for_completion, ClientType
  <2>4. CASE stream_logs
    <3> DEFINE n == Len(job.output_log)
               st == ~(job.state \in Terminal)
    <3>1. n \in Nat /\ job.ended_by \in {0} \cup Attempts
      BY <2>1 DEF JobType
    <3>2. st \in BOOLEAN
      OBVIOUS
    <3>3. client' = [client EXCEPT !.offset = n, !.streaming = st, !.ended_by = job.ended_by]
      BY <2>4 DEF stream_logs
    <3> HIDE DEF n, st
    <3> QED BY <2>1, <3>1, <3>2, <3>3 DEF ClientType
  <2> QED BY <2>2, <2>3, <2>4
<1>5. QueueOK'
  BY <1>1, <1>2 DEF ExecInv, QueueOK, At
<1>6. EndedDone'
  BY <1>1, <1>2
     DEF cancel_job, stream_logs, wait_for_completion, ExecInv, Types, ClientType, EndedDone, At
<1>7. Shown' /\ PushedIsPrinted'
  <2>1. CASE stream_logs
    <3>1. client'.offset = Len(job.output_log)
      BY <2>1 DEF stream_logs, ExecInv, Types, ClientType
    <3> QED BY <1>2, <2>1, <3>1 DEF stream_logs, ExecInv, Types, JobType, Shown, PushedIsPrinted
  <2>2. CASE cancel_job \/ wait_for_completion
    <3>1. /\ client'.offset = client.offset /\ client'.streaming = client.streaming
          /\ client'.ended_by = client.ended_by
      BY <2>2 DEF cancel_job, wait_for_completion, ExecInv, Types, ClientType
    <3> QED BY <1>2, <3>1 DEF ExecInv, Shown, PushedIsPrinted
  <2> QED BY <2>1, <2>2
<1>8. CompleteMeansRan'
  <2>1. client'.told = "complete" => client.told = "complete" \/ job.state = "complete"
    BY DEF cancel_job, stream_logs, wait_for_completion, ExecInv, Types, ClientType
  <2> QED BY <1>2, <1>3, <2>1, CompleteKept
<1> QED BY <1>1, <1>2, <1>3, <1>4, <1>5, <1>6, <1>7, <1>8, RowFrame DEF ExecInv, Types

\* Auction and watcher: only a job with a checkpoint and a restore to go
\* returns to the queue.
LEMMA LoopsKeep ==
  ASSUME ExecInv, (\E m \in Machines : assign_job(m)) \/ migrate_or_fail_job
  PROVE  ExecInv'
<1>1. UNCHANGED <<artifacts, attempt, disk, up, net, client, crashes>> /\ faulty' \in BOOLEAN
  BY DEF assign_job, migrate_or_fail_job, ExecInv, Types
<1>2. job' \in JobType
  <2>1. CASE \E m \in Machines : assign_job(m)
    <3>1. job.restore_attempts + (IF job.checkpoint_url THEN 1 ELSE 0) \in 0 .. MaxRestoreAttempts
      <4>1. job.restore_attempts \in 0 .. MaxRestoreAttempts
        BY DEF ExecInv, Types, JobType
      <4>2. job.checkpoint_url => job.restore_attempts < MaxRestoreAttempts
        BY <2>1 DEF assign_job, ExecInv, QueueOK
      <4> QED BY <4>1, <4>2, ExecutionAssumption
    <3> QED BY <2>1, <3>1 DEF assign_job, ExecInv, Types, JobType
  <2>2. CASE migrate_or_fail_job
    BY <2>2 DEF migrate_or_fail_job, ExecInv, Types, JobType, Terminal
  <2> QED BY <2>1, <2>2
<1>3. /\ job'.bundle = job.bundle /\ job'.checkpoint_url = job.checkpoint_url
      /\ job'.output_log = job.output_log /\ job'.ended_by = job.ended_by
      /\ job'.state \in {"assigned", "queued", "failed"}
      /\ job'.state = "queued" =>
           job'.checkpoint_url /\ job'.restore_attempts < MaxRestoreAttempts
  BY DEF assign_job, migrate_or_fail_job, ExecInv, Types, JobType
<1>4. Kept
  BY <1>1, <1>3, SameKept
<1>5. QueueOK' /\ EndedDone' /\ Shown' /\ PushedIsPrinted'
  BY <1>1, <1>3 DEF ExecInv, QueueOK, EndedDone, Shown, PushedIsPrinted, At
<1>6. CompleteMeansRan'
  BY <1>1, <1>3, <1>4, CompleteKept
<1> QED BY <1>1, <1>2, <1>3, <1>4, <1>5, <1>6, RowFrame DEF ExecInv, Types

\* A report that arrives, or does not; whoever sent it.
LEMMA SaveCheckpointKeeps ==
  ASSUME ExecInv, NEW p \in net, save_checkpoint(p)
  PROVE  ExecInv'
<1>1. /\ UNCHANGED <<artifacts, attempt, disk, up, client, crashes>> /\ faulty' \in BOOLEAN
      /\ net' \subseteq net /\ net # {} /\ p \in 0 .. Units
  <2>1. p \in 1 .. Units
    BY DEF ExecInv, Types
  <2>2. p \in 0 .. Units
    BY <2>1
  <2> QED BY <2>2 DEF save_checkpoint, ExecInv, Types
<1>2. /\ job' \in JobType /\ job'.bundle = job.bundle /\ job'.state = job.state
      /\ job'.output_log = job.output_log /\ job'.ended_by = job.ended_by
      /\ job'.provider = job.provider /\ job'.restore_attempts = job.restore_attempts
      /\ job.checkpoint_url => job'.checkpoint_url
  BY <1>1 DEF save_checkpoint, ExecInv, Types, JobType
<1>3. Kept
  BY <1>1, <1>2, SameKept
<1>4. QueueOK'
  BY <1>1, <1>2 DEF ExecInv, QueueOK, At
<1>5. EndedDone' /\ Shown' /\ PushedIsPrinted'
  BY <1>1, <1>2 DEF ExecInv, EndedDone, Shown, PushedIsPrinted, At
<1>6. CompleteMeansRan'
  BY <1>1, <1>2, <1>3, CompleteKept
<1> QED BY <1>1, <1>2, <1>3, <1>4, <1>5, <1>6, RowFrame DEF ExecInv, Types

\* The log of an attempt that is about to report is appended.  Nobody ended
\* the job as this attempt yet, so no client waits for these lines in vain.
LEMMA PushKeeps ==
  ASSUME ExecInv, NEW a \in Attempts, push_final_log(a)
  PROVE  ExecInv'
<1>0. /\ attempt[a].pc = "push" /\ On(a) \in Machines /\ disk[On(a)] \in DiskType
      /\ job \in JobType
  BY DEF push_final_log, ExecInv, Types, Started, At, On
<1>1. UNCHANGED <<artifacts, disk, up, net, client, crashes>> /\ faulty' \in BOOLEAN
  BY DEF push_final_log, ExecInv, Types
<1>2. \/ UNCHANGED job
      \/ /\ disk[On(a)].log \in 1 .. MaxLines
         /\ job' = [job EXCEPT !.output_log = Append(@, [by |-> a, lines |-> disk[On(a)].log])]
  <2>1. disk[On(a)].log \in 0 .. MaxLines
    BY <1>0 DEF DiskType
  <2>2. disk[On(a)].log # 0 => disk[On(a)].log \in 1 .. MaxLines
    BY <2>1, AttemptsFinite
  <2> QED BY <2>2 DEF push_final_log, append_job_log
<1>3. /\ job' \in JobType /\ job'.bundle = job.bundle /\ job'.state = job.state
      /\ job'.ended_by = job.ended_by /\ job'.checkpoint_url = job.checkpoint_url
      /\ job'.provider = job.provider /\ job'.restore_attempts = job.restore_attempts
  <2>1. CASE UNCHANGED job
    BY <1>0, <2>1
  <2>2. CASE ~UNCHANGED job
    <3> DEFINE row == [by |-> a, lines |-> disk[On(a)].log]
               log == Append(job.output_log, row)
    <3>1. row \in [by : Attempts, lines : 1 .. MaxLines]
      BY <1>2, <2>2
    <3>2. log \in Seq([by : Attempts, lines : 1 .. MaxLines])
      <4>1. job.output_log \in Seq([by : Attempts, lines : 1 .. MaxLines])
        BY <1>0 DEF JobType
      <4> HIDE DEF row
      <4> QED BY <3>1, <4>1
    <3>3. job' = [job EXCEPT !.output_log = log]
      BY <1>0, <1>2, <2>2 DEF JobType
    <3> HIDE DEF log
    <3> QED BY <1>0, <3>2, <3>3 DEF JobType
  <2> QED BY <2>1, <2>2
<1>4. /\ Len(job'.output_log) >= Len(job.output_log)
      /\ \A i \in 1 .. Len(job'.output_log) :
           IF i <= Len(job.output_log) THEN job'.output_log[i] = job.output_log[i]
           ELSE job'.output_log[i].by = a
  <2>1. job.output_log \in Seq([by : Attempts, lines : 1 .. MaxLines])
    BY <1>0 DEF JobType
  <2>2. CASE UNCHANGED job
    BY <2>1, <2>2
  <2>3. CASE ~UNCHANGED job
    <3>1. job'.output_log = Append(job.output_log, [by |-> a, lines |-> disk[On(a)].log])
      BY <1>0, <1>2, <2>3 DEF JobType
    <3> QED BY <2>1, <3>1
  <2> QED BY <2>2, <2>3
<1>5. Kept /\ attempt'[a].pc = "report" /\ \A b \in Attempts \ {a} : attempt'[b] = attempt[b]
  <2>1. \E r : Runs(a, r)
    BY <1>0, GotoRuns DEF push_final_log, At
  <2>2. attempt'[a].pc = "report" /\ \A b \in Attempts \ {a} : attempt'[b] = attempt[b]
    BY DEF push_final_log, Goto, Set, ExecInv, Types, AttemptType
  <2> QED BY <1>3, <2>1, <2>2, RunsKept
<1>6. QueueOK'
  BY <1>0, <1>1, <1>3 DEF ExecInv, QueueOK, At
<1>7. EndedDone'
  BY <1>0, <1>1, <1>3, <1>5 DEF ExecInv, EndedDone, At
<1>8. Shown' /\ PushedIsPrinted'
  <2>1. client.ended_by # a
    BY <1>0 DEF ExecInv, EndedDone, At
  <2>2. Len(job'.output_log) \in Nat /\ Len(job.output_log) \in Nat /\ client.offset \in Nat
    BY <1>0, <1>3 DEF JobType, ExecInv, Types, ClientType
  <2>3. Shown'
    BY <1>1, <1>4, <2>2 DEF ExecInv, Shown
  <2>4. ASSUME ~client.streaming, NEW i \in 1 .. Len(job'.output_log),
               job'.output_log[i].by = client.ended_by
        PROVE  i <= client.offset
    <3>1. i <= Len(job.output_log) /\ job'.output_log[i] = job.output_log[i]
      BY <1>4, <2>1, <2>4
    <3>2. i \in 1 .. Len(job.output_log)
      BY <2>2, <3>1
    <3> QED BY <2>4, <3>1, <3>2 DEF ExecInv, PushedIsPrinted
  <2> QED BY <1>1, <2>3, <2>4 DEF PushedIsPrinted
<1>9. CompleteMeansRan'
  BY <1>1, <1>3, <1>5, CompleteKept
<1> QED
  BY <1>1, <1>3, <1>5, <1>6, <1>7, <1>8, <1>9, RowFrame DEF ExecInv, Types

\* The report.  Only one without an error makes the job complete, and it is
\* taken from the provider that has the job only.
LEMMA ReportKeeps ==
  ASSUME ExecInv, NEW a \in Attempts, report_completion(a) \/ report_failure(a)
  PROVE  ExecInv'
<1>0. attempt[a].pc = "report" /\ job \in JobType
  BY DEF report_completion, report_failure, ExecInv, Types, At
<1>1. UNCHANGED <<artifacts, disk, up, net, client, crashes>> /\ faulty' \in BOOLEAN
  BY DEF report_completion, report_failure, ExecInv, Types
<1>2. /\ job' \in JobType /\ job'.bundle = job.bundle /\ job'.provider = job.provider
      /\ job'.output_log = job.output_log /\ job'.checkpoint_url = job.checkpoint_url
      /\ job'.restore_attempts = job.restore_attempts
      /\ \/ job'.state = job.state /\ job'.ended_by = job.ended_by
         \/ job'.state = "failed" /\ job'.ended_by = a
         \/ /\ job'.state = "complete" /\ job'.ended_by = a
            /\ attempt[a].ok /\ job.provider = On(a)
  <2>1. CASE UNCHANGED job
    BY <1>0, <2>1
  <2>2. CASE job' = [job EXCEPT !.state = "failed", !.ended_by = a]
    BY <1>0, <2>2 DEF JobType, Terminal
  <2>3. CASE /\ job' = [job EXCEPT !.state = "complete", !.ended_by = a]
             /\ attempt[a].ok /\ job.provider = On(a)
    BY <1>0, <2>3 DEF JobType, Terminal
  <2> QED BY <2>1, <2>2, <2>3 DEF report_completion, report_failure
<1>3. Kept /\ attempt'[a].pc = "done" /\ \A b \in Attempts \ {a} : attempt'[b] = attempt[b]
  <2>1. \E r : Runs(a, r)
    BY <1>0, GotoRuns DEF report_completion, report_failure, At
  <2>2. attempt'[a].pc = "done" /\ \A b \in Attempts \ {a} : attempt'[b] = attempt[b]
    BY DEF report_completion, report_failure, Goto, Set, ExecInv, Types, AttemptType
  <2> QED BY <1>2, <2>1, <2>2, RunsKept
<1>4. QueueOK'
  BY <1>0, <1>1, <1>2 DEF ExecInv, QueueOK, At
<1>5. EndedDone'
  BY <1>0, <1>1, <1>2, <1>3 DEF ExecInv, EndedDone, At
<1>6. Shown' /\ PushedIsPrinted'
  BY <1>1, <1>2 DEF ExecInv, Shown, PushedIsPrinted
<1>7. CompleteMeansRan'
  <2>1. CASE job'.state = job.state \/ job'.state = "failed"
    BY <1>1, <1>2, <1>3, <2>1, CompleteKept
  <2>2. CASE attempt[a].ok /\ job.provider = On(a)
    <3>1. attempt'[a].ok /\ attempt'[a].progress = Units /\ attempt'[a].machine = job'.provider
      BY <1>2, <1>3, <2>2 DEF Kept, ExecInv, OkRan, On
    <3> QED BY <1>1, <3>1 DEF CompleteMeansRan, ExecInv, On
  <2> QED BY <1>2, <2>1, <2>2
<1> QED BY <1>1, <1>2, <1>3, <1>4, <1>5, <1>6, <1>7, RowFrame DEF ExecInv, Types

\* An image, and the report of it.
LEMMA CheckpointKeeps ==
  ASSUME ExecInv, NEW a \in Attempts, checkpoint(a)
  PROVE  ExecInv'
<1> DEFINE p == attempt[a].progress
           d == save_meta(disk[On(a)], p)
<1>0. /\ attempt[a].pc = "exec" /\ On(a) \in Machines /\ p \in 1 .. Units
      /\ disk[On(a)] \in DiskType
  <2>1. attempt[a] \in AttemptType /\ p > 0 /\ attempt[a].pc = "exec"
    BY DEF checkpoint, ExecInv, Types, At
  <2>2. p \in 1 .. Units
    BY <2>1, ExecutionAssumption DEF AttemptType
  <2>3. On(a) \in Machines
    BY <2>1 DEF ExecInv, Started, At
  <2> QED BY <2>1, <2>2, <2>3 DEF ExecInv, Types
<1>1. UNCHANGED <<artifacts, job, attempt, up, client, crashes, faulty>> /\ net' = net \cup {p}
  BY DEF checkpoint, report_checkpoint_to_coordinator
<1>2. disk' = [disk EXCEPT ![On(a)] = d] /\ d \in DiskType
      /\ d.log = disk[On(a)].log /\ d.image = p
  BY <1>0 DEF checkpoint, ExecInv, Types, DiskType, save_meta
<1> HIDE DEF d, p
<1>3. /\ disk' \in [Machines -> DiskType] /\ disk'[On(a)] = d
      /\ \A m \in Machines \ {On(a)} : disk'[m] = disk[m]
      /\ \A m \in Machines : disk[m].log \in Nat
  BY <1>0, <1>2, DiskStep
<1>4. Kept
  BY <1>1, SameKept
<1>5. LinesPrinted'
  BY <1>2, <1>3, <1>4, LinesKept
<1>6. Types'
  BY <1>0, <1>1, <1>3 DEF ExecInv, Types
<1>7. QueueOK'
  BY <1>0, <1>1 DEF ExecInv, QueueOK, At
<1>8. ReportBacked'
  <2>1. disk'[On(a)].image > 0
    BY <1>0, <1>2, <1>3
  <2> QED BY <1>0, <2>1 DEF ReportBacked
<1>9. EndedDone' /\ Shown' /\ PushedIsPrinted'
  BY <1>1 DEF ExecInv, EndedDone, Shown, PushedIsPrinted, At
<1>10. CompleteMeansRan'
  BY <1>1, <1>4, CompleteKept
<1> QED BY <1>4, <1>5, <1>6, <1>7, <1>8, <1>9, <1>10 DEF ExecInv, Kept

\* An attempt is accepted, or the answer to the poll is lost.
LEMMA PollKeeps ==
  ASSUME ExecInv, NEW m \in Machines, NEW a \in Attempts, poll_for_job(m, a)
  PROVE  ExecInv'
<1>0. job \in JobType /\ job.state = "assigned" /\ job.saved \in 0 .. Units
  BY DEF poll_for_job, ExecInv, Types, JobType
<1>1. UNCHANGED <<artifacts, disk, up, net, client, crashes>> /\ faulty' \in BOOLEAN
  BY DEF poll_for_job, ExecInv, Types
<1>2. /\ job' \in JobType /\ job'.bundle = job.bundle /\ job'.state = "running"
      /\ job'.ended_by = job.ended_by /\ job'.checkpoint_url = job.checkpoint_url
      /\ job'.output_log = job.output_log
  BY <1>0 DEF poll_for_job, JobType
<1>3. Kept
  <2>1. CASE UNCHANGED attempt
    BY <1>2, <2>1, SameKept
  <2>2. CASE ~UNCHANGED attempt
    <3> DEFINE r == [NoAttempt EXCEPT !.pc = "start", !.machine = m, !.known = job.saved]
    <3>1. r \in AttemptType /\ r.pc = "start" /\ r.machine = m /\ r.progress = 0 /\ ~r.ok
      <4>1. 0 \in 0 .. Units
        BY ExecutionAssumption
      <4>2. r \in AttemptType
        BY <1>0, <4>1 DEF NoAttempt, AttemptType
      <4>3. r.pc = "start" /\ r.machine = m /\ r.progress = 0
        BY DEF NoAttempt
      <4>4. ~r.ok
        BY DEF NoAttempt
      <4> QED BY <4>2, <4>3, <4>4
    <3>2. attempt[a].pc = "none" /\ attempt' = [attempt EXCEPT ![a] = r]
      BY <2>2 DEF poll_for_job, Set, At
    <3> HIDE DEF r
    <3>3. /\ attempt \in [Attempts -> AttemptType] /\ attempt' \in [Attempts -> AttemptType]
          /\ attempt'[a] = r /\ \A b \in Attempts \ {a} : attempt'[b] = attempt[b]
      BY <3>1, <3>2 DEF ExecInv, Types
    <3>4. attempt[a].progress = 0 /\ ~attempt[a].ok
      BY <3>2 DEF ExecInv, Started, OkRan, At
    <3>5. Started' /\ OkRan'
      BY <1>2, <3>1, <3>3 DEF ExecInv, Started, OkRan, At, On
    <3>6. /\ \A b \in Attempts : attempt[b].ok =>
               /\ attempt'[b].ok /\ attempt'[b].progress = attempt[b].progress
               /\ attempt'[b].machine = attempt[b].machine
          /\ \A b \in Attempts : attempt[b].pc = "done" => attempt'[b].pc = "done"
      BY <3>2, <3>3, <3>4
    <3>7. Total(Progress, Attempts)' >= Total(Progress, Attempts)
      <4>1. \A b \in Attempts : attempt[b].progress \in Nat
        BY <3>3, ExecutionAssumption DEF AttemptType
      <4>2. \A b \in Attempts : attempt'[b].progress >= attempt[b].progress
        BY <3>1, <3>3, <3>4, <4>1
      <4> QED BY <3>3, <4>2, ProgressGrows
    <3> QED BY <3>3, <3>5, <3>6, <3>7 DEF Kept
  <2> QED BY <2>1, <2>2
<1>4. QueueOK' /\ Shown' /\ PushedIsPrinted'
  BY <1>1, <1>2 DEF ExecInv, QueueOK, Shown, PushedIsPrinted
<1>5. EndedDone'
  BY <1>1, <1>2, <1>3 DEF ExecInv, EndedDone, At, Kept
<1>6. CompleteMeansRan'
  BY <1>1, <1>2, <1>3, CompleteKept
<1> QED BY <1>1, <1>2, <1>3, <1>4, <1>5, <1>6, RowFrame DEF ExecInv, Types

\* A crash ends the attempts of a machine where they are.
LEMMA CrashKeeps ==
  ASSUME ExecInv, NEW m \in Machines, Crash(m) \/ Restart(m)
  PROVE  ExecInv'
<1>1. /\ UNCHANGED <<artifacts, job, disk, net, client>> /\ faulty' \in BOOLEAN
      /\ up' \subseteq Machines /\ crashes' \in 0 .. MaxCrashes
  <2>1. crashes' \in 0 .. MaxCrashes
    <3>1. crashes \in 0 .. MaxCrashes
      BY DEF ExecInv, Types
    <3>2. crashes' = crashes \/ (crashes < MaxCrashes /\ crashes' = crashes + 1)
      BY DEF Crash, Restart
    <3> QED BY <3>1, <3>2, ExecutionAssumption
  <2> QED BY <2>1 DEF Crash, Restart, ExecInv, Types
<1>2. \A b \in Attempts :
        \/ attempt'[b] = attempt[b]
        \/ On(b) = m /\ attempt'[b] = [attempt[b] EXCEPT !.pc = "done"]
  BY DEF Crash, Restart
<1>3. \A b \in Attempts : attempt[b] \in AttemptType /\ (At(b, "none") \/ On(b) \in Machines)
  BY DEF ExecInv, Types, Started
<1>4. \A b \in Attempts :
        /\ attempt'[b] \in AttemptType
        /\ attempt'[b].progress = attempt[b].progress /\ attempt'[b].ok = attempt[b].ok
        /\ attempt'[b].machine = attempt[b].machine
        /\ attempt'[b].pc = attempt[b].pc \/ (attempt'[b].pc = "done" /\ On(b) = m)
  <2> SUFFICES ASSUME NEW b \in Attempts
               PROVE  /\ attempt'[b] \in AttemptType
                      /\ attempt'[b].progress = attempt[b].progress /\ attempt'[b].ok = attempt[b].ok
                      /\ attempt'[b].machine = attempt[b].machine
                      /\ attempt'[b].pc = attempt[b].pc \/ (attempt'[b].pc = "done" /\ On(b) = m)
    OBVIOUS
  <2>1. attempt[b] \in AttemptType
    BY <1>3
  <2>2. CASE attempt'[b] = attempt[b]
    BY <2>1, <2>2
  <2>3. CASE On(b) = m /\ attempt'[b] = [attempt[b] EXCEPT !.pc = "done"]
    BY <2>1, <2>3 DEF AttemptType
  <2> QED BY <1>2, <2>2, <2>3
<1>5. Kept
  <2>1. attempt' \in [Attempts -> AttemptType] /\ attempt \in [Attempts -> AttemptType]
    <3>1. attempt' = [b \in Attempts |-> attempt'[b]]
      BY DEF Crash, Restart, ExecInv, Types
    <3> QED BY <1>4, <3>1 DEF ExecInv, Types
  <2>2. Started' /\ OkRan'
    BY <1>1, <1>4 DEF ExecInv, Started, OkRan, At, On
  <2>3. /\ \A b \in Attempts : attempt[b].ok =>
             /\ attempt'[b].ok /\ attempt'[b].progress = attempt[b].progress
             /\ attempt'[b].machine = attempt[b].machine
        /\ \A b \in Attempts : attempt[b].pc = "done" => attempt'[b].pc = "done"
    BY <1>4
  <2>4. Total(Progress, Attempts)' >= Total(Progress, Attempts)
    <3>1. \A b \in Attempts : attempt'[b].progress >= attempt[b].progress
      BY <1>4, <2>1, ExecutionAssumption DEF AttemptType
    <3> QED BY <2>1, <3>1, ProgressGrows
  <2> QED BY <2>1, <2>2, <2>3, <2>4 DEF Kept
<1>6. QueueOK'
  <2>1. ASSUME NEW b \in Attempts, At(b, "none") PROVE attempt'[b].pc = "none"
    <3>1. On(b) # m
      BY <2>1, ExecutionAssumption DEF ExecInv, Started, NULL
    <3> QED BY <1>4, <2>1, <3>1 DEF At
  <2> QED BY <1>1, <2>1 DEF ExecInv, QueueOK, At
<1>7. EndedDone' /\ Shown' /\ PushedIsPrinted'
  BY <1>1, <1>5 DEF ExecInv, EndedDone, Shown, PushedIsPrinted, At, Kept
<1>8. CompleteMeansRan'
  BY <1>1, <1>5, CompleteKept
<1> QED BY <1>1, <1>5, <1>6, <1>7, <1>8, RowFrame DEF ExecInv, Types

-----------------------------------------------------------------------------
(* The theorems *)

\* Before the job is submitted the invariant holds.
LEMMA InitExecInv == Init => ExecInv
<1> SUFFICES ASSUME Init PROVE ExecInv
  OBVIOUS
<1> USE DEF Init
<1>0. 0 \in 0 .. Units /\ 0 \in 0 .. MaxLines /\ 0 \in 0 .. MaxRestoreAttempts /\ 0 \in 0 .. MaxCrashes
  BY AttemptsFinite, ExecutionAssumption
<1>1. Types
  <2>1. NoJob \in JobType
    <3>1. <<>> \in Seq([by : Attempts, lines : 1 .. MaxLines])
      OBVIOUS
    <3> QED BY <1>0, <3>1 DEF NoJob, JobType
  <2>2. NoAttempt \in AttemptType /\ NoFiles \in DiskType
    BY <1>0 DEF NoAttempt, AttemptType, NoFiles, DiskType
  <2>3. client \in ClientType
    BY DEF ClientType
  <2> QED BY <1>0, <2>1, <2>2, <2>3 DEF Types
<1>2. Started /\ OkRan /\ QueueOK
  BY DEF Started, OkRan, QueueOK, At, On, NoAttempt, NoJob
<1>3. LinesPrinted
  <2>1. \A a \in Attempts : Progress[a] = 0
    BY DEF Progress, NoAttempt
  <2>2. Total(Progress, Attempts) = 0
    BY <2>1, AttemptsFinite, TotalZero
  <2> QED BY <2>2 DEF LinesPrinted, NoFiles
<1>4. ReportBacked /\ EndedDone /\ Shown /\ CompleteMeansRan /\ PushedIsPrinted
  BY DEF ReportBacked, EndedDone, Shown, CompleteMeansRan, PushedIsPrinted, NoJob, Attempts, NULL
<1> QED BY <1>1, <1>2, <1>3, <1>4 DEF ExecInv

\* Every step keeps it.
LEMMA NextExecInv == ExecInv /\ [Next]_vars => ExecInv'
<1> SUFFICES ASSUME ExecInv, [Next]_vars PROVE ExecInv'
  OBVIOUS
<1>1. CASE ConsumerStep
  BY <1>1, UploadKeeps, SubmitKeeps, ConsumerKeeps DEF ConsumerStep
<1>2. CASE CoordinatorStep
  BY <1>2, LoopsKeep, SaveCheckpointKeeps DEF CoordinatorStep
<1>3. ASSUME NEW a \in Attempts, RunnerStep(a) \/ Work(a) \/ checkpoint(a)
      PROVE  ExecInv'
  BY <1>3, PrepareKeeps, ExitKeeps, PushKeeps, ReportKeeps, WorkKeeps, CheckpointKeeps DEF RunnerStep
<1>4. ASSUME NEW m \in Machines, Crash(m) \/ Restart(m) \/ \E a \in Attempts : poll_for_job(m, a)
      PROVE  ExecInv'
  BY <1>4, CrashKeeps, PollKeeps
<1>5. CASE UNCHANGED vars
  <2> USE DEF vars
  <2>1. Kept
    BY <1>5, SameKept
  <2>2. QueueOK' /\ EndedDone' /\ Shown' /\ CompleteMeansRan' /\ PushedIsPrinted'
    BY <1>5 DEF ExecInv, QueueOK, EndedDone, Shown, CompleteMeansRan, PushedIsPrinted, At, On
  <2> QED BY <1>5, <2>1, <2>2, RowFrame DEF ExecInv, Types
<1> QED BY <1>1, <1>2, <1>3, <1>4, <1>5 DEF Next

\* What each attempt has behind it, and what job row, disks and client know of
\* it, fit together in every reachable state.
THEOREM ExecutionInvariant == Spec => []ExecInv
<1> QED BY InitExecInv, NextExecInv, PTL DEF Spec

\* Rows, disks and records keep their types; no log grows beyond a line for
\* each unit of work of each attempt.
THEOREM ExecutionTypeCorrect == Spec => []TypeOK
<1>1. ExecInv => TypeOK
  <2> SUFFICES ASSUME ExecInv PROVE TypeOK
    OBVIOUS
  <2> USE DEF ExecInv, Types
  <2>1. \A r \in artifacts : r.hash \in Seq(STRING) /\ r.bundle \in Bundles
    OBVIOUS
  <2>2. /\ job.state \in {"none", "queued", "assigned", "running"} \cup Terminal
        /\ job.provider \in Machines \cup {NULL}
        /\ job.restore_attempts \in 0 .. MaxRestoreAttempts
        /\ job.saved \in 0 .. Units
    BY DEF JobType
  <2>3. \A i \in 1 .. Len(job.output_log) :
          job.output_log[i].lines \in 1 .. (Units * Cardinality(Attempts))
    <3>1. job.output_log \in Seq([by : Attempts, lines : 1 .. MaxLines])
      BY DEF JobType
    <3>2. ASSUME NEW i \in 1 .. Len(job.output_log)
          PROVE  job.output_log[i].lines \in 1 .. MaxLines
      <4> DEFINE Row == [by : Attempts, lines : 1 .. MaxLines]
      <4>1. \A x \in Row : x.lines \in 1 .. MaxLines
        OBVIOUS
      <4>2. job.output_log \in Seq(Row)
        BY <3>1
      <4> HIDE DEF Row
      <4>3. job.output_log[i] \in Row
        BY <4>2
      <4> QED BY <4>1, <4>3
    <3> QED BY <3>2 DEF MaxLines
  <2>4. \A a \in Attempts :
          /\ attempt[a].pc \in {"none", "start", "download", "extract", "launch", "sandbox", "exec",
                                "push", "report", "done"}
          /\ attempt[a].machine \in Machines \cup {NULL}
          /\ attempt[a].mode \in {NULL, "vm", "direct", "dmtcp"}
          /\ attempt[a].progress \in 0 .. Units
    BY DEF AttemptType
  <2>5. disk \in [Machines -> [work_dir : BOOLEAN, log : 0 .. (Units * Cardinality(Attempts)),
                               profile : BOOLEAN, image : 0 .. Units]]
    BY DEF DiskType, MaxLines
  <2>6. /\ client.offset \in 0 .. Len(job.output_log) /\ client.streaming \in BOOLEAN
        /\ client.told \in {NULL} \cup Terminal
    <3>1. Len(job.output_log) \in Nat
      BY DEF JobType
    <3>2. client.offset \in Nat /\ client.streaming \in BOOLEAN /\ client.told \in {NULL} \cup Terminal
      BY DEF ClientType
    <3> QED BY <3>1, <3>2 DEF Shown
  <2>7. DOMAIN attempt = Attempts
    OBVIOUS
  <2> QED BY <2>1, <2>2, <2>3, <2>4, <2>5, <2>6, <2>7 DEF TypeOK
<1> QED BY <1>1, ExecutionInvariant, PTL

\* A recorded checkpoint is backed by an image, across crashes, migrations and
\* late reports, until an attempt has run to its end (run_sandboxed).
THEOREM CheckpointsAreBacked == Spec => []CheckpointBacked
<1>1. ExecInv => CheckpointBacked
  BY DEF ExecInv, ReportBacked, CheckpointBacked
<1> QED BY <1>1, ExecutionInvariant, PTL

\* "complete" is said of a job only when an attempt ran its whole program
\* without an error (report_completion, complete_job, wait_for_completion).
THEOREM CompletionIsReal == Spec => []CompleteMeansRan
<1>1. ExecInv => CompleteMeansRan
  BY DEF ExecInv
<1> QED BY <1>1, ExecutionInvariant, PTL

\* A client that stopped following the log has printed every log that the
\* attempt which ended the job pushed (push_final_log comes before the report).
THEOREM PushedLogIsPrinted == Spec => []PushedIsPrinted
<1>1. ExecInv => PushedIsPrinted
  BY DEF ExecInv
<1> QED BY <1>1, ExecutionInvariant, PTL
=============================================================================
