---------------------------- MODULE JobExecution ----------------------------
(***************************************************************************)
(* What happens to one job outside the coordinator's tables: a client      *)
(* stores its bundle and submits it, agents download, check and execute    *)
(* it (JobRunner), take DMTCP checkpoints, push the log and report, and    *)
(* the client follows the log and waits for the end.                       *)
(*                                                                         *)
(* An attempt is one task spawned by idle_monitor for an accepted job.  An *)
(* agent may accept the job again while an earlier task is still running,  *)
(* so attempts share their machine's disk.  Auction and watcher appear as  *)
(* what they do to the job row; Matching has their statements.  The        *)
(* answer to a poll has no checkpoint_url, so that run_restore is never    *)
(* called.  A bundle is a sequence of <<name, content>>, sorted by name.   *)
(***************************************************************************)
EXTENDS Integers, Sequences, FiniteSets

CONSTANTS
  Machines,
  HasVm, HasDmtcp,    \* machines with nm-vm-helper, with dmtcp_launch
  Bundles,            \* bundles consumers pack
  Clients,            \* "cli", "api", "dashboard"
  ScriptNames,        \* names find_entry_script takes: its candidates, any .py
  Units,              \* work units of the program
  MaxRestoreAttempts, \* 3 in the code
  MaxCrashes          \* bound

ASSUME ExecutionAssumption ==
  /\ "null" \notin Machines /\ HasVm \subseteq Machines /\ HasDmtcp \subseteq Machines
  /\ Bundles \subseteq Seq(STRING \X STRING)
  /\ Clients \subseteq {"cli", "api", "dashboard"}
  /\ Units \in Nat \ {0} /\ MaxRestoreAttempts \in Nat /\ MaxCrashes \in Nat

NULL     == "null"
Attempts == 1 .. (MaxRestoreAttempts + 1)
Terminal == {"complete", "failed", "cancelled"}

VARIABLES
  artifacts,   \* artifacts table: rows [hash, bundle]
  job,         \* the jobs row
  attempt,     \* attempts, in the order of their start
  disk,        \* machine -> files it keeps for the job
  up,          \* machines whose agent is running
  net,         \* checkpoint reports on their way
  client,      \* what the consumer's terminal has shown
  crashes,     \* bound: crashes so far
  faulty       \* history: a crash, a lost poll or report, or the watcher took the job

vars == <<artifacts, job, attempt, disk, up, net, client, crashes, faulty>>

\* bundle is what the consumer means, hash and url what the row says;
\* saved is the furthest progress a recorded checkpoint holds, ended_by the
\* attempt whose report ended the job (both history).
NoJob == [state |-> "none", client |-> NULL, bundle |-> <<>>, script |-> NULL,
          provider |-> NULL, checkpoint_url |-> FALSE, saved |-> 0, restore_attempts |-> 0,
          output_log |-> <<>>, ended_by |-> 0]

NoAttempt == [pc |-> "none", machine |-> NULL, files |-> <<>>, mode |-> NULL, progress |-> 0,
              known |-> 0, ok |-> FALSE]

NoFiles == [work_dir |-> FALSE, log |-> 0, profile |-> FALSE, image |-> 0]

TypeOK ==
  /\ \A r \in artifacts : r.hash \in Seq(STRING) /\ r.bundle \in Bundles
  /\ job.state \in {"none", "queued", "assigned", "running"} \cup Terminal
  /\ job.provider \in Machines \cup {NULL}
  /\ job.restore_attempts \in 0 .. MaxRestoreAttempts
  /\ job.saved \in 0 .. Units
  /\ \A i \in 1 .. Len(job.output_log) : job.output_log[i].lines \in 1 .. (Units * Cardinality(Attempts))
  /\ DOMAIN attempt = Attempts
  /\ \A a \in Attempts :
       /\ attempt[a].pc \in {"none", "start", "download", "extract", "launch", "sandbox", "exec",
                             "push", "report", "done"}
       /\ attempt[a].machine \in Machines \cup {NULL}
       /\ attempt[a].mode \in {NULL, "vm", "direct", "dmtcp"}
       /\ attempt[a].progress \in 0 .. Units
  /\ disk \in [Machines -> [work_dir : BOOLEAN, log : 0 .. (Units * Cardinality(Attempts)),
                            profile : BOOLEAN, image : 0 .. Units]]
  /\ up \subseteq Machines
  /\ client.offset \in 0 .. Len(job.output_log)
  /\ client.streaming \in BOOLEAN
  /\ client.told \in {NULL} \cup Terminal
  /\ crashes \in 0 .. MaxCrashes
  /\ faulty \in BOOLEAN

Init ==
  /\ artifacts = {}
  /\ job = NoJob
  /\ attempt = [a \in Attempts |-> NoAttempt]
  /\ disk = [m \in Machines |-> NoFiles]
  /\ up = Machines
  /\ net = {}
  /\ client = [offset |-> 0, streaming |-> TRUE, ended_by |-> 0, told |-> NULL]
  /\ crashes = 0
  /\ faulty = FALSE

-----------------------------------------------------------------------------
(* Artifacts and submission *)

\* The per-file hashes are combined in the order of the names; the names
\* themselves do not enter.
hash_files(b) == [i \in 1 .. Len(b) |-> b[i][2]]

\* ON CONFLICT (hash) DO NOTHING.
upload_artifact(hash, b) ==
  artifacts' = IF \E r \in artifacts : r.hash = hash THEN artifacts
               ELSE artifacts \cup {[hash |-> hash, bundle |-> b]}

\* What is stored under a hash.
download_artifact(hash) == (CHOOSE r \in artifacts : r.hash = hash).bundle

\* Another consumer's bundle; one is enough.
upload_bundle(b) ==
  /\ job.state = "none" /\ artifacts = {}
  /\ upload_artifact(hash_files(b), b)
  /\ UNCHANGED <<job, attempt, disk, up, net, client, crashes, faulty>>

Names(b) == {b[i][1] : i \in 1 .. Len(b)}

\* The CLI hashes, uploads and submits, naming its script; a client of the
\* API hosts the bundle itself and gives its SHA-256 or no hash; the
\* dashboard submits without a bundle.  Where the store is not used it is empty.
submit(c, b, script) ==
  /\ job.state = "none" /\ c \in Clients
  /\ IF c = "cli" THEN script \in Names(b) /\ upload_artifact(hash_files(b), b)
                  ELSE script = NULL /\ artifacts = {} /\ UNCHANGED artifacts
  /\ job' = [NoJob EXCEPT !.state = "queued", !.client = c, !.script = script,
                        !.bundle = IF c = "dashboard" THEN <<>> ELSE b]
  /\ UNCHANGED <<attempt, disk, up, net, client, crashes, faulty>>

\* The consumer cancels a job that is not terminal; no agent is told.
cancel_job ==
  /\ job.state \in {"queued", "assigned", "running"}
  /\ job' = [job EXCEPT !.state = "cancelled"]
  /\ UNCHANGED <<artifacts, attempt, disk, up, net, client, crashes, faulty>>

\* The answer to a request for the log from an offset on: where the log ends
\* and whether the job has, read in one statement.
get_job_logs == [offset |-> Len(job.output_log), is_complete |-> job.state \in Terminal]

\* One round of `hatch job logs --follow`.
stream_logs ==
  /\ client.streaming /\ job.state # "none"
  /\ client' = [client EXCEPT !.offset = get_job_logs.offset,
                              !.streaming = ~get_job_logs.is_complete,
                              !.ended_by = job.ended_by]
  /\ client' # client
  /\ UNCHANGED <<artifacts, job, attempt, disk, up, net, crashes, faulty>>

\* What of a job's row `--wait` looks at.
get_job == job.state

\* `--wait` ends in a terminal state and prints it.
wait_for_completion ==
  /\ client.told = NULL /\ get_job \in Terminal
  /\ client' = [client EXCEPT !.told = get_job]
  /\ UNCHANGED <<artifacts, job, attempt, disk, up, net, crashes, faulty>>

-----------------------------------------------------------------------------
(* The coordinator's loops *)

assign_job(m) ==
  /\ job.state = "queued"
  /\ job' = [job EXCEPT !.state = "assigned", !.provider = m,
                        !.restore_attempts = @ + IF job.checkpoint_url THEN 1 ELSE 0]
  /\ UNCHANGED <<artifacts, attempt, disk, up, net, client, crashes, faulty>>

\* Mutant: one restore too many.
migrate_or_fail_job_le ==
  /\ job.state \in {"assigned", "running"}
  /\ job' = IF job.checkpoint_url /\ job.restore_attempts <= MaxRestoreAttempts
            THEN [job EXCEPT !.state = "queued", !.provider = NULL]
            ELSE [job EXCEPT !.state = "failed"]
  /\ faulty' = TRUE
  /\ UNCHANGED <<artifacts, attempt, disk, up, net, client, crashes>>

\* The provider has not been heard of for a while, which does not mean that
\* it stopped.
migrate_or_fail_job ==
  /\ job.state \in {"assigned", "running"}
  /\ job' = IF job.checkpoint_url /\ job.restore_attempts < MaxRestoreAttempts
            THEN [job EXCEPT !.state = "queued", !.provider = NULL]
            ELSE [job EXCEPT !.state = "failed"]
  /\ faulty' = TRUE
  /\ UNCHANGED <<artifacts, attempt, disk, up, net, client, crashes>>

-----------------------------------------------------------------------------
(* The agent: polling and JobRunner::run *)

On(a) == attempt[a].machine
At(a, pc) == attempt[a].pc = pc
Set(a, rec) == attempt' = [attempt EXCEPT ![a] = rec]
Goto(a, pc) == Set(a, [attempt[a] EXCEPT !.pc = pc])
Fails(a) == Set(a, [attempt[a] EXCEPT !.pc = "push", !.ok = FALSE])

\* The job becomes running; the answer may not arrive.
poll_for_job(m, a) ==
  /\ m \in up /\ job.state = "assigned" /\ job.provider = m
  /\ job' = [job EXCEPT !.state = "running"]
  /\ \/ /\ At(a, "none") /\ \A b \in Attempts : b < a => ~At(b, "none")
        /\ Set(a, [NoAttempt EXCEPT !.pc = "start", !.machine = m, !.known = job.saved])
        /\ UNCHANGED faulty
     \/ faulty' = TRUE /\ UNCHANGED attempt
  /\ UNCHANGED <<artifacts, disk, up, net, client, crashes>>

\* Neither a bundle_url nor, ever, a checkpoint_url; else the work directory.
run_start(a) ==
  /\ At(a, "start")
  /\ IF job.client = "dashboard" THEN Fails(a) /\ UNCHANGED disk
     ELSE Goto(a, "download") /\ disk' = [disk EXCEPT ![On(a)].work_dir = TRUE]
  /\ UNCHANGED <<artifacts, job, up, net, client, crashes, faulty>>

\* What curl gets from bundle_url.
Fetched == IF job.client = "cli" THEN download_artifact(hash_files(job.bundle)) ELSE job.bundle

\* The hash of an API client is empty or the SHA-256 of the file it hosts;
\* what hash_files of the CLI makes is no SHA-256.
HashMatches(b) == job.client = "api" /\ b = job.bundle

\* Another hash is an error, and the download itself may fail.
download_bundle(a) ==
  /\ At(a, "download")
  /\ \/ /\ HashMatches(Fetched)
        /\ Set(a, [attempt[a] EXCEPT !.pc = "extract", !.files = Fetched])
     \/ Fails(a)
  /\ UNCHANGED <<artifacts, job, disk, up, net, client, crashes, faulty>>

\* The named script, or else one that the scan finds.
find_entry_script(b) == job.script \in Names(b) \/ Names(b) \cap ScriptNames # {}

\* The helpers are looked for when they are needed.
is_available(m) == m \in HasVm
is_dmtcp_available(m) == m \in HasDmtcp

\* The work directory may be gone: another attempt's end removes it.
extract_bundle(a) ==
  /\ At(a, "extract")
  /\ IF disk[On(a)].work_dir /\ find_entry_script(attempt[a].files)
     THEN Goto(a, IF is_available(On(a)) THEN "launch" ELSE "sandbox") ELSE Fails(a)
  /\ UNCHANGED <<artifacts, job, disk, up, net, client, crashes, faulty>>

\* The VM starts, or the runner falls back to sandbox-exec.
run_in_vm(a) ==
  /\ At(a, "launch")
  /\ \/ Set(a, [attempt[a] EXCEPT !.pc = "exec", !.mode = "vm"])
     \/ Goto(a, "sandbox")
  /\ UNCHANGED <<artifacts, job, disk, up, net, client, crashes, faulty>>

\* SandboxProfile::new makes the directory, should it be gone.
SandboxProfile(d) == [d EXCEPT !.work_dir = TRUE, !.profile = TRUE]

\* File::create truncates the log.
run_direct(a) ==
  /\ At(a, "sandbox") /\ ~is_dmtcp_available(On(a))
  /\ \/ /\ Set(a, [attempt[a] EXCEPT !.pc = "exec", !.mode = "direct"])
        /\ disk' = [disk EXCEPT ![On(a)] = [SandboxProfile(@) EXCEPT !.log = 0]]
     \/ Fails(a) /\ disk' = [disk EXCEPT ![On(a)] = SandboxProfile(@)]
  /\ UNCHANGED <<artifacts, job, up, net, client, crashes, faulty>>

\* open_log_stdio opens the log to append: what it holds stays.
open_log_stdio(d) == d

\* DmtcpSession::launch: a new session starts the program from its beginning,
\* and keeps the images an earlier one left in the job's directory.
launch(a) ==
  /\ disk' = [disk EXCEPT ![On(a)] = open_log_stdio(SandboxProfile(@))]
  /\ Set(a, [attempt[a] EXCEPT !.pc = "exec", !.mode = "dmtcp"]) \/ Fails(a)

run_with_dmtcp(a) ==
  /\ At(a, "sandbox") /\ is_dmtcp_available(On(a))
  /\ launch(a)
  /\ UNCHANGED <<artifacts, job, up, net, client, crashes, faulty>>

\* The program does a unit of work and prints a line.  The output of a VM is
\* kept in memory; a line to a removed log is lost.
Work(a) ==
  /\ At(a, "exec") /\ attempt[a].progress < Units
  /\ Set(a, [attempt[a] EXCEPT !.progress = @ + 1])
  /\ disk' = IF attempt[a].mode = "vm" \/ ~disk[On(a)].work_dir THEN disk
             ELSE [disk EXCEPT ![On(a)].log = @ + 1]
  /\ UNCHANGED <<artifacts, job, up, net, client, crashes, faulty>>

\* The program ends: well, after all its work, or with an error.
Exits(a, code) == At(a, "exec") /\ (code = 0 => attempt[a].progress = Units)

\* The end of the VM branch of run.
run_vm_exit(a, code) ==
  /\ Exits(a, code) /\ attempt[a].mode = "vm"
  /\ disk' = [disk EXCEPT ![On(a)].work_dir = FALSE, ![On(a)].log = 0]
  /\ Set(a, [attempt[a] EXCEPT !.pc = "push", !.ok = (code = 0)])
  /\ UNCHANGED <<artifacts, job, up, net, client, crashes, faulty>>

\* Working directory, log and profile go; the directory of the checkpoints goes.
sandbox_cleanup(d) == [d EXCEPT !.work_dir = FALSE, !.log = 0, !.profile = FALSE]
dmtcp_cleanup(d)   == [d EXCEPT !.image = 0]

\* Mutant: an error code is handed on as a result.
run_sandboxed_exit_any(a, code) ==
  /\ Exits(a, code) /\ attempt[a].mode # "vm"
  /\ disk' = [disk EXCEPT ![On(a)] =
                sandbox_cleanup(IF code = 0 THEN dmtcp_cleanup(@) ELSE @)]
  /\ Set(a, [attempt[a] EXCEPT !.pc = "push", !.ok = TRUE])
  /\ UNCHANGED <<artifacts, job, up, net, client, crashes, faulty>>

\* Mutant: the checkpoints are removed after an error, too.
run_sandboxed_exit_cleanup(a, code) ==
  /\ Exits(a, code) /\ attempt[a].mode # "vm"
  /\ disk' = [disk EXCEPT ![On(a)] = sandbox_cleanup(dmtcp_cleanup(@))]
  /\ Set(a, [attempt[a] EXCEPT !.pc = "push", !.ok = (code = 0)])
  /\ UNCHANGED <<artifacts, job, up, net, client, crashes, faulty>>

\* The end of run_sandboxed: the ticker stops, after success the checkpoints
\* go, and the sandbox with work directory and log.
run_sandboxed_exit(a, code) ==
  /\ Exits(a, code) /\ attempt[a].mode # "vm"
  /\ disk' = [disk EXCEPT ![On(a)] =
                sandbox_cleanup(IF code = 0 THEN dmtcp_cleanup(@) ELSE @)]
  /\ Set(a, [attempt[a] EXCEPT !.pc = "push", !.ok = (code = 0)])
  /\ UNCHANGED <<artifacts, job, up, net, client, crashes, faulty>>

\* The request may still be on its way when its task is aborted.
report_checkpoint_to_coordinator(p) == net' = net \cup {p}

\* The image DMTCP writes over the one before, with the CheckpointMeta of it.
save_meta(d, p) == [d EXCEPT !.image = p]

\* One tick of spawn_checkpoint_ticker; a tick without success does nothing.
checkpoint(a) ==
  /\ At(a, "exec") /\ attempt[a].mode = "dmtcp" /\ attempt[a].progress > 0
  /\ disk' = [disk EXCEPT ![On(a)] = save_meta(@, attempt[a].progress)]
  /\ report_checkpoint_to_coordinator(attempt[a].progress)
  /\ <<disk', net'>> # <<disk, net>>
  /\ UNCHANGED <<artifacts, job, attempt, up, client, crashes, faulty>>

\* Whatever the state of the job and whoever sends it.  It may get lost.
save_checkpoint(p) ==
  /\ p \in net
  /\ net' = net \ {p}
  /\ \/ job' = [job EXCEPT !.checkpoint_url = TRUE, !.saved = IF p > @ THEN p ELSE @]
     \/ UNCHANGED job
  /\ UNCHANGED <<artifacts, attempt, disk, up, client, crashes, faulty>>

-----------------------------------------------------------------------------
(* The agent: log and report *)

\* append_job_log, if there is a log.
append_job_log(a) ==
  job' = IF disk[On(a)].log = 0 THEN job
         ELSE [job EXCEPT !.output_log = Append(@, [by |-> a, lines |-> disk[On(a)].log])]

\* An error is ignored.
push_final_log(a) ==
  /\ At(a, "push")
  /\ Goto(a, "report")
  /\ append_job_log(a) \/ UNCHANGED job
  /\ UNCHANGED <<artifacts, disk, up, net, client, crashes, faulty>>

\* complete_job answers 404 unless the job is this provider's.
report_completion(a) ==
  /\ At(a, "report") /\ attempt[a].ok
  /\ Goto(a, "done")
  /\ \/ /\ job' = IF job.provider = On(a) 
                 THEN [job EXCEPT !.state = "complete", !.ended_by = a] ELSE job
        /\ UNCHANGED faulty
     \/ faulty' = TRUE /\ UNCHANGED job
  /\ UNCHANGED <<artifacts, disk, up, net, client, crashes>>

\* Mutant: the failure is reported before the log is pushed.
report_failure_first(a) ==
  /\ attempt[a].pc \in {"push", "report"} /\ ~attempt[a].ok
  /\ IF At(a, "report") THEN Goto(a, "done") ELSE UNCHANGED attempt
  /\ job' = [job EXCEPT !.state = "failed", !.ended_by = a]
  /\ job' # job \/ At(a, "report")
  /\ UNCHANGED <<artifacts, disk, up, net, client, crashes, faulty>>


\* fail_job does not ask whose job it is.
report_failure(a) ==
  /\ At(a, "report") /\ ~attempt[a].ok
  /\ Goto(a, "done")
  /\ \/ job' = [job EXCEPT !.state = "failed", !.ended_by = a] /\ UNCHANGED faulty
     \/ UNCHANGED job /\ faulty' = TRUE
  /\ UNCHANGED <<artifacts, disk, up, net, client, crashes>>

\* The machine stops with all it runs; its disk survives.
Crash(m) ==
  /\ m \in up /\ crashes < MaxCrashes
  /\ up' = up \ {m}
  /\ attempt' = [a \in Attempts |-> IF On(a) = m THEN [attempt[a] EXCEPT !.pc = "done"] ELSE attempt[a]]
  /\ crashes' = crashes + 1
  /\ faulty' = TRUE
  /\ UNCHANGED <<artifacts, job, disk, net, client>>

Restart(m) ==
  /\ m \notin up
  /\ up' = up \cup {m}
  /\ UNCHANGED <<artifacts, job, attempt, disk, net, client, crashes, faulty>>

ConsumerStep ==
  \/ \E b \in Bundles :
       \/ upload_bundle(b)
       \/ \E c \in Clients, s \in Names(b) \cup {NULL} : submit(c, b, s)
  \/ cancel_job
  \/ stream_logs
  \/ wait_for_completion

RunnerStep(a) ==
  \/ run_start(a) \/ download_bundle(a) \/ extract_bundle(a)
  \/ run_in_vm(a) \/ run_direct(a) \/ run_with_dmtcp(a)
  \/ \E code \in {0, 1} : run_vm_exit(a, code) \/ run_sandboxed_exit(a, code)
  \/ push_final_log(a) \/ report_completion(a) \/ report_failure(a)

CoordinatorStep ==
  \/ \E m \in Machines : assign_job(m)
  \/ migrate_or_fail_job
  \/ \E p \in net : save_checkpoint(p)

Next ==
  \/ ConsumerStep
  \/ CoordinatorStep
  \/ \E a \in Attempts : RunnerStep(a) \/ Work(a) \/ checkpoint(a)
  \/ \E m \in Machines : Crash(m) \/ Restart(m) \/ \E a \in Attempts : poll_for_job(m, a)

Spec == Init /\ [][Next]_vars

\* The auction runs every cycle and agents poll; a task runs on; a program
\* ends (nothing stops it after max_duration_secs).
FairSpec ==
  /\ Spec
  /\ WF_vars(\E m \in Machines : assign_job(m))
  /\ WF_vars(\E m \in Machines, a \in Attempts : poll_for_job(m, a))
  /\ \A a \in Attempts : WF_vars(RunnerStep(a))

-----------------------------------------------------------------------------
(* Properties *)

\* While a job that recorded a checkpoint may still be migrated, some machine
\* has an image, unless an attempt has already run to its end and removed it.
CheckpointBacked ==
  job.checkpoint_url =>
    \/ \E m \in Machines : disk[m].image > 0
    \/ \E a \in Attempts : attempt[a].ok

\* Neither the job row nor the CLI says "complete" unless an attempt has
\* executed the whole program without an error, and the row names its machine.
CompleteMeansRan ==
  /\ job.state = "complete" =>
       \E a \in Attempts : attempt[a].ok /\ attempt[a].progress = Units /\ On(a) = job.provider
  /\ client.told = "complete" => \E a \in Attempts : attempt[a].ok /\ attempt[a].progress = Units

\* `logs --follow` stops in a terminal state (push_final_log comes before the
\* report, in a request of its own).  By then it has printed every log that the
\* attempt which ended the job pushed.  Not its output: run removes the work
\* directory before push_final_log reads the log, so that what is pushed is what
\* another attempt, crashed or still running, has written on the machine.
PushedIsPrinted ==
  ~client.streaming =>
    \A i \in 1 .. Len(job.output_log) :
      job.output_log[i].by = client.ended_by => i <= client.offset


\* "restore from checkpoint via dmtcp_restart -> job continues from last
\* checkpoint": an attempt on a job with a recorded checkpoint starts there.
ResumesFromCheckpoint ==
  [][\A a \in Attempts : ~At(a, "exec") /\ At(a, "exec")' =>
        attempt'[a].progress >= attempt'[a].known]_vars
=============================================================================
