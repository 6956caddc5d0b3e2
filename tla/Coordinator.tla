---------------------------- MODULE Coordinator ----------------------------
(***************************************************************************)
(* The job lifecycle of NeuralMesh: the coordinator's background loops     *)
(* (Matching), its request handlers (JobApi), the consumers that submit    *)
(* and cancel jobs and the fleet of provider agents that execute them.     *)
(* An agent is its main loop's current_state, with CoolingDown and Paused  *)
(* counted as busy, and the set of jobs its spawned tasks are executing.   *)
(***************************************************************************)
EXTENDS Matching, JobApi

VARIABLES
  agent_state,   \* idle_monitor's current_state, or "down"
  executing      \* executing[p]: jobs with a running task on provider p

agentVars == <<agent_state, executing>>
vars == <<tableVars, agentVars>>

TypeOK ==
  /\ TablesTypeOK
  /\ agent_state \in [Providers -> {"down", "busy", "available", "leased"}]
  /\ executing \in [Providers -> SUBSET Jobs]

Init ==
  /\ TablesInit
  /\ agent_state = [p \in Providers |-> "busy"]
  /\ executing = [p \in Providers |-> {}]

-----------------------------------------------------------------------------
(* The agent *)

\* The main loop awaits the answer to its poll and does nothing else meanwhile.
Polling(p) == \E s \in Slots : At(s, "poll_update") /\ call[s].prov = p

LoopFree(p) == agent_state[p] # "down" /\ ~Polling(p)

\* What the detector's next change makes of current_state.  A leased agent's
\* detector is still Available, because set_leased is never called.
IdleChange(st) == IF st = "busy" THEN "available" ELSE "busy"

\* The detector reports a change; the heartbeat that announces it may get lost.
AgentIdleChange(p) ==
  /\ "idle" \in Workload
  /\ LoopFree(p)
  /\ agent_state' = [agent_state EXCEPT ![p] = IdleChange(@)]
  /\ send_heartbeat(p, IdleChange(agent_state[p])) \/ UNCHANGED tableVars
  /\ UNCHANGED executing

\* The heartbeat every 30 s.
AgentHeartbeat(p) ==
  /\ LoopFree(p)
  /\ send_heartbeat(p, agent_state[p])
  /\ UNCHANGED agentVars

\* poll_for_job, only in state Available.
AgentPoll(p, s, j) ==
  /\ LoopFree(p) /\ agent_state[p] = "available"
  /\ get_assigned_job_select(s, p, j)
  /\ UNCHANGED agentVars

\* The answer reaches the agent, which starts the job; or it does not.
AgentAccept(s) ==
  /\ get_assigned_job_update(s)
  /\ \/ /\ At(s, "poll_update")
        /\ agent_state' = [agent_state EXCEPT ![call[s].prov] = "leased"]
        /\ executing' = [executing EXCEPT ![call[s].prov] = @ \cup {call[s].job}]
     \/ /\ At(s, "poll_orphan") \/ "lost" \in Workload
        /\ UNCHANGED agentVars

\* Mutant: the agent repeats a report.
AgentComplete_retry(p, s, j, g) ==
  /\ j \in executing[p] /\ g \in Bills[j]
  /\ complete_job_select(s, p, j, g)
  /\ UNCHANGED agentVars

AgentComplete(p, s, j, g) ==
  /\ j \in executing[p] /\ g \in Bills[j]
  /\ complete_job_select(s, p, j, g)
  /\ executing' = [executing EXCEPT ![p] = @ \ {j}]
  /\ UNCHANGED agent_state

AgentFail(p, s, j) ==
  /\ "fail" \in Workload
  /\ j \in executing[p]
  /\ fail_job_update(s, p, j)
  /\ executing' = [executing EXCEPT ![p] = @ \ {j}]
  /\ UNCHANGED agent_state

\* The report is lost or rejected with 404; the agent logs that and goes on.
AgentReportLost(p, j) ==
  /\ j \in executing[p]
  /\ "lost" \in Workload \/ job_provider[j] # p
  /\ executing' = [executing EXCEPT ![p] = @ \ {j}]
  /\ UNCHANGED <<tableVars, agent_state>>

AgentJobHeartbeat(p, s, j) ==
  /\ "job_heartbeat" \in Workload
  /\ j \in executing[p]
  /\ job_heartbeat_update(s, p, j)
  /\ UNCHANGED agentVars

AgentCheckpoint(p, s, j) ==
  /\ j \in executing[p] /\ ~checkpoint_url[j]
  /\ save_checkpoint_insert(s, p, j)
  /\ UNCHANGED agentVars

\* The machine goes away with everything it runs.
AgentCrash(p) ==
  /\ "crash" \in Workload
  /\ agent_state[p] # "down"
  /\ agent_state' = [agent_state EXCEPT ![p] = "down"]
  /\ executing' = [executing EXCEPT ![p] = {}]
  /\ call' = [s \in Slots |-> IF At(s, "poll_update") /\ call[s].prov = p
                              THEN [call[s] EXCEPT !.pc = "poll_orphan"] ELSE call[s]]
  /\ UNCHANGED <<jobVars, provVars, creditVars, auctionVars, watcherVars, histVars>>

AgentRestart(p) ==
  /\ "restart" \in Workload
  /\ agent_state[p] = "down"
  /\ register_provider(p)
  /\ agent_state' = [agent_state EXCEPT ![p] = "busy"]
  /\ UNCHANGED executing

\* Nothing is heard of a provider for another while.
Silence(p) ==
  /\ "silence" \in Workload \/ agent_state[p] = "down"
  /\ last_seen[p] < 2
  /\ last_seen' = [last_seen EXCEPT ![p] = @ + 1]
  /\ UNCHANGED <<provider_state, active_job, jobVars, creditVars, call, auctionVars,
                 watcherVars, histVars, agentVars>>

AgentStep ==
  \/ \E p \in Providers :
       \/ AgentIdleChange(p) \/ AgentHeartbeat(p)
       \/ AgentCrash(p) \/ AgentRestart(p) \/ Silence(p)
       \/ \E j \in Jobs :
            \/ AgentReportLost(p, j)
            \/ \E s \in Slots :
                 \/ AgentPoll(p, s, j) \/ AgentFail(p, s, j)
                 \/ AgentJobHeartbeat(p, s, j) \/ AgentCheckpoint(p, s, j)
                 \/ \E g \in Bills[j] : AgentComplete(p, s, j, g)
  \/ \E s \in Slots : AgentAccept(s)

-----------------------------------------------------------------------------
(* Consumers *)

ConsumerStep ==
  \E j \in Jobs :
    \/ \E s \in Slots :
         \/ "rest" \in Workload /\ submit_job_select(s, j)
         \/ "cancel" \in Workload /\ cancel_job_select(s, j)
    \/ "grpc" \in Workload /\ grpc_submit_job(j)
    \/ "grpc_agent" \in Workload /\ \/ grpc_cancel_job(j) \/ acknowledge_job(j)
                                    \/ \E ok \in BOOLEAN : grpc_report_completion(j, ok)

Next ==
  \/ AgentStep
  \/ UNCHANGED agentVars /\ \/ ConsumerStep
                            \/ \E s \in Slots : HandlerStep(s) \/ abort_call(s)
                            \/ AuctionStep \/ auction_error
                            \/ WatcherStep \/ watcher_error
                            \/ evict_stale_providers

Spec == Init /\ [][Next]_vars

\* The three loops are tasks that tick for ever, a handler that started is
\* polled until it returns, and time passes for a machine that is gone.
FairSpec ==
  /\ Spec
  /\ WF_vars(AuctionStep /\ UNCHANGED agentVars)
  /\ WF_vars(WatcherStep /\ UNCHANGED agentVars)
  /\ WF_vars(evict_stale_providers /\ UNCHANGED agentVars)
  /\ \A s \in Slots : WF_vars(HandlerStep(s) /\ UNCHANGED agentVars) /\ WF_vars(AgentAccept(s))
  /\ \A p \in Providers : WF_vars(agent_state[p] = "down" /\ Silence(p))
-----------------------------------------------------------------------------
(* Properties *)

\* active_job_id is a lease: no two providers hold the same job, although the
\* auction writes the job row and the provider row in separate statements and
\* the watcher works from a snapshot (matching/mod.rs assign_job,
\* check_stale_providers).
LeaseExclusive ==
  \A p, q \in Providers : active_job[p] # NULL /\ active_job[p] = active_job[q] => p = q

\* A queued job belongs to nobody, so a provider it was taken away from can
\* neither complete it nor revive it with a heartbeat (complete_job and
\* job_heartbeat match on provider_id).
QueuedUnowned == \A j \in Jobs : job_state[j] = "queued" => job_provider[j] = NULL

\* A job is handed to a provider at most once, plus once per allowed restore,
\* whatever its checkpoints, its providers and the two loops do meanwhile.
DispatchBound == \A j \in Jobs : dispatches[j] <= MaxRestoreAttempts + 1

\* Every payment for a job goes with a dispatch of its own: no report is paid
\* twice, not even when the job migrated and both providers report
\* (get_assigned_job, complete_job).
PaidPerDispatch == \A j \in Jobs : payments[j] <= dispatches[j]

\* wait_for_job returns when the job "reaches a terminal state"
\* (sdk/python client.py): a terminal state is final.
TerminalIsFinal ==
  [][\A j \in Jobs : job_state[j] \in Terminal => job_state'[j] \in Terminal]_vars

\* The auction, which runs for ever, does not leave a job in the queue while a
\* provider that fits it stays available, although older jobs that fit nobody
\* come first (matching/mod.rs run_auction_cycle).
QueuedServed ==
  \A j \in Jobs : (job_state[j] = "queued" /\ Candidates(j) # {})
                     ~> (job_state[j] # "queued" \/ Candidates(j) = {})

\* "if the provider disconnects, the job can be re-queued for restore"
\* (api/rest.rs save_checkpoint): a job whose provider is gone does not stay running.
DisconnectNoticed ==
  \A j \in Jobs, p \in Providers :
    (job_state[j] = "running" /\ checkpoint_url[j] /\ job_provider[j] = p /\ agent_state[p] = "down")
      ~> (job_state[j] # "running" \/ agent_state[p] # "down")

-----------------------------------------------------------------------------
(* The inductive invariant behind LeaseExclusive, QueuedUnowned and DispatchBound. *)

\* A job is on its way to a provider: queued, or in the auction's hands.
InAuction(j) == j \in a_todo \/ (a_pc # "scan" /\ a_job = j)

\* The same, and not handed over yet.
Waiting(j) == job_state[j] = "queued" \/ j \in a_todo \/ (a_pc = "assign" /\ a_job = j)

\* The watcher may still migrate the job.
InWatch(j) == (\E p \in Providers : <<p, j>> \in w_todo)
              \/ (w_pc \in {"lookup", "requeue"} /\ w_job = j)

Leased(j) == \E p \in Providers : active_job[p] = j

\* A row that was not inserted yet is untouched.
NoneFresh ==
  \A j \in Jobs : job_state[j] = "none" =>
    /\ dispatches[j] = 0 /\ job_provider[j] = NULL
    /\ ~InAuction(j) /\ ~InWatch(j) /\ ~Leased(j)

\* The right to dispatch a job is in one place: with the queue and the
\* auction, or with a lease and the watcher that may take it back.
OneToken ==
  \A j \in Jobs : job_state[j] = "queued" \/ InAuction(j) => ~InWatch(j) /\ ~Leased(j)

\* The auction holds a job once; a job being leased is no longer queued.
AuctionInHand ==
  /\ a_pc # "scan" => a_job \notin a_todo
  /\ a_pc = "lease" => job_state[a_job] # "queued"

\* The watcher's snapshot names a job once, together with its only lease.
WatchInHand ==
  \A j \in Jobs :
    /\ \A p, q \in Providers :
         /\ <<p, j>> \in w_todo /\ <<q, j>> \in w_todo => p = q
         /\ <<p, j>> \in w_todo /\ active_job[q] = j => p = q
    /\ w_pc \in {"lookup", "requeue"} /\ w_job = j =>
         ~Leased(j) /\ \A p \in Providers : <<p, j>> \notin w_todo

\* A job that waits for another dispatch has a checkpoint, and so has its
\* copy in the auction's snapshot: the dispatch will be counted.
RestoreCounted ==
  \A j \in Jobs :
    /\ dispatches[j] <= restore_attempts[j] + 1
    /\ w_pc = "requeue" /\ w_job = j =>
         checkpoint_url[j] /\ restore_attempts[j] < MaxRestoreAttempts
    /\ Waiting(j) /\ dispatches[j] > 0 =>
         checkpoint_url[j] /\ restore_attempts[j] < MaxRestoreAttempts
    /\ j \in a_todo \/ (a_pc = "assign" /\ a_job = j) =>
         (dispatches[j] > 0 => j \in a_restore)

\* LeaseExclusive, QueuedUnowned and DispatchBound are inductive together with
\* the bookkeeping of where a job's dispatch right is (matching/mod.rs).
IInv ==
  /\ TypeOK /\ NoneFresh /\ OneToken /\ AuctionInHand /\ WatchInHand /\ RestoreCounted
  /\ LeaseExclusive /\ QueuedUnowned /\ DispatchBound
-----------------------------------------------------------------------------
(* Coordinator as JobLease sees it. *)

\* Who holds j, from the auction's first update of assign_job on.
Holders(j) == {p \in Providers : active_job[p] = j \/ (a_pc = "lease" /\ a_job = j /\ a_prov = p)}

\* A row not inserted yet has its first dispatch before it, too.
LeaseOf(j) ==
  [at |-> IF job_state[j] = "none" \/ Waiting(j) THEN "waiting"
          ELSE IF Holders(j) # {} THEN "leased"
          ELSE IF InWatch(j) THEN "reclaimed" ELSE "spent",
   to |-> Holders(j)]

Abstract == INSTANCE JobLease WITH lease <- [j \in Jobs |-> LeaseOf(j)]

\* The auction, the watcher, the evictor and all requests together hand out a job
\* only from the queue, to one provider, and put it back only by a watcher that
\* took it from its holder: the job table and the provider table, written in
\* separate statements from three snapshots, implement one lease per job
\* (matching/mod.rs assign_job, check_stale_providers, migrate_or_fail_job).
ImplementsLease == Abstract!Spec

=============================================================================
