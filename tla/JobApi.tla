------------------------------- MODULE JobApi -------------------------------
(***************************************************************************)
(* The coordinator's request handlers that change jobs: the REST handlers  *)
(* of api/rest.rs, one action per SQL statement, and the single-statement  *)
(* gRPC handlers of api/grpc.rs.  A request occupies a slot from its first *)
(* statement to its last.  The on-chain settlement that complete_job and   *)
(* fail_job spawn in the background does not come back to these tables.    *)
(***************************************************************************)
EXTENDS CoordinatorTables

\* A handler's first statement puts its request into an idle slot.
Start(s, next, j, p, g) ==
  /\ call[s].pc = "idle"
  /\ call' = [call EXCEPT ![s] = [pc |-> next, job |-> j, prov |-> p, amt |-> g]]

At(s, pc)  == call[s].pc = pc
Goto(s, pc) == call' = [call EXCEPT ![s].pc = pc]
Finish(s)  == call' = [call EXCEPT ![s] = IdleCall]

-----------------------------------------------------------------------------
(* REST submit_job *)

\* SELECT the balance, reject when it is below the maximal cost.
submit_job_select(s, j) ==
  /\ job_state[j] = "none"
  /\ \A t \in Slots : ~(At(t, "submit_insert") /\ call[t].job = j)
  /\ Coalesce0(available_nmc[Consumer[j]]) >= Cost[j]
  /\ Start(s, "submit_insert", j, NULL, 0)
  /\ UNCHANGED <<jobVars, provVars, creditVars, auctionVars, watcherVars, histVars>>

\* Job numbers follow created_at: j is the next row of the table.
NextRow(j) == job_state[j] = "none" /\ \A i \in Jobs : i < j => job_state[i] # "none"

submit_job_insert(s) ==
  /\ At(s, "submit_insert") /\ NextRow(call[s].job)
  /\ SetJobState(call[s].job, "queued")
  /\ Goto(s, "submit_lock")
  /\ UNCHANGED <<provVars, creditVars, auctionVars, watcherVars, histVars>>

submit_job_lock(s) ==
  /\ At(s, "submit_lock")
  /\ LET j == call[s].job
         c == Consumer[j] IN
       /\ available_nmc' = [available_nmc EXCEPT ![c] = Plus(@, -Cost[j])]
       /\ escrowed_nmc' = [escrowed_nmc EXCEPT ![c] = @ + Cost[j]]
  /\ Goto(s, "submit_escrow")
  /\ UNCHANGED <<escrow_state, jobVars, provVars, auctionVars, watcherVars, histVars>>

submit_job_escrow(s) ==
  /\ At(s, "submit_escrow")
  /\ escrow_state' = [escrow_state EXCEPT ![call[s].job] = "locked"]
  /\ Finish(s)
  /\ UNCHANGED <<available_nmc, escrowed_nmc, jobVars, provVars, auctionVars, watcherVars,
                 histVars>>

-----------------------------------------------------------------------------
(* REST cancel_job *)

\* SELECT the job; a terminal one is left alone.
cancel_job_select(s, j) ==
  /\ job_state[j] \notin Terminal \cup {"none"}
  /\ Start(s, "cancel_update", j, NULL, 0)
  /\ UNCHANGED <<jobVars, provVars, creditVars, auctionVars, watcherVars, histVars>>

cancel_job_update(s) ==
  /\ At(s, "cancel_update")
  /\ SetJobState(call[s].job, "cancelled")
  /\ Goto(s, "cancel_refund")
  /\ UNCHANGED <<provVars, creditVars, auctionVars, watcherVars, histVars>>

\* The sub-query for the locked amount is NULL when no locked escrow exists.
cancel_job_refund(s) ==
  /\ At(s, "cancel_refund")
  /\ LET j == call[s].job
         c == Consumer[j]
         locked == IF escrow_state[j] = "locked" THEN Cost[j] ELSE NULL IN
       /\ available_nmc' = [available_nmc EXCEPT ![c] = Plus(@, locked)]
       /\ escrowed_nmc' = [escrowed_nmc EXCEPT ![c] =
                             IF locked = NULL THEN 0 ELSE Greatest0(@ - locked)]
  /\ Goto(s, "cancel_release")
  /\ UNCHANGED <<escrow_state, jobVars, provVars, auctionVars, watcherVars, histVars>>

cancel_job_release(s) ==
  /\ At(s, "cancel_release")
  /\ escrow_state' = [escrow_state EXCEPT ![call[s].job] = IF @ = "locked" THEN "released" ELSE @]
  /\ Goto(s, "cancel_free")
  /\ UNCHANGED <<available_nmc, escrowed_nmc, jobVars, provVars, auctionVars, watcherVars,
                 histVars>>

cancel_job_free(s) ==
  /\ At(s, "cancel_free")
  /\ FreeProviders({p \in Providers : active_job[p] = call[s].job})
  /\ Finish(s)
  /\ UNCHANGED <<jobVars, creditVars, auctionVars, watcherVars, histVars>>

-----------------------------------------------------------------------------
(* REST complete_job *)

\* The provider's 92 % of the gross amount; the platform keeps the rest.
ProviderShare(g) == (g * 92) \div 100

\* SELECT ... WHERE job_id = j AND provider_id = p; 404 unless p holds the job.
complete_job_select(s, p, j, g) ==
  /\ job_provider[j] = p
  /\ Start(s, "complete_update", j, p, g)
  /\ UNCHANGED <<jobVars, provVars, creditVars, auctionVars, watcherVars, histVars>>

complete_job_update(s) ==
  /\ At(s, "complete_update")
  /\ SetJobState(call[s].job, "complete")
  /\ Goto(s, "complete_credit")
  /\ UNCHANGED <<provVars, creditVars, auctionVars, watcherVars, histVars>>

complete_job_credit(s) ==
  /\ At(s, "complete_credit")
  /\ available_nmc' = [available_nmc EXCEPT ![call[s].prov] =
                         Plus(@, ProviderShare(call[s].amt))]
  /\ payments' = [payments EXCEPT ![call[s].job] = @ + 1]
  /\ Goto(s, "complete_deduct")
  /\ UNCHANGED <<escrowed_nmc, escrow_state, jobVars, provVars, auctionVars, watcherVars,
                 dispatches>>

complete_job_deduct(s) ==
  /\ At(s, "complete_deduct")
  /\ escrowed_nmc' = [escrowed_nmc EXCEPT ![Consumer[call[s].job]] = Greatest0(@ - call[s].amt)]
  /\ Goto(s, "complete_free")
  /\ UNCHANGED <<available_nmc, escrow_state, jobVars, provVars, auctionVars, watcherVars,
                 histVars>>

complete_job_free(s) ==
  /\ At(s, "complete_free")
  /\ FreeProviders({call[s].prov})
  /\ Finish(s)
  /\ UNCHANGED <<jobVars, creditVars, auctionVars, watcherVars, histVars>>

-----------------------------------------------------------------------------
(* REST fail_job: the first statement does not look at the job's state. *)

fail_job_update(s, p, j) ==
  /\ Start(s, "fail_refund", j, p, 0)
  /\ SetJobState(j, "failed")
  /\ UNCHANGED <<provVars, creditVars, auctionVars, watcherVars, histVars>>

\* Everything the consumer has in escrow becomes available.
fail_job_refund(s) ==
  /\ At(s, "fail_refund")
  /\ LET c == Consumer[call[s].job] IN
       /\ available_nmc' = [available_nmc EXCEPT ![c] = Plus(@, escrowed_nmc[c])]
       /\ escrowed_nmc' = [escrowed_nmc EXCEPT ![c] = 0]
  /\ Goto(s, "fail_free")
  /\ UNCHANGED <<escrow_state, jobVars, provVars, auctionVars, watcherVars, histVars>>

fail_job_free(s) ==
  /\ At(s, "fail_free")
  /\ FreeProviders({call[s].prov})
  /\ Finish(s)
  /\ UNCHANGED <<jobVars, creditVars, auctionVars, watcherVars, histVars>>

-----------------------------------------------------------------------------
(* REST get_assigned_job: SELECT an assigned job, then mark it running. *)

get_assigned_job_select(s, p, j) ==
  /\ job_provider[j] = p /\ job_state[j] = "assigned"
  /\ Start(s, "poll_update", j, p, 0)
  /\ UNCHANGED <<jobVars, provVars, creditVars, auctionVars, watcherVars, histVars>>

\* Mutant: the job stays assigned and can be polled again.
get_assigned_job_no_update(s) ==
  /\ call[s].pc \in {"poll_update", "poll_orphan"}
  /\ SetJobState(call[s].job, "assigned")
  /\ Finish(s)
  /\ UNCHANGED <<provVars, creditVars, auctionVars, watcherVars, histVars>>

\* A failing UPDATE is ignored and the answer sent all the same.
get_assigned_job_update(s) ==
  /\ call[s].pc \in {"poll_update", "poll_orphan"}
  /\ \/ SetJobState(call[s].job, "running")
     \/ "db_error" \in Workload /\ UNCHANGED jobVars
  /\ Finish(s)
  /\ UNCHANGED <<provVars, creditVars, auctionVars, watcherVars, histVars>>

-----------------------------------------------------------------------------
(* REST job_heartbeat and save_checkpoint *)

\* UPDATE jobs SET state = 'running' WHERE job_id = j AND provider_id = p.
job_heartbeat_update(s, p, j) ==
  /\ Start(s, "beat_seen", j, p, 0)
  /\ job_state' = [job_state EXCEPT ![j] = IF job_provider[j] = p THEN "running" ELSE @]
  /\ UNCHANGED <<job_provider, checkpoint_url, restore_attempts,
                 provVars, creditVars, auctionVars, watcherVars, histVars>>

job_heartbeat_seen(s) ==
  /\ At(s, "beat_seen")
  /\ last_seen' = [last_seen EXCEPT ![call[s].prov] = 0]
  /\ Finish(s)
  /\ UNCHANGED <<provider_state, active_job, jobVars, creditVars, auctionVars, watcherVars,
                 histVars>>

\* INSERT the checkpoint row, then set the job's checkpoint_url.
save_checkpoint_insert(s, p, j) ==
  /\ Start(s, "checkpoint_update", j, p, 0)
  /\ UNCHANGED <<jobVars, provVars, creditVars, auctionVars, watcherVars, histVars>>

save_checkpoint_update(s) ==
  /\ At(s, "checkpoint_update")
  /\ checkpoint_url' = [checkpoint_url EXCEPT ![call[s].job] = TRUE]
  /\ Finish(s)
  /\ UNCHANGED <<job_state, job_provider, restore_attempts,
                 provVars, creditVars, auctionVars, watcherVars, histVars>>

-----------------------------------------------------------------------------
\* A statement fails, or the client disconnects and the handler is dropped:
\* the statements already executed stay.
abort_call(s) ==
  /\ "db_error" \in Workload
  /\ call[s].pc # "idle"
  /\ Finish(s)
  /\ UNCHANGED <<jobVars, provVars, creditVars, auctionVars, watcherVars, histVars>>

\* The statements of handlers under way.  The answer of get_assigned_job is
\* delivered to the agent and composed in Coordinator.
HandlerStep(s) ==
  \/ submit_job_insert(s) \/ submit_job_lock(s) \/ submit_job_escrow(s)
  \/ cancel_job_update(s) \/ cancel_job_refund(s) \/ cancel_job_release(s) \/ cancel_job_free(s)
  \/ complete_job_update(s) \/ complete_job_credit(s) \/ complete_job_deduct(s)
  \/ complete_job_free(s)
  \/ fail_job_refund(s) \/ fail_job_free(s)
  \/ job_heartbeat_seen(s) \/ save_checkpoint_update(s)

-----------------------------------------------------------------------------
(* gRPC handlers of one statement each *)

\* A job submitted over gRPC has no escrow.
grpc_submit_job(j) ==
  /\ NextRow(j)
  /\ SetJobState(j, "queued")
  /\ UNCHANGED <<provVars, creditVars, call, auctionVars, watcherVars, histVars>>

grpc_cancel_job(j) ==
  /\ job_state[j] # "none"
  /\ SetJobState(j, "cancelled")
  /\ UNCHANGED <<provVars, creditVars, call, auctionVars, watcherVars, histVars>>

acknowledge_job(j) ==
  /\ job_state[j] # "none"
  /\ SetJobState(j, "running")
  /\ UNCHANGED <<provVars, creditVars, call, auctionVars, watcherVars, histVars>>

\* report_completion up to the milestone rewards, which touch none of these tables.
grpc_report_completion(j, success) ==
  /\ job_state[j] # "none"
  /\ SetJobState(j, IF success THEN "complete" ELSE "failed")
  /\ UNCHANGED <<provVars, creditVars, call, auctionVars, watcherVars, histVars>>

\* The agent never names its job in a heartbeat, so active_job_id is cleared.
send_heartbeat(p, st) ==
  /\ provider_state' = [provider_state EXCEPT ![p] = st]
  /\ active_job' = [active_job EXCEPT ![p] = NULL]
  /\ last_seen' = [last_seen EXCEPT ![p] = 0]
  /\ UNCHANGED <<jobVars, creditVars, call, auctionVars, watcherVars, histVars>>

\* Registration again after a restart: the row becomes offline and keeps the rest.
register_provider(p) ==
  /\ provider_state' = [provider_state EXCEPT ![p] = "offline"]
  /\ UNCHANGED <<active_job, last_seen, jobVars, creditVars, call, auctionVars, watcherVars,
                 histVars>>
=============================================================================
