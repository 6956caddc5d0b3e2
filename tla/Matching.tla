------------------------------ MODULE Matching ------------------------------
(***************************************************************************)
(* The coordinator's background loops: the auction that assigns queued     *)
(* jobs to providers, the heartbeat watcher that migrates the jobs of      *)
(* silent providers, and the evictor.  Each loop is a single task, works   *)
(* from a snapshot it reads at the start of a cycle, and writes back row   *)
(* by row.                                                                 *)
(***************************************************************************)
EXTENDS CoordinatorTables

\* The at most BatchLimit oldest of a set of jobs (ORDER BY created_at LIMIT 50).
Oldest(S) == {j \in S : Cardinality({i \in S : i <= j}) <= BatchLimit}

-----------------------------------------------------------------------------
(* run_auction_cycle *)

\* Mutant: WHERE state IN ('queued', 'assigned').
run_auction_cycle_select_assigned ==
  /\ a_pc = "scan" /\ a_todo = {}
  /\ a_todo' = Oldest({j \in Jobs : job_state[j] \in {"queued", "assigned"}})
  /\ a_todo' # {}
  /\ a_restore' = {j \in a_todo' : checkpoint_url[j]}
  /\ UNCHANGED <<a_pc, a_job, a_prov, jobVars, provVars, creditVars, call, watcherVars, histVars>>

\* SELECT ... FROM jobs WHERE state = 'queued' ORDER BY created_at LIMIT 50.
run_auction_cycle_select ==
  /\ a_pc = "scan" /\ a_todo = {}
  /\ a_todo' = Oldest({j \in Jobs : job_state[j] = "queued"})
  /\ a_todo' # {}
  /\ a_restore' = {j \in a_todo' : checkpoint_url[j]}
  /\ UNCHANGED <<a_pc, a_job, a_prov, jobVars, provVars, creditVars, call, watcherVars, histVars>>

\* Providers find_best_provider may return for job j.
Candidates(j) == {p \in Fits[j] : provider_state[p] = "available"}

\* The next job of the snapshot, oldest first.
IsNext(j) == j \in a_todo /\ \A i \in a_todo : j <= i

\* find_best_provider returns one of the candidates.
find_best_provider(j, p) ==
  /\ a_pc = "scan" /\ IsNext(j) /\ p \in Candidates(j)
  /\ a_pc' = "assign" /\ a_job' = j /\ a_prov' = p
  /\ a_todo' = a_todo \ {j}
  /\ UNCHANGED <<a_restore, jobVars, provVars, creditVars, call, watcherVars, histVars>>

\* Mutant: a job without a candidate ends the cycle.
find_no_provider_break(j) ==
  /\ a_pc = "scan" /\ IsNext(j)
  /\ Candidates(j) = {} \/ "db_error" \in Workload
  /\ a_todo' = {} /\ a_restore' = {}
  /\ UNCHANGED <<a_pc, a_job, a_prov, jobVars, provVars, creditVars, call,
                 watcherVars, histVars>>

\* No candidate, or the query failed: log it and go on with the next job.
find_no_provider(j) ==
  /\ a_pc = "scan" /\ IsNext(j)
  /\ Candidates(j) = {} \/ "db_error" \in Workload
  /\ a_todo' = a_todo \ {j} /\ a_restore' = a_restore \ {j}
  /\ UNCHANGED <<a_pc, a_job, a_prov, jobVars, provVars, creditVars, call,
                 watcherVars, histVars>>

\* assign_job, first statement: the job row, whatever its state is by now.
assign_job_update ==
  /\ a_pc = "assign"
  /\ job_state' = [job_state EXCEPT ![a_job] = "assigned"]
  /\ job_provider' = [job_provider EXCEPT ![a_job] = a_prov]
  /\ restore_attempts' = [restore_attempts EXCEPT ![a_job] =
                            @ + IF a_job \in a_restore THEN 1 ELSE 0]
  /\ dispatches' = [dispatches EXCEPT ![a_job] = @ + 1]
  /\ a_pc' = "lease" /\ a_restore' = a_restore \ {a_job}
  /\ UNCHANGED <<checkpoint_url, provVars, creditVars, call, payments,
                 a_todo, a_job, a_prov, watcherVars>>

\* assign_job, second statement: the provider row, whatever its state is by now.
assign_job_lease ==
  /\ a_pc = "lease"
  /\ provider_state' = [provider_state EXCEPT ![a_prov] = "leased"]
  /\ active_job' = [active_job EXCEPT ![a_prov] = a_job]
  /\ a_pc' = "scan" /\ a_job' = NULL /\ a_prov' = NULL
  /\ UNCHANGED <<last_seen, jobVars, creditVars, call, a_todo, a_restore, watcherVars, histVars>>

\* A failing statement ends the cycle, as does a restart of the process.
auction_error ==
  /\ "db_error" \in Workload
  /\ a_pc # "scan" \/ a_todo # {}
  /\ a_pc' = "scan" /\ a_todo' = {} /\ a_restore' = {} /\ a_job' = NULL /\ a_prov' = NULL
  /\ UNCHANGED <<jobVars, provVars, creditVars, call, watcherVars, histVars>>

AuctionStep ==
  \/ run_auction_cycle_select
  \/ \E j \in Jobs, p \in Providers : find_best_provider(j, p)
  \/ \E j \in Jobs : find_no_provider(j)
  \/ assign_job_update
  \/ assign_job_lease

-----------------------------------------------------------------------------
(* check_stale_providers and migrate_or_fail_job *)

\* SELECT provider_id, active_job_id ... WHERE state = 'leased' AND last_seen < now() - 120 s.
check_stale_providers_select ==
  /\ w_pc = "scan" /\ w_todo = {}
  /\ w_todo' = {<<p, active_job[p]>> : p \in {q \in Providers :
                    provider_state[q] = "leased" /\ last_seen[q] = 2}}
  /\ w_todo' # {}
  /\ UNCHANGED <<w_pc, w_job, jobVars, provVars, creditVars, call, auctionVars, histVars>>

\* Mutant: the provider goes offline and keeps its active_job_id.
check_stale_providers_keep_lease(e) ==
  /\ w_pc = "scan" /\ e \in w_todo
  /\ provider_state' = [provider_state EXCEPT ![e[1]] = "offline"]
  /\ w_todo' = w_todo \ {e}
  /\ w_job' = e[2]
  /\ w_pc' = IF e[2] = NULL THEN "scan" ELSE "lookup"
  /\ UNCHANGED <<active_job, last_seen, jobVars, creditVars, call, auctionVars, histVars>>

\* Mark one provider of the snapshot offline; migrate its job, if it had one.
check_stale_providers_offline(e) ==
  /\ w_pc = "scan" /\ e \in w_todo
  /\ provider_state' = [provider_state EXCEPT ![e[1]] = "offline"]
  /\ active_job' = [active_job EXCEPT ![e[1]] = NULL]
  /\ w_todo' = w_todo \ {e}
  /\ w_job' = e[2]
  /\ w_pc' = IF e[2] = NULL THEN "scan" ELSE "lookup"
  /\ UNCHANGED <<last_seen, jobVars, creditVars, call, auctionVars, histVars>>

\* Mutant: one restore too many, <= for <.
migrate_or_fail_job_lookup_le ==
  /\ w_pc = "lookup"
  /\ \/ /\ job_state[w_job] \notin InProgress
        /\ w_pc' = "scan" /\ w_job' = NULL
     \/ /\ job_state[w_job] \in InProgress
        /\ w_pc' = IF checkpoint_url[w_job] /\ restore_attempts[w_job] <= MaxRestoreAttempts
                   THEN "requeue" ELSE "fail"
        /\ UNCHANGED w_job
  /\ UNCHANGED <<w_todo, jobVars, provVars, creditVars, call, auctionVars, histVars>>

\* Read the job and decide: nothing to do, re-queue, or fail.
migrate_or_fail_job_lookup ==
  /\ w_pc = "lookup"
  /\ \/ /\ job_state[w_job] \notin InProgress
        /\ w_pc' = "scan" /\ w_job' = NULL
     \/ /\ job_state[w_job] \in InProgress
        /\ w_pc' = IF checkpoint_url[w_job] /\ restore_attempts[w_job] < MaxRestoreAttempts
                   THEN "requeue" ELSE "fail"
        /\ UNCHANGED w_job
  /\ UNCHANGED <<w_todo, jobVars, provVars, creditVars, call, auctionVars, histVars>>

\* Mutant: provider_id is not cleared.
migrate_or_fail_job_requeue_owned ==
  /\ w_pc = "requeue"
  /\ SetJobState(w_job, "queued")
  /\ w_pc' = "scan" /\ w_job' = NULL
  /\ UNCHANGED <<w_todo, provVars, creditVars, call, auctionVars, histVars>>

migrate_or_fail_job_requeue ==
  /\ w_pc = "requeue"
  /\ job_state' = [job_state EXCEPT ![w_job] = "queued"]
  /\ job_provider' = [job_provider EXCEPT ![w_job] = NULL]
  /\ w_pc' = "scan" /\ w_job' = NULL
  /\ UNCHANGED <<checkpoint_url, restore_attempts, w_todo, provVars, creditVars, call,
                 auctionVars, histVars>>

migrate_or_fail_job_fail ==
  /\ w_pc = "fail"
  /\ SetJobState(w_job, "failed")
  /\ w_pc' = "refund"
  /\ UNCHANGED <<w_job, w_todo, provVars, creditVars, call, auctionVars, histVars>>

\* refund_consumer_escrow: SELECT the locked escrow, release it, credit the consumer.
refund_consumer_escrow_select ==
  /\ w_pc = "refund"
  /\ \/ escrow_state[w_job] = "locked" /\ w_pc' = "release" /\ UNCHANGED w_job
     \/ escrow_state[w_job] # "locked" /\ w_pc' = "scan" /\ w_job' = NULL
  /\ UNCHANGED <<w_todo, jobVars, provVars, creditVars, call, auctionVars, histVars>>

refund_consumer_escrow_release ==
  /\ w_pc = "release"
  /\ escrow_state' = [escrow_state EXCEPT ![w_job] = "released"]
  /\ w_pc' = "credit"
  /\ UNCHANGED <<available_nmc, escrowed_nmc, w_job, w_todo, jobVars, provVars, call,
                 auctionVars, histVars>>

refund_consumer_escrow_credit ==
  /\ w_pc = "credit"
  /\ LET c == Consumer[w_job] IN
       /\ available_nmc' = [available_nmc EXCEPT ![c] = Plus(@, Cost[w_job])]
       /\ escrowed_nmc' = [escrowed_nmc EXCEPT ![c] = Greatest0(@ - Cost[w_job])]
  /\ w_pc' = "scan" /\ w_job' = NULL
  /\ UNCHANGED <<escrow_state, w_todo, jobVars, provVars, call, auctionVars, histVars>>

\* A failing statement ends the watcher's cycle, as does a restart; an error
\* in the refund is only logged and the cycle goes on.
watcher_error ==
  /\ "db_error" \in Workload
  /\ w_pc # "scan" \/ w_todo # {}
  /\ w_pc' = "scan" /\ w_job' = NULL
  /\ \/ w_todo' = {}
     \/ w_pc \in {"refund", "release", "credit"} /\ UNCHANGED w_todo
  /\ UNCHANGED <<jobVars, provVars, creditVars, call, auctionVars, histVars>>

WatcherStep ==
  \/ check_stale_providers_select
  \/ \E e \in w_todo : check_stale_providers_offline(e)
  \/ migrate_or_fail_job_lookup
  \/ migrate_or_fail_job_requeue
  \/ migrate_or_fail_job_fail
  \/ refund_consumer_escrow_select
  \/ refund_consumer_escrow_release
  \/ refund_consumer_escrow_credit

-----------------------------------------------------------------------------
\* evict_stale_providers: one statement over all rows not seen for 90 s.
Stale(p) == provider_state[p] \in {"available", "leased"} /\ last_seen[p] >= 1

evict_stale_providers ==
  /\ \E p \in Providers : Stale(p)
  /\ provider_state' = [p \in Providers |-> IF Stale(p) THEN "offline" ELSE provider_state[p]]
  /\ active_job' = [p \in Providers |-> IF Stale(p) THEN NULL ELSE active_job[p]]
  /\ UNCHANGED <<last_seen, jobVars, creditVars, call, auctionVars, watcherVars, histVars>>
=============================================================================
