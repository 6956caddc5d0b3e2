------------------------- MODULE CoordinatorProofs -------------------------
(***************************************************************************)
(* Proofs for module Coordinator, for every set of jobs, providers,        *)
(* consumers and slots and every bound on restores.  The leases are proved *)
(* for every workload; payments for the workloads that their theorem       *)
(* names.                                                                  *)
(*                                                                         *)
(* Leases: all steps but those of the auction and the watcher are Benign:  *)
(* they leave the two loops alone, put a job into the queue only when it   *)
(* is new, and take leases away but never give one.  So the proof has two  *)
(* halves: every handler and every agent step is Benign and a Benign step  *)
(* keeps IInv; every step of the two loops keeps IInv by itself.  With     *)
(* IInv the coordinator implements JobLease.                               *)
(*                                                                         *)
(* Payments: all but six kinds of step are Tame: they start no claim on a  *)
(* dispatch.                                                               *)
(***************************************************************************)
EXTENDS Coordinator, TotalTheorems, TLAPS

BenignJobs ==
  /\ UNCHANGED <<job_provider, restore_attempts>>
  /\ \A j \in Jobs : /\ job_state'[j] = "none" => job_state[j] = "none"
                     /\ job_state'[j] = "queued" => job_state[j] \in {"queued", "none"}
                     /\ checkpoint_url[j] => checkpoint_url'[j]

BenignLeases == \A p \in Providers : active_job'[p] \in {active_job[p], NULL}

Benign ==
  /\ UNCHANGED <<auctionVars, watcherVars, dispatches>>
  /\ BenignJobs
  /\ BenignLeases

-----------------------------------------------------------------------------
(* The statements the handlers are built from. *)

\* A statement that sets one job's state to anything but queued is benign.
LEMMA SetJobStateBenign ==
  ASSUME JobsOK, NEW j \in Jobs, NEW st \in JobState \ {"none", "queued"}, SetJobState(j, st)
  PROVE  JobsOK' /\ BenignJobs
BY DEF JobsOK, SetJobState, BenignJobs, JobState

\* So is the insertion of a row.
LEMMA InsertBenign ==
  ASSUME JobsOK, NEW j \in Jobs, job_state[j] = "none", SetJobState(j, "queued")
  PROVE  JobsOK' /\ BenignJobs
BY DEF JobsOK, SetJobState, BenignJobs, JobState

\* A statement on other tables leaves the jobs as they are.
LEMMA JobsSame ==
  ASSUME JobsOK, UNCHANGED jobVars
  PROVE  JobsOK' /\ BenignJobs
BY DEF JobsOK, jobVars, BenignJobs

\* A statement on other tables leaves the leases as they are.
LEMMA ProvidersSame ==
  ASSUME ProvidersOK, UNCHANGED provVars
  PROVE  ProvidersOK' /\ BenignLeases
BY DEF ProvidersOK, provVars, BenignLeases

\* Freeing providers takes leases away.
LEMMA FreeProvidersBenign ==
  ASSUME ProvidersOK, NEW S \in SUBSET Providers, FreeProviders(S)
  PROVE  ProvidersOK' /\ BenignLeases
BY DEF ProvidersOK, FreeProviders, BenignLeases, ProviderState

\* Balances nobody writes keep their types.
LEMMA CreditsSame ==
  ASSUME CreditsOK, UNCHANGED creditVars
  PROVE  CreditsOK'
BY DEF CreditsOK, creditVars

\* GREATEST(0, x) is never negative.
LEMMA Greatest0Type ==
  ASSUME NEW x \in Int
  PROVE  Greatest0(x) \in Nat
BY TablesAssumption DEF Greatest0

\* The provider's share of a bill is an amount.
LEMMA ProviderShareType ==
  ASSUME NEW g \in Nat
  PROVE  ProviderShare(g) \in Nat
BY DEF ProviderShare

-----------------------------------------------------------------------------
(* Slots *)

\* A request that starts is well-typed.
LEMMA StartType ==
  ASSUME CallsOK, NEW s \in Slots, NEW pc \in CallPc, NEW j \in Jobs,
         NEW p \in Providers \cup {NULL}, NEW g \in Nat,
         pc \in ProviderPc => p \in Providers,
         Start(s, pc, j, p, g)
  PROVE  CallsOK'
BY DEF CallsOK, Start

\* A request that ends leaves a free slot.
LEMMA FinishType ==
  ASSUME CallsOK, NEW s \in Slots, Finish(s)
  PROVE  CallsOK'
BY DEF CallsOK, Finish, IdleCall, CallPc, ProviderPc

\* A request that goes on to its next statement is well-typed.
LEMMA GotoType ==
  ASSUME CallsOK, NEW s \in Slots, NEW pc \in CallPc, call[s].pc # "idle",
         pc \in ProviderPc => call[s].pc \in ProviderPc,
         Goto(s, pc)
  PROVE  CallsOK'
BY DEF CallsOK, Goto

\* Requests nobody moves keep their types.
LEMMA CallsSame ==
  ASSUME CallsOK, UNCHANGED call
  PROVE  CallsOK'
BY DEF CallsOK

-----------------------------------------------------------------------------
(* Every step that is not one of the loops' is benign. *)

AgentsOK ==
  /\ agent_state \in [Providers -> {"down", "busy", "available", "leased"}]
  /\ executing \in [Providers -> SUBSET Jobs]

\* What a step has to keep for TypeOK' and Benign, table by table.
LEMMA BenignByTable ==
  ASSUME TypeOK, UNCHANGED <<auctionVars, watcherVars, dispatches>>,
         JobsOK' /\ BenignJobs, ProvidersOK' /\ BenignLeases, CreditsOK', CallsOK',
         payments' \in [Jobs -> Nat], AgentsOK'
  PROVE  TypeOK' /\ Benign
BY DEF TypeOK, TablesTypeOK, AuctionOK, WatcherOK, HistoryOK, AgentsOK, Benign,
       auctionVars, watcherVars

\* The type invariant, table by table.
LEMMA TypeOKParts ==
  TypeOK <=> /\ JobsOK /\ ProvidersOK /\ CreditsOK /\ CallsOK /\ AuctionOK /\ WatcherOK
             /\ HistoryOK /\ AgentsOK
BY DEF TypeOK, TablesTypeOK, AgentsOK

\* Agents that do not move keep their types.
LEMMA AgentsSame ==
  ASSUME AgentsOK, UNCHANGED agentVars
  PROVE  AgentsOK'
BY DEF AgentsOK, agentVars

\* What a handler in progress knows about its request.
LEMMA AtType ==
  ASSUME CallsOK, NEW s \in Slots, call[s].pc # "idle"
  PROVE  /\ call[s].job \in Jobs /\ call[s].amt \in Nat
         /\ call[s].pc \in ProviderPc => call[s].prov \in Providers
BY DEF CallsOK

\* The statements of submit_job after its first are benign.
LEMMA SubmitBenign ==
  ASSUME TypeOK, NEW s \in Slots, UNCHANGED agentVars,
         submit_job_insert(s) \/ submit_job_lock(s) \/ submit_job_escrow(s)
  PROVE  TypeOK' /\ Benign
<1> USE TypeOKParts
<1>0. call[s].job \in Jobs /\ AgentsOK'
  BY AtType, AgentsSame DEF submit_job_insert, submit_job_lock, submit_job_escrow, At
<1>1. CASE submit_job_insert(s)
  <2>1. JobsOK' /\ BenignJobs
    BY <1>0, <1>1, InsertBenign DEF submit_job_insert, NextRow
  <2>2. CallsOK'
    BY <1>1, GotoType DEF submit_job_insert, At, CallPc, ProviderPc
  <2> QED
    BY <1>0, <1>1, <2>1, <2>2, ProvidersSame, CreditsSame, BenignByTable
       DEF submit_job_insert, histVars, HistoryOK
<1>2. CASE submit_job_lock(s)
  <2>1. CreditsOK'
    <3> DEFINE c == Consumer[call[s].job]
    <3>1. c \in Consumers /\ Cost[call[s].job] \in Nat
      BY <1>0, TablesAssumption
    <3>2. Plus(available_nmc[c], -Cost[call[s].job]) \in Int \cup {NULL}
      BY <3>1 DEF CreditsOK, Plus
    <3> QED BY <1>2, <3>1, <3>2 DEF submit_job_lock, CreditsOK
  <2>2. CallsOK'
    BY <1>2, GotoType DEF submit_job_lock, At, CallPc, ProviderPc
  <2> QED
    BY <1>0, <1>2, <2>1, <2>2, ProvidersSame, JobsSame, BenignByTable
       DEF submit_job_lock, histVars, HistoryOK
<1>3. CASE submit_job_escrow(s)
  <2>1. CreditsOK'
    BY <1>0, <1>3 DEF submit_job_escrow, CreditsOK, EscrowState
  <2> QED
    BY <1>0, <1>3, <2>1, FinishType, ProvidersSame, JobsSame, BenignByTable
       DEF submit_job_escrow, histVars, HistoryOK
<1> QED BY <1>1, <1>2, <1>3

\* The statements of cancel_job after its first are benign.
LEMMA CancelBenign ==
  ASSUME TypeOK, NEW s \in Slots, UNCHANGED agentVars,
         \/ cancel_job_update(s) \/ cancel_job_refund(s)
         \/ cancel_job_release(s) \/ cancel_job_free(s)
  PROVE  TypeOK' /\ Benign
<1> USE TypeOKParts
<1>0. call[s].job \in Jobs /\ AgentsOK'
  BY AtType, AgentsSame
     DEF cancel_job_update, cancel_job_refund, cancel_job_release, cancel_job_free, At
<1>1. CASE cancel_job_update(s)
  <2>1. JobsOK' /\ BenignJobs
    BY <1>0, <1>1, SetJobStateBenign DEF cancel_job_update, JobState
  <2>2. CallsOK'
    BY <1>1, GotoType DEF cancel_job_update, At, CallPc, ProviderPc
  <2> QED
    BY <1>0, <1>1, <2>1, <2>2, ProvidersSame, CreditsSame, BenignByTable
       DEF cancel_job_update, histVars, HistoryOK
<1>2. CASE cancel_job_refund(s)
  <2>1. CreditsOK'
    <3> DEFINE j == call[s].job
               c == Consumer[j]
               locked == IF escrow_state[j] = "locked" THEN Cost[j] ELSE NULL
    <3>1. c \in Consumers /\ Cost[j] \in Nat
      BY <1>0, TablesAssumption
    <3>2. Plus(available_nmc[c], locked) \in Int \cup {NULL}
      BY <3>1 DEF CreditsOK, Plus
    <3>3. (IF locked = NULL THEN 0 ELSE Greatest0(escrowed_nmc[c] - locked)) \in Nat
      BY <3>1, Greatest0Type DEF CreditsOK
    <3> QED BY <1>2, <3>1, <3>2, <3>3 DEF cancel_job_refund, CreditsOK
  <2>2. CallsOK'
    BY <1>2, GotoType DEF cancel_job_refund, At, CallPc, ProviderPc
  <2> QED
    BY <1>0, <1>2, <2>1, <2>2, ProvidersSame, JobsSame, BenignByTable
       DEF cancel_job_refund, histVars, HistoryOK
<1>3. CASE cancel_job_release(s)
  <2>1. CreditsOK'
    BY <1>0, <1>3 DEF cancel_job_release, CreditsOK, EscrowState
  <2>2. CallsOK'
    BY <1>3, GotoType DEF cancel_job_release, At, CallPc, ProviderPc
  <2> QED
    BY <1>0, <1>3, <2>1, <2>2, ProvidersSame, JobsSame, BenignByTable
       DEF cancel_job_release, histVars, HistoryOK
<1>4. CASE cancel_job_free(s)
  <2>1. ProvidersOK' /\ BenignLeases
    BY <1>4, FreeProvidersBenign DEF cancel_job_free
  <2> QED
    BY <1>0, <1>4, <2>1, FinishType, JobsSame, CreditsSame, BenignByTable
       DEF cancel_job_free, histVars, HistoryOK
<1> QED BY <1>1, <1>2, <1>3, <1>4

\* The statements of complete_job after its first are benign.
LEMMA CompleteBenign ==
  ASSUME TypeOK, NEW s \in Slots, UNCHANGED agentVars,
         \/ complete_job_update(s) \/ complete_job_credit(s)
         \/ complete_job_deduct(s) \/ complete_job_free(s)
  PROVE  TypeOK' /\ Benign
<1> USE TypeOKParts
<1>0. /\ call[s].job \in Jobs /\ call[s].prov \in Providers /\ call[s].amt \in Nat
      /\ AgentsOK'
  BY AtType, AgentsSame
     DEF complete_job_update, complete_job_credit, complete_job_deduct, complete_job_free,
         At, ProviderPc
<1>1. CASE complete_job_update(s)
  <2>1. JobsOK' /\ BenignJobs
    BY <1>0, <1>1, SetJobStateBenign DEF complete_job_update, JobState
  <2>2. CallsOK'
    BY <1>1, GotoType DEF complete_job_update, At, CallPc, ProviderPc
  <2> QED
    BY <1>0, <1>1, <2>1, <2>2, ProvidersSame, CreditsSame, BenignByTable
       DEF complete_job_update, histVars, HistoryOK
<1>2. CASE complete_job_credit(s)
  <2>1. CreditsOK'
    <3>1. ProviderShare(call[s].amt) \in Nat
      BY <1>0, ProviderShareType
    <3>2. Plus(available_nmc[call[s].prov], ProviderShare(call[s].amt)) \in Int \cup {NULL}
      BY <1>0, <3>1 DEF CreditsOK, Plus
    <3> QED BY <1>0, <1>2, <3>2 DEF complete_job_credit, CreditsOK
  <2>2. CallsOK'
    BY <1>2, GotoType DEF complete_job_credit, At, CallPc, ProviderPc
  <2>3. payments' \in [Jobs -> Nat]
    BY <1>0, <1>2 DEF complete_job_credit, HistoryOK
  <2> QED
    BY <1>0, <1>2, <2>1, <2>2, <2>3, ProvidersSame, JobsSame, BenignByTable
       DEF complete_job_credit
<1>3. CASE complete_job_deduct(s)
  <2>1. CreditsOK'
    <3> DEFINE c == Consumer[call[s].job]
    <3>1. c \in Consumers
      BY <1>0, TablesAssumption
    <3>2. Greatest0(escrowed_nmc[c] - call[s].amt) \in Nat
      BY <1>0, <3>1, Greatest0Type DEF CreditsOK
    <3> QED BY <1>3, <3>1, <3>2 DEF complete_job_deduct, CreditsOK
  <2>2. CallsOK'
    BY <1>3, GotoType DEF complete_job_deduct, At, CallPc, ProviderPc
  <2> QED
    BY <1>0, <1>3, <2>1, <2>2, ProvidersSame, JobsSame, BenignByTable
       DEF complete_job_deduct, histVars, HistoryOK
<1>4. CASE complete_job_free(s)
  <2>1. ProvidersOK' /\ BenignLeases
    BY <1>0, <1>4, FreeProvidersBenign DEF complete_job_free
  <2> QED
    BY <1>0, <1>4, <2>1, FinishType, JobsSame, CreditsSame, BenignByTable
       DEF complete_job_free, histVars, HistoryOK
<1> QED BY <1>1, <1>2, <1>3, <1>4

\* So are those of fail_job, job_heartbeat and save_checkpoint.
LEMMA ReportBenign ==
  ASSUME TypeOK, NEW s \in Slots, UNCHANGED agentVars,
         \/ fail_job_refund(s) \/ fail_job_free(s)
         \/ job_heartbeat_seen(s) \/ save_checkpoint_update(s)
  PROVE  TypeOK' /\ Benign
<1> USE TypeOKParts
<1>0. call[s].job \in Jobs /\ call[s].prov \in Providers /\ AgentsOK'
  BY AtType, AgentsSame
     DEF fail_job_refund, fail_job_free, job_heartbeat_seen, save_checkpoint_update,
         At, ProviderPc
<1>1. CASE fail_job_refund(s)
  <2>1. CreditsOK'
    <3> DEFINE c == Consumer[call[s].job]
    <3>1. c \in Consumers
      BY <1>0, TablesAssumption
    <3>2. Plus(available_nmc[c], escrowed_nmc[c]) \in Int \cup {NULL}
      BY <3>1 DEF CreditsOK, Plus
    <3> QED BY <1>1, <3>1, <3>2 DEF fail_job_refund, CreditsOK
  <2>2. CallsOK'
    BY <1>1, GotoType DEF fail_job_refund, At, CallPc, ProviderPc
  <2> QED
    BY <1>0, <1>1, <2>1, <2>2, ProvidersSame, JobsSame, BenignByTable
       DEF fail_job_refund, histVars, HistoryOK
<1>2. CASE fail_job_free(s)
  <2>1. ProvidersOK' /\ BenignLeases
    BY <1>0, <1>2, FreeProvidersBenign DEF fail_job_free
  <2> QED
    BY <1>0, <1>2, <2>1, FinishType, JobsSame, CreditsSame, BenignByTable
       DEF fail_job_free, histVars, HistoryOK
<1>3. CASE job_heartbeat_seen(s)
  <2>1. ProvidersOK' /\ BenignLeases
    BY <1>0, <1>3 DEF job_heartbeat_seen, ProvidersOK, BenignLeases, LastSeen
  <2> QED
    BY <1>0, <1>3, <2>1, FinishType, JobsSame, CreditsSame, BenignByTable
       DEF job_heartbeat_seen, histVars, HistoryOK
<1>4. CASE save_checkpoint_update(s)
  <2>1. JobsOK' /\ BenignJobs
    BY <1>0, <1>4 DEF save_checkpoint_update, JobsOK, BenignJobs
  <2> QED
    BY <1>0, <1>4, <2>1, FinishType, ProvidersSame, CreditsSame, BenignByTable
       DEF save_checkpoint_update, histVars, HistoryOK
<1> QED BY <1>1, <1>2, <1>3, <1>4

\* No statement of a request handler queues an inserted job or sets a lease.
LEMMA HandlerBenign ==
  ASSUME TypeOK, NEW s \in Slots, UNCHANGED agentVars, HandlerStep(s) \/ abort_call(s)
  PROVE  TypeOK' /\ Benign
<1>1. CASE HandlerStep(s)
  BY <1>1, SubmitBenign, CancelBenign, CompleteBenign, ReportBenign DEF HandlerStep
<1>2. CASE abort_call(s)
  BY <1>2, FinishType, JobsSame, ProvidersSame, CreditsSame, AgentsSame, TypeOKParts,
     BenignByTable
     DEF abort_call, histVars, HistoryOK
<1> QED BY <1>1, <1>2

\* A statement that only takes up a request is benign.
LEMMA StartBenign ==
  ASSUME TypeOK, NEW s \in Slots, NEW pc \in CallPc, NEW j \in Jobs,
         NEW p \in Providers \cup {NULL}, NEW g \in Nat,
         pc \in ProviderPc => p \in Providers,
         Start(s, pc, j, p, g), AgentsOK',
         UNCHANGED <<jobVars, provVars, creditVars, auctionVars, watcherVars, histVars>>
  PROVE  TypeOK' /\ Benign
BY StartType, JobsSame, ProvidersSame, CreditsSame, TypeOKParts, BenignByTable
   DEF histVars, HistoryOK

\* A statement on one job and nothing else is benign unless it queues the job.
LEMMA OneJobBenign ==
  ASSUME TypeOK, JobsOK' /\ BenignJobs, CallsOK', AgentsOK',
         UNCHANGED <<provVars, creditVars, auctionVars, watcherVars, histVars>>
  PROVE  TypeOK' /\ Benign
BY ProvidersSame, CreditsSame, TypeOKParts, BenignByTable DEF histVars, HistoryOK

\* What consumers and the gRPC clients send is benign.
LEMMA ConsumerBenign ==
  ASSUME TypeOK, UNCHANGED agentVars, ConsumerStep
  PROVE  TypeOK' /\ Benign
<1> USE TypeOKParts
<1>0. AgentsOK'
  BY AgentsSame
<1>1. ASSUME NEW j \in Jobs, NEW s \in Slots, submit_job_select(s, j)
      PROVE  TypeOK' /\ Benign
  BY <1>0, <1>1, StartBenign DEF submit_job_select, CallPc, ProviderPc
<1>2. ASSUME NEW j \in Jobs, NEW s \in Slots, cancel_job_select(s, j)
      PROVE  TypeOK' /\ Benign
  BY <1>0, <1>2, StartBenign DEF cancel_job_select, CallPc, ProviderPc
<1>3. ASSUME NEW j \in Jobs, grpc_submit_job(j)
      PROVE  TypeOK' /\ Benign
  BY <1>0, <1>3, InsertBenign, CallsSame, OneJobBenign DEF grpc_submit_job, NextRow
<1>4. ASSUME NEW j \in Jobs,
             grpc_cancel_job(j) \/ acknowledge_job(j)
               \/ \E ok \in BOOLEAN : grpc_report_completion(j, ok)
      PROVE  TypeOK' /\ Benign
  <2>1. \E st \in JobState \ {"none", "queued"} : SetJobState(j, st)
    BY <1>4 DEF grpc_cancel_job, acknowledge_job, grpc_report_completion, JobState
  <2>2. JobsOK' /\ BenignJobs
    BY <2>1, SetJobStateBenign
  <2> QED
    BY <1>0, <1>4, <2>2, CallsSame, OneJobBenign
       DEF grpc_cancel_job, acknowledge_job, grpc_report_completion
<1> QED BY <1>1, <1>2, <1>3, <1>4 DEF ConsumerStep

\* Statements on provider rows by heartbeat, registration, time and evictor.
LEMMA ProviderRowBenign ==
  ASSUME TypeOK, ProvidersOK' /\ BenignLeases, AgentsOK',
         UNCHANGED <<jobVars, creditVars, call, auctionVars, watcherVars, histVars>>
  PROVE  TypeOK' /\ Benign
BY JobsSame, CreditsSame, CallsSame, TypeOKParts, BenignByTable DEF histVars, HistoryOK

\* A heartbeat clears leases and sets none.
LEMMA HeartbeatBenign ==
  ASSUME TypeOK, AgentsOK', NEW p \in Providers, NEW st \in ProviderState,
         send_heartbeat(p, st)
  PROVE  TypeOK' /\ Benign
<1>1. ProvidersOK' /\ BenignLeases
  BY TypeOKParts DEF send_heartbeat, ProvidersOK, BenignLeases, LastSeen
<1> QED BY <1>1, ProviderRowBenign DEF send_heartbeat

\* So does the evictor.
LEMMA EvictBenign ==
  ASSUME TypeOK, UNCHANGED agentVars, evict_stale_providers
  PROVE  TypeOK' /\ Benign
<1>1. ProvidersOK' /\ BenignLeases
  BY TypeOKParts DEF evict_stale_providers, ProvidersOK, BenignLeases, ProviderState
<1> QED BY <1>1, AgentsSame, TypeOKParts, ProviderRowBenign DEF evict_stale_providers

\* A step of an agent that touches no table.
LEMMA QuietBenign ==
  ASSUME TypeOK, UNCHANGED tableVars, AgentsOK'
  PROVE  TypeOK' /\ Benign
BY JobsSame, ProvidersSame, CreditsSame, CallsSame, TypeOKParts, BenignByTable
   DEF tableVars, histVars, HistoryOK

\* The main loop of an agent, its crashes and its silences are benign.
LEMMA AgentLoopBenign ==
  ASSUME TypeOK, NEW p \in Providers,
         \/ AgentIdleChange(p) \/ AgentHeartbeat(p)
         \/ AgentCrash(p) \/ AgentRestart(p) \/ Silence(p)
  PROVE  TypeOK' /\ Benign
<1> USE TypeOKParts
<1>1. CASE AgentIdleChange(p)
  <2>1. IdleChange(agent_state[p]) \in {"busy", "available"}
    BY DEF IdleChange
  <2>2. AgentsOK'
    BY <1>1, <2>1 DEF AgentIdleChange, AgentsOK
  <2>3. CASE send_heartbeat(p, IdleChange(agent_state[p]))
    BY <2>1, <2>2, <2>3, HeartbeatBenign DEF ProviderState
  <2>4. CASE UNCHANGED tableVars
    BY <2>2, <2>4, QuietBenign
  <2> QED BY <1>1, <2>3, <2>4 DEF AgentIdleChange
<1>2. CASE AgentHeartbeat(p)
  <2>1. AgentsOK' /\ agent_state[p] \in ProviderState
    BY <1>2, AgentsSame DEF AgentHeartbeat, LoopFree, AgentsOK, ProviderState
  <2> QED BY <1>2, <2>1, HeartbeatBenign DEF AgentHeartbeat
<1>3. CASE AgentCrash(p)
  <2>1. AgentsOK'
    BY <1>3 DEF AgentCrash, AgentsOK
  <2>2. CallsOK'
    BY <1>3 DEF AgentCrash, CallsOK, At, CallPc, ProviderPc
  <2> QED
    BY <1>3, <2>1, <2>2, JobsSame, ProvidersSame, CreditsSame, BenignByTable
       DEF AgentCrash, histVars, HistoryOK
<1>4. CASE AgentRestart(p)
  <2>1. AgentsOK'
    BY <1>4 DEF AgentRestart, AgentsOK
  <2>2. ProvidersOK' /\ BenignLeases
    BY <1>4 DEF AgentRestart, register_provider, ProvidersOK, BenignLeases, ProviderState
  <2> QED BY <1>4, <2>1, <2>2, ProviderRowBenign DEF AgentRestart, register_provider
<1>5. CASE Silence(p)
  <2>1. ProvidersOK' /\ BenignLeases
    BY <1>5 DEF Silence, ProvidersOK, BenignLeases, LastSeen
  <2> QED BY <1>5, <2>1, AgentsSame, ProviderRowBenign DEF Silence
<1> QED BY <1>1, <1>2, <1>3, <1>4, <1>5

\* So are the requests an agent makes for a job.
LEMMA AgentJobBenign ==
  ASSUME TypeOK, NEW p \in Providers, NEW s \in Slots, NEW j \in Jobs,
         \/ AgentPoll(p, s, j) \/ AgentFail(p, s, j)
         \/ AgentJobHeartbeat(p, s, j) \/ AgentCheckpoint(p, s, j)
         \/ \E g \in Bills[j] : AgentComplete(p, s, j, g)
  PROVE  TypeOK' /\ Benign
<1> USE TypeOKParts
<1>1. AgentsOK'
  BY AgentsSame DEF AgentPoll, AgentFail, AgentJobHeartbeat, AgentCheckpoint,
                    AgentComplete, AgentsOK, agentVars
<1>2. CASE AgentPoll(p, s, j)
  BY <1>1, <1>2, StartBenign DEF AgentPoll, get_assigned_job_select, CallPc, ProviderPc
<1>3. CASE AgentFail(p, s, j)
  <2>1. JobsOK' /\ BenignJobs
    BY <1>3, SetJobStateBenign DEF AgentFail, fail_job_update, JobState
  <2>2. CallsOK'
    BY <1>3, StartType DEF AgentFail, fail_job_update, CallPc, ProviderPc
  <2> QED BY <1>1, <1>3, <2>1, <2>2, OneJobBenign DEF AgentFail, fail_job_update
<1>4. CASE AgentJobHeartbeat(p, s, j)
  <2>1. JobsOK' /\ BenignJobs
    BY <1>4 DEF AgentJobHeartbeat, job_heartbeat_update, JobsOK, BenignJobs, JobState
  <2>2. CallsOK'
    BY <1>4, StartType DEF AgentJobHeartbeat, job_heartbeat_update, CallPc, ProviderPc
  <2> QED BY <1>1, <1>4, <2>1, <2>2, OneJobBenign DEF AgentJobHeartbeat, job_heartbeat_update
<1>5. CASE AgentCheckpoint(p, s, j)
  BY <1>1, <1>5, StartBenign DEF AgentCheckpoint, save_checkpoint_insert, CallPc, ProviderPc
<1>6. ASSUME NEW g \in Bills[j], AgentComplete(p, s, j, g)
      PROVE  TypeOK' /\ Benign
  BY <1>1, <1>6, StartBenign, TablesAssumption
     DEF AgentComplete, complete_job_select, CallPc, ProviderPc
<1> QED BY <1>2, <1>3, <1>4, <1>5, <1>6

\* And so is the answer to a poll.
LEMMA AcceptBenign ==
  ASSUME TypeOK, NEW s \in Slots, AgentAccept(s)
  PROVE  TypeOK' /\ Benign
<1> USE TypeOKParts
<1>0. call[s].job \in Jobs /\ call[s].prov \in Providers
  BY AtType DEF AgentAccept, get_assigned_job_update, ProviderPc
<1>1. AgentsOK'
  BY <1>0 DEF AgentAccept, AgentsOK, agentVars
<1>2. JobsOK' /\ BenignJobs
  BY <1>0, SetJobStateBenign, JobsSame DEF AgentAccept, get_assigned_job_update, JobState
<1> QED
  BY <1>1, <1>2, FinishType, OneJobBenign DEF AgentAccept, get_assigned_job_update

\* Nor does any step of an agent.
LEMMA AgentBenign ==
  ASSUME TypeOK, AgentStep
  PROVE  TypeOK' /\ Benign
<1>1. ASSUME NEW p \in Providers, NEW j \in Jobs, AgentReportLost(p, j)
      PROVE  TypeOK' /\ Benign
  <2>1. AgentsOK'
    BY <1>1, TypeOKParts DEF AgentReportLost, AgentsOK
  <2> QED BY <1>1, <2>1, QuietBenign DEF AgentReportLost
<1> QED BY <1>1, AgentLoopBenign, AgentJobBenign, AcceptBenign DEF AgentStep

-----------------------------------------------------------------------------
(* Benign steps keep the invariant. *)

\* The general form also covers the watcher's steps that give a job up.
LEMMA WatchShrinksKeepsIInv ==
  ASSUME IInv, TypeOK', UNCHANGED <<auctionVars, dispatches>>, BenignJobs, BenignLeases,
         \A j \in Jobs : InWatch(j)' => InWatch(j),
         WatchInHand',
         w_pc' = "requeue" => \/ w_pc = "requeue" /\ w_job' = w_job
                              \/ /\ checkpoint_url[w_job']
                                 /\ restore_attempts[w_job'] < MaxRestoreAttempts
  PROVE  IInv'
<1> USE DEF BenignJobs, BenignLeases, auctionVars
<1>0. /\ TypeOK /\ NoneFresh /\ OneToken /\ AuctionInHand /\ WatchInHand /\ RestoreCounted
      /\ LeaseExclusive /\ QueuedUnowned /\ DispatchBound
  BY DEF IInv
<1>1. \A j \in Jobs : /\ InAuction(j)' <=> InAuction(j)
                      /\ Leased(j)' => Leased(j)
  BY TablesAssumption DEF InAuction, Leased
<1>2. NoneFresh'
  BY <1>0, <1>1 DEF NoneFresh
<1>3. OneToken'
  BY <1>0, <1>1 DEF OneToken, NoneFresh
<1>4. AuctionInHand'
  BY <1>0 DEF AuctionInHand, NoneFresh, InAuction, TypeOK, TablesTypeOK, AuctionOK
<1>5. RestoreCounted'
  BY <1>0 DEF RestoreCounted, Waiting, NoneFresh
<1>6. LeaseExclusive'
  BY <1>0 DEF LeaseExclusive
<1>7. QueuedUnowned'
  BY <1>0 DEF QueuedUnowned, NoneFresh
<1>8. DispatchBound'
  BY <1>0 DEF DispatchBound
<1> QED
  BY <1>2, <1>3, <1>4, <1>5, <1>6, <1>7, <1>8 DEF IInv

\* A step that neither queues an inserted job nor sets a lease keeps the invariant.
LEMMA BenignKeepsIInv ==
  ASSUME IInv, TypeOK', Benign
  PROVE  IInv'
<1>1. \A j \in Jobs : InWatch(j)' => InWatch(j)
  BY DEF Benign, watcherVars, InWatch
<1>2. WatchInHand'
  BY TablesAssumption DEF IInv, WatchInHand, Leased, Benign, BenignLeases, watcherVars
<1> QED BY <1>1, <1>2, WatchShrinksKeepsIInv DEF Benign, watcherVars

-----------------------------------------------------------------------------
(* The auction *)

\* What a step of the auction or the watcher has to keep, in terms of IInv's parts.
LEMMA IInvParts ==
  IInv <=> /\ TypeOK /\ NoneFresh /\ OneToken /\ AuctionInHand /\ WatchInHand
           /\ RestoreCounted /\ LeaseExclusive /\ QueuedUnowned /\ DispatchBound
BY DEF IInv

\* Steps of the auction that leave jobs, providers and the watcher alone: only
\* what it holds changes.
LEMMA AuctionTypeOK ==
  ASSUME TypeOK, AuctionOK',
         UNCHANGED <<jobVars, provVars, creditVars, call, watcherVars, histVars, agentVars>>
  PROVE  TypeOK'
<1>1. JobsOK' /\ ProvidersOK' /\ CreditsOK' /\ CallsOK' /\ AgentsOK'
  BY JobsSame, ProvidersSame, CreditsSame, CallsSame, AgentsSame, TypeOKParts
<1>2. WatcherOK' /\ HistoryOK'
  BY TypeOKParts DEF watcherVars, WatcherOK, histVars, HistoryOK
<1> QED BY <1>1, <1>2 DEF TypeOK, TablesTypeOK, AgentsOK

\* The auction's snapshot takes each queued job once, as it is.
LEMMA SelectKeepsIInv ==
  ASSUME IInv, UNCHANGED agentVars, run_auction_cycle_select
  PROVE  IInv'
<1> USE IInvParts DEF run_auction_cycle_select
<1> DEFINE Q == {j \in Jobs : job_state[j] = "queued"}
<1>0. a_todo' \subseteq Q /\ a_todo' \subseteq Jobs
  BY DEF Oldest
<1>1. TypeOK'
  BY <1>0, AuctionTypeOK, TypeOKParts DEF AuctionOK
<1>2. /\ NoneFresh' /\ OneToken'
  BY <1>0 DEF NoneFresh, OneToken, InAuction, InWatch, Leased, jobVars, provVars, watcherVars,
              histVars
<1>3. AuctionInHand'
  BY DEF AuctionInHand
<1>4. WatchInHand' /\ LeaseExclusive' /\ QueuedUnowned' /\ DispatchBound'
  <2>1. WatchInHand'
    BY DEF WatchInHand, Leased, provVars, watcherVars
  <2>2. LeaseExclusive' /\ QueuedUnowned' /\ DispatchBound'
    BY DEF LeaseExclusive, QueuedUnowned, DispatchBound, jobVars, provVars, histVars
  <2> QED BY <2>1, <2>2
<1>5. RestoreCounted'
  BY <1>0 DEF RestoreCounted, Waiting, jobVars, watcherVars, histVars
<1> QED BY <1>1, <1>2, <1>3, <1>4, <1>5 DEF IInv

\* find_best_provider, find_no_provider and a failing statement.
LEMMA FindKeepsIInv ==
  ASSUME IInv, UNCHANGED agentVars,
         \/ \E j \in Jobs, p \in Providers : find_best_provider(j, p)
         \/ \E j \in Jobs : find_no_provider(j)
         \/ auction_error
  PROVE  IInv'
<1> USE IInvParts
<1>0. /\ UNCHANGED <<jobVars, provVars, creditVars, call, watcherVars, histVars>>
      /\ a_todo' \subseteq a_todo
      /\ a_restore' \subseteq a_restore
      /\ \/ a_pc' = "scan" /\ \A j \in a_todo' : j \in a_restore => j \in a_restore'
         \/ /\ a_pc = "scan" /\ a_pc' = "assign" /\ a_restore' = a_restore
            /\ a_job' \in a_todo \ a_todo' /\ a_prov' \in Providers
      /\ a_pc' = "scan" => a_job' \in {a_job, NULL} /\ a_prov' \in {a_prov, NULL}
  BY TablesAssumption
     DEF find_best_provider, find_no_provider, auction_error, IsNext, Candidates, TypeOK,
         TablesTypeOK, AuctionOK
<1>1. TypeOK'
  BY <1>0, AuctionTypeOK, TypeOKParts DEF AuctionOK
<1>2. NoneFresh' /\ OneToken'
  BY <1>0 DEF NoneFresh, OneToken, InAuction, InWatch, Leased, jobVars, provVars, watcherVars,
              histVars
<1>3. AuctionInHand'
  BY <1>0 DEF AuctionInHand
<1>4. WatchInHand' /\ LeaseExclusive' /\ QueuedUnowned' /\ DispatchBound'
  <2>1. WatchInHand'
    BY <1>0 DEF WatchInHand, Leased, provVars, watcherVars
  <2>2. LeaseExclusive' /\ QueuedUnowned' /\ DispatchBound'
    BY <1>0 DEF LeaseExclusive, QueuedUnowned, DispatchBound, jobVars, provVars, histVars
  <2> QED BY <2>1, <2>2
<1>5. RestoreCounted'
  BY <1>0 DEF RestoreCounted, Waiting, jobVars, watcherVars, histVars
<1> QED BY <1>1, <1>2, <1>3, <1>4, <1>5 DEF IInv

\* The job row: the dispatch is counted when the job ran before.
LEMMA AssignKeepsIInv ==
  ASSUME IInv, UNCHANGED agentVars, assign_job_update
  PROVE  IInv'
<1> USE IInvParts, TypeOKParts DEF assign_job_update
<1>0. /\ a_job \in Jobs /\ a_prov \in Providers /\ a_job \notin a_todo
      /\ InAuction(a_job) /\ ~InWatch(a_job) /\ ~Leased(a_job)
      /\ job_state[a_job] # "none"
  BY DEF AuctionOK, AuctionInHand, InAuction, OneToken, NoneFresh
<1>1. TypeOK'
  <2>1. JobsOK'
    BY <1>0 DEF JobsOK, JobState
  <2>2. ProvidersOK' /\ CreditsOK' /\ CallsOK' /\ AgentsOK'
    BY ProvidersSame, CreditsSame, CallsSame, AgentsSame
  <2>3. AuctionOK' /\ WatcherOK' /\ HistoryOK'
    BY <1>0 DEF AuctionOK, WatcherOK, HistoryOK, watcherVars
  <2> QED BY <2>1, <2>2, <2>3 DEF TypeOK, TablesTypeOK, AgentsOK
<1>2. \A j \in Jobs : /\ InAuction(j)' <=> InAuction(j)
                      /\ InWatch(j)' <=> InWatch(j)
                      /\ Leased(j)' <=> Leased(j)
  BY DEF InAuction, InWatch, Leased, provVars, watcherVars
<1>3. \A j \in Jobs \ {a_job} :
        /\ job_state'[j] = job_state[j] /\ job_provider'[j] = job_provider[j]
        /\ restore_attempts'[j] = restore_attempts[j] /\ dispatches'[j] = dispatches[j]
  BY DEF JobsOK, HistoryOK
<1>4. /\ job_state'[a_job] = "assigned"
      /\ dispatches'[a_job] = dispatches[a_job] + 1
      /\ restore_attempts'[a_job] =
           restore_attempts[a_job] + IF a_job \in a_restore THEN 1 ELSE 0
  BY <1>0 DEF JobsOK, HistoryOK
<1>5. NoneFresh' /\ OneToken'
  BY <1>0, <1>2, <1>3, <1>4 DEF NoneFresh, OneToken
<1>6. AuctionInHand'
  BY <1>0, <1>4 DEF AuctionInHand
<1>7. WatchInHand'
  BY <1>2 DEF WatchInHand, Leased, provVars, watcherVars
<1>8. LeaseExclusive' /\ QueuedUnowned'
  BY <1>3, <1>4 DEF LeaseExclusive, QueuedUnowned, provVars
<1>9. /\ dispatches'[a_job] <= restore_attempts'[a_job] + 1
      /\ restore_attempts'[a_job] <= MaxRestoreAttempts
           \/ dispatches'[a_job] <= MaxRestoreAttempts + 1
  BY <1>0, <1>4, TablesAssumption DEF RestoreCounted, Waiting, JobsOK, HistoryOK
<1>10. RestoreCounted'
  <2> SUFFICES ASSUME NEW j \in Jobs
               PROVE  /\ dispatches'[j] <= restore_attempts'[j] + 1
                      /\ w_pc' = "requeue" /\ w_job' = j =>
                           checkpoint_url'[j] /\ restore_attempts'[j] < MaxRestoreAttempts
                      /\ Waiting(j)' /\ dispatches'[j] > 0 =>
                           checkpoint_url'[j] /\ restore_attempts'[j] < MaxRestoreAttempts
                      /\ j \in a_todo' \/ (a_pc' = "assign" /\ a_job' = j) =>
                           (dispatches'[j] > 0 => j \in a_restore')
    BY DEF RestoreCounted
  <2>1. CASE j = a_job
    BY <1>0, <1>4, <1>9, <2>1 DEF Waiting, InWatch, watcherVars
  <2>2. CASE j # a_job
    BY <1>3, <2>2 DEF RestoreCounted, Waiting, watcherVars
  <2> QED BY <2>1, <2>2
<1>11. DispatchBound'
  BY <1>3, <1>4, <1>9, <1>1, TablesAssumption
     DEF DispatchBound, TypeOK, TablesTypeOK, JobsOK, HistoryOK
<1> QED BY <1>1, <1>5, <1>6, <1>7, <1>8, <1>10, <1>11 DEF IInv

\* The provider row: nobody holds the job and the watcher does not know it.
LEMMA LeaseKeepsIInv ==
  ASSUME IInv, UNCHANGED agentVars, assign_job_lease
  PROVE  IInv'
<1> USE IInvParts, TypeOKParts DEF assign_job_lease
<1>0. /\ a_job \in Jobs /\ a_prov \in Providers /\ a_job \notin a_todo
      /\ InAuction(a_job) /\ ~InWatch(a_job) /\ ~Leased(a_job)
      /\ job_state[a_job] \notin {"none", "queued"}
  BY DEF AuctionOK, AuctionInHand, InAuction, OneToken, NoneFresh
<1>1. TypeOK'
  <2>1. ProvidersOK'
    BY <1>0 DEF ProvidersOK, ProviderState
  <2>2. JobsOK' /\ CreditsOK' /\ CallsOK' /\ AgentsOK'
    BY JobsSame, CreditsSame, CallsSame, AgentsSame
  <2>3. AuctionOK' /\ WatcherOK' /\ HistoryOK'
    BY <1>0 DEF AuctionOK, WatcherOK, HistoryOK, watcherVars, histVars
  <2> QED BY <2>1, <2>2, <2>3 DEF TypeOK, TablesTypeOK, AgentsOK
<1>2. /\ active_job'[a_prov] = a_job
      /\ \A p \in Providers \ {a_prov} : active_job'[p] = active_job[p]
  BY <1>0 DEF ProvidersOK
<1>3. \A j \in Jobs : /\ InAuction(j)' => InAuction(j) /\ j # a_job
                      /\ InWatch(j)' <=> InWatch(j)
                      /\ Leased(j)' => Leased(j) \/ j = a_job
  BY <1>0, <1>2 DEF InAuction, InWatch, Leased, watcherVars
<1>4. NoneFresh' /\ OneToken'
  BY <1>0, <1>3 DEF NoneFresh, OneToken, jobVars, histVars
<1>5. AuctionInHand'
  BY DEF AuctionInHand
<1>6. WatchInHand'
  BY <1>0, <1>2, <1>3 DEF WatchInHand, InWatch, watcherVars
<1>7. RestoreCounted'
  BY DEF RestoreCounted, Waiting, jobVars, watcherVars, histVars
<1>8. LeaseExclusive'
  BY <1>0, <1>2 DEF LeaseExclusive, Leased
<1>9. QueuedUnowned' /\ DispatchBound'
  BY DEF QueuedUnowned, DispatchBound, jobVars, histVars
<1> QED BY <1>1, <1>4, <1>5, <1>6, <1>7, <1>8, <1>9 DEF IInv

-----------------------------------------------------------------------------
(* The watcher *)

\* A watcher's step is well-typed if what it writes is.
LEMMA WatcherTypeOK ==
  ASSUME TypeOK, JobsOK', ProvidersOK', CreditsOK', WatcherOK',
         UNCHANGED <<call, auctionVars, histVars, agentVars>>
  PROVE  TypeOK'
<1>1. CallsOK' /\ AgentsOK'
  BY CallsSame, AgentsSame, TypeOKParts
<1>2. AuctionOK' /\ HistoryOK'
  BY TypeOKParts DEF auctionVars, AuctionOK, histVars, HistoryOK
<1> QED BY <1>1, <1>2 DEF TypeOK, TablesTypeOK, AgentsOK

\* The snapshot names leased jobs only, and each of them once.
LEMMA SnapshotKeepsIInv ==
  ASSUME IInv, UNCHANGED agentVars, check_stale_providers_select
  PROVE  IInv'
<1> USE IInvParts, TypeOKParts DEF check_stale_providers_select
<1>0. \A e \in w_todo' : \E p \in Providers : e = <<p, active_job[p]>>
  OBVIOUS
<1>1. \A p \in Providers, j \in Jobs : <<p, j>> \in w_todo' => active_job[p] = j
  BY <1>0
<1>2. TypeOK'
  <2>1. WatcherOK'
    BY <1>0 DEF WatcherOK, ProvidersOK
  <2> QED BY <2>1, JobsSame, ProvidersSame, CreditsSame, WatcherTypeOK
<1>3. \A j \in Jobs : /\ InAuction(j)' <=> InAuction(j)
                      /\ InWatch(j)' => Leased(j)
                      /\ Leased(j)' <=> Leased(j)
  BY <1>1 DEF InAuction, InWatch, Leased, provVars, auctionVars
<1>4. NoneFresh' /\ OneToken'
  BY <1>3 DEF NoneFresh, OneToken, jobVars, histVars
<1>5. WatchInHand'
  BY <1>1, TablesAssumption DEF WatchInHand, LeaseExclusive, provVars
<1>6. AuctionInHand' /\ RestoreCounted'
  BY DEF AuctionInHand, RestoreCounted, Waiting, jobVars, auctionVars, histVars
<1>7. LeaseExclusive' /\ QueuedUnowned' /\ DispatchBound'
  BY DEF LeaseExclusive, QueuedUnowned, DispatchBound, jobVars, provVars, histVars
<1> QED BY <1>2, <1>4, <1>5, <1>6, <1>7 DEF IInv

\* With the provider offline nobody holds the job the watcher has in hand.
LEMMA OfflineKeepsIInv ==
  ASSUME IInv, UNCHANGED agentVars, NEW e \in w_todo, check_stale_providers_offline(e)
  PROVE  IInv'
<1> USE IInvParts, TypeOKParts DEF check_stale_providers_offline
<1>0. PICK p \in Providers, x \in Jobs \cup {NULL} : e = <<p, x>>
  BY DEF WatcherOK
<1>1. /\ active_job'[p] = NULL
      /\ \A q \in Providers \ {p} : active_job'[q] = active_job[q]
  BY <1>0 DEF ProvidersOK
<1>2. /\ w_todo' = w_todo \ {<<p, x>>} /\ w_job' = x
      /\ w_pc = "scan" /\ w_pc' = IF x = NULL THEN "scan" ELSE "lookup"
  BY <1>0
<1>3. TypeOK'
  <2>1. ProvidersOK'
    BY <1>0 DEF ProvidersOK, ProviderState
  <2>2. WatcherOK'
    BY <1>0, <1>2 DEF WatcherOK
  <2> QED BY <2>1, <2>2, JobsSame, CreditsSame, WatcherTypeOK
<1>4. BenignJobs /\ BenignLeases
  BY <1>1, JobsSame DEF BenignLeases
<1>5. \A j \in Jobs : InWatch(j)' => InWatch(j)
  BY <1>0, <1>2 DEF InWatch
<1>6. WatchInHand'
  BY <1>0, <1>1, <1>2, TablesAssumption DEF WatchInHand, Leased
<1> QED
  BY <1>2, <1>3, <1>4, <1>5, <1>6, WatchShrinksKeepsIInv DEF histVars

\* Decisions, the failure of a job and its refund, and a failing statement.
LEMMA GiveUpKeepsIInv ==
  ASSUME IInv, UNCHANGED agentVars,
         \/ migrate_or_fail_job_lookup \/ migrate_or_fail_job_fail
         \/ refund_consumer_escrow_select \/ refund_consumer_escrow_release
         \/ refund_consumer_escrow_credit \/ watcher_error
  PROVE  IInv'
<1> USE IInvParts, TypeOKParts
<1>0. /\ UNCHANGED <<provVars, call, auctionVars, histVars>>
      /\ w_todo' \subseteq w_todo
      /\ w_pc' \in {"lookup", "requeue"} => w_pc = "lookup" /\ w_job' = w_job
      /\ w_pc' = "requeue" => /\ checkpoint_url[w_job]
                              /\ restore_attempts[w_job] < MaxRestoreAttempts
  BY DEF migrate_or_fail_job_lookup, migrate_or_fail_job_fail, refund_consumer_escrow_select,
         refund_consumer_escrow_release, refund_consumer_escrow_credit, watcher_error
<1>1. JobsOK' /\ BenignJobs
  <2>1. CASE migrate_or_fail_job_fail
    BY <2>1, SetJobStateBenign DEF migrate_or_fail_job_fail, WatcherOK, JobState
  <2>2. CASE ~migrate_or_fail_job_fail
    BY <2>2, JobsSame
       DEF migrate_or_fail_job_lookup, refund_consumer_escrow_select,
           refund_consumer_escrow_release, refund_consumer_escrow_credit, watcher_error
  <2> QED BY <2>1, <2>2
<1>2. ProvidersOK' /\ BenignLeases
  BY <1>0, ProvidersSame
<1>3. CreditsOK'
  <2>1. CASE refund_consumer_escrow_release
    BY <2>1 DEF refund_consumer_escrow_release, CreditsOK, EscrowState, WatcherOK
  <2>2. CASE refund_consumer_escrow_credit
    <3> DEFINE c == Consumer[w_job]
    <3>1. w_job \in Jobs /\ c \in Consumers /\ Cost[w_job] \in Nat
      BY <2>2, TablesAssumption DEF refund_consumer_escrow_credit, WatcherOK
    <3>2. Plus(available_nmc[c], Cost[w_job]) \in Int \cup {NULL}
      BY <3>1 DEF CreditsOK, Plus
    <3>3. Greatest0(escrowed_nmc[c] - Cost[w_job]) \in Nat
      BY <3>1, Greatest0Type DEF CreditsOK
    <3> QED BY <2>2, <3>1, <3>2, <3>3 DEF refund_consumer_escrow_credit, CreditsOK
  <2>3. CASE ~refund_consumer_escrow_release /\ ~refund_consumer_escrow_credit
    BY <2>3, CreditsSame
       DEF migrate_or_fail_job_lookup, migrate_or_fail_job_fail, refund_consumer_escrow_select,
           watcher_error
  <2> QED BY <2>1, <2>2, <2>3
<1>4. WatcherOK'
  BY DEF WatcherOK, migrate_or_fail_job_lookup, migrate_or_fail_job_fail,
         refund_consumer_escrow_select, refund_consumer_escrow_release,
         refund_consumer_escrow_credit, watcher_error
<1>5. TypeOK'
  BY <1>0, <1>1, <1>2, <1>3, <1>4, WatcherTypeOK
<1>6. \A j \in Jobs : InWatch(j)' => InWatch(j)
  BY <1>0 DEF InWatch
<1>7. WatchInHand'
  BY <1>0 DEF WatchInHand, Leased, provVars
<1> QED
  BY <1>0, <1>1, <1>2, <1>5, <1>6, <1>7, WatchShrinksKeepsIInv DEF histVars

\* The watcher hands the job back to the queue, with its checkpoint.
LEMMA RequeueKeepsIInv ==
  ASSUME IInv, UNCHANGED agentVars, migrate_or_fail_job_requeue
  PROVE  IInv'
<1> USE IInvParts, TypeOKParts DEF migrate_or_fail_job_requeue
<1>0. /\ w_job \in Jobs /\ InWatch(w_job) /\ ~InAuction(w_job) /\ ~Leased(w_job)
      /\ job_state[w_job] # "none"
      /\ \A p \in Providers : <<p, w_job>> \notin w_todo
      /\ checkpoint_url[w_job] /\ restore_attempts[w_job] < MaxRestoreAttempts
  BY DEF WatcherOK, InWatch, OneToken, NoneFresh, WatchInHand, RestoreCounted
<1>1. TypeOK'
  <2>1. JobsOK'
    BY <1>0 DEF JobsOK, JobState
  <2>2. WatcherOK'
    BY DEF WatcherOK
  <2> QED BY <2>1, <2>2, ProvidersSame, CreditsSame, WatcherTypeOK
<1>2. /\ job_state'[w_job] = "queued" /\ job_provider'[w_job] = NULL
      /\ \A j \in Jobs \ {w_job} :
           job_state'[j] = job_state[j] /\ job_provider'[j] = job_provider[j]
  BY <1>0 DEF JobsOK
<1>3. \A j \in Jobs : /\ InAuction(j)' <=> InAuction(j)
                      /\ InWatch(j)' => InWatch(j) /\ j # w_job
                      /\ Leased(j)' <=> Leased(j)
  BY <1>0 DEF InAuction, InWatch, Leased, provVars, auctionVars
<1>4. NoneFresh' /\ OneToken'
  BY <1>0, <1>2, <1>3 DEF NoneFresh, OneToken, histVars
<1>5. AuctionInHand'
  BY <1>0, <1>2 DEF AuctionInHand, InAuction, AuctionOK, auctionVars
<1>6. WatchInHand'
  BY <1>3 DEF WatchInHand, provVars
<1>7. RestoreCounted'
  BY <1>0, <1>2 DEF RestoreCounted, Waiting, InAuction, auctionVars, histVars
<1>8. LeaseExclusive' /\ DispatchBound'
  BY DEF LeaseExclusive, DispatchBound, provVars, histVars
<1>9. QueuedUnowned'
  BY <1>2 DEF QueuedUnowned
<1> QED BY <1>1, <1>4, <1>5, <1>6, <1>7, <1>8, <1>9 DEF IInv

-----------------------------------------------------------------------------
(* The theorems *)

\* Initially every dispatch right is with a job not inserted yet.
LEMMA InitIInv == Init => IInv
<1> SUFFICES ASSUME Init PROVE IInv
  OBVIOUS
<1>1. TypeOK
  <2>1. JobsOK /\ ProvidersOK /\ HistoryOK
    BY DEF Init, TablesInit, JobsOK, ProvidersOK, HistoryOK, JobState, ProviderState, LastSeen
  <2>2. CreditsOK
    BY TablesAssumption DEF Init, TablesInit, CreditsOK, EscrowState
  <2>3. CallsOK
    BY DEF Init, TablesInit, CallsOK, IdleCall, CallPc, ProviderPc
  <2>4. AuctionOK /\ WatcherOK
    BY DEF Init, TablesInit, AuctionOK, WatcherOK
  <2> QED BY <2>1, <2>2, <2>3, <2>4 DEF TypeOK, TablesTypeOK, Init
<1>2. NoneFresh /\ OneToken /\ AuctionInHand /\ WatchInHand
  BY TablesAssumption
     DEF Init, TablesInit, NoneFresh, OneToken, AuctionInHand, WatchInHand, InAuction, InWatch,
         Leased
<1>3. RestoreCounted /\ LeaseExclusive /\ QueuedUnowned /\ DispatchBound
  BY TablesAssumption
     DEF Init, TablesInit, RestoreCounted, Waiting, LeaseExclusive, QueuedUnowned, DispatchBound
<1> QED BY <1>1, <1>2, <1>3 DEF IInv

\* Every step keeps the invariant, action by action.
LEMMA NextIInv ==
  ASSUME IInv, [Next]_vars
  PROVE  IInv'
<1>0. TypeOK
  BY DEF IInv
<1>1. CASE AgentStep
  BY <1>0, <1>1, AgentBenign, BenignKeepsIInv
<1>2. CASE UNCHANGED agentVars /\ ConsumerStep
  BY <1>0, <1>2, ConsumerBenign, BenignKeepsIInv
<1>3. CASE UNCHANGED agentVars /\ \E s \in Slots : HandlerStep(s) \/ abort_call(s)
  BY <1>0, <1>3, HandlerBenign, BenignKeepsIInv
<1>4. CASE UNCHANGED agentVars /\ (AuctionStep \/ auction_error)
  BY <1>4, SelectKeepsIInv, FindKeepsIInv, AssignKeepsIInv, LeaseKeepsIInv DEF AuctionStep
<1>5. CASE UNCHANGED agentVars /\ (WatcherStep \/ watcher_error)
  BY <1>5, SnapshotKeepsIInv, OfflineKeepsIInv, GiveUpKeepsIInv, RequeueKeepsIInv
     DEF WatcherStep
<1>6. CASE UNCHANGED agentVars /\ evict_stale_providers
  BY <1>0, <1>6, EvictBenign, BenignKeepsIInv
<1>7. CASE UNCHANGED vars
  <2>1. TypeOK' /\ Benign
    BY <1>0, <1>7, QuietBenign, AgentsSame, TypeOKParts DEF vars
  <2> QED BY <2>1, BenignKeepsIInv
<1> QED BY <1>1, <1>2, <1>3, <1>4, <1>5, <1>6, <1>7 DEF Next

\* The invariant that ties the job rows, the leases, the auction's snapshot and
\* the watcher's snapshot together holds in every reachable state, for every
\* interleaving of the coordinator's statements.
THEOREM InvariantHolds == Spec => []IInv
<1>1. Init => IInv
  BY InitIInv
<1>2. IInv /\ [Next]_vars => IInv'
  BY NextIInv
<1> QED BY <1>1, <1>2, PTL DEF Spec

\* Every column and every register of the handlers and loops keeps its type.
THEOREM TypeCorrect == Spec => []TypeOK
<1>1. IInv => TypeOK
  BY DEF IInv
<1> QED BY <1>1, InvariantHolds, PTL

\* No two providers ever hold a lease for the same job (assign_job,
\* check_stale_providers), whatever requests, crashes and errors interleave.
THEOREM LeasesAreExclusive == Spec => []LeaseExclusive
<1>1. IInv => LeaseExclusive
  BY DEF IInv
<1> QED BY <1>1, InvariantHolds, PTL

\* A queued job has no provider (migrate_or_fail_job clears it).
THEOREM QueuedJobsAreUnowned == Spec => []QueuedUnowned
<1>1. IInv => QueuedUnowned
  BY DEF IInv
<1> QED BY <1>1, InvariantHolds, PTL

\* A job is dispatched at most MAX_RESTORE_ATTEMPTS + 1 times.
THEOREM DispatchesAreBounded == Spec => []DispatchBound
<1>1. IInv => DispatchBound
  BY DEF IInv
<1> QED BY <1>1, InvariantHolds, PTL

-----------------------------------------------------------------------------
(* Payments.  A dispatch can lead to one payment: it is spent on one of the   *)
(* following, which the code passes on from one to the next.                  *)

\* A request that may still start the job, or pay for it.
Counted == {"poll_update", "complete_update", "complete_credit"}

InHand(j) == [s \in Slots |-> IF call[s].pc \in Counted /\ call[s].job = j THEN 1 ELSE 0]

\* A task that executes the job and will report it.
Exec(j) == [p \in Providers |-> IF j \in executing[p] THEN 1 ELSE 0]

\* An assignment its provider has not asked for yet.
Asked(j) == \E s \in Slots : /\ call[s].pc = "poll_update" /\ call[s].job = j
                             /\ call[s].prov = job_provider[j]

Open(j) == IF job_state[j] = "assigned" /\ ~Asked(j) THEN 1 ELSE 0

Budget(j) == payments[j] + Total(InHand(j), Slots) + Total(Exec(j), Providers) + Open(j)
               <= dispatches[j]

\* PaidPerDispatch is inductive together with what a dispatch is spent on.
PaidInv == \A j \in Jobs : Budget(j)

\* The summands are 0 or 1, so the sums are integers.
LEMMA BudgetTypes ==
  ASSUME TypeOK, NEW j \in Jobs
  PROVE  /\ payments[j] \in Nat /\ dispatches[j] \in Nat /\ Open(j) \in {0, 1}
         /\ \A s \in Slots : InHand(j)[s] \in {0, 1}
         /\ \A p \in Providers : Exec(j)[p] \in {0, 1}
         /\ Total(InHand(j), Slots) \in Int /\ Total(Exec(j), Providers) \in Int
<1>1. payments[j] \in Nat /\ dispatches[j] \in Nat
  BY DEF TypeOK, TablesTypeOK, HistoryOK
<1>2. Open(j) \in {0, 1}
  BY DEF Open
<1>3. \A s \in Slots : InHand(j)[s] \in {0, 1}
  BY DEF InHand
<1>4. \A p \in Providers : Exec(j)[p] \in {0, 1}
  BY DEF Exec
<1>5. Total(InHand(j), Slots) \in Int
  <2> DEFINE f == InHand(j)
  <2>1. \A s \in Slots : f[s] \in Int
    BY <1>3
  <2> HIDE DEF f
  <2>2. Total(f, Slots) \in Int
    BY <2>1, TotalInt, TablesAssumption
  <2> QED BY <2>2 DEF f
<1>6. Total(Exec(j), Providers) \in Int
  <2> DEFINE f == Exec(j)
  <2>1. \A p \in Providers : f[p] \in Int
    BY <1>4
  <2> HIDE DEF f
  <2>2. Total(f, Providers) \in Int
    BY <2>1, TotalInt, TablesAssumption
  <2> QED BY <2>2 DEF f
<1> QED BY <1>1, <1>2, <1>3, <1>4, <1>5, <1>6

\* What BudgetTypes says of the next state.
LEMMA BudgetTypesNext ==
  ASSUME TypeOK', NEW j \in Jobs
  PROVE  /\ payments'[j] \in Nat /\ dispatches'[j] \in Nat /\ Open(j)' \in {0, 1}
         /\ Total(InHand(j), Slots)' \in Int /\ Total(Exec(j), Providers)' \in Int
<1> DEFINE f == InHand(j)'
           g == Exec(j)'
<1>1. payments'[j] \in Nat /\ dispatches'[j] \in Nat /\ Open(j)' \in {0, 1}
  BY DEF TypeOK, TablesTypeOK, HistoryOK, Open
<1>2. (\A s \in Slots : f[s] \in Int) /\ (\A p \in Providers : g[p] \in Int)
  BY DEF InHand, Exec
<1> HIDE DEF f, g
<1>3. Total(f, Slots) \in Int /\ Total(g, Providers) \in Int
  BY <1>2, TotalInt, TablesAssumption
<1> QED BY <1>1, <1>3 DEF f, g

\* The requests of a job as the step leaves them: at most one summand grows.
LEMMA InHandMoves ==
  ASSUME TypeOK, TypeOK', NEW j \in Jobs
  PROVE  /\ (\A s \in Slots : InHand(j)'[s] <= InHand(j)[s])
              => Total(InHand(j), Slots)' <= Total(InHand(j), Slots)
         /\ \A a \in Slots : (\A s \in Slots \ {a} : InHand(j)'[s] <= InHand(j)[s])
              => Total(InHand(j), Slots)' <= Total(InHand(j), Slots) - InHand(j)[a] + InHand(j)'[a]
<1> DEFINE f == InHand(j)
           g == InHand(j)'
<1>1. \A s \in Slots : f[s] \in Int
  BY BudgetTypes
<1>2. \A s \in Slots : g[s] \in Int
  BY DEF InHand
<1>3. Total(InHand(j), Slots)' = Total(g, Slots)
  OBVIOUS
<1> HIDE DEF f, g
<1>4. (\A s \in Slots : g[s] <= f[s]) => Total(g, Slots) <= Total(f, Slots)
  BY <1>1, <1>2, TotalMonotone, TablesAssumption
<1>5. \A a \in Slots : (\A s \in Slots \ {a} : g[s] <= f[s])
        => Total(g, Slots) <= Total(f, Slots) - f[a] + g[a]
  BY <1>1, <1>2, TotalAtMost, TablesAssumption
<1> QED BY <1>3, <1>4, <1>5 DEF f, g

\* The same for the tasks.
LEMMA ExecMoves ==
  ASSUME TypeOK, TypeOK', NEW j \in Jobs
  PROVE  /\ (\A p \in Providers : Exec(j)'[p] <= Exec(j)[p])
              => Total(Exec(j), Providers)' <= Total(Exec(j), Providers)
         /\ \A a \in Providers : (\A p \in Providers \ {a} : Exec(j)'[p] <= Exec(j)[p])
              => Total(Exec(j), Providers)' <= Total(Exec(j), Providers) - Exec(j)[a] + Exec(j)'[a]
<1> DEFINE f == Exec(j)
           g == Exec(j)'
<1>1. \A p \in Providers : f[p] \in Int
  BY BudgetTypes
<1>2. \A p \in Providers : g[p] \in Int
  BY DEF Exec
<1>3. Total(Exec(j), Providers)' = Total(g, Providers)
  OBVIOUS
<1> HIDE DEF f, g
<1>4. (\A p \in Providers : g[p] <= f[p]) => Total(g, Providers) <= Total(f, Providers)
  BY <1>1, <1>2, TotalMonotone, TablesAssumption
<1>5. \A a \in Providers : (\A p \in Providers \ {a} : g[p] <= f[p])
        => Total(g, Providers) <= Total(f, Providers) - f[a] + g[a]
  BY <1>1, <1>2, TotalAtMost, TablesAssumption
<1> QED BY <1>3, <1>4, <1>5 DEF f, g

\* A step on which a job's requests and tasks do not grow, and which dispatches
\* it as often as it newly assigns or pays for it, keeps the budget.
LEMMA HarmlessKeepsBudget ==
  ASSUME TypeOK, TypeOK', NEW j \in Jobs, Budget(j),
         \A s \in Slots : InHand(j)'[s] <= InHand(j)[s],
         \A p \in Providers : Exec(j)'[p] <= Exec(j)[p],
         payments'[j] + Open(j)' - dispatches'[j] <= payments[j] + Open(j) - dispatches[j]
  PROVE  Budget(j)'
<1> DEFINE i == Total(InHand(j), Slots)
           x == Total(Exec(j), Providers)
<1>1. i' <= i /\ x' <= x
  BY InHandMoves, ExecMoves
<1>2. i \in Int /\ x \in Int /\ payments[j] \in Nat /\ dispatches[j] \in Nat /\ Open(j) \in {0, 1}
  BY BudgetTypes
<1>3. i' \in Int /\ x' \in Int /\ payments'[j] \in Nat /\ dispatches'[j] \in Nat /\ Open(j)' \in {0, 1}
  BY BudgetTypesNext
<1>4. payments[j] + i + x + Open(j) <= dispatches[j]
  BY DEF Budget
<1> HIDE DEF i, x
<1>5. payments'[j] + i' + x' + Open(j)' <= dispatches'[j]
  BY <1>1, <1>2, <1>3, <1>4
<1> QED BY <1>5 DEF i, x, Budget

\* A step that passes a dispatch on between the request s and the task of p.
LEMMA ExchangeKeepsBudget ==
  ASSUME TypeOK, TypeOK', NEW j \in Jobs, Budget(j), NEW s \in Slots, NEW p \in Providers,
         \A t \in Slots \ {s} : InHand(j)'[t] <= InHand(j)[t],
         \A q \in Providers \ {p} : Exec(j)'[q] <= Exec(j)[q],
         UNCHANGED histVars,
         InHand(j)'[s] + Exec(j)'[p] + Open(j)' <= InHand(j)[s] + Exec(j)[p] + Open(j)
  PROVE  Budget(j)'
<1> DEFINE i == Total(InHand(j), Slots)
           x == Total(Exec(j), Providers)
<1>1. i' <= i - InHand(j)[s] + InHand(j)'[s] /\ x' <= x - Exec(j)[p] + Exec(j)'[p]
  BY InHandMoves, ExecMoves
<1>2. /\ i \in Int /\ x \in Int /\ payments[j] \in Nat /\ dispatches[j] \in Nat
      /\ Open(j) \in {0, 1} /\ InHand(j)[s] \in {0, 1} /\ Exec(j)[p] \in {0, 1}
  BY BudgetTypes
<1>3. i' \in Int /\ x' \in Int /\ Open(j)' \in {0, 1}
  BY BudgetTypesNext
<1>4. InHand(j)'[s] \in {0, 1} /\ Exec(j)'[p] \in {0, 1}
  BY DEF InHand, Exec
<1>5. payments[j] + i + x + Open(j) <= dispatches[j]
  BY DEF Budget
<1>6. payments'[j] = payments[j] /\ dispatches'[j] = dispatches[j]
  BY DEF histVars
<1> HIDE DEF i, x
<1>7. i' + x' + Open(j)' <= i + x + Open(j)
  BY <1>1, <1>2, <1>3, <1>4
<1>8. payments'[j] + i' + x' + Open(j)' <= dispatches'[j]
  BY <1>2, <1>3, <1>5, <1>6, <1>7
<1> QED BY <1>8 DEF i, x, Budget

\* Steps that neither assign a job nor take up or drop a poll, that start no
\* report and no task: they keep every budget.
Tame ==
  /\ \A j \in Jobs : job_state'[j] = "assigned" =>
       job_state[j] = "assigned" /\ job_provider'[j] = job_provider[j]
  /\ \A s \in Slots : call'[s].pc \in Counted =>
       call[s].pc \in Counted /\ call'[s].job = call[s].job
  /\ \A s \in Slots : call[s].pc = "poll_update" => call'[s] = call[s]
  /\ \A p \in Providers : executing'[p] \subseteq executing[p]
  /\ UNCHANGED histVars

\* A step that starts no claim on a dispatch keeps the budget.
LEMMA TameKeepsPaid ==
  ASSUME TypeOK, TypeOK', PaidInv, Tame
  PROVE  PaidInv'
<1> SUFFICES ASSUME NEW j \in Jobs PROVE Budget(j)'
  BY DEF PaidInv
<1>1. Budget(j)
  BY DEF PaidInv
<1>2. \A s \in Slots : InHand(j)'[s] <= InHand(j)[s]
  BY DEF InHand, Tame
<1>3. \A p \in Providers : Exec(j)'[p] <= Exec(j)[p]
  BY DEF Exec, Tame
<1>4. Open(j)' <= Open(j)
  <2>1. Asked(j) /\ job_provider'[j] = job_provider[j] => Asked(j)'
    BY DEF Asked, Tame
  <2> QED BY <2>1 DEF Open, Tame
<1>5. payments'[j] = payments[j] /\ dispatches'[j] = dispatches[j]
  BY DEF Tame, histVars
<1>6. payments'[j] + Open(j)' - dispatches'[j] <= payments[j] + Open(j) - dispatches[j]
  BY <1>4, <1>5, BudgetTypes, BudgetTypesNext
<1> QED BY <1>1, <1>2, <1>3, <1>6, HarmlessKeepsBudget

-----------------------------------------------------------------------------
(* Steps that are tame *)

\* What a request at pc x becomes: it goes on to a statement that does not count, or ends.
CallMoves(s) ==
  /\ call[s].pc # "poll_update"
  /\ \A t \in Slots \ {s} : call'[t] = call[t]
  /\ call'[s].pc \in Counted => call[s].pc \in Counted /\ call'[s].job = call[s].job

\* A step of one handler is tame when the job rows and its own request are.
LEMMA TameByTable ==
  ASSUME NEW s \in Slots, CallMoves(s),
         \A j \in Jobs : job_state'[j] = "assigned" =>
           job_state[j] = "assigned" /\ job_provider'[j] = job_provider[j],
         \A p \in Providers : executing'[p] \subseteq executing[p], UNCHANGED histVars
  PROVE  Tame
BY DEF Tame, CallMoves

\* No statement of a handler but the credit of complete_job is about payments.
LEMMA HandlerTame ==
  ASSUME TypeOK, NEW s \in Slots, UNCHANGED agentVars, HandlerStep(s), ~complete_job_credit(s)
  PROVE  Tame
<1> USE TypeOKParts DEF CallsOK, CallMoves, Counted, Goto, Finish, At, IdleCall, histVars
<1>1. \A p \in Providers : executing'[p] \subseteq executing[p]
  BY DEF agentVars
<1>2. CASE submit_job_insert(s)
  <2>1. CallMoves(s)
    BY <1>2 DEF submit_job_insert
  <2> QED BY <1>1, <1>2, <2>1, TameByTable DEF submit_job_insert, SetJobState, JobsOK
<1>3. CASE submit_job_lock(s) \/ submit_job_escrow(s)
  <2>1. CallMoves(s)
    BY <1>3 DEF submit_job_lock, submit_job_escrow
  <2> QED BY <1>1, <1>3, <2>1, TameByTable DEF submit_job_lock, submit_job_escrow, jobVars
<1>4. CASE cancel_job_update(s)
  <2>1. CallMoves(s)
    BY <1>4 DEF cancel_job_update
  <2> QED BY <1>1, <1>4, <2>1, TameByTable DEF cancel_job_update, SetJobState, JobsOK
<1>5. CASE cancel_job_refund(s) \/ cancel_job_release(s) \/ cancel_job_free(s)
  <2>1. CallMoves(s)
    BY <1>5 DEF cancel_job_refund, cancel_job_release, cancel_job_free
  <2> QED
    BY <1>1, <1>5, <2>1, TameByTable
       DEF cancel_job_refund, cancel_job_release, cancel_job_free, jobVars
<1>6. CASE complete_job_update(s)
  <2>1. CallMoves(s)
    BY <1>6 DEF complete_job_update
  <2> QED BY <1>1, <1>6, <2>1, TameByTable DEF complete_job_update, SetJobState, JobsOK
<1>7. CASE complete_job_deduct(s) \/ complete_job_free(s)
  <2>1. CallMoves(s)
    BY <1>7 DEF complete_job_deduct, complete_job_free
  <2> QED BY <1>1, <1>7, <2>1, TameByTable DEF complete_job_deduct, complete_job_free, jobVars
<1>8. CASE fail_job_refund(s) \/ fail_job_free(s) \/ job_heartbeat_seen(s)
  <2>1. CallMoves(s)
    BY <1>8 DEF fail_job_refund, fail_job_free, job_heartbeat_seen
  <2> QED
    BY <1>1, <1>8, <2>1, TameByTable DEF fail_job_refund, fail_job_free, job_heartbeat_seen, jobVars
<1>9. CASE save_checkpoint_update(s)
  <2>1. CallMoves(s)
    BY <1>9 DEF save_checkpoint_update
  <2> QED BY <1>1, <1>9, <2>1, TameByTable DEF save_checkpoint_update
<1> QED
  BY <1>2, <1>3, <1>4, <1>5, <1>6, <1>7, <1>8, <1>9 DEF HandlerStep

\* A step that starts a request which can lead to no payment, or none.
LEMMA StartTame ==
  ASSUME TypeOK,
         \/ UNCHANGED call
         \/ \E s \in Slots, pc \in CallPc \ Counted, j \in Jobs, p \in Providers \cup {NULL} :
              Start(s, pc, j, p, 0),
         \A j \in Jobs : job_state'[j] = "assigned" =>
           job_state[j] = "assigned" /\ job_provider'[j] = job_provider[j],
         \A p \in Providers : executing'[p] \subseteq executing[p], UNCHANGED histVars
  PROVE  Tame
<1>1. CASE UNCHANGED call
  BY <1>1 DEF Tame
<1>2. ASSUME NEW s \in Slots, NEW pc \in CallPc \ Counted, NEW j \in Jobs,
             NEW p \in Providers \cup {NULL}, Start(s, pc, j, p, 0)
      PROVE  Tame
  <2>1. CallMoves(s)
    BY <1>2, TypeOKParts DEF Start, CallMoves, CallsOK, Counted
  <2> QED BY <2>1, TameByTable
<1> QED BY <1>1, <1>2

\* Nothing a consumer or a gRPC client asks for leads to a payment at once.
LEMMA ConsumerTame ==
  ASSUME TypeOK, UNCHANGED agentVars, ConsumerStep
  PROVE  Tame
<1> USE TypeOKParts
<1>1. \A p \in Providers : executing'[p] \subseteq executing[p]
  BY DEF agentVars
<1>2. ASSUME NEW j \in Jobs, NEW s \in Slots, submit_job_select(s, j) \/ cancel_job_select(s, j)
      PROVE  Tame
  <2>1. \E pc \in CallPc \ Counted, p \in Providers \cup {NULL} : Start(s, pc, j, p, 0)
    BY <1>2 DEF submit_job_select, cancel_job_select, CallPc, Counted
  <2> QED
    BY <1>1, <1>2, <2>1, StartTame DEF submit_job_select, cancel_job_select, jobVars
<1>3. ASSUME NEW j \in Jobs,
             \/ grpc_submit_job(j) \/ grpc_cancel_job(j) \/ acknowledge_job(j)
             \/ \E ok \in BOOLEAN : grpc_report_completion(j, ok)
      PROVE  Tame
  <2>1. PICK st \in JobState \ {"assigned"} : SetJobState(j, st)
    BY <1>3 DEF grpc_submit_job, grpc_cancel_job, acknowledge_job, grpc_report_completion, JobState
  <2>2. \A i \in Jobs : job_state'[i] = "assigned" =>
          job_state[i] = "assigned" /\ job_provider'[i] = job_provider[i]
    BY <2>1 DEF SetJobState, JobsOK
  <2>3. UNCHANGED <<call, histVars>>
    BY <1>3 DEF grpc_submit_job, grpc_cancel_job, acknowledge_job, grpc_report_completion
  <2> QED BY <1>1, <2>2, <2>3, StartTame
<1> QED BY <1>2, <1>3 DEF ConsumerStep

\* Nor does what an agent does besides polling, reporting and crashing.
LEMMA AgentTame ==
  ASSUME TypeOK, NEW p \in Providers,
         \/ AgentIdleChange(p) \/ AgentHeartbeat(p) \/ AgentRestart(p) \/ Silence(p)
         \/ \E j \in Jobs :
              \/ AgentReportLost(p, j)
              \/ \E s \in Slots :
                   AgentFail(p, s, j) \/ AgentJobHeartbeat(p, s, j) \/ AgentCheckpoint(p, s, j)
  PROVE  Tame
<1> USE TypeOKParts
<1>1. CASE AgentIdleChange(p) \/ AgentHeartbeat(p) \/ AgentRestart(p) \/ Silence(p)
  <2>1. UNCHANGED <<call, jobVars, histVars, executing>>
    BY <1>1 DEF AgentIdleChange, AgentHeartbeat, AgentRestart, Silence, send_heartbeat,
                register_provider, tableVars, agentVars
  <2> QED BY <2>1, StartTame DEF jobVars
<1>2. ASSUME NEW j \in Jobs, AgentReportLost(p, j)
      PROVE  Tame
  <2>1. UNCHANGED <<call, jobVars, histVars>>
    BY <1>2 DEF AgentReportLost, tableVars
  <2>2. \A q \in Providers : executing'[q] \subseteq executing[q]
    BY <1>2 DEF AgentReportLost, AgentsOK
  <2> QED BY <2>1, <2>2, StartTame DEF jobVars
<1>3. ASSUME NEW j \in Jobs, NEW s \in Slots, AgentFail(p, s, j)
      PROVE  Tame
  <2>1. Start(s, "fail_refund", j, p, 0) /\ "fail_refund" \in CallPc \ Counted
    BY <1>3 DEF AgentFail, fail_job_update, CallPc, Counted
  <2>2. \A q \in Providers : executing'[q] \subseteq executing[q]
    BY <1>3 DEF AgentFail, AgentsOK
  <2>3. \A i \in Jobs : job_state'[i] = "assigned" =>
          job_state[i] = "assigned" /\ job_provider'[i] = job_provider[i]
    BY <1>3 DEF AgentFail, fail_job_update, SetJobState, JobsOK
  <2> QED BY <1>3, <2>1, <2>2, <2>3, StartTame DEF AgentFail, fail_job_update
<1>4. ASSUME NEW j \in Jobs, NEW s \in Slots, AgentJobHeartbeat(p, s, j)
      PROVE  Tame
  <2>1. Start(s, "beat_seen", j, p, 0) /\ "beat_seen" \in CallPc \ Counted
    BY <1>4 DEF AgentJobHeartbeat, job_heartbeat_update, CallPc, Counted
  <2>2. \A i \in Jobs : job_state'[i] = "assigned" =>
          job_state[i] = "assigned" /\ job_provider'[i] = job_provider[i]
    BY <1>4 DEF AgentJobHeartbeat, job_heartbeat_update, JobsOK
  <2> QED
    BY <1>4, <2>1, <2>2, StartTame DEF AgentJobHeartbeat, job_heartbeat_update, agentVars
<1>5. ASSUME NEW j \in Jobs, NEW s \in Slots, AgentCheckpoint(p, s, j)
      PROVE  Tame
  <2>1. Start(s, "checkpoint_update", j, p, 0) /\ "checkpoint_update" \in CallPc \ Counted
    BY <1>5 DEF AgentCheckpoint, save_checkpoint_insert, CallPc, Counted
  <2> QED
    BY <1>5, <2>1, StartTame DEF AgentCheckpoint, save_checkpoint_insert, agentVars, jobVars
<1> QED BY <1>1, <1>2, <1>3, <1>4, <1>5

\* The loops pay nobody; only the first statement of assign_job assigns a job.
LEMMA LoopsTame ==
  ASSUME TypeOK, UNCHANGED agentVars,
         \/ AuctionStep /\ ~assign_job_update
         \/ auction_error \/ WatcherStep \/ watcher_error \/ evict_stale_providers
  PROVE  Tame
<1> USE TypeOKParts
<1>1. UNCHANGED <<call, histVars, executing>>
  BY DEF AuctionStep, run_auction_cycle_select, find_best_provider, find_no_provider,
         assign_job_lease, auction_error, WatcherStep, check_stale_providers_select,
         check_stale_providers_offline, migrate_or_fail_job_lookup, migrate_or_fail_job_requeue,
         migrate_or_fail_job_fail, refund_consumer_escrow_select, refund_consumer_escrow_release,
         refund_consumer_escrow_credit, watcher_error, evict_stale_providers, agentVars
<1>2. CASE UNCHANGED jobVars
  BY <1>1, <1>2, StartTame DEF jobVars
<1>3. CASE migrate_or_fail_job_fail
  <2>1. w_job \in Jobs /\ SetJobState(w_job, "failed")
    BY <1>3 DEF migrate_or_fail_job_fail, WatcherOK
  <2> QED BY <1>1, <2>1, StartTame DEF SetJobState, JobsOK
<1>4. CASE migrate_or_fail_job_requeue
  <2>1. w_job \in Jobs
    BY <1>4 DEF migrate_or_fail_job_requeue, WatcherOK
  <2>2. \A i \in Jobs : job_state'[i] = "assigned" =>
          job_state[i] = "assigned" /\ job_provider'[i] = job_provider[i]
    BY <1>4, <2>1 DEF migrate_or_fail_job_requeue, JobsOK
  <2> QED BY <1>1, <2>2, StartTame
<1> QED
  BY <1>2, <1>3, <1>4
     DEF AuctionStep, run_auction_cycle_select, find_best_provider, find_no_provider,
         assign_job_lease, auction_error, WatcherStep, check_stale_providers_select,
         check_stale_providers_offline, migrate_or_fail_job_lookup,
         refund_consumer_escrow_select, refund_consumer_escrow_release,
         refund_consumer_escrow_credit, watcher_error, evict_stale_providers
-----------------------------------------------------------------------------
(* Steps that pass a dispatch on *)

\* get_assigned_job finds the job: the assignment is asked for.  The agent has
\* no other poll in flight, since its main loop awaits the answer.
LEMMA PollKeepsPaid ==
  ASSUME TypeOK, TypeOK', PaidInv, NEW p \in Providers, NEW s \in Slots, NEW k \in Jobs,
         AgentPoll(p, s, k)
  PROVE  PaidInv'
<1> SUFFICES ASSUME NEW j \in Jobs PROVE Budget(j)'
  BY DEF PaidInv
<1> USE TypeOKParts DEF AgentPoll, get_assigned_job_select, Start
<1>1. /\ call[s].pc = "idle" /\ \A t \in Slots \ {s} : call'[t] = call[t]
      /\ call'[s].pc = "poll_update" /\ call'[s].job = k /\ call'[s].prov = p
  BY DEF CallsOK
<1>2. UNCHANGED <<jobVars, histVars, executing>> /\ job_provider[k] = p /\ job_state[k] = "assigned"
  BY DEF agentVars
<1>3. \A t \in Slots \ {s} : InHand(j)'[t] <= InHand(j)[t]
  BY <1>1 DEF InHand
<1>4. \A q \in Providers : Exec(j)'[q] = Exec(j)[q] /\ Exec(j)[q] \in {0, 1}
  BY <1>2 DEF Exec
<1>5. Asked(j) => Asked(j)'
  <2>1. ASSUME NEW t \in Slots, call[t].pc = "poll_update" PROVE t # s
    BY <1>1, <2>1
  <2> QED BY <1>1, <1>2, <2>1 DEF Asked, jobVars
<1>6. Open(j)' <= Open(j)
  BY <1>2, <1>5 DEF Open, jobVars
<1>7. InHand(j)'[s] + Open(j)' <= InHand(j)[s] + Open(j)
  <2>1. CASE j # k
    <3>1. InHand(j)'[s] = 0 /\ InHand(j)[s] = 0
      BY <1>1, <2>1 DEF InHand, Counted
    <3> QED BY <1>6, <3>1, BudgetTypes, BudgetTypesNext
  <2>2. CASE j = k
    <3>1. InHand(j)'[s] = 1 /\ InHand(j)[s] = 0
      BY <1>1, <2>2 DEF InHand, Counted
    <3>2. ~Asked(j)
      BY <1>2, <2>2 DEF Asked, LoopFree, Polling, At
    <3>3. Asked(j)'
      BY <1>1, <1>2, <2>2 DEF Asked, jobVars
    <3>4. Open(j) = 1 /\ Open(j)' = 0
      BY <1>2, <2>2, <3>2, <3>3 DEF Open
    <3> QED BY <3>1, <3>4
  <2> QED BY <2>1, <2>2
<1>8. InHand(j)'[s] \in {0, 1} /\ InHand(j)[s] \in {0, 1}
  BY DEF InHand
<1>9. InHand(j)'[s] + Exec(j)'[p] + Open(j)' <= InHand(j)[s] + Exec(j)[p] + Open(j)
  BY <1>4, <1>7, <1>8, BudgetTypes, BudgetTypesNext
<1>10. \A q \in Providers \ {p} : Exec(j)'[q] <= Exec(j)[q]
  BY <1>4
<1> QED BY <1>2, <1>3, <1>9, <1>10, ExchangeKeepsBudget DEF PaidInv

\* The answer arrives: the poll becomes a task, or is lost.  The job is running
\* by then, because the UPDATE did not fail.
LEMMA AcceptKeepsPaid ==
  ASSUME TypeOK, TypeOK', PaidInv, "db_error" \notin Workload, NEW s \in Slots, AgentAccept(s)
  PROVE  PaidInv'
<1> SUFFICES ASSUME NEW j \in Jobs PROVE Budget(j)'
  BY DEF PaidInv
<1> USE TypeOKParts DEF AgentAccept, get_assigned_job_update, Finish, At
<1> DEFINE k == call[s].job
           p == call[s].prov
<1>1. k \in Jobs /\ p \in Providers
  BY AtType DEF ProviderPc
<1>2. /\ \A t \in Slots \ {s} : call'[t] = call[t]
      /\ call'[s].pc = "idle"
  BY DEF CallsOK, IdleCall
<1>3. \A t \in Slots \ {s} : InHand(j)'[t] <= InHand(j)[t]
  BY <1>2 DEF InHand
<1>4. \A q \in Providers \ {p} : Exec(j)'[q] <= Exec(j)[q]
  BY <1>1 DEF Exec, agentVars, AgentsOK
<1>5. /\ job_state'[k] = "running" /\ job_provider' = job_provider
      /\ \A i \in Jobs \ {k} : job_state'[i] = job_state[i]
  BY <1>1 DEF SetJobState, JobsOK
<1>6. Open(j)' <= Open(j)
  <2>1. CASE j = k
    BY <1>5, <2>1, BudgetTypes DEF Open
  <2>2. CASE j # k
    <3>1. Asked(j) => Asked(j)'
      BY <1>2, <1>5, <2>2 DEF Asked
    <3> QED BY <1>5, <2>2, <3>1 DEF Open
  <2> QED BY <2>1, <2>2
<1>7. InHand(j)'[s] + Exec(j)'[p] <= InHand(j)[s] + Exec(j)[p]
  <2>1. InHand(j)'[s] = 0
    BY <1>2 DEF InHand, Counted
  <2>2. CASE j = k /\ call[s].pc = "poll_update"
    <3>1. InHand(j)[s] = 1
      BY <2>2 DEF InHand, Counted
    <3>2. Exec(j)'[p] \in {0, 1} /\ Exec(j)[p] \in {0, 1}
      BY <1>1 DEF Exec
    <3> QED BY <2>1, <3>1, <3>2
  <2>3. CASE j # k \/ call[s].pc # "poll_update"
    <3>1. Exec(j)'[p] = Exec(j)[p]
      BY <1>1, <2>3 DEF Exec, agentVars, AgentsOK
    <3>2. Exec(j)[p] \in {0, 1} /\ InHand(j)[s] \in {0, 1}
      BY <1>1 DEF Exec, InHand
    <3> QED BY <2>1, <3>1, <3>2
  <2> QED BY <2>2, <2>3
<1>8. /\ InHand(j)'[s] \in {0, 1} /\ InHand(j)[s] \in {0, 1}
      /\ Exec(j)'[p] \in {0, 1} /\ Exec(j)[p] \in {0, 1}
  BY <1>1 DEF InHand, Exec
<1>9. InHand(j)'[s] + Exec(j)'[p] + Open(j)' <= InHand(j)[s] + Exec(j)[p] + Open(j)
  BY <1>6, <1>7, <1>8, BudgetTypes, BudgetTypesNext
<1>10. Budget(j) /\ UNCHANGED histVars
  BY DEF PaidInv
<1> HIDE DEF k, p
<1> QED BY <1>1, <1>3, <1>4, <1>9, <1>10, ExchangeKeepsBudget

\* A task ends with its one report: the task becomes a request to complete the job.
LEMMA CompleteKeepsPaid ==
  ASSUME TypeOK, TypeOK', PaidInv, NEW p \in Providers, NEW s \in Slots, NEW k \in Jobs,
         NEW g \in Bills[k], AgentComplete(p, s, k, g)
  PROVE  PaidInv'
<1> SUFFICES ASSUME NEW j \in Jobs PROVE Budget(j)'
  BY DEF PaidInv
<1> USE TypeOKParts DEF AgentComplete, complete_job_select, Start
<1>1. /\ call[s].pc = "idle" /\ \A t \in Slots \ {s} : call'[t] = call[t]
      /\ call'[s].pc = "complete_update" /\ call'[s].job = k
  BY DEF CallsOK
<1>2. \A t \in Slots \ {s} : InHand(j)'[t] <= InHand(j)[t]
  BY <1>1 DEF InHand
<1>3. \A q \in Providers \ {p} : Exec(j)'[q] <= Exec(j)[q]
  BY DEF Exec, AgentsOK
<1>4. Open(j)' <= Open(j)
  <2>1. Asked(j) => Asked(j)'
    BY <1>1 DEF Asked, jobVars
  <2> QED BY <2>1 DEF Open, jobVars
<1>5. InHand(j)[s] = 0 /\ InHand(j)'[s] = (IF j = k THEN 1 ELSE 0)
  BY <1>1 DEF InHand, Counted
<1>6. Exec(j)[p] \in {0, 1} /\ Exec(j)'[p] = (IF j = k THEN 0 ELSE Exec(j)[p])
      /\ (j = k => Exec(j)[p] = 1)
  BY DEF Exec, AgentsOK
<1>7. InHand(j)'[s] + Exec(j)'[p] + Open(j)' <= InHand(j)[s] + Exec(j)[p] + Open(j)
  BY <1>4, <1>5, <1>6, BudgetTypes, BudgetTypesNext
<1>8. Budget(j) /\ UNCHANGED histVars
  BY DEF PaidInv
<1> QED BY <1>2, <1>3, <1>7, <1>8, ExchangeKeepsBudget

\* The credit is the payment, and ends what the dispatch can lead to.
LEMMA CreditKeepsPaid ==
  ASSUME TypeOK, TypeOK', PaidInv, NEW s \in Slots, UNCHANGED agentVars, complete_job_credit(s)
  PROVE  PaidInv'
<1> SUFFICES ASSUME NEW j \in Jobs PROVE Budget(j)'
  BY DEF PaidInv
<1> USE TypeOKParts DEF complete_job_credit, At, Goto
<1> DEFINE k == call[s].job
           i == Total(InHand(j), Slots)
           x == Total(Exec(j), Providers)
<1>1. k \in Jobs
  BY AtType
<1>2. /\ \A t \in Slots \ {s} : call'[t] = call[t]
      /\ call[s].pc = "complete_credit" /\ call'[s].pc = "complete_deduct"
  BY DEF CallsOK
<1>3. \A t \in Slots \ {s} : InHand(j)'[t] <= InHand(j)[t]
  BY <1>2 DEF InHand
<1>4. InHand(j)'[s] = 0 /\ InHand(j)[s] = (IF j = k THEN 1 ELSE 0)
  BY <1>2 DEF InHand, Counted
<1>5. \A q \in Providers : Exec(j)'[q] <= Exec(j)[q]
  BY DEF Exec, agentVars
<1>6. Open(j)' = Open(j)
  <2>1. Asked(j)' <=> Asked(j)
    BY <1>2 DEF Asked, jobVars
  <2> QED BY <2>1 DEF Open, jobVars
<1>7. payments'[j] = payments[j] + (IF j = k THEN 1 ELSE 0) /\ dispatches'[j] = dispatches[j]
  BY DEF HistoryOK
<1>8. i' <= i - InHand(j)[s] + InHand(j)'[s] /\ x' <= x
  BY <1>3, <1>5, InHandMoves, ExecMoves
<1>9. /\ i \in Int /\ x \in Int /\ payments[j] \in Nat /\ dispatches[j] \in Nat
      /\ Open(j) \in {0, 1}
  BY BudgetTypes
<1>10. i' \in Int /\ x' \in Int
  BY BudgetTypesNext
<1>11. payments[j] + i + x + Open(j) <= dispatches[j]
  BY DEF PaidInv, Budget
<1> HIDE DEF k, i, x
<1>12. payments'[j] + i' + x' + Open(j)' <= dispatches'[j]
  BY <1>4, <1>6, <1>7, <1>8, <1>9, <1>10, <1>11
<1> QED BY <1>12 DEF Budget, i, x

\* An assignment is a dispatch.
LEMMA AssignKeepsPaid ==
  ASSUME TypeOK, TypeOK', PaidInv, UNCHANGED agentVars, assign_job_update
  PROVE  PaidInv'
<1> SUFFICES ASSUME NEW j \in Jobs PROVE Budget(j)'
  BY DEF PaidInv
<1> USE TypeOKParts DEF assign_job_update
<1>1. a_job \in Jobs
  BY DEF AuctionOK
<1>2. \A t \in Slots : InHand(j)'[t] <= InHand(j)[t]
  BY DEF InHand
<1>3. \A q \in Providers : Exec(j)'[q] <= Exec(j)[q]
  BY DEF Exec, agentVars
<1>4. payments'[j] = payments[j] /\ dispatches'[j] = dispatches[j] + (IF j = a_job THEN 1 ELSE 0)
  BY <1>1 DEF HistoryOK
<1>5. j # a_job => Open(j)' = Open(j)
  <2>1. ASSUME j # a_job PROVE Asked(j)' <=> Asked(j)
    BY <2>1 DEF Asked, JobsOK
  <2> QED BY <2>1 DEF Open, JobsOK
<1>6. payments'[j] + Open(j)' - dispatches'[j] <= payments[j] + Open(j) - dispatches[j]
  BY <1>4, <1>5, BudgetTypes, BudgetTypesNext
<1>7. Budget(j)
  BY DEF PaidInv
<1> QED BY <1>2, <1>3, <1>6, <1>7, HarmlessKeepsBudget

\* A crash loses tasks; a poll it cuts off will still mark the job running, or
\* leaves the job to be asked for again.
LEMMA CrashKeepsPaid ==
  ASSUME TypeOK, TypeOK', PaidInv, NEW p \in Providers, AgentCrash(p)
  PROVE  PaidInv'
<1> SUFFICES ASSUME NEW j \in Jobs PROVE Budget(j)'
  BY DEF PaidInv
<1> USE TypeOKParts DEF AgentCrash, At
<1>1. \A t \in Slots : /\ call[t].pc = "poll_update" /\ call[t].prov = p => call'[t].pc = "poll_orphan"
                       /\ ~(call[t].pc = "poll_update" /\ call[t].prov = p) => call'[t] = call[t]
  BY DEF CallsOK
<1>2. \A t \in Slots : InHand(j)'[t] <= InHand(j)[t]
  BY <1>1 DEF InHand, Counted
<1>3. \A q \in Providers : Exec(j)'[q] <= Exec(j)[q]
  BY DEF Exec, AgentsOK
<1>4. Budget(j)
  BY DEF PaidInv
<1>5. CASE Open(j)' <= Open(j)
  <2>1. payments'[j] + Open(j)' - dispatches'[j] <= payments[j] + Open(j) - dispatches[j]
    BY <1>5, BudgetTypes, BudgetTypesNext DEF histVars
  <2> QED BY <1>2, <1>3, <1>4, <2>1, HarmlessKeepsBudget
<1>6. CASE ~(Open(j)' <= Open(j))
  <2>1. Open(j)' = 1 /\ Open(j) = 0
    BY <1>6, BudgetTypes, BudgetTypesNext
  <2>2. job_state[j] = "assigned" /\ Asked(j)
    BY <2>1 DEF Open, jobVars
  <2>3. ~Asked(j)'
    BY <2>1 DEF Open
  <2>4. PICK s \in Slots : /\ call[s].pc = "poll_update" /\ call[s].job = j
                           /\ call[s].prov = job_provider[j]
    BY <2>2 DEF Asked
  <2>5. call'[s] # call[s]
    BY <2>3, <2>4 DEF Asked, jobVars
  <2>6. call'[s].pc = "poll_orphan"
    BY <1>1, <2>5
  <2>7. InHand(j)[s] = 1 /\ InHand(j)'[s] = 0
    BY <2>4, <2>6 DEF InHand, Counted
  <2>8. Exec(j)'[p] <= Exec(j)[p] /\ Exec(j)'[p] \in {0, 1} /\ Exec(j)[p] \in {0, 1}
    BY <1>3 DEF Exec
  <2>9. InHand(j)'[s] + Exec(j)'[p] + Open(j)' <= InHand(j)[s] + Exec(j)[p] + Open(j)
    BY <2>1, <2>7, <2>8
  <2> QED BY <1>2, <1>3, <1>4, <2>9, ExchangeKeepsBudget
<1> QED BY <1>5, <1>6

\* Initially nothing was dispatched and nothing paid.
LEMMA InitPaid == Init => PaidInv
<1> SUFFICES ASSUME Init, NEW j \in Jobs PROVE Budget(j)
  BY DEF PaidInv
<1>1. \A s \in Slots : InHand(j)[s] = 0
  BY DEF Init, TablesInit, InHand, IdleCall, Counted
<1>2. \A p \in Providers : Exec(j)[p] = 0
  BY DEF Init, Exec
<1>3. Total(InHand(j), Slots) = 0 /\ Total(Exec(j), Providers) = 0
  <2> DEFINE f == InHand(j)
             g == Exec(j)
  <2>1. (\A s \in Slots : f[s] = 0) /\ (\A p \in Providers : g[p] = 0)
    BY <1>1, <1>2
  <2> HIDE DEF f, g
  <2>2. Total(f, Slots) = 0 /\ Total(g, Providers) = 0
    BY <2>1, TotalZero, TablesAssumption
  <2> QED BY <2>2 DEF f, g
<1>4. Open(j) = 0 /\ payments[j] = 0 /\ dispatches[j] = 0
  BY DEF Init, TablesInit, Open
<1> QED BY <1>3, <1>4 DEF Budget

\* Every step keeps the budget, provided no statement fails.
LEMMA NextPaid ==
  ASSUME "db_error" \notin Workload, TypeOK, TypeOK', PaidInv, [Next]_vars
  PROVE  PaidInv'
<1>1. CASE AgentStep
  BY <1>1, AgentTame, TameKeepsPaid, PollKeepsPaid, CompleteKeepsPaid, CrashKeepsPaid,
     AcceptKeepsPaid DEF AgentStep
<1>2. CASE UNCHANGED agentVars /\ ConsumerStep
  BY <1>2, ConsumerTame, TameKeepsPaid
<1>3. CASE UNCHANGED agentVars /\ \E s \in Slots : HandlerStep(s) \/ abort_call(s)
  BY <1>3, HandlerTame, TameKeepsPaid, CreditKeepsPaid DEF abort_call
<1>4. CASE UNCHANGED agentVars /\ assign_job_update
  BY <1>4, AssignKeepsPaid
<1>5. CASE /\ UNCHANGED agentVars
           /\ \/ AuctionStep /\ ~assign_job_update
              \/ auction_error \/ WatcherStep \/ watcher_error \/ evict_stale_providers
  BY <1>5, LoopsTame, TameKeepsPaid
<1>6. CASE UNCHANGED vars
  <2>1. Tame
    BY <1>6, StartTame DEF vars, tableVars, agentVars, jobVars
  <2> QED BY <2>1, TameKeepsPaid
<1> QED BY <1>1, <1>2, <1>3, <1>4, <1>5, <1>6 DEF Next

\* No statement failing, a job is paid for at most as often as it was handed to a
\* provider: whatever crashes, lost answers, migrations and late reports
\* interleave (get_assigned_job, complete_job).  A failing UPDATE in
\* get_assigned_job hands the job out twice, hence the hypothesis.
THEOREM PaymentsAreDispatched ==
  ASSUME "db_error" \notin Workload
  PROVE  Spec => []PaidPerDispatch
<1>1. Init => IInv /\ PaidInv
  BY InitIInv, InitPaid
<1>2. IInv /\ PaidInv /\ [Next]_vars => (IInv /\ PaidInv)'
  <2> SUFFICES ASSUME IInv, PaidInv, [Next]_vars PROVE IInv' /\ PaidInv'
    OBVIOUS
  <2>1. IInv'
    BY NextIInv
  <2>2. TypeOK /\ TypeOK'
    BY <2>1 DEF IInv
  <2> QED BY <2>1, <2>2, NextPaid
<1>3. IInv /\ PaidInv => PaidPerDispatch
  <2> SUFFICES ASSUME IInv, PaidInv, NEW j \in Jobs PROVE payments[j] <= dispatches[j]
    BY DEF PaidPerDispatch
  <2> DEFINE f == InHand(j)
             g == Exec(j)
  <2>0. TypeOK
    BY DEF IInv
  <2>1. (\A s \in Slots : f[s] \in Nat) /\ (\A p \in Providers : g[p] \in Nat)
    BY <2>0, BudgetTypes
  <2>2. payments[j] + Total(f, Slots) + Total(g, Providers) + Open(j) <= dispatches[j]
    BY DEF PaidInv, Budget
  <2> HIDE DEF f, g
  <2>3. Total(f, Slots) \in Nat /\ Total(g, Providers) \in Nat
    BY <2>1, TotalNat, TablesAssumption
  <2> QED BY <2>0, <2>2, <2>3, BudgetTypes
<1> QED BY <1>1, <1>2, <1>3, PTL DEF Spec

-----------------------------------------------------------------------------
(* Coordinator implements JobLease *)

\* What a step does to the right to hand out j, unless it uses the right or puts
\* it back: no right comes from nowhere.
Fades(j) ==
  /\ dispatches'[j] = dispatches[j]
  /\ job_state'[j] = "none" \/ Waiting(j)' => job_state[j] = "none" \/ Waiting(j)
  /\ Holders(j)' \in {Holders(j), {}}
  /\ InWatch(j)' => InWatch(j) \/ Holders(j) # {}

\* What JobLease may do about one job.
LifeStep(j) ==
  Abstract!HandOut(j) \/ Abstract!Lose(j) \/ Abstract!PutBack(j) \/ Abstract!GiveUp(j)
    \/ Abstract!Keep(j)

\* A right is in one place: who waits has no holder and is not in the watcher's
\* hands; there is at most one holder.
LEMMA OnePlace ==
  ASSUME IInv, NEW j \in Jobs
  PROVE  /\ job_state[j] = "none" \/ Waiting(j) => Holders(j) = {} /\ ~InWatch(j)
         /\ Holders(j) = {} \/ \E p \in Providers : Holders(j) = {p}
         /\ ~Leased(j) /\ ~(a_pc = "lease" /\ a_job = j) => Holders(j) = {}
<1> USE IInvParts
<1>1. ~Leased(j) /\ ~(a_pc = "lease" /\ a_job = j) => Holders(j) = {}
  BY DEF Leased, Holders
<1>2. job_state[j] = "none" \/ Waiting(j) =>
        ~Leased(j) /\ ~(a_pc = "lease" /\ a_job = j) /\ ~InWatch(j)
  BY DEF Waiting, InAuction, OneToken, NoneFresh, AuctionInHand
<1>3. CASE a_pc = "lease" /\ a_job = j
  <2>1. ~Leased(j) /\ a_prov \in Providers
    BY <1>3, TypeOKParts DEF OneToken, InAuction, AuctionOK
  <2>2. Holders(j) = {a_prov}
    BY <1>3, <2>1 DEF Holders, Leased
  <2> QED BY <1>1, <1>2, <2>1, <2>2
<1>4. CASE ~(a_pc = "lease" /\ a_job = j) /\ Leased(j)
  <2>1. PICK p \in Providers : active_job[p] = j
    BY <1>4 DEF Leased
  <2>2. Holders(j) = {p}
    BY <1>4, <2>1, TablesAssumption DEF Holders, LeaseExclusive
  <2> QED BY <1>1, <1>2, <2>2
<1> QED BY <1>1, <1>2, <1>3, <1>4

\* The right of a job as JobLease sees it.
LEMMA LeaseAt ==
  ASSUME NEW j \in Jobs
  PROVE  /\ [i \in Jobs |-> LeaseOf(i)][j] = LeaseOf(j)
         /\ [i \in Jobs |-> LeaseOf(i)]'[j] = LeaseOf(j)'
OBVIOUS

\* A right that fades is kept, lost or given up.
LEMMA FadeIsLifeStep ==
  ASSUME IInv, NEW j \in Jobs, Fades(j)
  PROVE  LifeStep(j)
<1> DEFINE l == LeaseOf(j)
           m == LeaseOf(j)'
           h == Holders(j)
           W == job_state[j] = "none" \/ Waiting(j)
<1>0. [i \in Jobs |-> LeaseOf(i)][j] = l /\ [i \in Jobs |-> LeaseOf(i)]'[j] = m
  BY LeaseAt
<1>1. dispatches'[j] = dispatches[j]
  BY DEF Fades
<1>2. CASE W
  <2>1. l = Abstract!Unleased("waiting")
    BY <1>2, OnePlace DEF LeaseOf, Abstract!Unleased
  <2>2. Holders(j)' = {} /\ ~InWatch(j)'
    BY <1>2, OnePlace DEF Fades
  <2>3. m \in {Abstract!Unleased("waiting"), Abstract!Unleased("spent")}
    BY <2>2 DEF LeaseOf, Abstract!Unleased
  <2> QED BY <1>0, <1>1, <2>1, <2>3 DEF LifeStep, Abstract!GiveUp, Abstract!Keep
<1>3. CASE ~W /\ h # {}
  <2>1. PICK p \in Providers : h = {p}
    BY <1>3, OnePlace
  <2>2. l = Abstract!LeasedTo(p)
    BY <1>3, <2>1 DEF LeaseOf, Abstract!LeasedTo
  <2>3. ~(job_state'[j] = "none" \/ Waiting(j)')
    BY <1>3 DEF Fades
  <2>4. CASE Holders(j)' = h
    <3>1. m = l
      BY <1>3, <2>3, <2>4 DEF LeaseOf
    <3> QED BY <1>0, <1>1, <3>1 DEF LifeStep, Abstract!Keep
  <2>5. CASE Holders(j)' = {}
    <3>1. m \in {Abstract!Unleased("reclaimed"), Abstract!Unleased("spent")}
      BY <2>3, <2>5 DEF LeaseOf, Abstract!Unleased
    <3> QED BY <1>0, <1>1, <2>2, <3>1 DEF LifeStep, Abstract!Lose
  <2> QED BY <2>4, <2>5 DEF Fades
<1>4. CASE ~W /\ h = {}
  <2>1. Holders(j)' = {} /\ ~(job_state'[j] = "none" \/ Waiting(j)')
    BY <1>4 DEF Fades
  <2>2. CASE InWatch(j)
    <3>1. l = Abstract!Unleased("reclaimed")
      BY <1>4, <2>2 DEF LeaseOf, Abstract!Unleased
    <3>2. m \in {Abstract!Unleased("reclaimed"), Abstract!Unleased("spent")}
      BY <2>1 DEF LeaseOf, Abstract!Unleased
    <3> QED BY <1>0, <1>1, <3>1, <3>2 DEF LifeStep, Abstract!GiveUp, Abstract!Keep
  <2>3. CASE ~InWatch(j)
    <3>1. l = Abstract!Unleased("spent")
      BY <1>4, <2>3 DEF LeaseOf, Abstract!Unleased
    <3>2. ~InWatch(j)'
      BY <1>4, <2>3 DEF Fades
    <3>3. m = Abstract!Unleased("spent")
      BY <2>1, <3>2 DEF LeaseOf, Abstract!Unleased
    <3> QED BY <1>0, <1>1, <3>1, <3>3 DEF LifeStep, Abstract!Keep
  <2> QED BY <2>2, <2>3
<1> QED BY <1>2, <1>3, <1>4

\* Requests, agents and the evictor put no job into the queue but a new one and
\* take leases away only.
LEMMA BenignFades ==
  ASSUME IInv, Benign, NEW j \in Jobs
  PROVE  Fades(j)
<1> USE IInvParts DEF Benign, auctionVars, watcherVars
<1>1. job_state'[j] = "none" \/ Waiting(j)' => job_state[j] = "none" \/ Waiting(j)
  BY DEF Waiting, BenignJobs
<1>2. InWatch(j)' <=> InWatch(j)
  BY DEF InWatch
<1>3. Holders(j)' \subseteq Holders(j)
  BY TablesAssumption DEF Holders, BenignLeases
<1>4. Holders(j)' \in {Holders(j), {}}
  BY <1>3, OnePlace
<1>5. dispatches'[j] = dispatches[j]
  OBVIOUS
<1> QED BY <1>1, <1>2, <1>4, <1>5 DEF Fades

\* The auction's snapshot holds queued jobs; a job leaves it for the queue, for
\* the auction's hands, or for good.
LEMMA AuctionFades ==
  ASSUME IInv, NEW j \in Jobs, AuctionStep \/ auction_error, ~assign_job_update
  PROVE  Fades(j)
<1> USE IInvParts, TypeOKParts
<1>1. CASE run_auction_cycle_select
  <2>1. Waiting(j)' => Waiting(j)
    BY <1>1 DEF run_auction_cycle_select, Oldest, Waiting, jobVars
  <2>2. UNCHANGED <<job_state, dispatches, active_job, a_pc, a_job, a_prov, w_pc, w_job, w_todo>>
    BY <1>1 DEF run_auction_cycle_select, jobVars, provVars, watcherVars, histVars
  <2> QED BY <2>1, <2>2 DEF Fades, Holders, InWatch
<1>2. ASSUME NEW k \in Jobs, NEW p \in Providers, find_best_provider(k, p)
      PROVE  Fades(j)
  <2>1. Waiting(j)' => Waiting(j)
    BY <1>2 DEF find_best_provider, IsNext, Waiting, jobVars
  <2>2. UNCHANGED <<job_state, dispatches, active_job, w_pc, w_job, w_todo>>
    BY <1>2 DEF find_best_provider, jobVars, provVars, watcherVars, histVars
  <2>3. Holders(j)' = Holders(j)
    BY <1>2, <2>2 DEF find_best_provider, Holders
  <2> QED BY <2>1, <2>2, <2>3 DEF Fades, InWatch
<1>3. ASSUME NEW k \in Jobs, find_no_provider(k)
      PROVE  Fades(j)
  <2>1. Waiting(j)' => Waiting(j)
    BY <1>3 DEF find_no_provider, Waiting, jobVars
  <2>2. UNCHANGED <<job_state, dispatches, active_job, a_pc, a_job, a_prov, w_pc, w_job, w_todo>>
    BY <1>3 DEF find_no_provider, jobVars, provVars, watcherVars, histVars
  <2> QED BY <2>1, <2>2 DEF Fades, Holders, InWatch
<1>4. CASE assign_job_lease
  <2>1. /\ a_job \in Jobs /\ a_prov \in Providers /\ a_job \notin a_todo
        /\ active_job'[a_prov] = a_job
        /\ \A p \in Providers \ {a_prov} : active_job'[p] = active_job[p]
        /\ ~Leased(a_job) /\ a_pc = "lease" /\ a_pc' = "scan"
    BY <1>4 DEF assign_job_lease, AuctionOK, AuctionInHand, ProvidersOK, OneToken, InAuction
  <2>2. UNCHANGED <<job_state, dispatches, a_todo, w_pc, w_job, w_todo>>
    BY <1>4 DEF assign_job_lease, jobVars, watcherVars, histVars
  <2>3. Waiting(j)' => Waiting(j)
    BY <2>1, <2>2 DEF Waiting
  <2>4. CASE j = a_job
    <3>1. Holders(j)' = Holders(j)
      BY <2>1, <2>4 DEF Holders, Leased
    <3> QED BY <2>2, <2>3, <3>1 DEF Fades, InWatch
  <2>5. CASE j # a_job
    <3>1. Holders(j)' \subseteq Holders(j)
      BY <2>1, <2>5 DEF Holders
    <3>2. Holders(j)' \in {Holders(j), {}}
      BY <3>1, OnePlace
    <3> QED BY <2>2, <2>3, <3>2 DEF Fades, InWatch
  <2> QED BY <2>4, <2>5
<1>5. CASE auction_error
  <2>1. a_pc' = "scan" /\ a_todo' = {}
        /\ UNCHANGED <<job_state, dispatches, active_job, w_pc, w_job, w_todo>>
    BY <1>5 DEF auction_error, jobVars, provVars, watcherVars, histVars
  <2>2. Waiting(j)' => Waiting(j)
    BY <2>1 DEF Waiting
  <2>3. Holders(j)' \subseteq Holders(j)
    BY <2>1 DEF Holders
  <2>4. Holders(j)' \in {Holders(j), {}}
    BY <2>3, OnePlace
  <2> QED BY <2>1, <2>2, <2>4 DEF Fades, InWatch
<1> QED BY <1>1, <1>2, <1>3, <1>4, <1>5 DEF AuctionStep

\* The watcher takes into its snapshot only jobs that have a holder.
LEMMA WatcherFades ==
  ASSUME IInv, NEW j \in Jobs, WatcherStep \/ watcher_error, ~migrate_or_fail_job_requeue
  PROVE  Fades(j)
<1> USE IInvParts, TypeOKParts
<1>0. NULL \notin Jobs
  BY TablesAssumption
<1>1. CASE check_stale_providers_select
  <2>1. UNCHANGED <<job_state, dispatches, active_job, a_pc, a_job, a_prov, a_todo, w_pc, w_job>>
        /\ w_pc = "scan"
    BY <1>1 DEF check_stale_providers_select, jobVars, provVars, auctionVars, histVars
  <2>2. InWatch(j)' => Holders(j) # {}
    <3> SUFFICES ASSUME NEW p \in Providers, <<p, j>> \in w_todo'
                 PROVE  Holders(j) # {}
      BY <2>1 DEF InWatch
    <3>1. active_job[p] = j
      BY <1>1 DEF check_stale_providers_select
    <3> QED BY <3>1 DEF Holders
  <2> QED BY <2>1, <2>2 DEF Fades, Holders, Waiting
<1>2. ASSUME NEW e \in w_todo, check_stale_providers_offline(e)
      PROVE  Fades(j)
  <2>1. /\ UNCHANGED <<job_state, dispatches, a_pc, a_job, a_prov, a_todo>>
        /\ e[1] \in Providers /\ e = <<e[1], e[2]>> /\ w_todo' \subseteq w_todo
        /\ w_pc' \in {"scan", "lookup"} /\ w_job' = e[2]
        /\ \A p \in Providers : active_job'[p] \in {active_job[p], NULL}
    BY <1>2 DEF check_stale_providers_offline, jobVars, auctionVars, histVars, WatcherOK, ProvidersOK
  <2>2. InWatch(j)' => InWatch(j)
    BY <2>1 DEF InWatch
  <2>3. Holders(j)' \subseteq Holders(j)
    BY <1>0, <2>1 DEF Holders
  <2>4. Holders(j)' \in {Holders(j), {}}
    BY <2>3, OnePlace
  <2> QED BY <2>1, <2>2, <2>4 DEF Fades, Waiting
<1>3. CASE \/ migrate_or_fail_job_lookup \/ migrate_or_fail_job_fail
           \/ refund_consumer_escrow_select \/ refund_consumer_escrow_release
           \/ refund_consumer_escrow_credit \/ watcher_error
  <2>1. /\ UNCHANGED <<active_job, dispatches, a_pc, a_job, a_prov, a_todo>>
        /\ w_todo' \subseteq w_todo
    BY <1>3 DEF migrate_or_fail_job_lookup, migrate_or_fail_job_fail, refund_consumer_escrow_select,
                refund_consumer_escrow_release, refund_consumer_escrow_credit, watcher_error,
                provVars, auctionVars, histVars
  <2>2. w_pc' \in {"lookup", "requeue"} => w_pc \in {"lookup", "requeue"} /\ w_job' = w_job
    BY <1>3 DEF migrate_or_fail_job_lookup, migrate_or_fail_job_fail, refund_consumer_escrow_select,
                refund_consumer_escrow_release, refund_consumer_escrow_credit, watcher_error
  <2>3. job_state'[j] \in {job_state[j], "failed"}
    BY <1>3 DEF migrate_or_fail_job_lookup, migrate_or_fail_job_fail, refund_consumer_escrow_select,
                refund_consumer_escrow_release, refund_consumer_escrow_credit, watcher_error,
                SetJobState, jobVars, JobsOK
  <2>4. InWatch(j)' => InWatch(j)
    BY <2>1, <2>2 DEF InWatch
  <2>5. Waiting(j)' => Waiting(j)
    BY <2>1, <2>3 DEF Waiting
  <2>6. Holders(j)' = Holders(j)
    BY <2>1 DEF Holders
  <2> QED BY <2>1, <2>3, <2>4, <2>5, <2>6 DEF Fades
<1> QED BY <1>1, <1>2, <1>3 DEF WatcherStep

\* The job row: the auction turns the right it holds into a lease.
LEMMA AssignHandsOut ==
  ASSUME IInv, NEW j \in Jobs, assign_job_update
  PROVE  LifeStep(j)
<1> USE IInvParts, TypeOKParts
<1>0. /\ a_job \in Jobs /\ a_prov \in Providers /\ a_job \notin a_todo
      /\ a_pc = "assign" /\ a_pc' = "lease"
      /\ UNCHANGED <<a_job, a_prov, a_todo, active_job, w_pc, w_job, w_todo>>
      /\ \A k \in Jobs \ {a_job} : job_state'[k] = job_state[k] /\ dispatches'[k] = dispatches[k]
      /\ job_state'[a_job] = "assigned" /\ dispatches'[a_job] = dispatches[a_job] + 1
  BY DEF assign_job_update, AuctionOK, AuctionInHand, JobsOK, HistoryOK, provVars, watcherVars
<1>1. CASE j = a_job
  <2>1. Waiting(j) /\ Holders(j) = {}
    BY <1>0, <1>1, OnePlace DEF Waiting
  <2>2. LeaseOf(j) = Abstract!Unleased("waiting")
    BY <2>1 DEF LeaseOf, Abstract!Unleased
  <2>3. Holders(j)' = {a_prov}
    BY <1>0, <1>1, <2>1 DEF Holders
  <2>4. ~Waiting(j)' /\ job_state'[j] # "none"
    BY <1>0, <1>1 DEF Waiting
  <2>5. LeaseOf(j)' = Abstract!LeasedTo(a_prov)
    BY <2>3, <2>4 DEF LeaseOf, Abstract!LeasedTo
  <2> QED BY <1>0, <1>1, <2>2, <2>5, LeaseAt DEF LifeStep, Abstract!HandOut
<1>2. CASE j # a_job
  <2>1. Waiting(j)' => Waiting(j)
    BY <1>0, <1>2 DEF Waiting
  <2>2. Holders(j)' = Holders(j) /\ (InWatch(j)' <=> InWatch(j))
    BY <1>0, <1>2 DEF Holders, InWatch
  <2>3. Fades(j)
    BY <1>0, <1>2, <2>1, <2>2 DEF Fades
  <2> QED BY <2>3, FadeIsLifeStep
<1> QED BY <1>1, <1>2

\* The watcher puts back a job that it took from its holder and that has a
\* restore to go.
LEMMA RequeuePutsBack ==
  ASSUME IInv, NEW j \in Jobs, migrate_or_fail_job_requeue
  PROVE  LifeStep(j)
<1> USE IInvParts, TypeOKParts
<1>0. /\ w_job \in Jobs /\ w_pc = "requeue" /\ w_pc' = "scan"
      /\ UNCHANGED <<a_pc, a_job, a_prov, a_todo, active_job, dispatches, w_todo>>
      /\ \A k \in Jobs \ {w_job} : job_state'[k] = job_state[k]
      /\ job_state'[w_job] = "queued"
  BY DEF migrate_or_fail_job_requeue, WatcherOK, JobsOK, provVars, auctionVars, histVars
<1>1. CASE j = w_job
  <2>1. /\ InWatch(j) /\ ~InAuction(j) /\ ~Leased(j)
        /\ job_state[j] \notin {"none", "queued"}
    BY <1>0, <1>1 DEF InWatch, OneToken, NoneFresh, WatchInHand
  <2>2. Holders(j) = {} /\ ~Waiting(j)
    BY <2>1, OnePlace DEF InAuction, Waiting
  <2>3. LeaseOf(j) = Abstract!Unleased("reclaimed")
    BY <2>1, <2>2 DEF LeaseOf, Abstract!Unleased
  <2>4. Holders(j)' = {} /\ Waiting(j)'
    BY <1>0, <1>1, <2>2 DEF Holders, Waiting
  <2>5. LeaseOf(j)' = Abstract!Unleased("waiting")
    BY <2>4 DEF LeaseOf, Abstract!Unleased
  <2>6. dispatches[j] <= MaxRestoreAttempts
    BY <1>0, <1>1, TablesAssumption DEF RestoreCounted, JobsOK, HistoryOK
  <2> QED BY <1>0, <2>3, <2>5, <2>6, LeaseAt DEF LifeStep, Abstract!PutBack
<1>2. CASE j # w_job
  <2>1. /\ Waiting(j)' => Waiting(j)
        /\ Holders(j)' = Holders(j) /\ (InWatch(j)' => InWatch(j))
    BY <1>0, <1>2 DEF Waiting, Holders, InWatch
  <2>2. Fades(j)
    BY <1>0, <1>2, <2>1 DEF Fades
  <2> QED BY <2>2, FadeIsLifeStep
<1> QED BY <1>1, <1>2

\* Every step of the coordinator, its agents and consumers is a step of JobLease.
LEMMA NextLease ==
  ASSUME IInv, [Next]_vars
  PROVE  Abstract!Next
<1> SUFFICES ASSUME NEW j \in Jobs PROVE LifeStep(j)
  BY DEF LifeStep, Abstract!Next
<1>0. TypeOK
  BY DEF IInv
<1>1. CASE AgentStep
  BY <1>0, <1>1, AgentBenign, BenignFades, FadeIsLifeStep
<1>2. CASE UNCHANGED agentVars /\ ConsumerStep
  BY <1>0, <1>2, ConsumerBenign, BenignFades, FadeIsLifeStep
<1>3. CASE UNCHANGED agentVars /\ \E s \in Slots : HandlerStep(s) \/ abort_call(s)
  BY <1>0, <1>3, HandlerBenign, BenignFades, FadeIsLifeStep
<1>4. CASE UNCHANGED agentVars /\ (AuctionStep \/ auction_error)
  BY <1>4, AuctionFades, AssignHandsOut, FadeIsLifeStep
<1>5. CASE UNCHANGED agentVars /\ (WatcherStep \/ watcher_error)
  BY <1>5, WatcherFades, RequeuePutsBack, FadeIsLifeStep
<1>6. CASE UNCHANGED agentVars /\ evict_stale_providers
  BY <1>0, <1>6, EvictBenign, BenignFades, FadeIsLifeStep
<1>7. CASE UNCHANGED vars
  <2>1. Benign
    BY <1>0, <1>7, QuietBenign, AgentsSame, TypeOKParts DEF vars
  <2> QED BY <2>1, BenignFades, FadeIsLifeStep
<1> QED BY <1>1, <1>2, <1>3, <1>4, <1>5, <1>6, <1>7 DEF Next

\* Nothing is handed out at first.
LEMMA InitLease == Init => Abstract!Init
<1> SUFFICES ASSUME Init PROVE Abstract!Init
  OBVIOUS
<1>1. \A j \in Jobs : LeaseOf(j) = Abstract!Unleased("waiting")
  BY TablesAssumption DEF Init, TablesInit, LeaseOf, Holders, Abstract!Unleased
<1>2. dispatches = [j \in Jobs |-> 0]
  BY DEF Init, TablesInit
<1> QED BY <1>1, <1>2 DEF Abstract!Init

\* For every workload, failing statements and crashes included, the tables, the
\* two loops' snapshots and the requests implement one lease per job: a job is
\* handed out from the queue only, to one provider, and comes back only through
\* a watcher that took it from its holder.
THEOREM CoordinatorImplementsLease == Spec => ImplementsLease
<1>1. IInv /\ [Next]_vars => [Abstract!Next]_<<[j \in Jobs |-> LeaseOf(j)], dispatches>>
  BY NextLease
<1> QED BY <1>1, InitLease, InvariantHolds, PTL DEF Spec, ImplementsLease, Abstract!Spec
=============================================================================
