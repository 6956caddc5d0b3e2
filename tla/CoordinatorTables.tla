------------------------- MODULE CoordinatorTables -------------------------
(***************************************************************************)
(* The coordinator's database, as far as the job lifecycle reads or writes *)
(* it, the requests in flight and the position of the two background       *)
(* loops.  The coordinator opens no transaction: each SQL statement        *)
(* commits by itself, so a handler or a loop is interrupted between any    *)
(* two of its statements and every statement is an action of its own.      *)
(*                                                                         *)
(* Left out, because no statement of the lifecycle tests it: the           *)
(* transactions log, timestamps of jobs, GPU statistics.  trust_score,     *)
(* floor prices and jobs_completed only rank the candidates of             *)
(* find_best_provider; the choice among the candidates is left open.       *)
(***************************************************************************)
EXTENDS Integers, FiniteSets

CONSTANTS
  Jobs,        \* job numbers, in the order of jobs.created_at
  Providers,   \* provider rows; each is registered by its agent
  Consumers,   \* accounts that submit jobs
  Slots,       \* HTTP requests the coordinator handles at the same time
  NULL,        \* the SQL null
  Consumer,    \* Consumer[j]: jobs.consumer_id
  Cost,        \* Cost[j]: max_price_per_hour * max_duration_secs, locked on submission
  Bills,       \* Bills[j]: the gross amounts a completion of j may report
  Fits,        \* Fits[j]: providers with enough RAM and a floor price within the budget
  Deposit,     \* opening balance of each consumer
  BatchLimit,  \* LIMIT of the auction's query
  MaxRestoreAttempts,
  Workload     \* the kinds of request and fault this instance exercises

ASSUME TablesAssumption ==
  /\ Jobs \subseteq Nat
  /\ NULL \notin Jobs \cup Providers \cup Int
  /\ Consumer \in [Jobs -> Consumers]
  /\ Cost \in [Jobs -> Nat]
  /\ Bills \in [Jobs -> SUBSET Nat]
  /\ Fits \in [Jobs -> SUBSET Providers]
  /\ Deposit \in Nat
  /\ BatchLimit \in Nat \ {0}
  /\ MaxRestoreAttempts \in Nat
  /\ IsFiniteSet(Jobs) /\ IsFiniteSet(Providers) /\ IsFiniteSet(Slots)

VARIABLES
  \* table jobs
  job_state, job_provider, checkpoint_url, restore_attempts,
  \* table providers
  provider_state, active_job, last_seen,
  \* tables credit_accounts and escrows
  available_nmc, escrowed_nmc, escrow_state,
  \* requests in flight
  call,
  \* run_auction_cycle: program counter, rest of the snapshot, the jobs of the
  \* snapshot that had a checkpoint, job and provider being matched
  a_pc, a_todo, a_restore, a_job, a_prov,
  \* check_stale_providers: program counter, rest of the snapshot, job in hand
  w_pc, w_todo, w_job,
  \* history: times a job was handed to a provider, times it was paid for
  dispatches, payments

jobVars     == <<job_state, job_provider, checkpoint_url, restore_attempts>>
provVars    == <<provider_state, active_job, last_seen>>
creditVars  == <<available_nmc, escrowed_nmc, escrow_state>>
auctionVars == <<a_pc, a_todo, a_restore, a_job, a_prov>>
watcherVars == <<w_pc, w_todo, w_job>>
histVars    == <<dispatches, payments>>
tableVars   == <<jobVars, provVars, creditVars, call, auctionVars, watcherVars, histVars>>

JobState      == {"none", "queued", "assigned", "running", "complete", "failed", "cancelled"}
Terminal      == {"complete", "failed", "cancelled"}
InProgress    == {"running", "assigned"}
ProviderState == {"offline", "available", "leased", "busy"}
EscrowState   == {"none", "locked", "released"}

\* Age of providers.last_seen: 0 recent, 1 older than the evictor's 90 s,
\* 2 older than the watcher's PROVIDER_TIMEOUT_SECS = 120 s as well.
LastSeen == 0 .. 2

CallPc == { "idle",
            "submit_insert", "submit_lock", "submit_escrow",
            "cancel_update", "cancel_refund", "cancel_release", "cancel_free",
            "complete_update", "complete_credit", "complete_deduct", "complete_free",
            "fail_refund", "fail_free",
            "poll_update", "poll_orphan",
            "beat_seen", "checkpoint_update" }

\* Requests of a provider, with its id in the body or the path.
ProviderPc == { "complete_update", "complete_credit", "complete_deduct", "complete_free",
                "fail_refund", "fail_free", "poll_update", "poll_orphan",
                "beat_seen", "checkpoint_update" }

IdleCall == [pc |-> "idle", job |-> NULL, prov |-> NULL, amt |-> 0]

JobsOK ==
  /\ job_state \in [Jobs -> JobState]
  /\ job_provider \in [Jobs -> Providers \cup {NULL}]
  /\ checkpoint_url \in [Jobs -> BOOLEAN]
  /\ restore_attempts \in [Jobs -> Nat]

ProvidersOK ==
  /\ provider_state \in [Providers -> ProviderState]
  /\ active_job \in [Providers -> Jobs \cup {NULL}]
  /\ last_seen \in [Providers -> LastSeen]

CreditsOK ==
  /\ available_nmc \in [Consumers \cup Providers -> Int \cup {NULL}]
  /\ escrowed_nmc \in [Consumers -> Nat]
  /\ escrow_state \in [Jobs -> EscrowState]

CallsOK ==
  /\ call \in [Slots -> [pc : CallPc, job : Jobs \cup {NULL},
                         prov : Providers \cup {NULL}, amt : Nat]]
  /\ \A s \in Slots : call[s].pc # "idle" => call[s].job \in Jobs
  /\ \A s \in Slots : call[s].pc \in ProviderPc => call[s].prov \in Providers

AuctionOK ==
  /\ a_pc \in {"scan", "assign", "lease"}
  /\ a_todo \in SUBSET Jobs
  /\ a_restore \in SUBSET Jobs
  /\ a_job \in Jobs \cup {NULL}
  /\ a_prov \in Providers \cup {NULL}
  /\ a_pc # "scan" => a_job \in Jobs /\ a_prov \in Providers

WatcherOK ==
  /\ w_pc \in {"scan", "lookup", "requeue", "fail", "refund", "release", "credit"}
  /\ w_todo \in SUBSET (Providers \X (Jobs \cup {NULL}))
  /\ w_job \in Jobs \cup {NULL}
  /\ w_pc # "scan" => w_job \in Jobs

HistoryOK ==
  /\ dispatches \in [Jobs -> Nat]
  /\ payments \in [Jobs -> Nat]

TablesTypeOK ==
  /\ JobsOK /\ ProvidersOK /\ CreditsOK /\ CallsOK /\ AuctionOK /\ WatcherOK /\ HistoryOK

\* An empty jobs table; each agent has just registered, so its row is offline.
TablesInit ==
  /\ job_state = [j \in Jobs |-> "none"]
  /\ job_provider = [j \in Jobs |-> NULL]
  /\ checkpoint_url = [j \in Jobs |-> FALSE]
  /\ restore_attempts = [j \in Jobs |-> 0]
  /\ provider_state = [p \in Providers |-> "offline"]
  /\ active_job = [p \in Providers |-> NULL]
  /\ last_seen = [p \in Providers |-> 0]
  /\ available_nmc = [a \in Consumers \cup Providers |-> IF a \in Consumers THEN Deposit ELSE 0]
  /\ escrowed_nmc = [c \in Consumers |-> 0]
  /\ escrow_state = [j \in Jobs |-> "none"]
  /\ call = [s \in Slots |-> IdleCall]
  /\ a_pc = "scan" /\ a_todo = {} /\ a_restore = {} /\ a_job = NULL /\ a_prov = NULL
  /\ w_pc = "scan" /\ w_todo = {} /\ w_job = NULL
  /\ dispatches = [j \in Jobs |-> 0]
  /\ payments = [j \in Jobs |-> 0]

-----------------------------------------------------------------------------
(* SQL arithmetic: NULL absorbs + and -, GREATEST skips it. *)

Plus(x, y)   == IF x = NULL \/ y = NULL THEN NULL ELSE x + y
Coalesce0(x) == IF x = NULL THEN 0 ELSE x

Greatest0(x) == IF x = NULL \/ x < 0 THEN 0 ELSE x

\* The statement that frees a set of providers:
\* SET state = 'available', active_job_id = NULL.
FreeProviders(S) ==
  /\ provider_state' = [p \in Providers |-> IF p \in S THEN "available" ELSE provider_state[p]]
  /\ active_job' = [p \in Providers |-> IF p \in S THEN NULL ELSE active_job[p]]
  /\ UNCHANGED last_seen

SetJobState(j, st) ==
  /\ job_state' = [job_state EXCEPT ![j] = st]
  /\ UNCHANGED <<job_provider, checkpoint_url, restore_attempts>>
=============================================================================
