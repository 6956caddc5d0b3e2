----------------------------- MODULE Accounts -----------------------------
(***************************************************************************)
(* The coordinator's records about its users: device-locked accounts, KYC, *)
(* the credits a Stripe payment brings and the reputation of a provider.   *)
(* A handler of several statements is several steps, and statements of     *)
(* concurrent handlers interleave.  An account id is a hash of public key  *)
(* and device fingerprint: here the pair itself.                           *)
(***************************************************************************)
EXTENDS Integers, FiniteSets, Totals

CONSTANTS
  Keys, Fingerprints,
  Sessions,        \* Stripe checkout sessions
  Payer, Amount,   \* account id and NMC of a session
  Registrants,     \* bound: account ids that are ever registered
  Secrets,         \* values of INTERNAL_SECRET, "" when it is not set
  Slots,           \* concurrent requests
  MaxDeliveries,   \* bound: webhook deliveries of a session
  MaxErrors,       \* bound: statements that fail
  MaxReports       \* bound: job reports about the provider

ASSUME AccountsAssumption ==
  /\ Payer \in [Sessions -> Keys \X Fingerprints] /\ Amount \in [Sessions -> Nat \ {0}]
  /\ Registrants \subseteq Keys \X Fingerprints
  /\ MaxDeliveries \in Nat /\ MaxReports \in Nat
  /\ MaxErrors \in Nat /\ MaxErrors < MaxDeliveries
  /\ IsFiniteSet(Sessions) /\ IsFiniteSet(Slots)

NULL == [none |-> TRUE]
derive_account_id(k, f) == <<k, f>>
AccountIds == {derive_account_id(k, f) : k \in Keys, f \in Fingerprints}

VARIABLES
  secret,      \* INTERNAL_SECRET of the coordinator
  accounts,    \* accounts table: id -> [key, fingerprint]
  credit,      \* credit_accounts table: id -> [available_nmc]
  kyc,         \* kyc_records table: id -> [verified, archived]
  call,        \* slot -> request in progress
  session,     \* session -> whether its payment succeeds later (FPX), its
               \* deliveries, whether one was answered 200, and (history) how
               \* often it was credited
  errors,      \* bound: failed statements so far
  provider     \* reputation columns of one provider

accountVars == <<accounts, credit, kyc>>
vars == <<secret, accountVars, call, session, errors, provider>>

Idle == [pc |-> "idle"]
Rate(n, d) == [num |-> n, den |-> d]

TypeOK ==
  /\ secret \in Secrets
  /\ \A id \in AccountIds :
       /\ accounts[id] \in {NULL} \cup [key : Keys, fingerprint : Fingerprints]
       /\ credit[id] = NULL \/ credit[id].available_nmc \in Nat
       /\ kyc[id] \in {NULL} \cup [verified : BOOLEAN, archived : BOOLEAN]
  /\ \A s \in Slots : call[s].pc \in {"idle", "register_credit", "reregister_update",
                                      "stripe_credit", "stripe_record"}
  /\ session \in [Sessions -> [async : BOOLEAN, deliveries : 0 .. MaxDeliveries,
                               answered : BOOLEAN, credited : 0 .. MaxDeliveries]]
  /\ errors \in 0 .. MaxErrors
  /\ provider.trust_score \in 0 .. 500
  /\ provider.jobs_completed \in 0 .. MaxReports

Init ==
  /\ secret \in Secrets
  /\ accounts = [id \in AccountIds |-> NULL]
  /\ credit = [id \in AccountIds |-> NULL]
  /\ kyc = [id \in AccountIds |-> NULL]
  /\ call = [s \in Slots |-> Idle]
  /\ session \in [Sessions -> [async : BOOLEAN, deliveries : {0}, answered : {FALSE}, credited : {0}]]
  /\ errors = 0
  /\ provider = [trust_score |-> 300, jobs_completed |-> 0, success_rate |-> Rate(1, 1),
                 counted |-> 0, reports |-> 0]

Free(s) == call[s].pc = "idle"
Step(s, pc) == call[s].pc = pc
Go(s, c) == call' = [call EXCEPT ![s] = c]

-----------------------------------------------------------------------------
(* Accounts *)

KeyUnused(k) == \A id \in AccountIds : accounts[id] # NULL => accounts[id].key # k

\* INSERT ... ON CONFLICT (account_id) touches last_seen and label only; the
\* key is UNIQUE: with another fingerprint it is a device_mismatch.
register_account_upsert(s, k, f) ==
  LET id == derive_account_id(k, f) IN
  /\ Free(s) /\ id \in Registrants
  /\ \/ accounts[id] # NULL /\ UNCHANGED accounts
     \/ /\ KeyUnused(k)
        /\ accounts' = [accounts EXCEPT ![id] = [key |-> k, fingerprint |-> f]]
  /\ Go(s, [pc |-> "register_credit", id |-> id])
  /\ UNCHANGED <<secret, credit, kyc, session, errors, provider>>

\* ON CONFLICT DO NOTHING; an error is ignored.
register_account_credit(s) ==
  /\ Step(s, "register_credit")
  /\ \/ /\ credit' = [credit EXCEPT ![call[s].id] = IF @ = NULL THEN [available_nmc |-> 0] ELSE @]
        /\ UNCHANGED errors
     \/ errors < MaxErrors /\ errors' = errors + 1 /\ UNCHANGED credit
  /\ Go(s, Idle)
  /\ UNCHANGED <<secret, accounts, kyc, session, provider>>

\* Mutant: the keys are not compared.
reregister_device_select_unchecked(s, id, k, f) ==
  /\ Free(s) /\ accounts[id] # NULL
  /\ Go(s, [pc |-> "reregister_update", id |-> id, key |-> k, fingerprint |-> f])
  /\ UNCHANGED <<secret, accountVars, session, errors, provider>>

\* The request's key is compared, its old fingerprint is not.
reregister_device_select(s, id, k, f) ==
  /\ Free(s) /\ accounts[id] # NULL /\ accounts[id].key = k
  /\ Go(s, [pc |-> "reregister_update", id |-> id, key |-> k, fingerprint |-> f])
  /\ UNCHANGED <<secret, accountVars, session, errors, provider>>

reregister_device_update(s) ==
  /\ Step(s, "reregister_update")
  /\ accounts' = [accounts EXCEPT ![call[s].id] =
                    [key |-> accounts[call[s].id].key, fingerprint |-> call[s].fingerprint]]
  /\ Go(s, Idle)
  /\ UNCHANGED <<secret, credit, kyc, session, errors, provider>>

\* The answer of verify_device, for an account that exists.
verify_device(id, k, f) == accounts[id] = [key |-> k, fingerprint |-> f]

\* Rows of account_id must exist (foreign key).  A second submission keeps
\* verified_at.
submit_kyc(id) ==
  /\ accounts[id] # NULL
  /\ kyc' = [kyc EXCEPT ![id] =
               [verified |-> IF @ = NULL THEN FALSE ELSE @.verified, archived |-> FALSE]]
  /\ kyc' # kyc
  /\ UNCHANGED <<secret, accounts, credit, call, session, errors, provider>>

get_kyc(id) ==
  IF kyc[id] = NULL THEN "not_submitted"
  ELSE IF kyc[id].archived THEN "rejected"
  ELSE IF kyc[id].verified THEN "approved" ELSE "pending"

\* The operator approves or rejects a request in the database, or withdraws
\* an approval.
review_kyc(id) ==
  /\ \/ get_kyc(id) = "pending" /\ kyc' = [kyc EXCEPT ![id].verified = TRUE]
     \/ get_kyc(id) \in {"pending", "approved"} /\ kyc' = [kyc EXCEPT ![id].archived = TRUE]
  /\ UNCHANGED <<secret, accounts, credit, call, session, errors, provider>>

\* An account without a row is shown with zeros.
get_balance(id) == IF credit[id] = NULL THEN 0 ELSE credit[id].available_nmc

-----------------------------------------------------------------------------
(* Stripe.  The dashboard's webhook passes checkout.session.completed and     *)
(* checkout.session.async_payment_succeeded on to stripe_credit.            *)

Deliver(x) == [session EXCEPT ![x].deliveries = @ + 1]

\* The webhook answers 200 to a session paid at once only if stripe_credit
\* succeeds, which it never does; to one paid later it answers 200 always.
Answer(sessions, x) == [sessions EXCEPT ![x].answered = @ \/ sessions[x].async]

\* Mutant: the session is recorded before it is credited.
stripe_credit_check_record(s, x) ==
  /\ Free(s) /\ session[x].deliveries < MaxDeliveries
  /\ session' = IF secret = "" THEN Deliver(x) ELSE Answer(Deliver(x), x)
  /\ Go(s, IF secret = "" THEN [pc |-> "stripe_record", x |-> x] ELSE Idle)
  /\ UNCHANGED <<secret, accountVars, errors, provider>>

\* Stripe delivers the webhook, which sends no Authorization header: the
\* token is empty.  The session is in no deposit record.
stripe_credit_check(s, x) ==
  /\ Free(s) /\ session[x].deliveries < MaxDeliveries
  /\ session' = IF secret = "" THEN Deliver(x) ELSE Answer(Deliver(x), x)
  /\ Go(s, IF secret = "" THEN [pc |-> "stripe_credit", x |-> x] ELSE Idle)
  /\ UNCHANGED <<secret, accountVars, errors, provider>>

\* Mutant: UPDATE instead of INSERT ... ON CONFLICT.
stripe_credit_upsert_update(s) ==
  LET id == Payer[call[s].x] IN
  /\ Step(s, "stripe_credit")
  /\ credit' = IF credit[id] = NULL THEN credit
               ELSE [credit EXCEPT ![id].available_nmc = @ + Amount[call[s].x]]
  /\ session' = [session EXCEPT ![call[s].x].credited = @ + 1]
  /\ Go(s, [pc |-> "stripe_record", x |-> call[s].x])
  /\ UNCHANGED <<secret, accounts, kyc, errors, provider>>

\* The account need not be registered, nor its row exist.
stripe_credit_upsert(s) ==
  LET id == Payer[call[s].x] IN
  /\ Step(s, "stripe_credit")
  /\ credit' = [credit EXCEPT ![id] = [available_nmc |-> get_balance(id) + Amount[call[s].x]]]
  /\ session' = [session EXCEPT ![call[s].x].credited = @ + 1]
  /\ Go(s, [pc |-> "stripe_record", x |-> call[s].x])
  /\ UNCHANGED <<secret, accounts, kyc, errors, provider>>

\* The INSERT leaves out amount_nmc, which is NOT NULL and has no default:
\* it fails, stripe_credit answers 500 and no transaction is logged.
stripe_credit_record(s) ==
  /\ Step(s, "stripe_record")
  /\ session' = Answer(session, call[s].x)
  /\ Go(s, Idle)
  /\ UNCHANGED <<secret, accountVars, errors, provider>>

\* A statement before that fails.
stripe_credit_error(s) ==
  /\ Step(s, "stripe_credit") /\ errors < MaxErrors
  /\ errors' = errors + 1
  /\ session' = Answer(session, call[s].x)
  /\ Go(s, Idle)
  /\ UNCHANGED <<secret, accountVars, provider>>

-----------------------------------------------------------------------------
(* Reputation *)

\* The statement of complete_job that counts the job; the score comes later.
complete_job_count ==
  /\ provider.reports < MaxReports
  /\ provider' = [provider EXCEPT !.jobs_completed = @ + 1, !.counted = @ + 1, !.reports = @ + 1]
  /\ UNCHANGED <<secret, accountVars, call, session, errors>>

Clamp(score) == IF score < 0 THEN 0 ELSE IF score > 500 THEN 500 ELSE score

\* Mutant: the old rate is weighted with all jobs, the new one included.
update_trust_score_weight(success) ==
  LET n == provider.jobs_completed
      r == provider.success_rate
      x == IF success THEN 1 ELSE 0 IN
  [provider EXCEPT
     !.trust_score = Clamp(@ + IF success THEN 5 ELSE -30),
     !.success_rate = IF n > 0 THEN Rate(r.num * n + x * r.den, n * r.den) ELSE Rate(x, 1)]

\* In hundredths: +5 or -30, and a running mean over the completed jobs.
update_trust_score(success) ==
  LET n == provider.jobs_completed
      r == provider.success_rate
      x == IF success THEN 1 ELSE 0 IN
  [provider EXCEPT
     !.trust_score = Clamp(@ + IF success THEN 5 ELSE -30),
     !.success_rate = IF n > 0 THEN Rate(r.num * (n - 1) + x * r.den, n * r.den) ELSE Rate(x, 1)]

\* complete_job goes on, perhaps after the count of another job.
complete_job_score ==
  /\ provider.counted > 0
  /\ provider' = [update_trust_score(TRUE) EXCEPT !.counted = @ - 1]
  /\ UNCHANGED <<secret, accountVars, call, session, errors>>

\* fail_job with slash.
fail_job_score ==
  /\ provider.reports < MaxReports
  /\ provider' = [update_trust_score(FALSE) EXCEPT !.reports = @ + 1]
  /\ UNCHANGED <<secret, accountVars, call, session, errors>>

AccountStep ==
  \/ \E s \in Slots :
       \/ \E k \in Keys, f \in Fingerprints :
            \/ register_account_upsert(s, k, f)
            \/ \E id \in AccountIds : reregister_device_select(s, id, k, f)
       \/ register_account_credit(s) \/ reregister_device_update(s)
  \/ \E id \in AccountIds : submit_kyc(id) \/ review_kyc(id)

StripeStep(s) == stripe_credit_upsert(s) \/ stripe_credit_record(s) \/ stripe_credit_error(s)

ReputationStep == complete_job_count \/ complete_job_score \/ fail_job_score

Next ==
  \/ AccountStep
  \/ \E s \in Slots : StripeStep(s) \/ \E x \in Sessions : stripe_credit_check(s, x)
  \/ ReputationStep

Spec == Init /\ [][Next]_vars

\* Stripe goes on delivering what was not answered 200, and may deliver the
\* rest again; the server answers.
FairSpec ==
  /\ Spec
  /\ \A x \in Sessions :
       SF_vars(~session[x].answered /\ \E s \in Slots : stripe_credit_check(s, x))
  /\ \A s \in Slots : WF_vars(StripeStep(s) \/ register_account_credit(s) \/ reregister_device_update(s))

-----------------------------------------------------------------------------
(* Properties *)

\* A device that verify_device accepts is turned away only because a request
\* that presented the key of the account re-registered it for another device,
\* which is then accepted, whoever registers and re-registers meanwhile.
DeviceStays ==
  [][\A id \in AccountIds, k \in Keys, f \in Fingerprints :
       verify_device(id, k, f) /\ ~verify_device(id, k, f)' =>
         \E s \in Slots, g \in Fingerprints :
           /\ Step(s, "reregister_update")
           /\ call[s].id = id /\ call[s].key = k /\ call[s].fingerprint = g
           /\ verify_device(id, k, g)']_vars

\* The balance shown is what the account's sessions brought, also when
\* registration failed to make the row or payment came before registration.
BalanceShown ==
  \A id \in AccountIds :
    get_balance(id) = Total([x \in Sessions |-> session[x].credited * Amount[x]],
                            {x \in Sessions : Payer[x] = id})

\* If the coordinator has no secret for the webhook to present, a session
\* paid at once reaches the account although statements fail, and one paid
\* later does unless a statement fails: for that one the webhook answers 200
\* and Stripe does not come back.
PaidIsCredited ==
  \A x \in Sessions :
    (secret = "" /\ session[x].deliveries > 0) ~>
      (session[x].credited > 0 \/ (session[x].async /\ errors > 0))

\* However counts and scores of concurrent reports interleave, the success
\* rate stays between 0 and 1, and is 1 unless a job failed.
RateInRange ==
  LET r == provider.success_rate IN
  /\ 0 <= r.num /\ r.num <= r.den
  /\ r.num < r.den => provider.jobs_completed < provider.reports
=============================================================================
