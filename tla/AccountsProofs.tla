--------------------------- MODULE AccountsProofs ---------------------------
(***************************************************************************)
(* What holds of Accounts for any users, devices, payments and requests:   *)
(* the types, the devices of an account, the success rate of a provider    *)
(* and the balance shown.                                                  *)
(***************************************************************************)
EXTENDS Accounts, TotalTheorems, TLAPS

-----------------------------------------------------------------------------
(* The inductive invariant *)

Account == [key : Keys, fingerprint : Fingerprints]
CreditRow == [available_nmc : Nat]
KycRow == [verified : BOOLEAN, archived : BOOLEAN]
Session == [async : BOOLEAN, deliveries : 0 .. MaxDeliveries, answered : BOOLEAN,
            credited : 0 .. MaxDeliveries]

\* The requests in progress, with what each has read.
Calls ==
  {Idle} \cup [pc : {"register_credit"}, id : AccountIds]
         \cup [pc : {"reregister_update"}, id : AccountIds, key : Keys, fingerprint : Fingerprints]
         \cup [pc : {"stripe_credit", "stripe_record"}, x : Sessions]

Shapes ==
  /\ secret \in Secrets
  /\ accounts \in [AccountIds -> {NULL} \cup Account]
  /\ credit \in [AccountIds -> {NULL} \cup CreditRow]
  /\ kyc \in [AccountIds -> {NULL} \cup KycRow]
  /\ call \in [Slots -> Calls]
  /\ session \in [Sessions -> Session]
  /\ errors \in 0 .. MaxErrors

\* An account keeps the key its id was derived from.
KeyOfId == \A id \in AccountIds : accounts[id] # NULL => accounts[id].key = id[1]

\* A re-registration was let through for an account that exists, with its key.
UpdatesExisting ==
  \A s \in Slots : Step(s, "reregister_update") =>
    accounts[call[s].id] # NULL /\ call[s].key = call[s].id[1]

\* 1 for each request about to credit session x.
Crediting(x) == [s \in Slots |-> IF Step(s, "stripe_credit") /\ call[s].x = x THEN 1 ELSE 0]

\* A session is credited at most once for each delivery of its webhook.
CreditPerDelivery ==
  \A x \in Sessions : session[x].credited + Total(Crediting(x), Slots) <= session[x].deliveries

Fraction == [num : Nat, den : Nat \ {0}]
Columns == [trust_score : 0 .. 500, jobs_completed : Nat, success_rate : Fraction,
            counted : Nat, reports : 0 .. MaxReports]

\* Every score follows a count, and every count a report.
Reputation ==
  /\ provider \in Columns
  /\ provider.counted <= provider.jobs_completed
  /\ provider.jobs_completed <= provider.reports

AccountInv == Shapes /\ KeyOfId /\ UpdatesExisting

-----------------------------------------------------------------------------
(* Records and requests *)

\* A row is never the absent row, and a pair is an account id.
LEMMA Rows ==
  /\ NULL \notin Account /\ NULL \notin CreditRow /\ NULL \notin KycRow
  /\ \A k \in Keys, f \in Fingerprints : <<k, f>> \in AccountIds
  /\ \A id \in AccountIds : id[1] \in Keys
<1>1. \A r \in Account : DOMAIN r = {"key", "fingerprint"}
  BY DEF Account
<1>2. \A r \in CreditRow : DOMAIN r = {"available_nmc"}
  BY DEF CreditRow
<1>3. \A r \in KycRow : DOMAIN r = {"verified", "archived"}
  BY DEF KycRow
<1>4. DOMAIN NULL = {"none"}
  BY DEF NULL
<1>5. "none" \in DOMAIN NULL
  BY <1>4
<1>6. \A r \in Account \cup CreditRow \cup KycRow : "none" \notin DOMAIN r
  BY <1>1, <1>2, <1>3
<1> QED BY <1>5, <1>6 DEF AccountIds, derive_account_id

\* What a request at each step has read.
LEMMA CallFields ==
  ASSUME NEW c \in Calls
  PROVE  /\ c.pc \in {"idle", "register_credit", "reregister_update", "stripe_credit", "stripe_record"}
         /\ c.pc = "register_credit" => c.id \in AccountIds
         /\ c.pc = "reregister_update" => /\ c.id \in AccountIds /\ c.key \in Keys
                                          /\ c.fingerprint \in Fingerprints
         /\ c.pc \in {"stripe_credit", "stripe_record"} => c.x \in Sessions
  BY DEF Calls, Idle

\* The requests handlers put in a slot.
LEMMA CallsMade ==
  /\ Idle \in Calls
  /\ \A id \in AccountIds : [pc |-> "register_credit", id |-> id] \in Calls
  /\ \A id \in AccountIds, k \in Keys, f \in Fingerprints :
       [pc |-> "reregister_update", id |-> id, key |-> k, fingerprint |-> f] \in Calls
  /\ \A x \in Sessions : /\ [pc |-> "stripe_credit", x |-> x] \in Calls
                         /\ [pc |-> "stripe_record", x |-> x] \in Calls
  BY DEF Calls, Idle

-----------------------------------------------------------------------------
(* Accounts and their devices *)

\* Nothing is registered at first.
LEMMA AccountInit == Init => AccountInv
<1> SUFFICES ASSUME Init PROVE AccountInv
  OBVIOUS
<1>1. Shapes
  <2>1. session \in [Sessions -> Session]
    <3>1. 0 \in 0 .. MaxDeliveries
      BY AccountsAssumption
    <3>2. [async : BOOLEAN, deliveries : {0}, answered : {FALSE}, credited : {0}] \subseteq Session
      BY <3>1 DEF Session
    <3> QED BY <3>2 DEF Init
  <2>2. errors \in 0 .. MaxErrors
    BY AccountsAssumption DEF Init
  <2> QED BY <2>1, <2>2, CallsMade DEF Init, Shapes
<1> QED BY <1>1 DEF Init, AccountInv, KeyOfId, UpdatesExisting, Step, Idle

\* Registration inserts the account under its own key, or changes nothing.
LEMMA RegisterKeeps ==
  ASSUME AccountInv, NEW s \in Slots, NEW k \in Keys, NEW f \in Fingerprints,
         register_account_upsert(s, k, f)
  PROVE  AccountInv'
<1> DEFINE id == derive_account_id(k, f)
           c == [pc |-> "register_credit", id |-> id]
<1>1. id \in AccountIds /\ id = <<k, f>> /\ id[1] = k
  BY Rows DEF derive_account_id
<1>2. c \in Calls /\ c.pc = "register_credit"
  BY <1>1, CallsMade
<1>3. call' = [call EXCEPT ![s] = c] /\ UNCHANGED <<secret, credit, kyc, session, errors>>
  BY DEF register_account_upsert, Go
<1>4. \/ UNCHANGED accounts
      \/ accounts' = [accounts EXCEPT ![id] = [key |-> k, fingerprint |-> f]]
  BY DEF register_account_upsert
<1>5. [key |-> k, fingerprint |-> f] \in Account
  BY DEF Account
<1> HIDE DEF c, id
<1>6. accounts' \in [AccountIds -> {NULL} \cup Account]
  BY <1>1, <1>4, <1>5 DEF AccountInv, Shapes
<1>7. call' \in [Slots -> Calls]
  BY <1>2, <1>3 DEF AccountInv, Shapes
<1>8. Shapes'
  BY <1>3, <1>6, <1>7 DEF AccountInv, Shapes
<1>9. KeyOfId'
  BY <1>1, <1>4 DEF AccountInv, Shapes, KeyOfId
<1>10. \A i \in AccountIds : accounts[i] # NULL => accounts'[i] # NULL
  BY <1>1, <1>4, <1>5, Rows DEF AccountInv, Shapes
<1>11. UpdatesExisting'
  BY <1>2, <1>3, <1>10, CallFields DEF AccountInv, Shapes, UpdatesExisting, Step
<1> QED BY <1>8, <1>9, <1>11 DEF AccountInv

\* The statement that makes the balance row leaves the accounts alone.
LEMMA RegisterCreditKeeps ==
  ASSUME AccountInv, NEW s \in Slots, register_account_credit(s) PROVE AccountInv'
<1> DEFINE i == call[s].id
<1>1. i \in AccountIds /\ call[s] \in Calls
  BY CallFields DEF AccountInv, Shapes, register_account_credit, Step
<1>2. call' = [call EXCEPT ![s] = Idle] /\ UNCHANGED <<secret, accounts, kyc, session>>
  BY DEF register_account_credit, Go
<1>3. [available_nmc |-> 0] \in CreditRow
  BY DEF CreditRow
<1>4. \/ credit' = [credit EXCEPT ![i] = IF @ = NULL THEN [available_nmc |-> 0] ELSE @]
      \/ UNCHANGED credit
  BY DEF register_account_credit
<1>5. errors' \in 0 .. MaxErrors
  BY AccountsAssumption DEF register_account_credit, AccountInv, Shapes
<1> HIDE DEF i
<1>6. credit' \in [AccountIds -> {NULL} \cup CreditRow]
  BY <1>1, <1>3, <1>4 DEF AccountInv, Shapes
<1>7. Shapes'
  BY <1>2, <1>5, <1>6, CallsMade DEF AccountInv, Shapes
<1>8. UpdatesExisting'
  BY <1>2 DEF AccountInv, Shapes, UpdatesExisting, Step, Idle
<1> QED BY <1>2, <1>7, <1>8 DEF AccountInv, KeyOfId

\* A re-registration is let through for the key the account has.
LEMMA ReregisterSelectKeeps ==
  ASSUME AccountInv, NEW s \in Slots, NEW i \in AccountIds, NEW k \in Keys, NEW f \in Fingerprints,
         reregister_device_select(s, i, k, f)
  PROVE  AccountInv'
<1> DEFINE c == [pc |-> "reregister_update", id |-> i, key |-> k, fingerprint |-> f]
<1>1. c \in Calls /\ c.pc = "reregister_update" /\ c.id = i /\ c.key = k
  BY CallsMade
<1>2. /\ call' = [call EXCEPT ![s] = c] /\ accounts[i] # NULL /\ accounts[i].key = k
      /\ UNCHANGED <<secret, accountVars, session, errors>>
  BY DEF reregister_device_select, Go
<1> HIDE DEF c
<1>3. Shapes'
  BY <1>1, <1>2 DEF AccountInv, Shapes, accountVars
<1>4. UpdatesExisting'
  BY <1>1, <1>2 DEF AccountInv, Shapes, KeyOfId, UpdatesExisting, Step, accountVars
<1> QED BY <1>2, <1>3, <1>4 DEF AccountInv, KeyOfId, accountVars

\* The update changes the device of the account, never its key.
LEMMA ReregisterUpdateKeeps ==
  ASSUME AccountInv, NEW s \in Slots, reregister_device_update(s) PROVE AccountInv'
<1> DEFINE i == call[s].id
           row == [key |-> accounts[i].key, fingerprint |-> call[s].fingerprint]
<1>1. /\ i \in AccountIds /\ call[s].fingerprint \in Fingerprints
      /\ accounts[i] \in Account /\ accounts[i].key = i[1]
  BY CallFields DEF AccountInv, Shapes, UpdatesExisting, KeyOfId, reregister_device_update, Step
<1>2. row \in Account /\ row.key = i[1]
  BY <1>1 DEF Account
<1>3. /\ call' = [call EXCEPT ![s] = Idle] /\ accounts' = [accounts EXCEPT ![i] = row]
      /\ UNCHANGED <<secret, credit, kyc, session, errors>>
  BY DEF reregister_device_update, Go
<1> HIDE DEF row, i
<1>4. Shapes'
  BY <1>1, <1>2, <1>3, CallsMade DEF AccountInv, Shapes
<1>5. KeyOfId'
  BY <1>1, <1>2, <1>3 DEF AccountInv, Shapes, KeyOfId
<1>6. \A j \in AccountIds : accounts[j] # NULL => accounts'[j] # NULL
  BY <1>1, <1>2, <1>3, Rows DEF AccountInv, Shapes
<1>7. UpdatesExisting'
  BY <1>3, <1>6, CallFields DEF AccountInv, Shapes, UpdatesExisting, Step, Idle
<1> QED BY <1>4, <1>5, <1>7 DEF AccountInv

\* Identity records change apart from the accounts they belong to.
LEMMA KycKeeps ==
  ASSUME AccountInv, NEW i \in AccountIds, submit_kyc(i) \/ review_kyc(i) PROVE AccountInv'
<1>1. UNCHANGED <<secret, accounts, credit, call, session, errors>>
  BY DEF submit_kyc, review_kyc
<1>2. CASE submit_kyc(i)
  <2> DEFINE v == IF kyc[i] = NULL THEN FALSE ELSE kyc[i].verified
  <2>1. v \in BOOLEAN
    BY DEF AccountInv, Shapes, KycRow
  <2>2. [verified |-> v, archived |-> FALSE] \in KycRow
    BY <2>1 DEF KycRow
  <2>3. kyc' = [kyc EXCEPT ![i] = [verified |-> v, archived |-> FALSE]]
    BY <1>2 DEF submit_kyc
  <2> HIDE DEF v
  <2>4. Shapes'
    BY <1>1, <2>2, <2>3 DEF AccountInv, Shapes
  <2> QED BY <1>1, <2>4 DEF AccountInv, KeyOfId, UpdatesExisting, Step
<1>3. CASE review_kyc(i)
  <2>1. kyc[i] \in KycRow
    BY <1>3 DEF review_kyc, get_kyc, AccountInv, Shapes
  <2>2. [kyc[i] EXCEPT !.verified = TRUE] \in KycRow /\ [kyc[i] EXCEPT !.archived = TRUE] \in KycRow
    BY <2>1 DEF KycRow
  <2>3. kyc' \in {[kyc EXCEPT ![i] = [kyc[i] EXCEPT !.verified = TRUE]],
                  [kyc EXCEPT ![i] = [kyc[i] EXCEPT !.archived = TRUE]]}
    BY <1>3 DEF review_kyc, AccountInv, Shapes
  <2>4. kyc' \in [AccountIds -> {NULL} \cup KycRow]
    BY <2>2, <2>3 DEF AccountInv, Shapes
  <2>5. Shapes'
    BY <1>1, <2>4 DEF AccountInv, Shapes
  <2> QED BY <1>1, <2>5 DEF AccountInv, KeyOfId, UpdatesExisting, Step
<1> QED BY <1>2, <1>3

\* A delivery of the webhook starts a request to credit its session.
LEMMA DeliveryKeeps ==
  ASSUME AccountInv, NEW s \in Slots, NEW x \in Sessions, stripe_credit_check(s, x)
  PROVE  AccountInv'
<1> DEFINE c == IF secret = "" THEN [pc |-> "stripe_credit", x |-> x] ELSE Idle
           sent == [session[x] EXCEPT !.deliveries = @ + 1]
           row == IF secret = "" THEN sent ELSE [sent EXCEPT !.answered = @ \/ sent.async]
<1>1. c \in Calls /\ c.pc # "reregister_update"
  BY CallsMade DEF Idle
<1>2. row \in Session
  <2>1. session[x] \in Session
    BY DEF AccountInv, Shapes
  <2>2. session[x].deliveries \in 0 .. MaxDeliveries /\ session[x].deliveries < MaxDeliveries
    BY <2>1 DEF Session, stripe_credit_check
  <2>3. session[x].deliveries + 1 \in 0 .. MaxDeliveries
    BY <2>2, AccountsAssumption
  <2>4. sent \in Session
    BY <2>1, <2>3 DEF Session
  <2> HIDE DEF sent
  <2>5. [sent EXCEPT !.answered = @ \/ sent.async] \in Session
    BY <2>4 DEF Session
  <2> QED BY <2>4, <2>5
<1>3. /\ call' = [call EXCEPT ![s] = c] /\ session' = [session EXCEPT ![x] = row]
      /\ UNCHANGED <<secret, accountVars, errors>>
  BY DEF stripe_credit_check, Go, Deliver, Answer, AccountInv, Shapes
<1> HIDE DEF c, row
<1>4. Shapes'
  BY <1>1, <1>2, <1>3 DEF AccountInv, Shapes, accountVars
<1>5. UpdatesExisting'
  BY <1>1, <1>3 DEF AccountInv, Shapes, UpdatesExisting, Step, accountVars
<1> QED BY <1>3, <1>4, <1>5 DEF AccountInv, KeyOfId, accountVars

\* The number of requests about to credit a session.
LEMMA CreditingCounts ==
  ASSUME AccountInv, NEW x \in Sessions
  PROVE  /\ Total(Crediting(x), Slots) \in Nat
         /\ \A s \in Slots : Step(s, "stripe_credit") /\ call[s].x = x => Total(Crediting(x), Slots) >= 1
<1> DEFINE F == Crediting(x)
<1>1. \A s \in Slots : F[s] \in Nat
  BY DEF Crediting
<1>2. \A s \in Slots : Step(s, "stripe_credit") /\ call[s].x = x => F[s] = 1
  BY DEF Crediting
<1>3. IsFiniteSet(Slots)
  BY AccountsAssumption
<1> HIDE DEF F
<1>4. Total(F, Slots) \in Nat
  BY <1>1, <1>3, TotalNat
<1>5. \A s \in Slots : F[s] <= Total(F, Slots)
  BY <1>1, <1>3, TotalAtLeast
<1>6. ASSUME NEW s \in Slots, Step(s, "stripe_credit"), call[s].x = x PROVE Total(F, Slots) >= 1
  BY <1>2, <1>4, <1>5, <1>6
<1> QED BY <1>4, <1>6 DEF F

\* A request that credits a session adds to it, within the deliveries.
LEMMA CreditKeeps ==
  ASSUME AccountInv, CreditPerDelivery, NEW s \in Slots, stripe_credit_upsert(s)
  PROVE  AccountInv'
<1> DEFINE x == call[s].x
           id == Payer[x]
           paid == get_balance(id) + Amount[x]
           row == [session[x] EXCEPT !.credited = @ + 1]
           c == [pc |-> "stripe_record", x |-> x]
<1>1. x \in Sessions
  BY CallFields DEF AccountInv, Shapes, stripe_credit_upsert, Step
<1>2. id \in AccountIds
  BY <1>1, AccountsAssumption, Rows
<1>3. paid \in Nat
  <2>1. get_balance(id) \in Nat
    BY <1>2 DEF get_balance, AccountInv, Shapes, CreditRow
  <2> QED BY <1>1, <2>1, AccountsAssumption
<1>4. [available_nmc |-> paid] \in CreditRow
  BY <1>3 DEF CreditRow
<1>5. row \in Session
  <2>1. session[x] \in Session
    BY <1>1 DEF AccountInv, Shapes
  <2>2. Total(Crediting(x), Slots) \in Nat /\ Total(Crediting(x), Slots) >= 1
    BY <1>1, CreditingCounts DEF stripe_credit_upsert
  <2>3. session[x].credited + Total(Crediting(x), Slots) <= session[x].deliveries
    BY <1>1 DEF CreditPerDelivery
  <2>4. session[x].credited \in 0 .. MaxDeliveries /\ session[x].deliveries \in 0 .. MaxDeliveries
    BY <2>1 DEF Session
  <2>5. session[x].credited + 1 \in 0 .. MaxDeliveries
    BY <2>2, <2>3, <2>4, AccountsAssumption
  <2> QED BY <2>1, <2>5 DEF Session
<1>6. c \in Calls /\ c.pc = "stripe_record"
  BY <1>1, CallsMade
<1>7. /\ call' = [call EXCEPT ![s] = c] /\ session' = [session EXCEPT ![x] = row]
      /\ credit' = [credit EXCEPT ![id] = [available_nmc |-> paid]]
      /\ UNCHANGED <<secret, accounts, kyc, errors>>
  BY DEF stripe_credit_upsert, Go
<1> HIDE DEF c, row, paid, id, x
<1>8. Shapes'
  BY <1>1, <1>2, <1>4, <1>5, <1>6, <1>7 DEF AccountInv, Shapes
<1>9. UpdatesExisting'
  BY <1>6, <1>7 DEF AccountInv, Shapes, UpdatesExisting, Step
<1> QED BY <1>7, <1>8, <1>9 DEF AccountInv, KeyOfId

\* An answer to Stripe leaves the counts of every session alone.
LEMMA AnswerSession ==
  ASSUME NEW q \in [Sessions -> Session], NEW x
  PROVE  /\ Answer(q, x) \in [Sessions -> Session]
         /\ \A y \in Sessions : /\ Answer(q, x)[y].credited = q[y].credited
                                /\ Answer(q, x)[y].deliveries = q[y].deliveries
  BY DEF Answer, Session

\* The request ends, or fails.
LEMMA StripeEndKeeps ==
  ASSUME AccountInv, NEW s \in Slots, stripe_credit_record(s) \/ stripe_credit_error(s)
  PROVE  AccountInv'
<1>1. /\ call' = [call EXCEPT ![s] = Idle] /\ UNCHANGED <<secret, accountVars>>
      /\ session' = Answer(session, call[s].x)
  BY DEF stripe_credit_record, stripe_credit_error, Go
<1>10. session' \in [Sessions -> Session]
  BY <1>1, AnswerSession DEF AccountInv, Shapes
<1>2. errors' \in 0 .. MaxErrors
  BY AccountsAssumption DEF stripe_credit_record, stripe_credit_error, AccountInv, Shapes
<1>3. Shapes'
  BY <1>1, <1>2, <1>10, CallsMade DEF AccountInv, Shapes, accountVars
<1>4. UpdatesExisting'
  BY <1>1 DEF AccountInv, Shapes, UpdatesExisting, Step, Idle, accountVars
<1> QED BY <1>1, <1>3, <1>4 DEF AccountInv, KeyOfId, accountVars

-----------------------------------------------------------------------------
(* Credits *)

\* What each session brought, and the sessions of an account.
Brought == [x \in Sessions |-> session[x].credited * Amount[x]]
PaidBy(id) == {x \in Sessions : Payer[x] = id}

CreditInv == CreditPerDelivery /\ BalanceShown

\* Nothing is credited at first.
LEMMA CreditInit == Init => CreditInv
<1> SUFFICES ASSUME Init PROVE CreditInv
  OBVIOUS
<1>1. CreditPerDelivery
  <2> SUFFICES ASSUME NEW x \in Sessions
               PROVE  session[x].credited + Total(Crediting(x), Slots) <= session[x].deliveries
    BY DEF CreditPerDelivery
  <2> DEFINE F == Crediting(x)
  <2>1. \A s \in Slots : F[s] = 0
    BY DEF Crediting, Init, Step, Idle
  <2> HIDE DEF F
  <2>2. Total(F, Slots) = 0
    BY <2>1, TotalZero, AccountsAssumption
  <2>3. session[x].credited = 0 /\ session[x].deliveries = 0
    BY DEF Init
  <2> QED BY <2>2, <2>3 DEF F
<1>2. BalanceShown
  <2> SUFFICES ASSUME NEW id \in AccountIds
               PROVE  get_balance(id) = Total(Brought, PaidBy(id))
    BY DEF BalanceShown, Brought, PaidBy
  <2> DEFINE F == Brought
             S == PaidBy(id)
  <2>1. \A x \in S : F[x] = 0
    <3>1. \A x \in Sessions : session[x].credited = 0 /\ Amount[x] \in Nat
      BY AccountsAssumption DEF Init
    <3> QED BY <3>1 DEF Brought, PaidBy
  <2>2. IsFiniteSet(S)
    BY AccountsAssumption, FS_Subset DEF PaidBy
  <2> HIDE DEF F, S
  <2>3. Total(F, S) = 0
    BY <2>1, <2>2, TotalZero
  <2>4. get_balance(id) = 0
    BY DEF Init, get_balance
  <2> QED BY <2>3, <2>4 DEF F, S
<1> QED BY <1>1, <1>2 DEF CreditInv

\* A step that credits nothing, shows the same balances and starts no request
\* to credit keeps the books.
LEMMA QuietKeeps ==
  ASSUME CreditInv, \A x \in Sessions : /\ session'[x].credited = session[x].credited
                                        /\ session'[x].deliveries = session[x].deliveries,
         \A id \in AccountIds : get_balance(id)' = get_balance(id),
         AccountInv, AccountInv',
         \A s \in Slots : Step(s, "stripe_credit")' => UNCHANGED call[s]
  PROVE  CreditInv'
<1>1. CreditPerDelivery'
  <2> SUFFICES ASSUME NEW x \in Sessions
               PROVE  session'[x].credited + Total(Crediting(x)', Slots) <= session'[x].deliveries
    BY DEF CreditPerDelivery
  <2> DEFINE F == Crediting(x)
             G == Crediting(x)'
  <2>1. \A s \in Slots : F[s] \in Int /\ G[s] \in Int /\ G[s] <= F[s]
    BY DEF Crediting, Step
  <2> HIDE DEF F, G
  <2>2. Total(G, Slots) <= Total(F, Slots)
    BY <2>1, TotalMonotone, AccountsAssumption
  <2>3. Total(F, Slots) \in Int /\ Total(G, Slots) \in Int
    BY <2>1, TotalInt, AccountsAssumption
  <2>4. session[x].credited + Total(F, Slots) <= session[x].deliveries
    BY DEF F, CreditInv, CreditPerDelivery
  <2>5. session[x].credited \in Int /\ session[x].deliveries \in Int
    BY DEF AccountInv, Shapes, Session
  <2> QED BY <2>2, <2>3, <2>4, <2>5 DEF G
<1>2. BalanceShown'
  <2>1. [x \in Sessions |-> session'[x].credited * Amount[x]]
          = [x \in Sessions |-> session[x].credited * Amount[x]]
    OBVIOUS
  <2> QED BY <2>1 DEF CreditInv, BalanceShown
<1> QED BY <1>1, <1>2 DEF CreditInv

\* A delivery raises the bound of its session and starts at most one request.
LEMMA DeliveryKeepsCredit ==
  ASSUME AccountInv, AccountInv', CreditInv, NEW s \in Slots, NEW x \in Sessions,
         stripe_credit_check(s, x)
  PROVE  CreditInv'
<1> DEFINE c == IF secret = "" THEN [pc |-> "stripe_credit", x |-> x] ELSE Idle
           sent == [session[x] EXCEPT !.deliveries = @ + 1]
           row == IF secret = "" THEN sent ELSE [sent EXCEPT !.answered = @ \/ sent.async]
<1>1. /\ call' = [call EXCEPT ![s] = c] /\ session' = [session EXCEPT ![x] = row]
      /\ UNCHANGED credit /\ call[s].pc = "idle"
  BY DEF stripe_credit_check, Go, accountVars, Free, Deliver, Answer, AccountInv, Shapes
<1>2. c.pc = "stripe_credit" => c.x = x
  BY DEF Idle
<1>3. \A y \in Sessions : session[y].credited \in Int /\ session[y].deliveries \in Int
  BY DEF AccountInv, Shapes, Session
<1>4. row.credited = session[x].credited /\ row.deliveries = session[x].deliveries + 1
  BY DEF AccountInv, Shapes, Session
<1> HIDE DEF c, row
<1>5. \A y \in Sessions : session'[y].credited = session[y].credited
  BY <1>1, <1>4 DEF AccountInv, Shapes
<1>6. \A y \in Sessions : session'[y].deliveries =
        IF y = x THEN session[y].deliveries + 1 ELSE session[y].deliveries
  BY <1>1, <1>4 DEF AccountInv, Shapes
<1>7. CreditPerDelivery'
  <2> SUFFICES ASSUME NEW y \in Sessions
               PROVE  session'[y].credited + Total(Crediting(y)', Slots) <= session'[y].deliveries
    BY DEF CreditPerDelivery
  <2> DEFINE F == Crediting(y)
             G == Crediting(y)'
  <2>1. \A t \in Slots : F[t] \in {0, 1} /\ G[t] \in {0, 1}
    BY DEF Crediting
  <2>2. \A t \in Slots \ {s} : G[t] = F[t]
    BY <1>1 DEF Crediting, Step
  <2>3. F[s] = 0 /\ (y # x => G[s] = 0)
    BY <1>1, <1>2 DEF Crediting, Step, AccountInv, Shapes
  <2> HIDE DEF F, G
  <2>4. Total(G, Slots) = Total(F, Slots) - F[s] + G[s]
    <3>1. \A t \in Slots : F[t] \in Int /\ G[t] \in Int
      BY <2>1
    <3> QED BY <2>2, <3>1, TotalChange, AccountsAssumption
  <2>5. Total(F, Slots) \in Int
    BY <2>1, TotalInt, AccountsAssumption
  <2>6. session[y].credited + Total(F, Slots) <= session[y].deliveries
    BY DEF F, CreditInv, CreditPerDelivery
  <2>7. F[s] = 0 /\ G[s] \in {0, 1} /\ (y # x => G[s] = 0)
    BY <2>1, <2>3
  <2>8. Total(G, Slots) = Total(F, Slots) + G[s]
    BY <2>4, <2>5, <2>7
  <2>9. session'[y].credited + Total(G, Slots) <= session'[y].deliveries
    <3>1. CASE y = x
      BY <3>1, <1>3, <1>5, <1>6, <2>5, <2>6, <2>7, <2>8
    <3>2. CASE y # x
      BY <3>2, <1>3, <1>5, <1>6, <2>5, <2>6, <2>7, <2>8
    <3> QED BY <3>1, <3>2
  <2> QED BY <2>9 DEF G
<1>8. BalanceShown'
  <2> SUFFICES ASSUME NEW id \in AccountIds
               PROVE  get_balance(id)' = Total(Brought', PaidBy(id))
    BY DEF BalanceShown, Brought, PaidBy
  <2>1. get_balance(id)' = get_balance(id)
    BY <1>1 DEF get_balance
  <2>2. Brought' = Brought
    BY <1>5 DEF Brought
  <2> QED BY <2>1, <2>2 DEF CreditInv, BalanceShown, Brought, PaidBy
<1> QED BY <1>7, <1>8 DEF CreditInv

\* Crediting adds the session's amount to the balance of who paid it, and the
\* request is no longer about to credit.
LEMMA UpsertKeepsCredit ==
  ASSUME AccountInv, AccountInv', CreditInv, NEW s \in Slots, stripe_credit_upsert(s)
  PROVE  CreditInv'
<1> DEFINE x == call[s].x
           id == Payer[x]
           row == [session[x] EXCEPT !.credited = @ + 1]
           c == [pc |-> "stripe_record", x |-> x]
<1>1. x \in Sessions /\ id \in AccountIds /\ call[s].pc = "stripe_credit"
  <2>1. x \in Sessions /\ call[s].pc = "stripe_credit"
    BY CallFields DEF AccountInv, Shapes, stripe_credit_upsert, Step
  <2> QED BY <2>1, AccountsAssumption, Rows
<1>2. /\ call' = [call EXCEPT ![s] = c] /\ session' = [session EXCEPT ![x] = row]
      /\ credit' = [credit EXCEPT ![id] = [available_nmc |-> get_balance(id) + Amount[x]]]
  BY DEF stripe_credit_upsert, Go
<1>3. \A y \in Sessions : session[y].credited \in Int /\ session[y].deliveries \in Int
  BY DEF AccountInv, Shapes, Session
<1>4. row.credited = session[x].credited + 1 /\ row.deliveries = session[x].deliveries
  BY <1>1 DEF AccountInv, Shapes, Session
<1>5. c.pc = "stripe_record"
  OBVIOUS
<1>6. Crediting(x)[s] = 1
  BY <1>1 DEF Crediting, Step
<1>7. \A y \in Sessions : y # x => Crediting(y)[s] = 0
  BY DEF Crediting, Step
<1> HIDE DEF c, row
<1>8. \A y \in Sessions : session'[y].deliveries = session[y].deliveries
  BY <1>1, <1>2, <1>4 DEF AccountInv, Shapes
<1>9. \A y \in Sessions : session'[y].credited =
        IF y = x THEN session[y].credited + 1 ELSE session[y].credited
  BY <1>1, <1>2, <1>4 DEF AccountInv, Shapes
<1>10. CreditPerDelivery'
  <2> SUFFICES ASSUME NEW y \in Sessions
               PROVE  session'[y].credited + Total(Crediting(y)', Slots) <= session'[y].deliveries
    BY DEF CreditPerDelivery
  <2> DEFINE F == Crediting(y)
             G == Crediting(y)'
  <2>1. \A t \in Slots : F[t] \in Int /\ G[t] \in Int
    BY DEF Crediting
  <2>2. \A t \in Slots \ {s} : G[t] = F[t]
    BY <1>2 DEF Crediting, Step
  <2>3. G[s] = 0 /\ F[s] = IF y = x THEN 1 ELSE 0
    BY <1>2, <1>5, <1>6, <1>7 DEF Crediting, Step, AccountInv, Shapes
  <2> HIDE DEF F, G
  <2>4. Total(G, Slots) = Total(F, Slots) - F[s] + G[s]
    BY <2>1, <2>2, TotalChange, AccountsAssumption
  <2>5. Total(F, Slots) \in Int
    BY <2>1, TotalInt, AccountsAssumption
  <2>6. session[y].credited + Total(F, Slots) <= session[y].deliveries
    BY DEF F, CreditInv, CreditPerDelivery
  <2>7. session'[y].credited + Total(G, Slots) <= session'[y].deliveries
    <3> HIDE DEF x
    <3>1. CASE y = x
      <4>1. Total(G, Slots) = Total(F, Slots) - 1
        BY <3>1, <2>3, <2>4, <2>5
      <4> QED BY <3>1, <4>1, <1>3, <1>8, <1>9, <2>5, <2>6
    <3>2. CASE y # x
      <4>1. Total(G, Slots) = Total(F, Slots)
        BY <3>2, <2>3, <2>4, <2>5
      <4> QED BY <3>2, <4>1, <1>3, <1>8, <1>9, <2>5, <2>6
    <3> QED BY <3>1, <3>2
  <2> QED BY <2>7 DEF G
<1>11. BalanceShown'
  <2> SUFFICES ASSUME NEW i \in AccountIds
               PROVE  get_balance(i)' = Total(Brought', PaidBy(i))
    BY DEF BalanceShown, Brought, PaidBy
  <2> DEFINE F == Brought
             G == Brought'
             S == PaidBy(i)
  <2>1. S \subseteq Sessions /\ IsFiniteSet(S) /\ (x \in S <=> i = id)
    BY <1>1, AccountsAssumption, FS_Subset DEF PaidBy
  <2>2. \A y \in Sessions : F[y] \in Int /\ G[y] \in Int
    <3>1. \A y \in Sessions : session[y].credited \in Int /\ session'[y].credited \in Int
      BY <1>3, <1>9
    <3>2. \A y \in Sessions : Amount[y] \in Int
      BY AccountsAssumption
    <3> QED BY <3>1, <3>2 DEF Brought
  <2>3. \A y \in Sessions \ {x} : F[y] = G[y]
    BY <1>9 DEF Brought
  <2>4. G[x] = F[x] + Amount[x]
    <3>1. Amount[x] \in Int /\ session[x].credited \in Int
      BY <1>1, <1>3, AccountsAssumption
    <3>2. G[x] = (session[x].credited + 1) * Amount[x] /\ F[x] = session[x].credited * Amount[x]
      BY <1>1, <1>9 DEF Brought
    <3> QED BY <3>1, <3>2
  <2>5. get_balance(i) = Total(F, S)
    BY DEF CreditInv, BalanceShown, Brought, PaidBy
  <2>6. get_balance(i)' = IF i = id THEN get_balance(i) + Amount[x] ELSE get_balance(i)
    <3>1. [available_nmc |-> get_balance(id) + Amount[x]] # NULL
      <4>1. get_balance(id) + Amount[x] \in Nat
        <5>1. get_balance(id) \in Nat
          BY <1>1 DEF get_balance, AccountInv, Shapes, CreditRow
        <5> QED BY <1>1, <5>1, AccountsAssumption
      <4>2. [available_nmc |-> get_balance(id) + Amount[x]] \in CreditRow
        BY <4>1 DEF CreditRow
      <4> QED BY <4>2, Rows
    <3>2. CASE i = id
      <4>1. credit'[i] = [available_nmc |-> get_balance(id) + Amount[x]]
        BY <1>1, <1>2, <3>2 DEF AccountInv, Shapes
      <4> QED BY <3>1, <3>2, <4>1 DEF get_balance
    <3>3. CASE i # id
      <4>1. credit'[i] = credit[i]
        BY <1>1, <1>2, <3>3 DEF AccountInv, Shapes
      <4> QED BY <3>3, <4>1 DEF get_balance
    <3> QED BY <3>2, <3>3
  <2> HIDE DEF F, G, S
  <2>7. Total(G, S) = IF i = id THEN Total(F, S) + Amount[x] ELSE Total(F, S)
    <3>1. CASE i = id
      <4>1. x \in S /\ \A y \in S : F[y] \in Int /\ G[y] \in Int
        BY <3>1, <2>1, <2>2
      <4>2. \A y \in S \ {x} : F[y] = G[y]
        BY <2>1, <2>3
      <4> HIDE DEF x
      <4>3. Total(G, S) = Total(F, S) - F[x] + G[x]
        BY <2>1, <4>1, <4>2, TotalChange
      <4>4. Total(F, S) \in Int /\ F[x] \in Int /\ Amount[x] \in Int
        <5>1. Total(F, S) \in Int
          BY <2>1, <4>1, TotalInt
        <5> QED BY <5>1, <4>1, <1>1, AccountsAssumption
      <4> QED BY <3>1, <4>3, <4>4, <2>4
    <3>2. CASE i # id
      <4>1. \A y \in S : F[y] = G[y]
        BY <3>2, <2>1, <2>3
      <4>2. Total(G, S) = Total(F, S)
        BY <4>1, <2>1, TotalSame
      <4> QED BY <3>2, <4>2
    <3> QED BY <3>1, <3>2
  <2> QED BY <2>5, <2>6, <2>7 DEF G, S
<1> QED BY <1>10, <1>11 DEF CreditInv

\* Steps of requests that credit nothing.
LEMMA OtherKeepsCredit ==
  ASSUME AccountInv, AccountInv', CreditInv,
         \/ AccountStep \/ ReputationStep \/ UNCHANGED vars
         \/ \E s \in Slots : stripe_credit_record(s) \/ stripe_credit_error(s)
  PROVE  CreditInv'
<1>1. \A x \in Sessions : /\ session'[x].credited = session[x].credited
                          /\ session'[x].deliveries = session[x].deliveries
  <2>1. UNCHANGED session \/ \E x : session' = Answer(session, x)
    BY DEF AccountStep, ReputationStep, vars, register_account_upsert, reregister_device_select,
           register_account_credit, reregister_device_update, submit_kyc, review_kyc,
           stripe_credit_record, stripe_credit_error, complete_job_count, complete_job_score,
           fail_job_score
  <2> QED BY <2>1, AnswerSession DEF AccountInv, Shapes
<1>2. \A s \in Slots : Step(s, "stripe_credit")' => UNCHANGED call[s]
  <2>1. ASSUME NEW t \in Slots, NEW c, call' = [call EXCEPT ![t] = c], c.pc # "stripe_credit"
        PROVE  \A s \in Slots : Step(s, "stripe_credit")' => UNCHANGED call[s]
    BY <2>1 DEF Step, AccountInv, Shapes
  <2>2. ASSUME NEW s \in Slots, NEW k \in Keys, NEW f \in Fingerprints, register_account_upsert(s, k, f)
        PROVE  \E c : call' = [call EXCEPT ![s] = c] /\ c.pc # "stripe_credit"
    <3> DEFINE c == [pc |-> "register_credit", id |-> derive_account_id(k, f)]
    <3>1. call' = [call EXCEPT ![s] = c] /\ c.pc # "stripe_credit"
      BY <2>2 DEF register_account_upsert, Go
    <3> HIDE DEF c
    <3> QED BY <3>1
  <2>3. ASSUME NEW s \in Slots, NEW i \in AccountIds, NEW k \in Keys, NEW f \in Fingerprints,
               reregister_device_select(s, i, k, f)
        PROVE  \E c : call' = [call EXCEPT ![s] = c] /\ c.pc # "stripe_credit"
    <3> DEFINE c == [pc |-> "reregister_update", id |-> i, key |-> k, fingerprint |-> f]
    <3>1. call' = [call EXCEPT ![s] = c] /\ c.pc # "stripe_credit"
      BY <2>3 DEF reregister_device_select, Go
    <3> HIDE DEF c
    <3> QED BY <3>1
  <2>4. ASSUME NEW s \in Slots,
               \/ register_account_credit(s) \/ reregister_device_update(s)
               \/ stripe_credit_record(s) \/ stripe_credit_error(s)
        PROVE  call' = [call EXCEPT ![s] = Idle] /\ Idle.pc # "stripe_credit"
    BY <2>4 DEF register_account_credit, reregister_device_update, stripe_credit_record,
                stripe_credit_error, Go, Idle
  <2>5. ASSUME \/ \E id \in AccountIds : submit_kyc(id) \/ review_kyc(id)
               \/ ReputationStep \/ UNCHANGED vars
        PROVE  UNCHANGED call
    BY <2>5 DEF ReputationStep, vars, submit_kyc, review_kyc, complete_job_count,
                complete_job_score, fail_job_score
  <2> QED BY <2>1, <2>2, <2>3, <2>4, <2>5 DEF AccountStep
<1>3. \A id \in AccountIds : get_balance(id)' = get_balance(id)
  <2>1. CASE UNCHANGED credit
    BY <2>1 DEF get_balance
  <2>2. ASSUME NEW s \in Slots, register_account_credit(s), credit' # credit
        PROVE  \A id \in AccountIds : get_balance(id)' = get_balance(id)
    <3> DEFINE row == [available_nmc |-> 0]
               i == call[s].id
    <3>1. row # NULL
      <4>1. row \in CreditRow
        BY DEF CreditRow
      <4> QED BY <4>1, Rows
    <3>2. credit' = [credit EXCEPT ![i] = IF credit[i] = NULL THEN row ELSE credit[i]]
      BY <2>2 DEF register_account_credit, AccountInv, Shapes
    <3>3. row.available_nmc = 0
      OBVIOUS
    <3> HIDE DEF row, i
    <3> QED BY <3>1, <3>2, <3>3 DEF get_balance, AccountInv, Shapes
  <2>3. UNCHANGED credit \/ \E s \in Slots : register_account_credit(s)
    BY DEF AccountStep, ReputationStep, vars, accountVars, register_account_upsert,
           reregister_device_select, reregister_device_update, submit_kyc, review_kyc,
           stripe_credit_record, stripe_credit_error, complete_job_count, complete_job_score, fail_job_score
  <2> QED BY <2>1, <2>2, <2>3
<1> QED BY <1>1, <1>2, <1>3, QuietKeeps

-----------------------------------------------------------------------------
(* Every step keeps both *)

\* Every step of an account, a payment or a report keeps the invariant.
LEMMA NextKeepsAccounts == AccountInv /\ CreditInv /\ [Next]_vars => AccountInv' /\ CreditInv'
<1> SUFFICES ASSUME AccountInv, CreditInv, [Next]_vars PROVE AccountInv' /\ CreditInv'
  OBVIOUS
<1>1. CASE AccountStep
  <2>1. AccountInv'
    BY <1>1, RegisterKeeps, RegisterCreditKeeps, ReregisterSelectKeeps, ReregisterUpdateKeeps,
       KycKeeps DEF AccountStep
  <2> QED BY <1>1, <2>1, OtherKeepsCredit
<1>2. CASE ReputationStep \/ UNCHANGED vars
  <2>1. UNCHANGED <<secret, accounts, credit, kyc, call, session, errors>>
    BY <1>2 DEF ReputationStep, vars, accountVars, complete_job_count, complete_job_score,
                fail_job_score
  <2>2. AccountInv'
    BY <2>1 DEF AccountInv, Shapes, KeyOfId, UpdatesExisting, Step
  <2> QED BY <1>2, <2>2, OtherKeepsCredit
<1>3. ASSUME NEW s \in Slots, StripeStep(s) PROVE AccountInv' /\ CreditInv'
  <2>1. CASE stripe_credit_upsert(s)
    <3>1. AccountInv'
      BY <2>1, CreditKeeps DEF CreditInv
    <3> QED BY <2>1, <3>1, UpsertKeepsCredit
  <2>2. CASE stripe_credit_record(s) \/ stripe_credit_error(s)
    <3>1. AccountInv'
      BY <2>2, StripeEndKeeps
    <3> QED BY <2>2, <3>1, OtherKeepsCredit
  <2> QED BY <1>3, <2>1, <2>2 DEF StripeStep
<1>4. ASSUME NEW s \in Slots, NEW x \in Sessions, stripe_credit_check(s, x)
      PROVE  AccountInv' /\ CreditInv'
  <2>1. AccountInv'
    BY <1>4, DeliveryKeeps
  <2> QED BY <1>4, <2>1, DeliveryKeepsCredit
<1> QED BY <1>1, <1>2, <1>3, <1>4 DEF Next

\* So both hold in every reachable state.
LEMMA AccountsInvariant == Spec => [](AccountInv /\ CreditInv)
<1>1. Init => AccountInv /\ CreditInv
  BY AccountInit, CreditInit
<1> QED BY <1>1, NextKeepsAccounts, PTL DEF Spec

\* stripe_credit_upsert and the handlers that make the balance row: the
\* balance shown is what the sessions of the account brought, for any number
\* of accounts, sessions, deliveries and concurrent requests.
THEOREM BalanceIsPaid == Spec => []BalanceShown
<1>1. CreditInv => BalanceShown
  BY DEF CreditInv
<1> QED BY <1>1, AccountsInvariant, PTL

\* No webhook delivery credits a session twice, however requests interleave.
THEOREM CreditsAreDelivered == Spec => []CreditPerDelivery
<1>1. CreditInv => CreditPerDelivery
  BY DEF CreditInv
<1> QED BY <1>1, AccountsInvariant, PTL

\* Only reregister_device_update takes a device away, for a request with the
\* account's key, and it leaves the account to the device it was called for.
THEOREM DevicesStay == Spec => DeviceStays
<1> DEFINE Kept ==
      \A id \in AccountIds, k \in Keys, f \in Fingerprints :
        verify_device(id, k, f) /\ ~verify_device(id, k, f)' =>
          \E s \in Slots, g \in Fingerprints :
            /\ Step(s, "reregister_update")
            /\ call[s].id = id /\ call[s].key = k /\ call[s].fingerprint = g
            /\ verify_device(id, k, g)'
<1>1. AccountInv /\ [Next]_vars => Kept
  <2> SUFFICES ASSUME AccountInv, [Next]_vars, NEW id \in AccountIds, NEW k \in Keys,
                      NEW f \in Fingerprints, verify_device(id, k, f), ~verify_device(id, k, f)'
               PROVE  \E s \in Slots, g \in Fingerprints :
                        /\ Step(s, "reregister_update")
                        /\ call[s].id = id /\ call[s].key = k /\ call[s].fingerprint = g
                        /\ verify_device(id, k, g)'
    OBVIOUS
  <2>1. accounts[id] = [key |-> k, fingerprint |-> f] /\ accounts'[id] # accounts[id]
    BY DEF verify_device
  <2>2. accounts[id] # NULL /\ accounts[id].key = k
    <3>1. [key |-> k, fingerprint |-> f] \in Account
      BY DEF Account
    <3> QED BY <2>1, <3>1, Rows
  <2>3. ASSUME NEW s \in Slots, NEW j \in Keys, NEW g \in Fingerprints, register_account_upsert(s, j, g)
        PROVE  FALSE
    <3>1. KeyUnused(j) /\ accounts' = [accounts EXCEPT ![<<j, g>>] = [key |-> j, fingerprint |-> g]]
      BY <2>1, <2>3 DEF register_account_upsert, derive_account_id
    <3>2. id = <<j, g>>
      BY <2>1, <3>1 DEF AccountInv, Shapes
    <3>3. accounts[id].key = j
      BY <2>2, <3>2 DEF AccountInv, KeyOfId
    <3> QED BY <2>2, <3>1, <3>3 DEF KeyUnused
  <2>4. \E s \in Slots : reregister_device_update(s)
    <3>1. UNCHANGED accounts \/ \E s \in Slots : reregister_device_update(s)
      BY <2>3 DEF Next, AccountStep, StripeStep, ReputationStep, vars, accountVars,
             register_account_credit, reregister_device_select, submit_kyc, review_kyc,
             stripe_credit_check, stripe_credit_upsert, stripe_credit_record, stripe_credit_error,
             complete_job_count, complete_job_score, fail_job_score
    <3> QED BY <2>1, <3>1
  <2>5. PICK s \in Slots : reregister_device_update(s)
    BY <2>4
  <2>6. PICK g : g = call[s].fingerprint
    OBVIOUS
  <2>7. g \in Fingerprints /\ call[s].id \in AccountIds /\ Step(s, "reregister_update")
    BY <2>5, <2>6, CallFields DEF reregister_device_update, Step, AccountInv, Shapes
  <2>8. accounts' = [accounts EXCEPT ![call[s].id] = [key |-> accounts[call[s].id].key, fingerprint |-> g]]
    BY <2>5, <2>6 DEF reregister_device_update
  <2>9. call[s].id = id
    BY <2>1, <2>7, <2>8 DEF AccountInv, Shapes
  <2>10. verify_device(id, k, g)'
    BY <2>2, <2>8, <2>9 DEF verify_device, AccountInv, Shapes
  <2>11. call[s].key = k
    BY <2>2, <2>7, <2>9 DEF AccountInv, UpdatesExisting, KeyOfId
  <2> QED BY <2>7, <2>9, <2>10, <2>11, <2>6
<1>2. Spec => [](AccountInv /\ CreditInv)
  BY AccountsInvariant
<1> QED BY <1>1, <1>2, PTL DEF Spec, DeviceStays

-----------------------------------------------------------------------------
(* Reputation *)

\* A weighted mean of a rate and 0 or 1 is a rate; it is below 1 only when the
\* rate was or the new value is 0.
LEMMA MeanOfRate ==
  ASSUME NEW num \in Nat, NEW den \in Nat \ {0}, num <= den, NEW n \in Nat \ {0}, NEW x \in {0, 1}
  PROVE  /\ num * (n - 1) + x * den \in Nat /\ n * den \in Nat \ {0}
         /\ num * (n - 1) + x * den <= n * den
         /\ num * (n - 1) + x * den < n * den => num < den \/ x = 0
<1>1. n - 1 \in Nat /\ den - num \in Nat
  OBVIOUS
<1>2. num * (n - 1) \in Nat /\ den * (n - 1) \in Nat /\ (den - num) * (n - 1) \in Nat
  <2>1. \A a, b \in Nat : a * b \in Nat
    OBVIOUS
  <2> QED BY <1>1, <2>1
<1>3. (den - num) * (n - 1) = den * (n - 1) - num * (n - 1)
  BY <1>1
<1>4. n * den = den * (n - 1) + den
  BY <1>1
<1>5. x * den = IF x = 1 THEN den ELSE 0
  OBVIOUS
<1> DEFINE a == num * (n - 1)
           b == den * (n - 1)
<1>6. a \in Nat /\ b \in Nat /\ a <= b /\ n * den = b + den
  BY <1>2, <1>3, <1>4
<1>7. num = den => a = b
  OBVIOUS
<1> HIDE DEF a, b
<1>8. a + x * den \in Nat /\ a + x * den <= b + den
  BY <1>5, <1>6
<1>9. b + den \in Nat \ {0}
  BY <1>6
<1>10. a + x * den < b + den => num < den \/ x = 0
  <2> SUFFICES ASSUME num = den, x = 1 PROVE ~(a + x * den < b + den)
    BY <1>6
  <2> QED BY <1>5, <1>6, <1>7
<1> QED BY <1>6, <1>8, <1>9, <1>10 DEF a

ReputationInv == Reputation /\ RateInRange

\* The columns of a provider.
LEMMA ColumnTypes ==
  ASSUME NEW p \in Columns
  PROVE  /\ p.trust_score \in 0 .. 500 /\ p.jobs_completed \in Nat /\ p.counted \in Nat
         /\ p.reports \in 0 .. MaxReports
         /\ p.success_rate.num \in Nat /\ p.success_rate.den \in Nat \ {0}
  BY DEF Columns, Fraction

\* The score is kept within its range.
LEMMA ClampRange == \A n \in Int : Clamp(n) \in 0 .. 500
  BY DEF Clamp

\* What update_trust_score leaves of the counters and makes of the rate.
LEMMA ScoreUpdate ==
  ASSUME ReputationInv, NEW success \in BOOLEAN
  PROVE  LET q == update_trust_score(success)
             r == provider.success_rate IN
         /\ q \in Columns
         /\ q.jobs_completed = provider.jobs_completed /\ q.counted = provider.counted
         /\ q.reports = provider.reports
         /\ q.success_rate.num <= q.success_rate.den
         /\ q.success_rate.num < q.success_rate.den => r.num < r.den \/ ~success
<1> DEFINE n == provider.jobs_completed
           r == provider.success_rate
           x == IF success THEN 1 ELSE 0
           rate == IF n > 0 THEN Rate(r.num * (n - 1) + x * r.den, n * r.den) ELSE Rate(x, 1)
           score == Clamp(provider.trust_score + IF success THEN 5 ELSE -30)
<1>1. n \in Nat /\ r.num \in Nat /\ r.den \in Nat \ {0} /\ r.num <= r.den
  BY ColumnTypes DEF ReputationInv, Reputation, RateInRange
<1>2. x \in {0, 1} /\ (x = 0 <=> ~success)
  OBVIOUS
<1>3. /\ rate \in Fraction /\ rate.num <= rate.den
      /\ rate.num < rate.den => r.num < r.den \/ x = 0
  <2>1. CASE n > 0
    <3> DEFINE a == r.num * (n - 1) + x * r.den
               b == n * r.den
    <3>1. n \in Nat \ {0}
      BY <1>1, <2>1
    <3> HIDE DEF n, r, x
    <3>2. a \in Nat /\ b \in Nat \ {0} /\ a <= b /\ (a < b => r.num < r.den \/ x = 0)
      BY <1>1, <1>2, <3>1, MeanOfRate
    <3>3. rate = Rate(a, b)
      BY <2>1
    <3> HIDE DEF a, b, rate
    <3> QED BY <3>2, <3>3 DEF Rate, Fraction
  <2>2. CASE ~(n > 0)
    <3>1. rate = Rate(x, 1)
      BY <2>2
    <3> HIDE DEF rate, n, r, x
    <3>2. x \in Nat /\ x <= 1 /\ (x < 1 => x = 0)
      BY <1>2
    <3> QED BY <3>1, <3>2 DEF Rate, Fraction
  <2> QED BY <2>1, <2>2
<1>4. score \in 0 .. 500
  <2>1. provider.trust_score \in Int
    BY ColumnTypes DEF ReputationInv, Reputation
  <2>2. provider.trust_score + (IF success THEN 5 ELSE -30) \in Int
    BY <2>1
  <2> QED BY <2>2, ClampRange
<1>5. update_trust_score(success) = [provider EXCEPT !.trust_score = score, !.success_rate = rate]
  BY DEF update_trust_score
<1>6. provider \in Columns
  BY DEF ReputationInv, Reputation
<1>7. rate \in Fraction /\ rate.num <= rate.den /\ (rate.num < rate.den => r.num < r.den \/ ~success)
  BY <1>2, <1>3 DEF Fraction
<1> HIDE DEF score, rate, x
<1>8. PICK q : q = [provider EXCEPT !.trust_score = score, !.success_rate = rate]
  OBVIOUS
<1>9. /\ q \in Columns /\ q.success_rate = rate /\ q.counted = provider.counted
      /\ q.jobs_completed = provider.jobs_completed /\ q.reports = provider.reports
  <2>1. rate \in Fraction
    BY <1>7
  <2>2. PICK r1 \in Fraction : r1 = rate
    BY <2>1
  <2>3. PICK t \in 0 .. 500 : t = score
    BY <1>4
  <2>4. PICK p \in Columns : p = provider
    BY <1>6
  <2>5. q = [p EXCEPT !.trust_score = t, !.success_rate = r1]
    BY <1>8, <2>2, <2>3, <2>4
  <2>6. /\ q \in Columns /\ q.success_rate = r1 /\ q.counted = p.counted
        /\ q.jobs_completed = p.jobs_completed /\ q.reports = p.reports
    BY <2>5 DEF Columns
  <2> QED BY <2>2, <2>4, <2>6
<1> QED BY <1>5, <1>7, <1>8, <1>9

\* A new provider has the rate 1.
LEMMA ReputationInit == Init => ReputationInv
<1> SUFFICES ASSUME Init PROVE ReputationInv
  OBVIOUS
<1>1. 0 \in 0 .. MaxReports /\ 300 \in 0 .. 500
  BY AccountsAssumption
<1> QED BY <1>1 DEF Init, ReputationInv, Reputation, RateInRange, Rate, Columns, Fraction

\* Counts and scores keep the invariant in any order.
LEMMA ReputationKept == ReputationInv /\ [Next]_vars => ReputationInv'
<1> SUFFICES ASSUME ReputationInv, [Next]_vars PROVE ReputationInv'
  OBVIOUS
<1>1. /\ provider \in Columns /\ provider.counted <= provider.jobs_completed
      /\ provider.jobs_completed <= provider.reports
      /\ provider.counted \in Nat /\ provider.jobs_completed \in Nat /\ provider.reports \in 0 .. MaxReports
  BY ColumnTypes DEF ReputationInv, Reputation
<1>2. CASE complete_job_count
  <2>1. /\ provider.reports + 1 \in 0 .. MaxReports /\ provider.jobs_completed + 1 \in Nat
        /\ provider.counted + 1 \in Nat
    BY <1>1, <1>2, AccountsAssumption DEF complete_job_count
  <2>2. /\ provider' \in Columns /\ provider'.reports = provider.reports + 1
        /\ provider'.jobs_completed = provider.jobs_completed + 1
        /\ provider'.counted = provider.counted + 1 /\ provider'.success_rate = provider.success_rate
    <3>1. provider' = [provider EXCEPT !.jobs_completed = provider.jobs_completed + 1,
                                      !.counted = provider.counted + 1, !.reports = provider.reports + 1]
      BY <1>2 DEF complete_job_count
    <3> QED BY <1>1, <2>1, <3>1 DEF Columns
  <2>3. Reputation'
    BY <1>1, <2>2 DEF Reputation
  <2>4. RateInRange'
    BY <1>1, <2>2 DEF RateInRange, ReputationInv
  <2> QED BY <2>3, <2>4 DEF ReputationInv
<1>3. CASE complete_job_score
  <2> DEFINE q == update_trust_score(TRUE)
  <2>1. /\ q \in Columns
        /\ q.jobs_completed = provider.jobs_completed /\ q.counted = provider.counted
        /\ q.reports = provider.reports /\ q.success_rate.num <= q.success_rate.den
        /\ q.success_rate.num < q.success_rate.den
             => provider.success_rate.num < provider.success_rate.den
    BY ScoreUpdate, TRUE \in BOOLEAN
  <2>2. provider' = [q EXCEPT !.counted = @ - 1] /\ provider.counted > 0
    BY <1>3 DEF complete_job_score
  <2> HIDE DEF q
  <2>3. provider.counted - 1 \in Nat
    BY <1>1, <2>2
  <2>4. /\ provider' \in Columns /\ provider'.reports = provider.reports
        /\ provider'.jobs_completed = provider.jobs_completed
        /\ provider'.counted = provider.counted - 1 /\ provider'.success_rate = q.success_rate
    BY <2>1, <2>2, <2>3 DEF Columns
  <2>5. Reputation'
    BY <1>1, <2>4 DEF Reputation
  <2>6. RateInRange'
    <3>1. q.success_rate.num \in Nat
      BY <2>1, ColumnTypes
    <3> QED BY <2>1, <2>4, <3>1 DEF RateInRange, ReputationInv
  <2> QED BY <2>5, <2>6 DEF ReputationInv
<1>4. CASE fail_job_score
  <2> DEFINE q == update_trust_score(FALSE)
  <2>1. /\ q \in Columns
        /\ q.jobs_completed = provider.jobs_completed /\ q.counted = provider.counted
        /\ q.reports = provider.reports /\ q.success_rate.num <= q.success_rate.den
    BY ScoreUpdate
  <2>2. provider' = [q EXCEPT !.reports = @ + 1] /\ provider.reports < MaxReports
    BY <1>4 DEF fail_job_score
  <2> HIDE DEF q
  <2>3. provider.reports + 1 \in 0 .. MaxReports
    BY <1>1, <2>2, AccountsAssumption
  <2>4. /\ provider' \in Columns /\ provider'.reports = provider.reports + 1
        /\ provider'.jobs_completed = provider.jobs_completed
        /\ provider'.counted = provider.counted /\ provider'.success_rate = q.success_rate
    BY <2>1, <2>2, <2>3 DEF Columns
  <2>5. Reputation'
    BY <1>1, <2>4 DEF Reputation
  <2>6. RateInRange'
    <3>1. q.success_rate.num \in Nat
      BY <2>1, ColumnTypes
    <3> QED BY <1>1, <2>1, <2>4, <3>1 DEF RateInRange
  <2> QED BY <2>5, <2>6 DEF ReputationInv
<1>5. CASE UNCHANGED provider
  BY <1>5 DEF ReputationInv, Reputation, RateInRange
<1>6. complete_job_count \/ complete_job_score \/ fail_job_score \/ UNCHANGED provider
  BY DEF Next, AccountStep, StripeStep, ReputationStep, vars,
         register_account_upsert, register_account_credit, reregister_device_select,
         reregister_device_update, submit_kyc, review_kyc,
         stripe_credit_check, stripe_credit_upsert, stripe_credit_record, stripe_credit_error
<1> QED BY <1>2, <1>3, <1>4, <1>5, <1>6

\* So it holds in every reachable state.
LEMMA ReputationInvariant == Spec => []ReputationInv
<1> QED BY ReputationInit, ReputationKept, PTL DEF Spec

\* update_trust_score reads the counter that concurrent complete_job calls
\* raise: the success rate is a rate all the same, and 1 without a failed job.
THEOREM RateIsARate == Spec => []RateInRange
<1>1. ReputationInv => RateInRange
  BY DEF ReputationInv
<1> QED BY <1>1, ReputationInvariant, PTL

\* The tables of users, credits, identities, requests and reputation have the
\* types their columns declare.
THEOREM AccountsTypeCorrect == Spec => []TypeOK
<1>1. AccountInv /\ ReputationInv => TypeOK
  <2> SUFFICES ASSUME AccountInv, ReputationInv PROVE TypeOK
    OBVIOUS
  <2>1. /\ provider.jobs_completed \in 0 .. MaxReports /\ provider.trust_score \in 0 .. 500
    <3>1. /\ provider.jobs_completed \in Nat /\ provider.reports \in 0 .. MaxReports
          /\ provider.jobs_completed <= provider.reports /\ provider.trust_score \in 0 .. 500
      BY ColumnTypes DEF ReputationInv, Reputation
    <3> QED BY <3>1, AccountsAssumption
  <2>2. \A id \in AccountIds :
          /\ accounts[id] \in {NULL} \cup Account
          /\ credit[id] = NULL \/ credit[id].available_nmc \in Nat
          /\ kyc[id] \in {NULL} \cup KycRow
    BY DEF AccountInv, Shapes, CreditRow
  <2>3. \A s \in Slots : call[s].pc \in {"idle", "register_credit", "reregister_update",
                                          "stripe_credit", "stripe_record"}
    BY CallFields DEF AccountInv, Shapes
  <2> QED BY <2>1, <2>2, <2>3 DEF TypeOK, AccountInv, Shapes, Account, KycRow, Session
<1> QED BY <1>1, AccountsInvariant, ReputationInvariant, PTL
=============================================================================
