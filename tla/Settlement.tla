---------------------------- MODULE Settlement ----------------------------
(***************************************************************************)
(* On-chain settlement: tasks the coordinator spawns when a job ends, the  *)
(* ledger service's oracle that turns each into one signed transaction,    *)
(* the node that takes transactions and mines them, and the escrow         *)
(* contract with its other users.  Nothing is retried and the tasks share  *)
(* no lock: several may be between two RPC calls at once.                  *)
(***************************************************************************)
EXTENDS EscrowContract, TxEncoding

CONSTANTS
  Tasks,         \* spawned settlements; each is used once
  Halves,        \* gross cost of a job, in half NMC
  Oracle,        \* the wallet of NM_ORACLE_PK
  Deployments,   \* the environments the two services are started in
  FirstNonce,    \* transactions the oracle sent before
  MaxNonce,      \* bound: the last nonce it asks for
  StrictNode     \* the node insists on a list for the access list

ASSUME SettlementAssumption ==
  /\ Oracle \in Oracles
  /\ Halves \subseteq Nat
  /\ FirstNonce \in Nat /\ MaxNonce \in Nat /\ FirstNonce <= MaxNonce
  /\ \A h \in Halves : nmc_to_wei_u128(h) \in Costs \cap Numbers
  /\ MaxNonce \in Numbers
  /\ JobIds \subseteq DOMAIN JobName

VARIABLES
  env,       \* the environment variables of coordinator and ledger
  task,      \* the tasks
  pool,      \* the node's pending transactions of the oracle
  mined,     \* eth_getTransactionCount(oracle, "latest")
  receipts   \* outcomes of mined transactions

oracleVars == <<task, pool, mined, receipts>>
settlementVars == <<vars, env, oracleVars>>

\* A call of the contract by the oracle.
Calls == [call : {"release"}, job : JobIds, wei : {nmc_to_wei_u128(h) : h \in Halves}]
           \cup [call : {"cancel"}, job : JobIds, wei : {0}]

Nonces == FirstNonce .. MaxNonce
Tx == [nonce : Nonces, c : Calls]

\* Where a task can be: forwarded to the ledger; before eth_getTransactionCount;
\* before eth_sendRawTransaction; polling for the receipt; and how it can end:
\* with a transaction hash, without one, with an error.
Stages == {"idle", "request", "nonce", "send", "wait", "ok", "none", "failed"}

\* What a node makes of the bytes of each transaction the oracle can send:
\* whether it can read them, whether the access list is a list, and what they
\* say.
Reading(nonce, c, sig, it) ==
  [nonce |-> nonce, c |-> c, sig |-> sig, readable |-> Readable(it),
   list |-> it[9].kind = "list", says |-> ReadTx(it)]
Readings ==
  {Reading(nonce, c, sig, TxItems(sign_and_encode(Eip1559Tx(nonce, c), sig)))
     : nonce \in Nonces, c \in Calls, sig \in Signatures}
ReadingsOf(tx) == {r \in Readings : r.nonce = tx.nonce /\ r.c = tx.c}

NoCall == [call |-> "none", job |-> NoOne, wei |-> 0]

SettlementTypeOK ==
  /\ TypeOK
  /\ env \in Deployments
  /\ task \in [Tasks -> [pc : Stages, c : Calls \cup {NoCall}, nonce : Nonces]]
  /\ pool \subseteq Tx
  /\ mined \in Nat
  /\ receipts \subseteq [tx : Tx, status : BOOLEAN]

SettlementInit ==
  /\ Init
  /\ env \in Deployments
  /\ task = [t \in Tasks |-> [pc |-> "idle", c |-> NoCall, nonce |-> FirstNonce]]
  /\ pool = {}
  /\ mined = FirstNonce
  /\ receipts = {}

-----------------------------------------------------------------------------
(* The two services' configuration *)

\* SettlementOracle::from_env of the coordinator.
coordinator_enabled == env.ledger_url /\ env.coordinator_secret # ""

\* ArbitrumOracle::from_env of the ledger.
ledger_enabled == env.escrow_address /\ env.oracle_pk

\* An unset INTERNAL_SECRET matches nothing.
verify_secret(provided) == env.ledger_secret # "" /\ provided = env.ledger_secret

-----------------------------------------------------------------------------
(* The tasks *)

Goto(t, pc) == task' = [task EXCEPT ![t] = [@ EXCEPT !.pc = pc]]

Spawned(t, c) ==
  /\ coordinator_enabled
  /\ task[t].pc = "idle"
  /\ task' = [task EXCEPT ![t] = [pc |-> "request", c |-> c, nonce |-> FirstNonce]]
  /\ UNCHANGED <<vars, env, pool, mined, receipts>>

\* Mutant: the amount is handed on without the conversion to wei.
complete_job_settle_nmc(t, j, h) ==
  Spawned(t, [call |-> "release", job |-> j, wei |-> h])

\* complete_job, at the end of a job, with the gross price of its runtime.
complete_job_settle(t, j, h) ==
  Spawned(t, [call |-> "release", job |-> j, wei |-> nmc_to_wei_u128(h)])

\* report_completion of the gRPC service, with calculate_credits.
report_completion_settle(t, j, h) ==
  Spawned(t, [call |-> "release", job |-> j, wei |-> nmc_to_wei_u128(h)])

\* fail_job.
fail_job_settle(t, j) == Spawned(t, [call |-> "cancel", job |-> j, wei |-> 0])

\* The ledger's handlers, as far as the oracle's first RPC call.
Forward(t, call) ==
  /\ task[t].pc = "request" /\ task[t].c.call = call
  /\ Goto(t, IF ~verify_secret(env.coordinator_secret) THEN "failed"
             ELSE IF ~ledger_enabled THEN "none"
             ELSE IF WeiFits(task[t].c.wei) THEN "nonce" ELSE "failed")
  /\ UNCHANGED <<vars, env, pool, mined, receipts>>

on_chain_release(t) == Forward(t, "release")
on_chain_cancel(t)  == Forward(t, "cancel")

\* The HTTP request, an RPC request or its answer is lost.
task_error(t) ==
  /\ task[t].pc \in {"request", "nonce", "send", "wait"}
  /\ Goto(t, "failed")
  /\ UNCHANGED <<vars, env, pool, mined, receipts>>

\* Mutant: the nonce is asked for with "pending", which counts the pool.
get_nonce_pending(t) ==
  /\ task[t].pc = "nonce" /\ mined \in Nonces
  /\ task' = [task EXCEPT ![t] = [pc |-> "send", c |-> task[t].c, nonce |-> mined + Cardinality(pool)]]
  /\ UNCHANGED <<vars, env, pool, mined, receipts>>

\* get_nonce, and gas price and chain id after it.
get_nonce(t) ==
  /\ task[t].pc = "nonce" /\ mined \in Nonces
  /\ task' = [task EXCEPT ![t] = [pc |-> "send", c |-> task[t].c, nonce |-> mined]]
  /\ UNCHANGED <<vars, env, pool, mined, receipts>>

TxOf(t) == [nonce |-> task[t].nonce, c |-> task[t].c]

\* The node refuses a used nonce, as the priority fee is always the same a
\* second transaction with a pending nonce, and bytes it cannot read.
Accepts(tx, reading) ==
  /\ tx.nonce >= mined
  /\ \A other \in pool : other.nonce # tx.nonce
  /\ reading.readable /\ (StrictNode => reading.list)

\* Which signature comes out is not in the oracle's hands.  The answer to an
\* accepted transaction may get lost.
send_raw_tx(t) ==
  /\ task[t].pc = "send"
  /\ \E reading \in ReadingsOf(TxOf(t)) :
       IF Accepts(TxOf(t), reading)
       THEN /\ pool' = pool \cup {TxOf(t)}
            /\ Goto(t, "wait") \/ Goto(t, "failed")
       ELSE Goto(t, "failed") /\ UNCHANGED pool
  /\ UNCHANGED <<vars, env, mined, receipts>>

\* wait_for_receipt finds the receipt; it gives up by task_error.
wait_for_receipt(t) ==
  /\ task[t].pc = "wait"
  /\ \E r \in receipts : r.tx = TxOf(t) /\ Goto(t, IF r.status THEN "ok" ELSE "failed")
  /\ UNCHANGED <<vars, env, pool, mined, receipts>>

-----------------------------------------------------------------------------
(* The node *)

\* What the node reads in a transaction; the signature has no part in it.
Said(tx) == (CHOOSE r \in ReadingsOf(tx) : TRUE).says

\* The contract call a transaction says; if it reverts nothing changes.
Execute(c) ==
  /\ c \in Calls
  /\ IF c.call = "release" THEN releaseEscrow(c.job, Oracle, c.wei) ELSE cancelEscrow(c.job, Oracle)

\* The call's preconditions hold (that the contract has the tokens is Solvent).
Succeeds(c) ==
  /\ c \in Calls
  /\ IF c.call = "release"
     THEN /\ jobs[c.job].state = "Locked" /\ c.wei <= jobs[c.job].lockedNmc
          /\ Fee(c.wei) > 0 => feeCollector # NoOne
     ELSE MayCancel(c.job, Oracle)

Mine(tx) ==
  /\ tx \in pool /\ tx.nonce = mined
  /\ \/ Execute(Said(tx).c) /\ receipts' = receipts \cup {[tx |-> tx, status |-> TRUE]}
     \/ ~Succeeds(Said(tx).c) /\ UNCHANGED vars /\ receipts' = receipts \cup {[tx |-> tx, status |-> FALSE]}
  /\ pool' = pool \ {tx}
  /\ mined' = mined + 1
  /\ UNCHANGED <<env, task>>

\* The node forgets a pending transaction.
Drop(tx) ==
  /\ tx \in pool
  /\ pool' = pool \ {tx}
  /\ UNCHANGED <<vars, env, task, mined, receipts>>

-----------------------------------------------------------------------------
\* The contract's other users, its admin and time.
OthersStep ==
  /\ \/ \E j \in JobIds, w \in Wallets \ Oracles :
          \/ \E p \in Wallets, a \in Amounts, d \in Durations : createEscrow(j, w, p, a, d)
          \/ lockEscrow(j, w)
          \/ cancelEscrow(j, w)
     \/ AdminStep \/ EnvironmentStep
  /\ UNCHANGED <<env, oracleVars>>

TaskStep ==
  \E t \in Tasks :
    \/ \E j \in JobIds, h \in Halves : complete_job_settle(t, j, h) \/ report_completion_settle(t, j, h)
    \/ \E j \in JobIds : fail_job_settle(t, j)
    \/ on_chain_release(t) \/ on_chain_cancel(t)
    \/ get_nonce(t) \/ send_raw_tx(t) \/ wait_for_receipt(t)
    \/ task_error(t)

NodeStep == \E tx \in pool : Mine(tx) \/ Drop(tx)

SettlementNext == OthersStep \/ TaskStep \/ NodeStep

SettlementSpec == SettlementInit /\ [][SettlementNext]_settlementVars

-----------------------------------------------------------------------------
(* Properties *)

\* When the coordinator logs that an escrow was released or cancelled on
\* chain, the contract has done exactly that for that job, with that cost,
\* whatever happened to other tasks, nonces and messages in the meantime.
TrueReport ==
  \A t \in Tasks : task[t].pc = "ok" =>
    LET job == jobs[task[t].c.job] IN
    IF task[t].c.call = "release"
    THEN job.state = "Settled" /\ job.actualCost = task[t].c.wei
    ELSE job.state = "Cancelled"

\* The bytes the oracle sends say what it meant: nonce, address, function,
\* job and amount, for every transaction it has pending; and the node can read
\* what it tries to send, unless a half of the signature starts with a zero
\* byte, which rlp_append_bytes keeps.
SentAsMeant ==
  /\ \A tx \in pool : \A r \in ReadingsOf(tx) :
       r.says = [nonce |-> tx.nonce, to |-> EscrowAddress, c |-> tx.c]
  /\ \A t \in Tasks : task[t].pc = "send" =>
       \A r \in ReadingsOf(TxOf(t)) : r.readable <=> (r.sig.r[1] # 0 /\ r.sig.s[1] # 0)

\* A nonce is asked for with "latest": the oracle never has two transactions
\* pending, and never one whose nonce is used up, so a settlement that
\* overlaps another one is refused instead of replacing it.
OnePending == \A tx \in pool : tx.nonce = mined /\ \A other \in pool : other = tx

\* The access list of a pending transaction is an empty list
\* ("empty list = 0xC0").
AccessListIsList ==
  \A t \in Tasks : task[t].pc = "send" => \A r \in ReadingsOf(TxOf(t)) : r.list
=============================================================================
