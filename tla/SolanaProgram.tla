--------------------------- MODULE SolanaProgram ---------------------------
(***************************************************************************)
(* The Anchor program contracts/solana/programs/neuralmesh: configuration, *)
(* bridge, provider records and job escrows, with the SPL token accounts   *)
(* they move NMC between.  An instruction is one atomic step; one that     *)
(* fails (a require!, an account constraint, a failing CPI, a checked_*    *)
(* that panics) changes nothing and is not a step.  The token accounts of  *)
(* the NMC mint: one of each wallet, named after it, the vault of each     *)
(* escrow, and a spare one whose authority is the escrow as well, which    *)
(* anybody can open.  The contexts of release_escrow and cancel_escrow tie *)
(* neither the account the money leaves nor those it goes to, so they are  *)
(* parameters: the token program asks only that the source is one of the   *)
(* escrow's.  (An escrow's account of another mint moves no NMC either: it *)
(* acts like the spare one.)  Timestamps and the deadline                  *)
(* are written and never read: they are left out.  No instruction creates  *)
(* the BridgeNonce account that bridge_mint needs: the model starts with   *)
(* it in place, put there by a deployment step outside the repository.     *)
(***************************************************************************)
EXTENDS Integers

CONSTANTS
  JobIds,
  Wallets,       \* signers, and the owners of the token accounts
  Providers,     \* wallets that register; records and escrows do not meet
  NoOne,         \* Pubkey::default()
  Collectors,    \* token accounts an authority names as fee_collector
  Amounts,       \* amounts callers put in their instructions
  Costs,         \* actual_cost reported by the authority
  Fees,          \* platform_fee_bps an authority asks for
  Limits,        \* bridge_mint_limit an authority asks for
  MaxNonce,      \* bound: nonces the bridge oracle sends
  MAX_U64        \* the width of checked arithmetic

Vault(j) == <<"vault", j>>
Spare(j) == <<"spare", j>>
Accounts == Wallets \cup {Vault(j) : j \in JobIds} \cup {Spare(j) : j \in JobIds}

ASSUME SolanaAssumption ==
  /\ NoOne \notin Accounts
  /\ \A j \in JobIds : Vault(j) \notin Wallets /\ Spare(j) \notin Wallets
  /\ Collectors \subseteq Accounts
  /\ Amounts \subseteq Nat /\ Costs \subseteq Nat /\ Fees \subseteq Nat /\ Limits \subseteq Nat
  /\ MaxNonce \in Nat /\ MAX_U64 \in Nat

MAX_FEE_BPS == 1000
Nonces == 0 .. MaxNonce

VARIABLES
  config,            \* the ProgramConfig PDA
  next_nonce,        \* BridgeNonce of the authority
  provider_record,   \* provider -> state of its ProviderRecord PDA
  nfts,              \* provider -> provider NFTs minted to it
  escrow,            \* job -> JobEscrow PDA
  balance,           \* token account -> its balance
  supply,            \* supply of the NMC mint
  minted,            \* history: nonce -> number of mints made under it
  paid_in, paid_out, \* history: NMC the program moved into and out of a vault
  strayed            \* history: jobs ended from another account, or into their own vault

tokens  == <<balance, supply>>
history == <<minted, paid_in, paid_out, strayed>>
vars    == <<config, next_nonce, provider_record, nfts, escrow, tokens, history>>

ProgramConfig ==
  [authority : Wallets \cup {NoOne}, platform_fee_bps : 0 .. MAX_FEE_BPS,
   fee_collector : Accounts \cup {NoOne}, bridge_mint_limit : Nat,
   total_minted : 0 .. MAX_U64, total_burned : 0 .. MAX_U64]

\* No record yet; registered; revoked.
ProviderRecord == {"none", "active", "revoked"}

\* "None" is the PDA that has not been initialised.
EscrowState == {"None", "Open", "Locked", "Settled", "Cancelled"}

JobEscrow ==
  [state : EscrowState, consumer : Wallets \cup {NoOne}, provider : Wallets \cup {NoOne},
   locked_nmc : Nat, actual_cost : Nat, fee_collected : Nat]

NoEscrow == [state |-> "None", consumer |-> NoOne, provider |-> NoOne,
             locked_nmc |-> 0, actual_cost |-> 0, fee_collected |-> 0]

BridgeNonce == 0 .. (MaxNonce + 1)

TypeOK ==
  /\ config \in ProgramConfig
  /\ next_nonce \in BridgeNonce
  /\ provider_record \in [Providers -> ProviderRecord]
  /\ nfts \in [Providers -> Nat]
  /\ escrow \in [JobIds -> JobEscrow]
  /\ balance \in [Accounts -> Nat]
  /\ supply \in Int
  /\ minted \in [Nonces -> Nat]
  /\ paid_in \in [JobIds -> Nat]
  /\ paid_out \in [JobIds -> Nat]
  /\ strayed \subseteq JobIds

Init ==
  /\ config = [authority |-> NoOne, platform_fee_bps |-> 0, fee_collector |-> NoOne,
               bridge_mint_limit |-> 0, total_minted |-> 0, total_burned |-> 0]
  /\ next_nonce = 0
  /\ provider_record = [p \in Providers |-> "none"]
  /\ nfts = [p \in Providers |-> 0]
  /\ escrow = [j \in JobIds |-> NoEscrow]
  /\ balance = [a \in Accounts |-> 0]
  /\ supply = 0
  /\ minted = [n \in Nonces |-> 0]
  /\ paid_in = [j \in JobIds |-> 0]
  /\ paid_out = [j \in JobIds |-> 0]
  /\ strayed = {}

Live(j) == escrow[j].state \in {"Open", "Locked"}

\* The NMC token accounts there are: a vault comes with its escrow.
TokenAccount == Accounts \ {Vault(j) : j \in {i \in JobIds : escrow[i].state = "None"}}

\* What the token program asks of a transfer that the escrow of j signs.
HeldBy(j) == {Vault(j), Spare(j)} \cap TokenAccount

\* The token program's transfer: nothing happens between an account and itself.
Moved(b, from, to, amount) ==
  IF from = to THEN b ELSE [b EXCEPT ![from] = @ - amount, ![to] = @ + amount]

\* What a transfer takes out of the vault of j.
Left(j, from, to, amount) == IF from = Vault(j) /\ to # Vault(j) THEN amount ELSE 0

-----------------------------------------------------------------------------
(* The account contexts: what Anchor checks before an instruction runs. *)

\* `init`: the config PDA must not exist yet.
Initialize == config.authority = NoOne

\* Every other context needs the config account.
Configured == config.authority # NoOne

\* has_one = authority, which has to sign.
BridgeMint(signer) == Configured /\ signer = config.authority

\* token::authority = user: a user burns from an account of its own.
BridgeBurn(user) == Configured /\ user \in Wallets

\* `init`: one record per provider wallet, for ever.  The NFT mint is a new
\* one, so its supply becomes 1 and the metadata program accepts it.
RegisterProvider(provider) == Configured /\ provider_record[provider] = "none"

RevokeProvider(p, signer) ==
  Configured /\ provider_record[p] # "none" /\ signer = config.authority

\* `init` of the escrow and of the vault: one per job id, for ever.
CreateEscrow(j, consumer) == Configured /\ escrow[j].state = "None" /\ consumer \in Wallets

\* has_one = provider, which has to sign.
LockEscrow(j, provider) == escrow[j].state # "None" /\ provider = escrow[j].provider

ReleaseEscrow(j, signer) ==
  Configured /\ escrow[j].state # "None" /\ signer = config.authority

\* Any signer.
CancelEscrow(j) == Configured /\ escrow[j].state # "None"

UpdateConfig(signer) == Configured /\ signer = config.authority

-----------------------------------------------------------------------------
(* The instructions *)

initialize(signer, collector, fee_bps, limit) ==
  /\ Initialize
  /\ fee_bps <= MAX_FEE_BPS
  /\ config' = [authority |-> signer, platform_fee_bps |-> fee_bps, fee_collector |-> collector,
                bridge_mint_limit |-> limit, total_minted |-> 0, total_burned |-> 0]
  /\ UNCHANGED <<next_nonce, provider_record, nfts, escrow, tokens, history>>

\* Mutant: the nonce is compared but not advanced.
bridge_mint_stuck(signer, recipient, amount, nonce) ==
  /\ BridgeMint(signer)
  /\ amount <= config.bridge_mint_limit
  /\ nonce = next_nonce
  /\ supply + amount <= MAX_U64
  /\ config.total_minted + amount <= MAX_U64
  /\ balance' = [balance EXCEPT ![recipient] = @ + amount]
  /\ supply' = supply + amount
  /\ config' = [config EXCEPT !.total_minted = @ + amount]
  /\ minted' = [minted EXCEPT ![nonce] = @ + 1]
  /\ UNCHANGED <<next_nonce, provider_record, nfts, escrow, paid_in, paid_out, strayed>>

bridge_mint(signer, recipient, amount, nonce) ==
  /\ BridgeMint(signer)
  /\ amount <= config.bridge_mint_limit
  /\ nonce = next_nonce
  /\ next_nonce' = nonce + 1
  /\ supply + amount <= MAX_U64
  /\ config.total_minted + amount <= MAX_U64
  /\ balance' = [balance EXCEPT ![recipient] = @ + amount]
  /\ supply' = supply + amount
  /\ config' = [config EXCEPT !.total_minted = @ + amount]
  /\ minted' = [minted EXCEPT ![nonce] = @ + 1]
  /\ UNCHANGED <<provider_record, nfts, escrow, paid_in, paid_out, strayed>>

\* Mutant: total_burned is updated although the burn moved nothing.
bridge_burn_uncovered(user, amount) ==
  /\ BridgeBurn(user)
  /\ config.total_burned + amount <= MAX_U64
  /\ config' = [config EXCEPT !.total_burned = @ + amount]
  /\ UNCHANGED <<next_nonce, provider_record, nfts, escrow, tokens, history>>

bridge_burn(user, amount) ==
  /\ BridgeBurn(user)
  /\ balance[user] >= amount
  /\ config.total_burned + amount <= MAX_U64
  /\ balance' = [balance EXCEPT ![user] = @ - amount]
  /\ supply' = supply - amount
  /\ config' = [config EXCEPT !.total_burned = @ + amount]
  /\ UNCHANGED <<next_nonce, provider_record, nfts, escrow, history>>

\* Mutant: `init_if_needed` instead of `init`.
register_provider_again(provider) ==
  /\ Configured
  /\ provider_record[provider] # "revoked"
  /\ provider_record' = [provider_record EXCEPT ![provider] = "active"]
  /\ nfts' = [nfts EXCEPT ![provider] = @ + 1]
  /\ UNCHANGED <<config, next_nonce, escrow, tokens, history>>

\* The record, one NFT, its metadata and master edition, and the freeze.
register_provider(provider) ==
  /\ RegisterProvider(provider)
  /\ provider_record[provider] # "revoked"
  /\ provider_record' = [provider_record EXCEPT ![provider] = "active"]
  /\ nfts' = [nfts EXCEPT ![provider] = @ + 1]
  /\ UNCHANGED <<config, next_nonce, escrow, tokens, history>>

revoke_provider(p, signer) ==
  /\ RevokeProvider(p, signer)
  /\ provider_record' = [provider_record EXCEPT ![p] = "revoked"]
  /\ UNCHANGED <<config, next_nonce, nfts, escrow, tokens, history>>

\* The provider is any wallet, registered or not.
create_escrow(j, consumer, provider, amount) ==
  /\ CreateEscrow(j, consumer)
  /\ balance[consumer] >= amount
  /\ escrow' = [escrow EXCEPT ![j] = [state |-> "Open", consumer |-> consumer,
                  provider |-> provider, locked_nmc |-> amount, actual_cost |-> 0,
                  fee_collected |-> 0]]
  /\ balance' = Moved(balance, consumer, Vault(j), amount)
  /\ paid_in' = [paid_in EXCEPT ![j] = @ + amount]
  /\ UNCHANGED <<config, next_nonce, provider_record, nfts, supply, minted, paid_out, strayed>>

lock_escrow(j, provider) ==
  /\ LockEscrow(j, provider)
  /\ escrow[j].state = "Open"
  /\ escrow' = [escrow EXCEPT ![j] = [@ EXCEPT !.state = "Locked"]]
  /\ UNCHANGED <<config, next_nonce, provider_record, nfts, tokens, history>>

\* The fee, and the overflow check on the product it is computed from.
Fee(cost) == (cost * config.platform_fee_bps) \div 10000

\* The money leaves another account of the escrow than its vault, or returns
\* to the vault: the account contexts accept both.
Stray(j, source, destinations) == source # Vault(j) \/ Vault(j) \in destinations

\* The three transfers, each of which may fail, and the state after them.
release_escrow(j, signer, cost, source, provider_account, consumer_account) ==
  LET esc       == escrow[j]
      collector == config.fee_collector
      fee       == Fee(cost)
      refund    == esc.locked_nmc - cost
      b1        == Moved(balance, source, provider_account, cost - fee)
      b2        == Moved(b1, source, collector, fee) IN
  /\ ReleaseEscrow(j, signer)
  /\ collector \in TokenAccount
  /\ esc.state = "Locked"
  /\ cost <= esc.locked_nmc
  /\ cost * config.platform_fee_bps <= MAX_U64
  /\ balance[source] >= cost - fee /\ b1[source] >= fee /\ b2[source] >= refund
  /\ balance' = Moved(b2, source, consumer_account, refund)
  /\ paid_out' = [paid_out EXCEPT ![j] =
       @ + Left(j, source, provider_account, cost - fee) + Left(j, source, collector, fee)
         + Left(j, source, consumer_account, refund)]
  /\ strayed' = IF Stray(j, source, {provider_account, consumer_account, collector})
                THEN strayed \cup {j} ELSE strayed
  /\ escrow' = [escrow EXCEPT ![j] = [@ EXCEPT !.state = "Settled", !.actual_cost = cost,
                                               !.fee_collected = fee]]
  /\ UNCHANGED <<config, next_nonce, provider_record, nfts, supply, minted, paid_in>>

\* The refund of cancel_escrow.
Refund(j, source, consumer_account) ==
  LET amount == escrow[j].locked_nmc IN
  /\ balance[source] >= amount
  /\ balance' = Moved(balance, source, consumer_account, amount)
  /\ paid_out' = [paid_out EXCEPT ![j] = @ + Left(j, source, consumer_account, amount)]
  /\ strayed' = IF Stray(j, source, {consumer_account}) THEN strayed \cup {j} ELSE strayed
  /\ UNCHANGED <<config, next_nonce, provider_record, nfts, supply, minted, paid_in>>

\* Mutant: a settled escrow passes the state check, too.
cancel_escrow_settled(j, source, consumer_account) ==
  /\ CancelEscrow(j)
  /\ escrow[j].state # "Cancelled"
  /\ Refund(j, source, consumer_account)
  /\ escrow' = [escrow EXCEPT ![j] = [@ EXCEPT !.state = "Cancelled"]]

\* Mutant: the new state is not written.
cancel_escrow_open(j, source, consumer_account) ==
  /\ CancelEscrow(j)
  /\ Live(j)
  /\ Refund(j, source, consumer_account)
  /\ UNCHANGED escrow

cancel_escrow(j, source, consumer_account) ==
  /\ CancelEscrow(j)
  /\ Live(j)
  /\ Refund(j, source, consumer_account)
  /\ escrow' = [escrow EXCEPT ![j] = [@ EXCEPT !.state = "Cancelled"]]

\* An option that is None keeps the present value, which is passed here.
update_config(signer, fee_bps, limit) ==
  /\ UpdateConfig(signer)
  /\ fee_bps <= MAX_FEE_BPS
  /\ config' = [config EXCEPT !.platform_fee_bps = fee_bps, !.bridge_mint_limit = limit]
  /\ UNCHANGED <<next_nonce, provider_record, nfts, escrow, tokens, history>>

-----------------------------------------------------------------------------
(* The token program, which holders also call directly. *)

\* A holder sends tokens to another account, one of an escrow included.
spl_transfer(from, to, amount) ==
  /\ balance[from] >= amount
  /\ balance' = Moved(balance, from, to, amount)
  /\ UNCHANGED <<config, next_nonce, provider_record, nfts, escrow, supply, history>>

\* A holder burns tokens without the program: total_burned does not see it.
spl_burn(user, amount) ==
  /\ balance[user] >= amount
  /\ balance' = [balance EXCEPT ![user] = @ - amount]
  /\ supply' = supply - amount
  /\ UNCHANGED <<config, next_nonce, provider_record, nfts, escrow, history>>

AdminStep ==
  \E w \in Wallets :
    \/ \E c \in Collectors, f \in Fees, l \in Limits : initialize(w, c, f, l)
    \/ \E f \in Fees \cup {config.platform_fee_bps}, l \in Limits \cup {config.bridge_mint_limit} :
         update_config(w, f, l)
    \/ \E p \in Providers : revoke_provider(p, w) \/ register_provider(p)

BridgeStep ==
  \E w \in Wallets, a \in Amounts :
    \/ \E r \in TokenAccount, n \in Nonces : bridge_mint(w, r, a, n)
    \/ bridge_burn(w, a)
    \/ \E to \in TokenAccount \ {w} : spl_transfer(w, to, a)
    \/ spl_burn(w, a)

EscrowStep ==
  \E j \in JobIds, w \in Wallets :
    \/ \E p \in Wallets, a \in Amounts : create_escrow(j, w, p, a)
    \/ lock_escrow(j, w)
    \/ \E c \in Costs, source \in HeldBy(j), pa \in TokenAccount, ca \in TokenAccount :
         release_escrow(j, w, c, source, pa, ca)
    \/ \E source \in HeldBy(j), ca \in TokenAccount : cancel_escrow(j, source, ca)

Next == AdminStep \/ BridgeStep \/ EscrowStep

Spec == Init /\ [][Next]_vars

-----------------------------------------------------------------------------
(* Properties *)

\* However often and in whatever order the bridge oracle sends a deposit, it
\* is minted at most once, and the deposits are minted in the order of their
\* nonces without a gap ("must equal next_nonce to prevent replay").
MintedOnceInOrder == \A n \in Nonces : minted[n] = IF n < next_nonce THEN 1 ELSE 0

\* The tokens in circulation never exceed what the bridge minted less what it
\* burned, so every token can be redeemed off-chain.
SupplyTracked == supply <= config.total_minted - config.total_burned

\* A live escrow can always be paid out of its vault, which holds at least
\* what it locked, and the vault of one that has ended keeps what was left
\* inside, whatever other instructions and transfers do.
VaultCovers ==
  \A j \in JobIds : balance[Vault(j)] >= IF Live(j) THEN escrow[j].locked_nmc
                                         ELSE paid_in[j] - paid_out[j]

\* A wallet gets one provider NFT in its life: a revoked provider cannot
\* register again ("cannot re-register").
OneNft == \A p \in Providers : nfts[p] = IF provider_record[p] = "none" THEN 0 ELSE 1

\* The program as AbstractEscrow sees it: what a vault holds for its job is
\* what the program moved in and has not moved out.
AbstractState ==
  [j \in JobIds |->
    [phase |-> IF j \in strayed THEN "Stranded" ELSE escrow[j].state,
     deposit |-> escrow[j].locked_nmc,
     vault |-> paid_in[j] - paid_out[j],
     cost |-> escrow[j].actual_cost, fee |-> escrow[j].fee_collected]]

Abstract == INSTANCE AbstractEscrow WITH escrow <- AbstractState, Strays <- TRUE

\* Each job's deposit is taken once and leaves its vault at most once, when
\* the job ends: completely, with a fee of at most a tenth of the cost, if the
\* instruction names the vault and pays into other accounts.  Otherwise the
\* deposit or a part of it is left in the vault, and nothing takes it out.
ImplementsEscrow == Abstract!Spec
=============================================================================
