--------------------------- MODULE SolanaProofs ---------------------------
(***************************************************************************)
(* Proofs for module SolanaProgram: for every number of jobs and wallets,  *)
(* all amounts, costs, fees, limits and any width of the checked           *)
(* arithmetic.  The state falls into three groups that keep their          *)
(* invariants almost apart: the bridge, the provider records, the escrows. *)
(***************************************************************************)
EXTENDS SolanaProgram, TLAPS

\* Before initialize nothing was minted or burned.
Fresh == config.authority = NoOne => config.total_minted = 0 /\ config.total_burned = 0

BridgeInv ==
  /\ config \in ProgramConfig
  /\ Fresh
  /\ next_nonce \in BridgeNonce
  /\ supply \in Int
  /\ minted \in [Nonces -> Nat]
  /\ MintedOnceInOrder
  /\ SupplyTracked

ProviderInv ==
  /\ provider_record \in [Providers -> ProviderRecord]
  /\ nfts \in [Providers -> Nat]
  /\ OneNft

EscrowTypes ==
  /\ escrow \in [JobIds -> JobEscrow]
  /\ balance \in [Accounts -> Nat]
  /\ paid_in \in [JobIds -> Nat]
  /\ paid_out \in [JobIds -> Nat]
  /\ strayed \subseteq JobIds

\* The program has moved in and not out what a live escrow locked, and nothing
\* for any other but a strayed one, which has ended.
Held ==
  \A j \in JobIds :
    /\ Live(j) => paid_in[j] - paid_out[j] = escrow[j].locked_nmc
    /\ ~Live(j) /\ j \notin strayed => paid_in[j] - paid_out[j] = 0
    /\ j \in strayed => escrow[j].state \in {"Settled", "Cancelled"}

\* Cost and fee are written by the settlement only, the amount by the creation.
Unsettled ==
  \A j \in JobIds :
    /\ escrow[j].state = "None" => escrow[j].locked_nmc = 0
    /\ escrow[j].state \in {"None", "Open", "Locked"} =>
         escrow[j].actual_cost = 0 /\ escrow[j].fee_collected = 0

EscrowInv == EscrowTypes /\ Held /\ Unsettled /\ VaultCovers

IInv == BridgeInv /\ ProviderInv /\ EscrowInv

-----------------------------------------------------------------------------
(* The bridge *)

bridgeVars == <<config, next_nonce, supply, minted>>

\* bridge_mint mints what it books, and marks the deposit.
LEMMA MintKeeps ==
  ASSUME BridgeInv, NEW w \in Wallets, NEW r \in TokenAccount, NEW a \in Amounts, NEW n \in Nonces,
         bridge_mint(w, r, a, n)
  PROVE  BridgeInv'
<1>0. /\ a \in Nat /\ n \in 0 .. MaxNonce /\ MaxNonce \in Nat /\ MAX_U64 \in Nat
      /\ n = next_nonce /\ next_nonce' = n + 1 /\ supply' = supply + a
      /\ config.authority # NoOne /\ config' = [config EXCEPT !.total_minted = @ + a]
      /\ config.total_minted + a <= MAX_U64
      /\ minted' = [minted EXCEPT ![n] = @ + 1]
  BY SolanaAssumption DEF bridge_mint, BridgeMint, Configured, Nonces
<1>1. /\ config' \in ProgramConfig /\ config'.total_minted = config.total_minted + a
      /\ config'.authority = config.authority
      /\ config'.total_burned = config.total_burned
      /\ config.total_minted \in Nat /\ config.total_burned \in Nat
  BY <1>0 DEF BridgeInv, ProgramConfig
<1>2. next_nonce' \in BridgeNonce
  BY <1>0 DEF BridgeNonce
<1>3. supply' \in Int /\ SupplyTracked'
  BY <1>0, <1>1 DEF BridgeInv, SupplyTracked
<1>4. minted' \in [Nonces -> Nat]
  BY <1>0 DEF BridgeInv
<1>5. MintedOnceInOrder'
  <2> SUFFICES ASSUME NEW m \in Nonces
               PROVE  minted'[m] = IF m < next_nonce' THEN 1 ELSE 0
    BY DEF MintedOnceInOrder
  <2>0. m \in Nat /\ minted[m] = (IF m < n THEN 1 ELSE 0) /\ minted[n] = 0
    BY <1>0 DEF BridgeInv, MintedOnceInOrder, Nonces
  <2>1. CASE m = n
    BY <2>0, <2>1, <1>0 DEF BridgeInv
  <2>2. CASE m # n
    BY <2>0, <2>2, <1>0 DEF BridgeInv
  <2> QED BY <2>1, <2>2
<1> QED BY <1>0, <1>1, <1>2, <1>3, <1>4, <1>5 DEF BridgeInv, Fresh

\* bridge_burn burns what it books.
LEMMA BurnKeeps ==
  ASSUME BridgeInv, NEW w \in Wallets, NEW a \in Amounts, bridge_burn(w, a)
  PROVE  BridgeInv'
<1>0. /\ a \in Nat /\ MAX_U64 \in Nat /\ supply' = supply - a
      /\ config.authority # NoOne /\ config' = [config EXCEPT !.total_burned = @ + a]
      /\ config.total_burned + a <= MAX_U64
      /\ UNCHANGED <<next_nonce, minted>>
  BY SolanaAssumption DEF bridge_burn, BridgeBurn, Configured, history
<1>1. /\ config' \in ProgramConfig /\ config'.total_minted = config.total_minted
      /\ config'.total_burned = config.total_burned + a
      /\ config'.authority = config.authority
      /\ config.total_minted \in Nat /\ config.total_burned \in Nat
  BY <1>0 DEF BridgeInv, ProgramConfig
<1>2. supply' \in Int /\ SupplyTracked'
  BY <1>0, <1>1 DEF BridgeInv, SupplyTracked
<1> QED BY <1>0, <1>1, <1>2 DEF BridgeInv, Fresh, MintedOnceInOrder

\* A direct burn only lowers the supply.
LEMMA SplBurnKeeps ==
  ASSUME BridgeInv, NEW w \in Wallets, NEW a \in Amounts, spl_burn(w, a)
  PROVE  BridgeInv'
<1>0. a \in Nat /\ supply' = supply - a /\ UNCHANGED <<config, next_nonce, minted>>
  BY SolanaAssumption DEF spl_burn, history
<1>1. config.total_minted \in Nat /\ config.total_burned \in Nat
  BY DEF BridgeInv, ProgramConfig
<1>2. supply' \in Int /\ SupplyTracked'
  BY <1>0, <1>1 DEF BridgeInv, SupplyTracked
<1> QED BY <1>0, <1>2 DEF BridgeInv, Fresh, MintedOnceInOrder

\* update_config does not touch the totals.
LEMMA UpdateKeeps ==
  ASSUME BridgeInv, NEW w \in Wallets, NEW f \in Fees \cup {config.platform_fee_bps},
         NEW l \in Limits \cup {config.bridge_mint_limit}, update_config(w, f, l)
  PROVE  BridgeInv'
<1>0. /\ f \in 0 .. MAX_FEE_BPS /\ l \in Nat
      /\ config' = [config EXCEPT !.platform_fee_bps = f, !.bridge_mint_limit = l]
      /\ UNCHANGED <<next_nonce, supply, minted>>
  BY SolanaAssumption DEF BridgeInv, ProgramConfig, update_config, MAX_FEE_BPS, tokens, history
<1>1. /\ config' \in ProgramConfig /\ config'.total_minted = config.total_minted
      /\ config'.total_burned = config.total_burned /\ config'.authority = config.authority
  BY <1>0 DEF BridgeInv, ProgramConfig
<1> QED BY <1>0, <1>1 DEF BridgeInv, Fresh, MintedOnceInOrder, SupplyTracked

\* initialize runs once, when the totals are still 0.
LEMMA InitializeKeeps ==
  ASSUME BridgeInv, NEW w \in Wallets, NEW c \in Collectors, NEW f \in Fees, NEW l \in Limits,
         initialize(w, c, f, l)
  PROVE  BridgeInv'
<1>0. /\ f \in 0 .. MAX_FEE_BPS /\ l \in Nat /\ MAX_U64 \in Nat /\ config.authority = NoOne
      /\ config' = [authority |-> w, platform_fee_bps |-> f, fee_collector |-> c,
                    bridge_mint_limit |-> l, total_minted |-> 0, total_burned |-> 0]
      /\ UNCHANGED <<next_nonce, supply, minted>>
  BY SolanaAssumption DEF initialize, Initialize, MAX_FEE_BPS, tokens, history
<1>1. config' \in ProgramConfig
  BY <1>0, SolanaAssumption DEF ProgramConfig
<1>2. config'.total_minted = 0 /\ config'.total_burned = 0
  BY <1>0
<1>3. config.total_minted = 0 /\ config.total_burned = 0
  BY <1>0 DEF BridgeInv, Fresh
<1> QED BY <1>0, <1>1, <1>2, <1>3 DEF BridgeInv, Fresh, MintedOnceInOrder, SupplyTracked

\* Before initialize nothing was bridged.
LEMMA InitBridge == Init => BridgeInv
<1> SUFFICES ASSUME Init PROVE BridgeInv
  OBVIOUS
<1>1. config \in ProgramConfig
  BY SolanaAssumption DEF Init, ProgramConfig, MAX_FEE_BPS
<1>2. MintedOnceInOrder /\ minted \in [Nonces -> Nat] /\ next_nonce \in BridgeNonce
  BY SolanaAssumption DEF Init, MintedOnceInOrder, Nonces, BridgeNonce
<1> QED BY <1>1, <1>2 DEF Init, BridgeInv, Fresh, SupplyTracked

\* Every instruction keeps the bridge's invariant.
LEMMA NextBridge == BridgeInv /\ [Next]_vars => BridgeInv'
<1> SUFFICES ASSUME BridgeInv, [Next]_vars PROVE BridgeInv'
  OBVIOUS
<1>0. ASSUME UNCHANGED bridgeVars PROVE BridgeInv'
  BY <1>0 DEF bridgeVars, BridgeInv, Fresh, MintedOnceInOrder, SupplyTracked
<1>1. CASE AdminStep
  <2>1. ASSUME NEW w \in Wallets, NEW p \in Providers, revoke_provider(p, w) \/ register_provider(p)
        PROVE  BridgeInv'
    BY <1>0, <2>1 DEF revoke_provider, register_provider, bridgeVars, tokens, history
  <2> QED BY <1>1, <2>1, InitializeKeeps, UpdateKeeps DEF AdminStep
<1>2. CASE BridgeStep
  <2>1. ASSUME NEW w \in Wallets, NEW to, NEW a \in Amounts, spl_transfer(w, to, a)
        PROVE  BridgeInv'
    BY <1>0, <2>1 DEF spl_transfer, bridgeVars, history
  <2> QED BY <1>2, <2>1, MintKeeps, BurnKeeps, SplBurnKeeps DEF BridgeStep
<1>3. CASE EscrowStep
  <2>1. ASSUME NEW j \in JobIds, NEW w \in Wallets, NEW p \in Wallets, NEW a \in Amounts,
               create_escrow(j, w, p, a)
        PROVE  BridgeInv'
    BY <1>0, <2>1 DEF create_escrow, bridgeVars
  <2>2. ASSUME NEW j \in JobIds, NEW w \in Wallets, NEW s, NEW ca,
               lock_escrow(j, w) \/ cancel_escrow(j, s, ca)
        PROVE  BridgeInv'
    BY <1>0, <2>2 DEF lock_escrow, cancel_escrow, Refund, bridgeVars, tokens, history
  <2>3. ASSUME NEW j \in JobIds, NEW w \in Wallets, NEW c \in Costs, NEW s, NEW pa, NEW ca,
               release_escrow(j, w, c, s, pa, ca)
        PROVE  BridgeInv'
    BY <1>0, <2>3 DEF release_escrow, bridgeVars
  <2> QED BY <1>3, <2>1, <2>2, <2>3 DEF EscrowStep
<1>4. CASE UNCHANGED vars
  BY <1>0, <1>4 DEF vars, bridgeVars, tokens, history
<1> QED BY <1>1, <1>2, <1>3, <1>4 DEF Next

-----------------------------------------------------------------------------
(* The provider records *)

\* No provider is registered yet.
LEMMA InitProvider == Init => ProviderInv
BY DEF Init, ProviderInv, OneNft, ProviderRecord

\* Every instruction keeps the NFTs unique.
LEMMA NextProvider == ProviderInv /\ [Next]_vars => ProviderInv'
<1> SUFFICES ASSUME ProviderInv, [Next]_vars PROVE ProviderInv'
  OBVIOUS
<1>0. ASSUME UNCHANGED <<provider_record, nfts>> PROVE ProviderInv'
  BY <1>0 DEF ProviderInv, OneNft
<1>1. CASE AdminStep
  <2>1. ASSUME NEW p \in Providers, register_provider(p) PROVE ProviderInv'
    BY <2>1 DEF register_provider, RegisterProvider, ProviderInv, OneNft, ProviderRecord
  <2>2. ASSUME NEW w \in Wallets, NEW p \in Providers, revoke_provider(p, w) PROVE ProviderInv'
    BY <2>2 DEF revoke_provider, RevokeProvider, ProviderInv, OneNft, ProviderRecord
  <2>3. ASSUME NEW w \in Wallets, NEW c, NEW f, NEW l, initialize(w, c, f, l) \/ update_config(w, f, l)
        PROVE  ProviderInv'
    BY <1>0, <2>3 DEF initialize, update_config
  <2> QED BY <1>1, <2>1, <2>2, <2>3 DEF AdminStep
<1>2. CASE BridgeStep
  BY <1>0, <1>2 DEF BridgeStep, bridge_mint, bridge_burn, spl_transfer, spl_burn
<1>3. CASE EscrowStep
  <2>1. ASSUME NEW j \in JobIds, NEW w \in Wallets, NEW p \in Wallets, NEW a \in Amounts,
               create_escrow(j, w, p, a)
        PROVE  ProviderInv'
    BY <1>0, <2>1 DEF create_escrow
  <2>2. ASSUME NEW j \in JobIds, NEW w \in Wallets, NEW s, NEW ca,
               lock_escrow(j, w) \/ cancel_escrow(j, s, ca)
        PROVE  ProviderInv'
    BY <1>0, <2>2 DEF lock_escrow, cancel_escrow, Refund
  <2>3. ASSUME NEW j \in JobIds, NEW w \in Wallets, NEW c \in Costs, NEW s, NEW pa, NEW ca,
               release_escrow(j, w, c, s, pa, ca)
        PROVE  ProviderInv'
    BY <1>0, <2>3 DEF release_escrow
  <2> QED BY <1>3, <2>1, <2>2, <2>3 DEF EscrowStep
<1>4. CASE UNCHANGED vars
  BY <1>0, <1>4 DEF vars
<1> QED BY <1>1, <1>2, <1>3, <1>4 DEF Next

-----------------------------------------------------------------------------
(* The escrows *)

escrowVars == <<escrow, balance, paid_in, paid_out, strayed>>

\* The fee of release_escrow is a natural number, at most a tenth of the cost.
LEMMA FeeBound ==
  ASSUME NEW cost \in Nat, config.platform_fee_bps \in 0 .. MAX_FEE_BPS
  PROVE  Fee(cost) \in Nat /\ Fee(cost) * 10 <= cost /\ Fee(cost) <= cost
<1> DEFINE b == config.platform_fee_bps
<1>0. b \in 0 .. 1000
  BY DEF MAX_FEE_BPS
<1> HIDE DEF b
<1>1. cost * b \in Nat /\ cost * b <= cost * 1000
  BY <1>0
<1>2. \A x \in Nat : x <= cost * 1000 =>
        /\ x \div 10000 \in Nat /\ (x \div 10000) * 10 <= cost /\ x \div 10000 <= cost
  OBVIOUS
<1>3. Fee(cost) = (cost * b) \div 10000
  BY DEF Fee, b
<1> QED BY <1>1, <1>2, <1>3

\* The token accounts of the escrows differ from each other and from the wallets.
LEMMA AccountsDiffer ==
  /\ Wallets \subseteq Accounts
  /\ \A j \in JobIds : /\ Vault(j) \in Accounts /\ Spare(j) \in Accounts
                       /\ Vault(j) \notin Wallets /\ Vault(j) # Spare(j)
                       /\ \A i \in JobIds \ {j} : Vault(i) # Vault(j) /\ Vault(i) # Spare(j)
BY SolanaAssumption DEF Accounts, Vault, Spare

\* A transfer keeps the balances natural numbers and takes from a vault what
\* Left says, and nothing from the vault of another job.
LEMMA MovedVault ==
  ASSUME NEW b \in [Accounts -> Nat], NEW from \in Accounts, NEW to \in Accounts, NEW a \in Nat,
         b[from] >= a
  PROVE  /\ Moved(b, from, to, a) \in [Accounts -> Nat]
         /\ \A i \in JobIds : /\ Left(i, from, to, a) \in {0, a}
                              /\ Moved(b, from, to, a)[Vault(i)] >= b[Vault(i)] - Left(i, from, to, a)
                              /\ from # Vault(i) => Left(i, from, to, a) = 0
<1> DEFINE m == Moved(b, from, to, a)
<1>1. CASE from = to
  <2>3. m = b
    BY <1>1 DEF Moved
  <2> QED
    BY <1>1, <2>3, AccountsDiffer DEF Left
<1>2. CASE from # to
  <2>1. /\ m \in [Accounts -> Nat] /\ m[from] = b[from] - a /\ m[to] = b[to] + a
        /\ \A x \in Accounts \ {from, to} : m[x] = b[x]
    BY <1>2 DEF Moved
  <2> HIDE DEF m
  <2>2. ASSUME NEW i \in JobIds
        PROVE  /\ Left(i, from, to, a) \in {0, a}
               /\ m[Vault(i)] >= b[Vault(i)] - Left(i, from, to, a)
               /\ from # Vault(i) => Left(i, from, to, a) = 0
    <3>0. Vault(i) \in Accounts
      BY AccountsDiffer
    <3>1. PICK v \in Accounts : v = Vault(i)
      BY <3>0
    <3>2. CASE from = v
      BY <1>2, <2>1, <3>1, <3>2 DEF Left
    <3>3. CASE from # v
      <4>1. m[v] >= b[v]
        BY <2>1, <3>3
      <4> QED BY <3>1, <3>3, <4>1 DEF Left
    <3> QED BY <3>2, <3>3
  <2> QED BY <2>1, <2>2 DEF m
<1> QED BY <1>1, <1>2

\* No escrow exists yet.
LEMMA InitEscrow == Init => EscrowInv
BY AccountsDiffer DEF Init, EscrowInv, EscrowTypes, Held, Unsettled, VaultCovers, Live, NoEscrow,
                      JobEscrow, EscrowState

\* An instruction on one escrow keeps the others, if it keeps this one.
LEMMA OneEscrowKeeps ==
  ASSUME EscrowInv, NEW j \in JobIds, EscrowTypes',
         \A i \in JobIds \ {j} :
           /\ escrow'[i] = escrow[i] /\ balance'[Vault(i)] >= balance[Vault(i)]
           /\ paid_in'[i] = paid_in[i] /\ paid_out'[i] = paid_out[i]
           /\ i \in strayed' <=> i \in strayed,
         Live(j)' => paid_in'[j] - paid_out'[j] = escrow'[j].locked_nmc,
         ~Live(j)' /\ j \notin strayed' => paid_in'[j] - paid_out'[j] = 0,
         j \in strayed' => escrow'[j].state \in {"Settled", "Cancelled"},
         balance'[Vault(j)] >= paid_in'[j] - paid_out'[j],
         escrow'[j].state # "None",
         escrow'[j].state \in {"Open", "Locked"} =>
           escrow'[j].actual_cost = 0 /\ escrow'[j].fee_collected = 0
  PROVE  EscrowInv'
<1>0. /\ Live(j)' <=> escrow'[j].state \in {"Open", "Locked"}
      /\ \A i \in JobIds \ {j} : Live(i)' <=> Live(i)
  BY DEF Live
<1>1. Held'
  <2> SUFFICES ASSUME NEW i \in JobIds
               PROVE  /\ Live(i)' => paid_in'[i] - paid_out'[i] = escrow'[i].locked_nmc
                      /\ ~Live(i)' /\ i \notin strayed' => paid_in'[i] - paid_out'[i] = 0
                      /\ i \in strayed' => escrow'[i].state \in {"Settled", "Cancelled"}
    BY DEF Held
  <2>1. CASE i = j
    BY <2>1
  <2>2. CASE i # j
    BY <1>0, <2>2 DEF EscrowInv, Held
  <2> QED BY <2>1, <2>2
<1>2. Unsettled'
  <2> SUFFICES ASSUME NEW i \in JobIds
               PROVE  /\ escrow'[i].state = "None" => escrow'[i].locked_nmc = 0
                      /\ escrow'[i].state \in {"None", "Open", "Locked"} =>
                           escrow'[i].actual_cost = 0 /\ escrow'[i].fee_collected = 0
    BY DEF Unsettled
  <2>1. CASE i = j
    BY <2>1
  <2>2. CASE i # j
    BY <2>2 DEF EscrowInv, Unsettled
  <2> QED BY <2>1, <2>2
<1>3. VaultCovers'
  <2> DEFINE owed(i) == IF Live(i) THEN escrow[i].locked_nmc ELSE paid_in[i] - paid_out[i]
             owedN(i) == IF Live(i)' THEN escrow'[i].locked_nmc ELSE paid_in'[i] - paid_out'[i]
  <2> SUFFICES ASSUME NEW i \in JobIds PROVE balance'[Vault(i)] >= owedN(i)
    BY DEF VaultCovers
  <2>1. CASE i = j
    <3>1. owedN(i) = paid_in'[j] - paid_out'[j]
      BY <2>1
    <3> QED BY <2>1, <3>1
  <2>2. CASE i # j
    <3>1. owedN(i) = owed(i)
      BY <1>0, <2>2
    <3>2. balance[Vault(i)] >= owed(i) /\ balance'[Vault(i)] >= balance[Vault(i)]
      BY <2>2 DEF EscrowInv, VaultCovers
    <3>3. balance[Vault(i)] \in Int /\ balance'[Vault(i)] \in Int /\ owed(i) \in Int
      BY AccountsDiffer DEF EscrowInv, EscrowTypes, JobEscrow
    <3> HIDE DEF owed, owedN
    <3> QED BY <3>1, <3>2, <3>3
  <2> QED BY <2>1, <2>2
<1> QED BY <1>1, <1>2, <1>3 DEF EscrowInv

\* create_escrow moves into the vault what it records.
LEMMA CreateEscrowKeeps ==
  ASSUME EscrowInv, NEW j \in JobIds, NEW w \in Wallets, NEW p \in Wallets, NEW a \in Amounts,
         create_escrow(j, w, p, a)
  PROVE  EscrowInv'
<1> DEFINE new == [state |-> "Open", consumer |-> w, provider |-> p, locked_nmc |-> a,
                   actual_cost |-> 0, fee_collected |-> 0]
<1>0. /\ a \in Nat /\ balance[w] >= a /\ escrow[j].state = "None"
      /\ escrow' = [escrow EXCEPT ![j] = new]
      /\ balance' = Moved(balance, w, Vault(j), a)
      /\ paid_in' = [paid_in EXCEPT ![j] = @ + a] /\ paid_out' = paid_out /\ strayed' = strayed
  BY SolanaAssumption DEF create_escrow, CreateEscrow
<1>1. /\ new \in JobEscrow /\ new.state = "Open" /\ new.locked_nmc = a
      /\ new.actual_cost = 0 /\ new.fee_collected = 0
  BY <1>0 DEF JobEscrow, EscrowState
<1> HIDE DEF new
<1>2. w \in Accounts /\ Vault(j) \in Accounts /\ w # Vault(j) /\ balance \in [Accounts -> Nat]
  BY AccountsDiffer DEF EscrowInv, EscrowTypes
<1>3. /\ balance' \in [Accounts -> Nat] /\ balance'[Vault(j)] = balance[Vault(j)] + a
      /\ \A x \in Accounts \ {w} : balance'[x] >= balance[x]
  BY <1>0, <1>2 DEF Moved
<1>4. EscrowTypes'
  BY <1>0, <1>1, <1>3 DEF EscrowInv, EscrowTypes
<1>5. /\ escrow'[j] = new /\ paid_in'[j] = paid_in[j] + a
      /\ balance[Vault(j)] \in Nat /\ paid_in[j] \in Nat /\ paid_out[j] \in Nat
      /\ \A i \in JobIds \ {j} : /\ escrow'[i] = escrow[i] /\ balance'[Vault(i)] >= balance[Vault(i)]
                                 /\ paid_in'[i] = paid_in[i] /\ paid_out'[i] = paid_out[i]
  BY <1>0, <1>2, <1>3, AccountsDiffer DEF EscrowInv, EscrowTypes
<1>6. paid_in[j] - paid_out[j] = 0 /\ j \notin strayed
  BY <1>0 DEF EscrowInv, Held, Live
<1>7. paid_in'[j] - paid_out'[j] = a /\ balance'[Vault(j)] >= a
  <2>1. \A x, y, z \in Nat : (x - y = 0 => (x + a) - y = a) /\ z + a >= a
    BY <1>0
  <2> QED BY <1>0, <1>3, <1>5, <1>6, <2>1
<1> QED BY <1>0, <1>1, <1>4, <1>5, <1>6, <1>7, OneEscrowKeeps DEF Live

\* lock_escrow moves nothing.
LEMMA LockEscrowKeeps ==
  ASSUME EscrowInv, NEW j \in JobIds, NEW w \in Wallets, lock_escrow(j, w)
  PROVE  EscrowInv'
<1>0. /\ escrow[j].state = "Open" /\ escrow' = [escrow EXCEPT ![j] = [@ EXCEPT !.state = "Locked"]]
      /\ UNCHANGED <<balance, paid_in, paid_out, strayed>>
  BY DEF lock_escrow, tokens, history
<1>1. EscrowTypes'
  BY <1>0 DEF EscrowInv, EscrowTypes, JobEscrow, EscrowState
<1>2. /\ escrow'[j].state = "Locked" /\ escrow'[j].locked_nmc = escrow[j].locked_nmc
      /\ escrow'[j].actual_cost = escrow[j].actual_cost
      /\ escrow'[j].fee_collected = escrow[j].fee_collected
      /\ \A i \in JobIds \ {j} : escrow'[i] = escrow[i]
  BY <1>0 DEF EscrowInv, EscrowTypes, JobEscrow
<1>3. /\ paid_in[j] - paid_out[j] = escrow[j].locked_nmc
      /\ balance[Vault(j)] >= escrow[j].locked_nmc /\ j \notin strayed
      /\ escrow[j].actual_cost = 0 /\ escrow[j].fee_collected = 0
  BY <1>0 DEF EscrowInv, Held, VaultCovers, Unsettled, Live
<1>4. \A i \in JobIds : balance[Vault(i)] \in Nat /\ balance'[Vault(i)] >= balance[Vault(i)]
  BY <1>0, AccountsDiffer DEF EscrowInv, EscrowTypes
<1> QED BY <1>0, <1>1, <1>2, <1>3, <1>4, OneEscrowKeeps DEF Live

\* A live escrow that ends, with `out` taken from its vault and all of what it
\* locked unless it strays.
LEMMA EndKeeps ==
  ASSUME EscrowInv, NEW j \in JobIds, Live(j), NEW out \in 0 .. escrow[j].locked_nmc,
         balance' \in [Accounts -> Nat], escrow' \in [JobIds -> JobEscrow],
         \A i \in JobIds \ {j} : escrow'[i] = escrow[i] /\ balance'[Vault(i)] >= balance[Vault(i)],
         balance'[Vault(j)] >= balance[Vault(j)] - out,
         escrow'[j].state \in {"Settled", "Cancelled"},
         paid_in' = paid_in, paid_out' = [paid_out EXCEPT ![j] = @ + out],
         strayed' \in {strayed, strayed \cup {j}},
         j \notin strayed' => out = escrow[j].locked_nmc
  PROVE  EscrowInv'
<1> DEFINE d == escrow[j].locked_nmc
           v == balance[Vault(j)]
           w == balance'[Vault(j)]
<1>1. /\ d \in Nat /\ paid_in[j] \in Nat /\ paid_out[j] \in Nat /\ v \in Nat /\ w \in Nat
      /\ paid_in[j] - paid_out[j] = d /\ v >= d
  BY AccountsDiffer DEF EscrowInv, EscrowTypes, JobEscrow, Held, VaultCovers
<1>2. EscrowTypes'
  <2>1. paid_out[j] + out \in Nat
    BY <1>1
  <2> QED BY <2>1 DEF EscrowInv, EscrowTypes
<1>3. /\ paid_out'[j] = paid_out[j] + out
      /\ \A i \in JobIds \ {j} : paid_out'[i] = paid_out[i] /\ (i \in strayed' <=> i \in strayed)
  BY DEF EscrowInv, EscrowTypes
<1>4. out \in Int /\ w >= v - out /\ (j \notin strayed' => out = d)
  BY <1>1
<1> HIDE DEF d, v, w
<1>5. paid_in'[j] - paid_out'[j] = d - out
  BY <1>1, <1>3, <1>4
<1>6. w >= paid_in'[j] - paid_out'[j] /\ (j \notin strayed' => paid_in'[j] - paid_out'[j] = 0)
  BY <1>1, <1>4, <1>5
<1> QED BY <1>2, <1>3, <1>6, OneEscrowKeeps DEF Live, w

\* The balances after the three transfers of a settlement, and what they take
\* out of the vault.
After3(b, source, p, x, q, y, c, z) ==
  Moved(Moved(Moved(b, source, p, x), source, q, y), source, c, z)
Out3(j, source, p, x, q, y, c, z) ==
  Left(j, source, p, x) + Left(j, source, q, y) + Left(j, source, c, z)

\* Each of them finds enough in the source.
Enough3(b, source, p, x, q, y, z) ==
  /\ b[source] >= x /\ Moved(b, source, p, x)[source] >= y
  /\ Moved(Moved(b, source, p, x), source, q, y)[source] >= z

\* They take from the vault of j only, and the whole amount unless they stray.
Settles3(b, j, source, p, x, q, y, c, z) ==
  /\ After3(b, source, p, x, q, y, c, z) \in [Accounts -> Nat]
  /\ Out3(j, source, p, x, q, y, c, z) \in 0 .. (x + y + z)
  /\ After3(b, source, p, x, q, y, c, z)[Vault(j)] >= b[Vault(j)] - Out3(j, source, p, x, q, y, c, z)
  /\ \A i \in JobIds \ {j} : After3(b, source, p, x, q, y, c, z)[Vault(i)] >= b[Vault(i)]
  /\ ~Stray(j, source, {p, c, q}) => Out3(j, source, p, x, q, y, c, z) = x + y + z

\* The transfers of a settlement, whatever accounts the authority names.
LEMMA ThreeTransfers ==
  ASSUME NEW b \in [Accounts -> Nat], NEW j \in JobIds, NEW source \in {Vault(j), Spare(j)},
         NEW p \in Accounts, NEW q \in Accounts, NEW c \in Accounts,
         NEW x \in Nat, NEW y \in Nat, NEW z \in Nat, Enough3(b, source, p, x, q, y, z)
  PROVE  Settles3(b, j, source, p, x, q, y, c, z)
<1> DEFINE b1 == Moved(b, source, p, x)
           b2 == Moved(b1, source, q, y)
           b3 == After3(b, source, p, x, q, y, c, z)
           l1(i) == Left(i, source, p, x)
           l2(i) == Left(i, source, q, y)
           l3(i) == Left(i, source, c, z)
<1>0. source \in Accounts /\ \A i \in JobIds \ {j} : source # Vault(i)
  BY AccountsDiffer
<1>1. /\ b1 \in [Accounts -> Nat]
      /\ \A i \in JobIds : /\ l1(i) \in {0, x} /\ b1[Vault(i)] >= b[Vault(i)] - l1(i)
                           /\ source # Vault(i) => l1(i) = 0
  BY <1>0, MovedVault DEF Enough3
<1>9. b1[source] >= y /\ b2[source] >= z
  BY DEF Enough3
<1> HIDE DEF b1
<1>2. /\ b2 \in [Accounts -> Nat]
      /\ \A i \in JobIds : /\ l2(i) \in {0, y} /\ b2[Vault(i)] >= b1[Vault(i)] - l2(i)
                           /\ source # Vault(i) => l2(i) = 0
  BY <1>0, <1>1, <1>9, MovedVault
<1>10. b3 = Moved(b2, source, c, z)
  BY DEF b1, After3
<1>11. Out3(j, source, p, x, q, y, c, z) = l1(j) + l2(j) + l3(j)
  BY DEF Out3
<1> HIDE DEF b2, b3
<1>3. /\ b3 \in [Accounts -> Nat]
      /\ \A i \in JobIds : /\ l3(i) \in {0, z} /\ b3[Vault(i)] >= b2[Vault(i)] - l3(i)
                           /\ source # Vault(i) => l3(i) = 0
  BY <1>0, <1>2, <1>9, <1>10, MovedVault
<1>4. ~Stray(j, source, {p, c, q}) => l1(j) = x /\ l2(j) = y /\ l3(j) = z
  BY DEF Stray, Left
<1> HIDE DEF l1, l2, l3
<1>5. \A i \in JobIds : /\ b[Vault(i)] \in Int /\ b1[Vault(i)] \in Int /\ b2[Vault(i)] \in Int
                        /\ b3[Vault(i)] \in Int
  <2>1. \A i \in JobIds : Vault(i) \in Accounts
    BY AccountsDiffer
  <2>2. \A a \in Accounts : b[a] \in Int /\ b1[a] \in Int /\ b2[a] \in Int /\ b3[a] \in Int
    BY <1>1, <1>2, <1>3
  <2> QED BY <2>1, <2>2
<1>6. /\ l1(j) + l2(j) + l3(j) \in 0 .. (x + y + z)
      /\ b3[Vault(j)] >= b[Vault(j)] - (l1(j) + l2(j) + l3(j))
  BY <1>1, <1>2, <1>3, <1>5
<1>7. ASSUME NEW i \in JobIds \ {j} PROVE b3[Vault(i)] >= b[Vault(i)]
  <2>1. l1(i) = 0 /\ l2(i) = 0 /\ l3(i) = 0
    BY <1>0, <1>1, <1>2, <1>3
  <2>2. /\ b1[Vault(i)] >= b[Vault(i)] - l1(i) /\ b2[Vault(i)] >= b1[Vault(i)] - l2(i)
        /\ b3[Vault(i)] >= b2[Vault(i)] - l3(i)
    BY <1>1, <1>2, <1>3
  <2> QED BY <1>5, <2>1, <2>2
<1>8. ~Stray(j, source, {p, c, q}) => l1(j) + l2(j) + l3(j) = x + y + z
  BY <1>4
<1> QED BY <1>3, <1>6, <1>7, <1>8, <1>11 DEF b3, Settles3

\* What release_escrow does, in the words of ThreeTransfers.
LEMMA ReleaseOut ==
  ASSUME EscrowInv, config.platform_fee_bps \in 0 .. MAX_FEE_BPS, NEW j \in JobIds,
         NEW w \in Wallets, NEW c \in Costs, NEW source \in HeldBy(j), NEW pa \in TokenAccount,
         NEW ca \in TokenAccount, release_escrow(j, w, c, source, pa, ca)
  PROVE  /\ escrow[j].state = "Locked" /\ c \in 0 .. escrow[j].locked_nmc
         /\ Fee(c) \in Nat /\ Fee(c) * 10 <= c /\ Fee(c) <= c
         /\ escrow' = [escrow EXCEPT ![j] = [@ EXCEPT !.state = "Settled", !.actual_cost = c,
                                                      !.fee_collected = Fee(c)]]
         /\ paid_in' = paid_in
         /\ \E out \in 0 .. escrow[j].locked_nmc :
              /\ paid_out' = [paid_out EXCEPT ![j] = @ + out]
              /\ balance' \in [Accounts -> Nat]
              /\ balance'[Vault(j)] >= balance[Vault(j)] - out
              /\ \A i \in JobIds \ {j} : balance'[Vault(i)] >= balance[Vault(i)]
              /\ strayed' \in {strayed, strayed \cup {j}}
              /\ j \notin strayed' => out = escrow[j].locked_nmc
<1> DEFINE d == escrow[j].locked_nmc
           f == Fee(c)
           q == config.fee_collector
           l1 == Left(j, source, pa, c - f)
           l2 == Left(j, source, q, f)
           l3 == Left(j, source, ca, d - c)
           b1 == Moved(balance, source, pa, c - f)
           b2 == Moved(b1, source, q, f)
<1>0. /\ c \in Nat /\ d \in Nat /\ c <= d /\ paid_out[j] \in Nat
      /\ balance \in [Accounts -> Nat] /\ q \in Accounts /\ pa \in Accounts /\ ca \in Accounts
      /\ source \in {Vault(j), Spare(j)}
  BY SolanaAssumption DEF release_escrow, EscrowInv, EscrowTypes, JobEscrow, TokenAccount, HeldBy
<1>1. f \in Nat /\ f * 10 <= c /\ f <= c
  BY <1>0, FeeBound
<1>2. /\ escrow[j].state = "Locked" /\ paid_in' = paid_in
      /\ escrow' = [escrow EXCEPT ![j] = [@ EXCEPT !.state = "Settled", !.actual_cost = c,
                                                   !.fee_collected = f]]
      /\ balance[source] >= c - f /\ b1[source] >= f /\ b2[source] >= d - c
      /\ balance' = Moved(b2, source, ca, d - c)
      /\ paid_out' = [paid_out EXCEPT ![j] = @ + l1 + l2 + l3]
      /\ strayed' = IF Stray(j, source, {pa, ca, q}) THEN strayed \cup {j} ELSE strayed
  BY DEF release_escrow
<1> HIDE DEF d, f, q
<1>3. c - f \in Nat /\ d - c \in Nat /\ (c - f) + f + (d - c) = d
  BY <1>0, <1>1
<1>4. /\ balance' \in [Accounts -> Nat] /\ l1 + l2 + l3 \in 0 .. d
      /\ balance'[Vault(j)] >= balance[Vault(j)] - (l1 + l2 + l3)
      /\ \A i \in JobIds \ {j} : balance'[Vault(i)] >= balance[Vault(i)]
      /\ ~Stray(j, source, {pa, ca, q}) => l1 + l2 + l3 = d
  <2>1. PICK x \in Nat, y \in Nat, z \in Nat : x = c - f /\ y = f /\ z = d - c
    BY <1>1, <1>3
  <2>2. Enough3(balance, source, pa, x, q, y, z)
    BY <1>2, <2>1 DEF Enough3
  <2>3. PICK b3, out : /\ b3 = After3(balance, source, pa, x, q, y, ca, z)
                       /\ out = Out3(j, source, pa, x, q, y, ca, z)
    OBVIOUS
  <2>4. /\ b3 \in [Accounts -> Nat] /\ out \in 0 .. (x + y + z)
        /\ b3[Vault(j)] >= balance[Vault(j)] - out
        /\ \A i \in JobIds \ {j} : b3[Vault(i)] >= balance[Vault(i)]
        /\ ~Stray(j, source, {pa, ca, q}) => out = x + y + z
    <3>1. Settles3(balance, j, source, pa, x, q, y, ca, z)
      BY <1>0, <2>2, ThreeTransfers
    <3> QED BY <2>3, <3>1 DEF Settles3
  <2>5. balance' = b3 /\ out = l1 + l2 + l3 /\ x + y + z = d
    BY <1>2, <1>3, <2>1, <2>3 DEF After3, Out3
  <2> HIDE DEF l1, l2, l3
  <2> QED BY <2>4, <2>5
<1>5. paid_out[j] + l1 + l2 + l3 = paid_out[j] + (l1 + l2 + l3)
  <2>1. l1 \in Nat /\ l2 \in Nat /\ l3 \in Nat
    BY <1>1, <1>3 DEF Left
  <2> HIDE DEF l1, l2, l3
  <2> QED BY <1>0, <2>1
<1> DEFINE out == l1 + l2 + l3
<1>6. paid_out' = [paid_out EXCEPT ![j] = @ + out]
  BY <1>2, <1>5 DEF EscrowInv, EscrowTypes
<1>7. j \notin strayed' => out = d
  BY <1>2, <1>4
<1>8. strayed' \in {strayed, strayed \cup {j}}
  BY <1>2
<1>9. out \in 0 .. d /\ balance'[Vault(j)] >= balance[Vault(j)] - out
  BY <1>4
<1> HIDE DEF out, l1, l2, l3
<1>10. \E o \in 0 .. d : /\ paid_out' = [paid_out EXCEPT ![j] = @ + o]
                         /\ balance' \in [Accounts -> Nat]
                         /\ balance'[Vault(j)] >= balance[Vault(j)] - o
                         /\ \A i \in JobIds \ {j} : balance'[Vault(i)] >= balance[Vault(i)]
                         /\ strayed' \in {strayed, strayed \cup {j}}
                         /\ j \notin strayed' => o = d
  BY <1>4, <1>6, <1>7, <1>8, <1>9
<1>11. c \in 0 .. d
  BY <1>0
<1> QED BY <1>1, <1>2, <1>10, <1>11 DEF d, f

\* What cancel_escrow does, in the same words.
LEMMA CancelOut ==
  ASSUME EscrowInv, NEW j \in JobIds, NEW source \in HeldBy(j), NEW ca \in TokenAccount,
         cancel_escrow(j, source, ca)
  PROVE  /\ Live(j) /\ escrow' = [escrow EXCEPT ![j] = [@ EXCEPT !.state = "Cancelled"]]
         /\ paid_in' = paid_in
         /\ \E out \in 0 .. escrow[j].locked_nmc :
              /\ paid_out' = [paid_out EXCEPT ![j] = @ + out]
              /\ balance' \in [Accounts -> Nat]
              /\ balance'[Vault(j)] >= balance[Vault(j)] - out
              /\ \A i \in JobIds \ {j} : balance'[Vault(i)] >= balance[Vault(i)]
              /\ strayed' \in {strayed, strayed \cup {j}}
              /\ j \notin strayed' => out = escrow[j].locked_nmc
<1> DEFINE d == escrow[j].locked_nmc
           out == Left(j, source, ca, d)
<1>0. /\ d \in Nat /\ balance \in [Accounts -> Nat] /\ ca \in Accounts
      /\ source \in {Vault(j), Spare(j)} /\ source \in Accounts
      /\ \A i \in JobIds \ {j} : source # Vault(i)
  BY AccountsDiffer DEF EscrowInv, EscrowTypes, JobEscrow, TokenAccount, HeldBy
<1>1. /\ Live(j) /\ escrow' = [escrow EXCEPT ![j] = [@ EXCEPT !.state = "Cancelled"]]
      /\ paid_in' = paid_in /\ balance[source] >= d
      /\ balance' = Moved(balance, source, ca, d)
      /\ paid_out' = [paid_out EXCEPT ![j] = @ + out]
      /\ strayed' = IF Stray(j, source, {ca}) THEN strayed \cup {j} ELSE strayed
  BY DEF cancel_escrow, Refund
<1> HIDE DEF d
<1>2. /\ balance' \in [Accounts -> Nat]
      /\ \A i \in JobIds : /\ Left(i, source, ca, d) \in {0, d}
                           /\ balance'[Vault(i)] >= balance[Vault(i)] - Left(i, source, ca, d)
                           /\ source # Vault(i) => Left(i, source, ca, d) = 0
  BY <1>0, <1>1, MovedVault
<1>3. out \in 0 .. d /\ balance'[Vault(j)] >= balance[Vault(j)] - out
  BY <1>0, <1>2
<1>4. \A i \in JobIds \ {j} : balance'[Vault(i)] >= balance[Vault(i)]
  <2> SUFFICES ASSUME NEW i \in JobIds \ {j} PROVE balance'[Vault(i)] >= balance[Vault(i)]
    OBVIOUS
  <2>1. balance[Vault(i)] \in Nat /\ Left(i, source, ca, d) = 0
    BY <1>0, <1>2, AccountsDiffer
  <2> QED BY <1>2, <2>1
<1>5. strayed' \in {strayed, strayed \cup {j}} /\ (j \notin strayed' => out = d)
  BY <1>1 DEF Stray, Left
<1> HIDE DEF out
<1> QED BY <1>1, <1>2, <1>3, <1>4, <1>5 DEF d

\* The transfers of a settlement add up to the locked amount.
LEMMA ReleaseEscrowKeeps ==
  ASSUME EscrowInv, config.platform_fee_bps \in 0 .. MAX_FEE_BPS, NEW j \in JobIds,
         NEW w \in Wallets, NEW c \in Costs, NEW source \in HeldBy(j), NEW pa \in TokenAccount,
         NEW ca \in TokenAccount, release_escrow(j, w, c, source, pa, ca)
  PROVE  EscrowInv'
<1>00. /\ Fee(c) \in Nat
       /\ escrow' = [escrow EXCEPT ![j] = [@ EXCEPT !.state = "Settled", !.actual_cost = c,
                                                    !.fee_collected = Fee(c)]]
  BY ReleaseOut
<1>0. PICK f \in Nat : escrow' = [escrow EXCEPT ![j] =
                         [@ EXCEPT !.state = "Settled", !.actual_cost = c, !.fee_collected = f]]
  BY <1>00
<1>1. escrow' \in [JobIds -> JobEscrow]
  BY <1>0, SolanaAssumption DEF EscrowInv, EscrowTypes, JobEscrow, EscrowState
<1>2. escrow'[j].state = "Settled" /\ \A i \in JobIds \ {j} : escrow'[i] = escrow[i]
  BY <1>0 DEF EscrowInv, EscrowTypes, JobEscrow
<1> QED BY <1>1, <1>2, ReleaseOut, EndKeeps DEF Live

\* cancel_escrow pays back what was locked.
LEMMA CancelEscrowKeeps ==
  ASSUME EscrowInv, NEW j \in JobIds, NEW source \in HeldBy(j), NEW ca \in TokenAccount,
         cancel_escrow(j, source, ca)
  PROVE  EscrowInv'
<1>0. escrow' = [escrow EXCEPT ![j] = [@ EXCEPT !.state = "Cancelled"]]
  BY CancelOut
<1>1. escrow' \in [JobIds -> JobEscrow]
  BY <1>0 DEF EscrowInv, EscrowTypes, JobEscrow, EscrowState
<1>2. escrow'[j].state = "Cancelled" /\ \A i \in JobIds \ {j} : escrow'[i] = escrow[i]
  BY <1>0 DEF EscrowInv, EscrowTypes, JobEscrow
<1> QED BY <1>1, <1>2, CancelOut, EndKeeps

\* Steps of the bridge and of the token program: a vault only gains.
LEMMA TokensKeep ==
  ASSUME EscrowInv, UNCHANGED <<escrow, paid_in, paid_out, strayed>>,
         balance' \in [Accounts -> Nat],
         \A j \in JobIds : balance'[Vault(j)] >= balance[Vault(j)]
  PROVE  EscrowInv'
<1>1. EscrowTypes' /\ Held' /\ Unsettled'
  BY DEF EscrowInv, EscrowTypes, Held, Unsettled, Live
<1>2. VaultCovers'
  <2> DEFINE owed(j) == IF Live(j) THEN escrow[j].locked_nmc ELSE paid_in[j] - paid_out[j]
  <2> SUFFICES ASSUME NEW j \in JobIds PROVE balance'[Vault(j)] >= owed(j)
    BY DEF VaultCovers, Live
  <2>1. /\ balance[Vault(j)] \in Int /\ balance'[Vault(j)] \in Int /\ owed(j) \in Int
        /\ balance[Vault(j)] >= owed(j)
    BY AccountsDiffer DEF EscrowInv, EscrowTypes, JobEscrow, VaultCovers
  <2> HIDE DEF owed
  <2> QED BY <2>1
<1> QED BY <1>1, <1>2 DEF EscrowInv

\* Every instruction keeps the escrows' invariant.
LEMMA NextEscrow == BridgeInv /\ EscrowInv /\ [Next]_vars => EscrowInv'
<1> SUFFICES ASSUME BridgeInv, EscrowInv, [Next]_vars PROVE EscrowInv'
  OBVIOUS
<1>0. ASSUME UNCHANGED escrowVars PROVE EscrowInv'
  BY <1>0 DEF escrowVars, EscrowInv, EscrowTypes, Held, Unsettled, VaultCovers, Live
<1>1. CASE AdminStep
  <2>1. ASSUME NEW w \in Wallets, NEW c, NEW f, NEW l, initialize(w, c, f, l) \/ update_config(w, f, l)
        PROVE  EscrowInv'
    BY <1>0, <2>1 DEF initialize, update_config, escrowVars, tokens, history
  <2>2. ASSUME NEW w \in Wallets, NEW p \in Providers, revoke_provider(p, w) \/ register_provider(p)
        PROVE  EscrowInv'
    BY <1>0, <2>2 DEF revoke_provider, register_provider, escrowVars, tokens, history
  <2> QED BY <1>1, <2>1, <2>2 DEF AdminStep
<1>2. CASE BridgeStep
  <2>0. /\ balance \in [Accounts -> Nat] /\ Amounts \subseteq Nat
        /\ Wallets \subseteq Accounts /\ TokenAccount \subseteq Accounts
        /\ \A j \in JobIds : Vault(j) \in Accounts /\ Vault(j) \notin Wallets
    BY SolanaAssumption, AccountsDiffer DEF EscrowInv, EscrowTypes, TokenAccount
  <2>1. ASSUME NEW w \in Wallets, NEW r \in TokenAccount, NEW a \in Amounts, NEW n \in Nonces,
               bridge_mint(w, r, a, n)
        PROVE  EscrowInv'
    <3>1. /\ balance' = [balance EXCEPT ![r] = @ + a] /\ UNCHANGED <<escrow, paid_in, paid_out, strayed>>
      BY <2>1 DEF bridge_mint
    <3>2. balance' \in [Accounts -> Nat] /\ \A x \in Accounts : balance'[x] >= balance[x]
      BY <2>0, <3>1
    <3> QED BY <2>0, <3>1, <3>2, TokensKeep
  <2>2. ASSUME NEW w \in Wallets, NEW a \in Amounts, bridge_burn(w, a) \/ spl_burn(w, a)
        PROVE  EscrowInv'
    <3>1. /\ balance[w] >= a /\ balance' = [balance EXCEPT ![w] = @ - a]
          /\ UNCHANGED <<escrow, paid_in, paid_out, strayed>>
      BY <2>2 DEF bridge_burn, spl_burn, history
    <3>2. balance' \in [Accounts -> Nat] /\ \A x \in Accounts \ Wallets : balance'[x] >= balance[x]
      BY <2>0, <3>1
    <3> QED BY <2>0, <3>1, <3>2, TokensKeep
  <2>3. ASSUME NEW w \in Wallets, NEW a \in Amounts, NEW to \in TokenAccount, spl_transfer(w, to, a)
        PROVE  EscrowInv'
    <3>1. /\ balance[w] >= a /\ balance' = Moved(balance, w, to, a)
          /\ UNCHANGED <<escrow, paid_in, paid_out, strayed>>
      BY <2>3 DEF spl_transfer, history
    <3>2. /\ balance' \in [Accounts -> Nat]
          /\ \A i \in JobIds : /\ balance'[Vault(i)] >= balance[Vault(i)] - Left(i, w, to, a)
                               /\ w # Vault(i) => Left(i, w, to, a) = 0
      BY <2>0, <3>1, MovedVault
    <3>3. \A i \in JobIds : balance[Vault(i)] \in Nat /\ w # Vault(i)
      BY <2>0
    <3>4. \A i \in JobIds : balance'[Vault(i)] >= balance[Vault(i)]
      BY <3>2, <3>3
    <3> QED BY <3>1, <3>2, <3>4, TokensKeep
  <2> QED BY <1>2, <2>1, <2>2, <2>3 DEF BridgeStep
<1>3. CASE EscrowStep
  <2>1. config.platform_fee_bps \in 0 .. MAX_FEE_BPS
    BY DEF BridgeInv, ProgramConfig
  <2> QED
    BY <1>3, <2>1, CreateEscrowKeeps, LockEscrowKeeps, ReleaseEscrowKeeps, CancelEscrowKeeps
       DEF EscrowStep
<1>4. CASE UNCHANGED vars
  BY <1>0, <1>4 DEF vars, escrowVars, tokens, history
<1> QED BY <1>1, <1>2, <1>3, <1>4 DEF Next

-----------------------------------------------------------------------------
\* The three groups hold initially.
LEMMA InitIInv == Init => IInv
BY InitBridge, InitProvider, InitEscrow DEF IInv

\* Every step keeps the three groups.
LEMMA NextIInv == IInv /\ [Next]_vars => IInv'
BY NextBridge, NextProvider, NextEscrow DEF IInv

\* Accounts, records, escrows and balances keep their types; the fee stays
\* within its cap and the totals within 64 bits.
THEOREM SolanaTypeCorrect == Spec => []TypeOK
<1>1. IInv => TypeOK
  BY DEF IInv, BridgeInv, ProviderInv, EscrowInv, EscrowTypes, TypeOK
<1> QED BY <1>1, InitIInv, NextIInv, PTL DEF Spec

\* A bridge deposit is minted at most once, in the order of the nonces.
THEOREM DepositsAreMintedOnce == Spec => []MintedOnceInOrder
<1>1. IInv => MintedOnceInOrder
  BY DEF IInv, BridgeInv
<1> QED BY <1>1, InitIInv, NextIInv, PTL DEF Spec

\* The supply never exceeds what the bridge minted less what it burned.
THEOREM SupplyIsTracked == Spec => []SupplyTracked
<1>1. IInv => SupplyTracked
  BY DEF IInv, BridgeInv
<1> QED BY <1>1, InitIInv, NextIInv, PTL DEF Spec

\* The vault of a live escrow holds at least what it locked.
THEOREM VaultsCover == Spec => []VaultCovers
<1>1. IInv => VaultCovers
  BY DEF IInv, EscrowInv
<1> QED BY <1>1, InitIInv, NextIInv, PTL DEF Spec

\* A wallet gets one provider NFT in its life.
THEOREM NftsAreUnique == Spec => []OneNft
<1>1. IInv => OneNft
  BY DEF IInv, ProviderInv
<1> QED BY <1>1, InitIInv, NextIInv, PTL DEF Spec

-----------------------------------------------------------------------------
(* SolanaProgram implements AbstractEscrow *)

\* What AbstractEscrow sees of one job.
AbstractJob(esc, held, stray) ==
  [phase |-> IF stray THEN "Stranded" ELSE esc.state, deposit |-> esc.locked_nmc, vault |-> held,
   cost |-> esc.actual_cost, fee |-> esc.fee_collected]

\* An instruction on one escrow changes one entry of the abstract state.
LEMMA OneEntry ==
  ASSUME NEW j \in JobIds, NEW r,
         \A i \in JobIds \ {j} : /\ escrow'[i] = escrow[i]
                                 /\ paid_in'[i] = paid_in[i] /\ paid_out'[i] = paid_out[i]
                                 /\ i \in strayed' <=> i \in strayed,
         r = AbstractJob(escrow'[j], paid_in'[j] - paid_out'[j], j \in strayed')
  PROVE  AbstractState' = [AbstractState EXCEPT ![j] = r]
BY DEF AbstractState, AbstractJob

\* The refinement mapping, job by job.
LEMMA EntryOf ==
  ASSUME NEW j \in JobIds
  PROVE  AbstractState[j] = AbstractJob(escrow[j], paid_in[j] - paid_out[j], j \in strayed)
BY DEF AbstractState, AbstractJob

\* The entry of a live escrow: its vault holds the deposit.
LEMMA LiveEntry ==
  ASSUME EscrowInv, NEW j \in JobIds, Live(j)
  PROVE  LET d == escrow[j].locked_nmc IN
         /\ d \in Nat /\ j \notin strayed
         /\ AbstractState[j] = [phase |-> escrow[j].state, deposit |-> d, vault |-> d,
                                cost |-> 0, fee |-> 0]
<1>1. /\ escrow[j].locked_nmc \in Nat /\ j \notin strayed
      /\ paid_in[j] - paid_out[j] = escrow[j].locked_nmc
      /\ escrow[j].actual_cost = 0 /\ escrow[j].fee_collected = 0
  BY DEF EscrowInv, EscrowTypes, JobEscrow, Held, Live, Unsettled
<1> QED BY <1>1, EntryOf DEF AbstractJob

\* Initial states map to initial states.
LEMMA InitAbstract == Init => Abstract!Init
BY DEF Init, Abstract!Init, Abstract!NoEscrow, AbstractState, NoEscrow

\* create_escrow is Create.
LEMMA CreateAbstract ==
  ASSUME EscrowInv, NEW j \in JobIds, NEW w \in Wallets, NEW p \in Wallets, NEW a \in Amounts,
         create_escrow(j, w, p, a)
  PROVE  Abstract!Create(j)
<1> DEFINE r == [phase |-> "Open", deposit |-> a, vault |-> a, cost |-> 0, fee |-> 0]
<1>0. /\ escrow[j].state = "None" /\ j \notin strayed /\ strayed' = strayed
      /\ paid_in[j] - paid_out[j] = 0
      /\ escrow[j].locked_nmc = 0 /\ escrow[j].actual_cost = 0 /\ escrow[j].fee_collected = 0
  BY DEF create_escrow, CreateEscrow, EscrowInv, Held, Live, Unsettled
<1>1. AbstractState[j] = Abstract!NoEscrow
  BY <1>0, EntryOf DEF AbstractJob, Abstract!NoEscrow
<1>2. a \in Nat /\ paid_in[j] \in Nat /\ paid_out[j] \in Nat
  BY SolanaAssumption DEF EscrowInv, EscrowTypes
<1>3. /\ paid_in'[j] = paid_in[j] + a /\ paid_out'[j] = paid_out[j]
      /\ escrow'[j].state = "Open" /\ escrow'[j].locked_nmc = a
      /\ escrow'[j].actual_cost = 0 /\ escrow'[j].fee_collected = 0
      /\ \A i \in JobIds \ {j} : /\ escrow'[i] = escrow[i]
                                 /\ paid_in'[i] = paid_in[i] /\ paid_out'[i] = paid_out[i]
  BY DEF create_escrow, EscrowInv, EscrowTypes
<1>4. paid_in'[j] - paid_out'[j] = a
  <2>1. \A x, y \in Nat : x - y = 0 => (x + a) - y = a
    BY <1>2
  <2> QED BY <1>0, <1>2, <1>3, <2>1
<1>5. r = AbstractJob(escrow'[j], paid_in'[j] - paid_out'[j], j \in strayed')
  BY <1>0, <1>3, <1>4 DEF AbstractJob
<1> HIDE DEF r
<1>6. AbstractState' = [AbstractState EXCEPT ![j] = r]
  BY <1>0, <1>3, <1>5, OneEntry
<1> QED BY <1>1, <1>6 DEF Abstract!Create, r

\* lock_escrow is Lock.
LEMMA LockAbstract ==
  ASSUME EscrowInv, NEW j \in JobIds, NEW w \in Wallets, lock_escrow(j, w)
  PROVE  Abstract!Lock(j)
<1> DEFINE d == escrow[j].locked_nmc
           r == [phase |-> "Locked", deposit |-> d, vault |-> d, cost |-> 0, fee |-> 0]
<1>0. escrow[j].state = "Open" /\ Live(j)
  BY DEF lock_escrow, Live
<1>1. /\ AbstractState[j] = [phase |-> "Open", deposit |-> d, vault |-> d, cost |-> 0, fee |-> 0]
      /\ j \notin strayed
  BY <1>0, LiveEntry
<1>2. paid_in[j] - paid_out[j] = d
  BY <1>0 DEF EscrowInv, Held
<1>3. /\ escrow'[j].state = "Locked" /\ escrow'[j].locked_nmc = d
      /\ escrow'[j].actual_cost = 0 /\ escrow'[j].fee_collected = 0
      /\ paid_in' = paid_in /\ paid_out' = paid_out /\ strayed' = strayed
      /\ \A i \in JobIds \ {j} : escrow'[i] = escrow[i]
  BY DEF lock_escrow, history, EscrowInv, EscrowTypes, JobEscrow, Unsettled
<1>4. r = AbstractJob(escrow'[j], paid_in'[j] - paid_out'[j], j \in strayed')
  BY <1>1, <1>2, <1>3 DEF AbstractJob
<1>5. AbstractState[j].deposit = d
  BY <1>1
<1> HIDE DEF r, d
<1>6. AbstractState' = [AbstractState EXCEPT ![j] = r]
  BY <1>3, <1>4, OneEntry
<1> QED BY <1>1, <1>5, <1>6 DEF Abstract!Lock, r

\* An escrow that ends maps to Release or Cancel with its vault emptied, or to
\* Strand.
LEMMA EndAbstract ==
  ASSUME EscrowInv, NEW j \in JobIds, Live(j),
         NEW out \in 0 .. escrow[j].locked_nmc, NEW cost \in 0 .. escrow[j].locked_nmc,
         NEW fee \in 0 .. cost, fee * 10 <= cost,
         escrow'[j].locked_nmc = escrow[j].locked_nmc,
         escrow'[j].actual_cost = cost, escrow'[j].fee_collected = fee,
         \/ escrow[j].state = "Locked" /\ escrow'[j].state = "Settled"
         \/ escrow'[j].state = "Cancelled" /\ cost = 0 /\ fee = 0,
         \A i \in JobIds \ {j} : escrow'[i] = escrow[i],
         paid_in' = paid_in, paid_out' = [paid_out EXCEPT ![j] = @ + out],
         strayed' \in {strayed, strayed \cup {j}},
         j \notin strayed' => out = escrow[j].locked_nmc
  PROVE  Abstract!Release(j) \/ Abstract!Cancel(j) \/ Abstract!Strand(j)
<1> DEFINE d == escrow[j].locked_nmc
           r == AbstractJob(escrow'[j], paid_in'[j] - paid_out'[j], j \in strayed')
<1>1. /\ d \in Nat /\ escrow[j].state \in {"Open", "Locked"}
      /\ AbstractState[j] = [phase |-> escrow[j].state, deposit |-> d, vault |-> d,
                             cost |-> 0, fee |-> 0]
  BY LiveEntry DEF Live
<1>2. /\ paid_in[j] \in Nat /\ paid_out[j] \in Nat /\ paid_in[j] - paid_out[j] = d
      /\ paid_out'[j] = paid_out[j] + out /\ paid_in'[j] = paid_in[j]
  BY DEF EscrowInv, EscrowTypes, Held
<1>3. paid_in'[j] - paid_out'[j] = d - out
  <2>1. d \in Int /\ out \in Int
    BY <1>1
  <2> HIDE DEF d
  <2> QED BY <1>2, <2>1
<1>4. AbstractState' = [AbstractState EXCEPT ![j] = r]
  <2> HIDE DEF r
  <2>1. \A i \in JobIds \ {j} : /\ paid_in'[i] = paid_in[i] /\ paid_out'[i] = paid_out[i]
                                /\ i \in strayed' <=> i \in strayed
    BY DEF EscrowInv, EscrowTypes
  <2> QED BY <2>1, OneEntry DEF r
<1>5. AbstractState \in [JobIds -> {AbstractState[i] : i \in JobIds}]
  BY DEF AbstractState
<1>6. AbstractState[j].deposit = d /\ AbstractState[j].vault = d
      /\ AbstractState[j].phase = escrow[j].state
  BY <1>1
<1>7. CASE j \in strayed'
  <2>1. r = [phase |-> "Stranded", deposit |-> d, vault |-> d - out, cost |-> cost, fee |-> fee]
    BY <1>3, <1>7 DEF AbstractJob
  <2>2. cost \in 0 .. d /\ fee \in 0 .. d /\ d - out \in 0 .. d /\ 10 * fee <= cost
    BY <1>1
  <2> HIDE DEF r, d
  <2>3. AbstractState'[j] = r
    BY <1>4, <1>5
  <2>4. /\ r \in [phase : {"Stranded"}, deposit : {d}, vault : 0 .. d, cost : 0 .. d, fee : 0 .. d]
        /\ r.fee = fee /\ r.cost = cost
    BY <2>1, <2>2
  <2> QED BY <1>1, <1>4, <1>6, <2>2, <2>3, <2>4 DEF Abstract!Strand
<1>8. CASE j \notin strayed'
  <2>0. d - out = 0
    BY <1>1, <1>8
  <2>1. r = [phase |-> escrow'[j].state, deposit |-> d, vault |-> 0, cost |-> cost, fee |-> fee]
    BY <1>3, <1>8, <2>0 DEF AbstractJob
  <2>2. CASE escrow[j].state = "Locked" /\ escrow'[j].state = "Settled"
    <3>1. cost \in 0 .. d /\ fee \in 0 .. (d \div 10) /\ cost \in (10 * fee) .. d
      BY <1>1
    <3> HIDE DEF r, d
    <3> QED BY <1>1, <1>4, <1>6, <2>1, <2>2, <3>1 DEF Abstract!Release
  <2>3. CASE escrow'[j].state = "Cancelled" /\ cost = 0 /\ fee = 0
    <3> HIDE DEF r, d
    <3> QED BY <1>1, <1>4, <1>6, <2>1, <2>3 DEF Abstract!Cancel
  <2> QED BY <2>2, <2>3
<1> QED BY <1>7, <1>8

\* release_escrow is Release: its three transfers empty what the vault holds
\* for the job; or Strand.
LEMMA ReleaseAbstract ==
  ASSUME EscrowInv, config.platform_fee_bps \in 0 .. MAX_FEE_BPS, NEW j \in JobIds,
         NEW w \in Wallets, NEW c \in Costs, NEW source \in HeldBy(j), NEW pa \in TokenAccount,
         NEW ca \in TokenAccount, release_escrow(j, w, c, source, pa, ca)
  PROVE  Abstract!Release(j) \/ Abstract!Cancel(j) \/ Abstract!Strand(j)
<1>0. PICK f \in Nat : /\ f * 10 <= c /\ f <= c
                       /\ escrow' = [escrow EXCEPT ![j] =
                            [@ EXCEPT !.state = "Settled", !.actual_cost = c, !.fee_collected = f]]
  <2>1. /\ Fee(c) \in Nat /\ Fee(c) * 10 <= c /\ Fee(c) <= c
        /\ escrow' = [escrow EXCEPT ![j] = [@ EXCEPT !.state = "Settled", !.actual_cost = c,
                                                     !.fee_collected = Fee(c)]]
    BY ReleaseOut
  <2> QED BY <2>1
<1>1. /\ escrow'[j].state = "Settled" /\ escrow'[j].locked_nmc = escrow[j].locked_nmc
      /\ escrow'[j].actual_cost = c /\ escrow'[j].fee_collected = f
      /\ \A i \in JobIds \ {j} : escrow'[i] = escrow[i]
  BY <1>0 DEF EscrowInv, EscrowTypes, JobEscrow
<1>2. c \in 0 .. escrow[j].locked_nmc /\ escrow[j].state = "Locked" /\ Live(j)
  BY ReleaseOut DEF Live
<1>3. f \in 0 .. c /\ f * 10 <= c
  BY <1>0, SolanaAssumption
<1> QED BY <1>1, <1>2, <1>3, ReleaseOut, EndAbstract

\* cancel_escrow is Cancel, or Strand.
LEMMA CancelAbstract ==
  ASSUME EscrowInv, NEW j \in JobIds, NEW source \in HeldBy(j), NEW ca \in TokenAccount,
         cancel_escrow(j, source, ca)
  PROVE  Abstract!Release(j) \/ Abstract!Cancel(j) \/ Abstract!Strand(j)
<1>0. Live(j) /\ escrow' = [escrow EXCEPT ![j] = [@ EXCEPT !.state = "Cancelled"]]
  BY CancelOut
<1>1. /\ escrow'[j].state = "Cancelled" /\ escrow'[j].locked_nmc = escrow[j].locked_nmc
      /\ escrow'[j].actual_cost = 0 /\ escrow'[j].fee_collected = 0
      /\ \A i \in JobIds \ {j} : escrow'[i] = escrow[i]
  BY <1>0 DEF EscrowInv, EscrowTypes, JobEscrow, Unsettled, Live
<1>2. 0 \in 0 .. escrow[j].locked_nmc /\ 0 \in 0 .. 0 /\ 0 * 10 <= 0
  BY DEF EscrowInv, EscrowTypes, JobEscrow
<1> QED BY <1>0, <1>1, <1>2, CancelOut, EndAbstract

\* Every instruction maps to an abstract step or to none.
LEMMA NextAbstract == IInv /\ [Next]_vars => [Abstract!Next]_AbstractState
<1> SUFFICES ASSUME IInv, [Next]_vars
             PROVE  Abstract!Next \/ UNCHANGED AbstractState
  OBVIOUS
<1>0. EscrowInv /\ config.platform_fee_bps \in 0 .. MAX_FEE_BPS
  BY DEF IInv, BridgeInv, ProgramConfig
<1>1. CASE EscrowStep
  BY <1>0, <1>1, CreateAbstract, LockAbstract, ReleaseAbstract, CancelAbstract
     DEF EscrowStep, Abstract!Next
<1>2. CASE AdminStep \/ BridgeStep \/ UNCHANGED vars
  <2>1. UNCHANGED <<escrow, paid_in, paid_out, strayed>>
    BY <1>2 DEF AdminStep, BridgeStep, initialize, update_config, revoke_provider,
                register_provider, bridge_mint, bridge_burn, spl_transfer, spl_burn, history, vars
  <2> QED BY <2>1 DEF AbstractState
<1> QED BY <1>1, <1>2 DEF Next

\* release_escrow and cancel_escrow implement the abstract escrow with strays:
\* a deposit is taken once and leaves its vault at most once, when its job
\* ends, completely and with a capped fee if the instruction names the vault
\* and pays into other accounts; what a stray one leaves inside stays there.
THEOREM SolanaImplementsAbstract == Spec => ImplementsEscrow
BY InitIInv, NextIInv, InitAbstract, NextAbstract, PTL
   DEF Spec, ImplementsEscrow, Abstract!Spec

-----------------------------------------------------------------------------
(* What was agreed stays *)

\* The parties and the amount of a created escrow, and everything about one
\* that has ended.
AgreementKept ==
  \A j \in JobIds : escrow[j].state # "None" =>
    /\ escrow'[j].consumer = escrow[j].consumer /\ escrow'[j].provider = escrow[j].provider
    /\ escrow'[j].locked_nmc = escrow[j].locked_nmc /\ escrow'[j].state # "None"
    /\ escrow[j].state \in {"Settled", "Cancelled"} => escrow'[j] = escrow[j]

\* Each instruction keeps it.
LEMMA StepKeepsAgreement == EscrowTypes /\ [Next]_vars => AgreementKept
<1> SUFFICES ASSUME EscrowTypes, [Next]_vars, NEW j \in JobIds, escrow[j].state # "None"
             PROVE  /\ escrow'[j].consumer = escrow[j].consumer /\ escrow'[j].provider = escrow[j].provider
                    /\ escrow'[j].locked_nmc = escrow[j].locked_nmc /\ escrow'[j].state # "None"
                    /\ escrow[j].state \in {"Settled", "Cancelled"} => escrow'[j] = escrow[j]
  BY DEF AgreementKept
<1>0. escrow \in [JobIds -> JobEscrow] /\ escrow[j] \in JobEscrow
  BY DEF EscrowTypes
<1>1. ASSUME NEW i \in JobIds, NEW w, NEW p, NEW a, create_escrow(i, w, p, a)
      PROVE  escrow'[j] = escrow[j]
  BY <1>0, <1>1 DEF create_escrow, CreateEscrow
<1>2. ASSUME NEW i \in JobIds, NEW w, lock_escrow(i, w)
      PROVE  \/ escrow'[j] = escrow[j]
             \/ escrow[j].state = "Open" /\ escrow'[j] = [escrow[j] EXCEPT !.state = "Locked"]
  BY <1>0, <1>2 DEF lock_escrow
<1>3. ASSUME NEW i \in JobIds, NEW w, NEW c, NEW s, NEW pa, NEW ca, release_escrow(i, w, c, s, pa, ca)
      PROVE  \/ escrow'[j] = escrow[j]
             \/ /\ escrow[j].state = "Locked"
                /\ escrow'[j] = [escrow[j] EXCEPT !.state = "Settled", !.actual_cost = c, !.fee_collected = Fee(c)]
  BY <1>0, <1>3 DEF release_escrow
<1>4. ASSUME NEW i \in JobIds, NEW s, NEW ca, cancel_escrow(i, s, ca)
      PROVE  \/ escrow'[j] = escrow[j]
             \/ escrow[j].state \in {"Open", "Locked"} /\ escrow'[j] = [escrow[j] EXCEPT !.state = "Cancelled"]
  BY <1>0, <1>4 DEF cancel_escrow, Refund, Live
<1>5. ASSUME AdminStep \/ BridgeStep \/ UNCHANGED vars PROVE escrow'[j] = escrow[j]
  BY <1>5 DEF AdminStep, BridgeStep, initialize, update_config, revoke_provider,
              register_provider, bridge_mint, bridge_burn, spl_transfer, spl_burn, vars
<1>6. \/ escrow'[j] = escrow[j]
      \/ escrow[j].state = "Open" /\ escrow'[j] = [escrow[j] EXCEPT !.state = "Locked"]
      \/ /\ escrow[j].state = "Locked"
         /\ \E c : escrow'[j] = [escrow[j] EXCEPT !.state = "Settled", !.actual_cost = c, !.fee_collected = Fee(c)]
      \/ escrow[j].state \in {"Open", "Locked"} /\ escrow'[j] = [escrow[j] EXCEPT !.state = "Cancelled"]
  BY <1>1, <1>2, <1>3, <1>4, <1>5 DEF Next, EscrowStep
<1>7. PICK e, r : e = escrow[j] /\ r = escrow'[j]
  OBVIOUS
<1>8. e \in JobEscrow
  BY <1>0, <1>7
<1>9. \/ r = e
      \/ e.state = "Open" /\ r = [e EXCEPT !.state = "Locked"]
      \/ /\ e.state = "Locked"
         /\ \E c : r = [e EXCEPT !.state = "Settled", !.actual_cost = c, !.fee_collected = Fee(c)]
      \/ e.state \in {"Open", "Locked"} /\ r = [e EXCEPT !.state = "Cancelled"]
  BY <1>6, <1>7
<1> DEFINE Kept == /\ r.consumer = e.consumer /\ r.provider = e.provider
                   /\ r.locked_nmc = e.locked_nmc /\ r.state # "None"
                   /\ e.state \in {"Settled", "Cancelled"} => r = e
<1>10. Kept
  <2>1. CASE r = e
    BY <1>7, <2>1
  <2>2. CASE e.state = "Open" /\ r = [e EXCEPT !.state = "Locked"]
    BY <1>8, <2>2 DEF JobEscrow
  <2>3. ASSUME e.state = "Locked",
               NEW c, r = [e EXCEPT !.state = "Settled", !.actual_cost = c, !.fee_collected = Fee(c)]
        PROVE  Kept
    BY <1>8, <2>3 DEF JobEscrow
  <2>4. CASE e.state \in {"Open", "Locked"} /\ r = [e EXCEPT !.state = "Cancelled"]
    BY <1>8, <2>4 DEF JobEscrow
  <2> QED BY <1>9, <2>1, <2>2, <2>3, <2>4
<1> QED BY <1>7, <1>10

\* create_escrow, lock_escrow, release_escrow, cancel_escrow: once an escrow is
\* created no instruction changes its parties or its amount, and once it has
\* ended its account never changes again, so a job id is used once.
THEOREM AgreementIsKept == Spec => [][AgreementKept]_vars
<1>1. IInv /\ [Next]_vars => AgreementKept
  BY StepKeepsAgreement DEF IInv, EscrowInv
<1> QED BY <1>1, InitIInv, NextIInv, PTL DEF Spec
=============================================================================
