---------------------------- MODULE TxEncoding ----------------------------
(***************************************************************************)
(* How ledger/src/on_chain/arbitrum.rs turns a settlement into the bytes   *)
(* it hands to eth_sendRawTransaction: wei conversion, ABI calldata and    *)
(* the RLP list of an EIP-1559 transaction; and, as the reference it is    *)
(* measured against, how a node reads those bytes back.  Bytes are numbers *)
(* in 0 .. 255, byte strings are sequences.  TLC's integers have 32 bits,  *)
(* so one NMC is UNIT wei instead of 10^18.  Hashes and signatures are     *)
(* opaque byte strings.                                                    *)
(***************************************************************************)
EXTENDS Integers, SequencesExt

CONSTANTS
  JobName,       \* JobName[j]: the bytes of a job id
  UNIT,          \* wei in one NMC
  MAX_U128,      \* the largest amount
  WORD,          \* bytes of an ABI word (32)
  EscrowAddress, \* 20 bytes
  Signatures     \* signatures that may come out: recovery id v and the halves r, s

\* A job id: a string of less than 64 KiB.
IsJobId(s) == s \in Seq(0 .. 255) /\ Len(s) < 65536

\* A word holds any number of the model, the contract's address and the halves
\* of a signature have their sizes, and different jobs have different ids.
ASSUME EncodingAssumption ==
  /\ WORD \in 4 .. 32
  /\ EscrowAddress \in Seq(0 .. 255) /\ Len(EscrowAddress) = 20
  /\ \A j \in DOMAIN JobName : IsJobId(JobName[j])
  /\ \A i, j \in DOMAIN JobName : JobName[i] = JobName[j] => i = j
  /\ \A sig \in Signatures : /\ sig.v \in {0, 1}
                             /\ sig.r \in Seq(0 .. 255) /\ Len(sig.r) = 32
                             /\ sig.s \in Seq(0 .. 255) /\ Len(sig.s) = 32

Zeros(n) == [i \in 1 .. n |-> 0]

\* The numbers of the model have at most four bytes (TLC's integers).
Numbers == {n \in Nat : n <= 2147483647}

\* The byte of weight 256^k.
ByteAt(n, k) == IF k > 3 THEN 0 ELSE (n \div <<1, 256, 65536, 16777216>>[k + 1]) % 256

\* to_be_bytes of an integer that is w bytes wide.
BigEndian(n, w) == [i \in 1 .. w |-> ByteAt(n, w - i)]

\* The bytes from the first one that is not 0.
Stripped(bytes) ==
  SubSeq(bytes, SelectInSeq(bytes, LAMBDA b : b # 0), Len(bytes))

-----------------------------------------------------------------------------
(* Amounts and ABI calldata *)

\* An amount of half NMC: the whole part and the fraction are scaled apart.
nmc_to_wei_u128(halves) ==
  (halves \div 2) * UNIT + ((halves % 2) * UNIT + 1) \div 2

\* The checked arithmetic of the conversion succeeds.
WeiFits(wei) == wei <= MAX_U128

\* Four bytes of a hash: distinct for the two functions.
selector(call) == IF call = "release" THEN <<17, 2, 3, 4>> ELSE <<33, 2, 3, 4>>

uint256_be(n) == BigEndian(n, WORD)

Padding(len) == Zeros((WORD - (len % WORD)) % WORD)

abi_encode_string(s) ==
  uint256_be(WORD) \o uint256_be(Len(s)) \o s \o Padding(Len(s))

abi_encode_string_uint256(s, value) ==
  uint256_be(2 * WORD) \o uint256_be(value) \o uint256_be(Len(s)) \o s \o Padding(Len(s))

\* The calldata of a settlement: [call, job, wei].
release_escrow_calldata(c) == selector("release") \o abi_encode_string_uint256(JobName[c.job], c.wei)
cancel_escrow_calldata(c)  == selector("cancel") \o abi_encode_string(JobName[c.job])
Calldata(c) == IF c.call = "release" THEN release_escrow_calldata(c) ELSE cancel_escrow_calldata(c)

-----------------------------------------------------------------------------
(* RLP *)

rlp_uint_bytes(n) == Stripped(BigEndian(n, 8))

rlp_length_encode(len) ==
  IF len < 56 THEN <<128 + len>>
  ELSE <<183 + Len(rlp_uint_bytes(len))>> \o rlp_uint_bytes(len)

\* Mutant: a byte from 128 on is taken for its own encoding.
rlp_append_uint_raw(buf, val) ==
  LET bytes == Stripped(BigEndian(val, 16)) IN
  buf \o IF val = 0 THEN <<128>>
         ELSE IF Len(bytes) = 1 /\ bytes[1] <= 128 THEN bytes
         ELSE rlp_length_encode(Len(bytes)) \o bytes

rlp_append_uint(buf, val) ==
  LET bytes == Stripped(BigEndian(val, 16)) IN
  buf \o IF val = 0 THEN <<128>>
         ELSE IF Len(bytes) = 1 /\ bytes[1] < 128 THEN bytes
         ELSE rlp_length_encode(Len(bytes)) \o bytes

rlp_append_bytes(buf, data) ==
  buf \o IF data = <<>> THEN <<128>> ELSE rlp_length_encode(Len(data)) \o data

rlp_encode_list(contents) ==
  (IF Len(contents) < 56 THEN <<192 + Len(contents)>>
   ELSE <<247 + Len(rlp_uint_bytes(Len(contents)))>> \o rlp_uint_bytes(Len(contents))) \o contents

\* The fields send_tx fills in; a gas price stands for the node's answer.
Eip1559Tx(nonce, c) ==
  [chain_id |-> 421614, nonce |-> nonce, max_priority_fee_per_gas |-> 100000000,
   max_fee_per_gas |-> (20000000 * 3) \div 2 + 100000000, gas_limit |-> 150000,
   to |-> EscrowAddress, value |-> 0, data |-> Calldata(c), access_list |-> <<>>]

\* The nine fields, in the order of EIP-1559.
tx_fields(tx) ==
  LET b1 == rlp_append_uint(<<>>, tx.chain_id)
      b2 == rlp_append_uint(b1, tx.nonce)
      b3 == rlp_append_uint(b2, tx.max_priority_fee_per_gas)
      b4 == rlp_append_uint(b3, tx.max_fee_per_gas)
      b5 == rlp_append_uint(b4, tx.gas_limit)
      b6 == rlp_append_bytes(b5, tx.to)
      b7 == rlp_append_uint(b6, tx.value)
      b8 == rlp_append_bytes(b7, tx.data)
  IN  rlp_append_bytes(b8, tx.access_list)

\* What is hashed and signed.
signing_payload(tx) == <<2>> \o rlp_encode_list(tx_fields(tx))

\* The signed transaction; the halves are 32 bytes each, whatever they are.
sign_and_encode(tx, sig) ==
  <<2>> \o rlp_encode_list(rlp_append_bytes(
             rlp_append_bytes(rlp_append_uint(tx_fields(tx), sig.v), sig.r), sig.s))

-----------------------------------------------------------------------------
(* The reference: how a node reads RLP and the contract its calldata. *)

FromBytes(bytes) == FoldLeft(LAMBDA acc, b : 256 * acc + b, 0, bytes)

\* The item at position p whose payload of n bytes follows k bytes of length.
Item(s, p, kind, k, n) ==
  [kind |-> kind, payload |-> SubSeq(s, p + k + 1, p + k + n), next |-> p + k + n + 1]

LongItem(s, p, kind, k) == Item(s, p, kind, k, FromBytes(SubSeq(s, p + 1, p + k)))

\* The item at position p: its kind, its payload and where the next one starts.
ItemAt(s, p) ==
  LET b == s[p]
  IN  CASE b < 128 -> [kind |-> "string", payload |-> <<b>>, next |-> p + 1]
        [] b \in 128 .. 183 -> Item(s, p, "string", 0, b - 128)
        [] b \in 184 .. 191 -> LongItem(s, p, "string", b - 183)
        [] b \in 192 .. 247 -> Item(s, p, "list", 0, b - 192)
        [] OTHER -> LongItem(s, p, "list", b - 247)

\* The items of a list's payload.
Items(s) ==
  LET from[p \in 1 .. Len(s) + 1] ==
        IF p > Len(s) THEN <<>>
        ELSE LET it == ItemAt(s, p)
             IN  <<it>> \o IF it.next \in p + 1 .. Len(s) + 1 THEN from[it.next] ELSE <<>>
  IN  from[1]

\* An integer has no leading zero byte.
CanonicalUint(it) == it.kind = "string" /\ (it.payload = <<>> \/ it.payload[1] # 0)

\* The contract's reading of (string) and (string, uint256).
AbiUint(args, at) == FromBytes(SubSeq(args, at + 1, at + WORD))
AbiString(args, at) ==
  LET off == AbiUint(args, at)
      len == AbiUint(args, off)
  IN  SubSeq(args, off + WORD + 1, off + WORD + len)

\* The call in some calldata.
ReadCall(data) ==
  LET args == SubSeq(data, 5, Len(data))
      call == IF SubSeq(data, 1, 4) = selector("release") THEN "release" ELSE "cancel"
  IN  [call |-> call,
       job  |-> CHOOSE j \in DOMAIN JobName : JobName[j] = AbiString(args, 0),
       wei  |-> IF call = "release" THEN AbiUint(args, WORD) ELSE 0]

\* The items of a raw transaction of type 2.
TxItems(raw) == IF raw[1] = 2 THEN Items(ItemAt(raw, 2).payload) ELSE <<>>

\* The node can read a transaction of these items, except perhaps for its
\* access list.
Readable(it) ==
  /\ Len(it) = 12
  /\ \A i \in {1, 2, 3, 4, 5, 7, 10, 11, 12} : CanonicalUint(it[i])
  /\ it[6].kind = "string" /\ Len(it[6].payload) = 20 /\ it[8].kind = "string"

\* What the node and the contract take these items to say.
ReadTx(it) ==
  [nonce |-> FromBytes(it[2].payload), to |-> it[6].payload, c |-> ReadCall(it[8].payload)]
=============================================================================
