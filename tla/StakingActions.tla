---------------------------- MODULE StakingActions ---------------------------
(***************************************************************************)
(* The staking transactions: the API builds one over what it reads of the  *)
(* pool and of the stake account, stores the address of the account it     *)
(* will create, and the wallet signs and sends it later, or never.  The    *)
(* staking program executes it (external).  An account is listed, unstaked *)
(* and withdrawn only through its row in staking_native_accounts.          *)
(***************************************************************************)
EXTENDS Integers, FiniteSets, Sequences, FiniteSetsExt, SequencesExt

CONSTANTS
  StakePools,     \* bound: lamports, pool tokens, and what the reserve has above its rent
  ValidatorLists, \* bound: status and active stake of the validators of the pool
  Lamports,       \* bound: the amounts asked for
  NativePage,     \* pageSize of the native positions
  MaxBuilds,      \* bound: transactions built
  MaxEpoch,       \* bound
  MaxBlock        \* bound: recent blockhashes

ASSUME ActionsAssumption ==
  /\ StakePools \subseteq [total : Nat, supply : Nat, available : Int]
  /\ Lamports \subseteq Nat \ {0} /\ NativePage \in Nat \ {0}
  /\ MaxBuilds \in Nat /\ MaxEpoch \in Nat \ {0} /\ MaxBlock \in Nat \ {0}

VARIABLES
  pool, validators, epoch, block,
  rows,     \* staking_native_accounts, in the order of creation
  stakes,   \* the stake accounts on the chain, by address
  built,    \* the transactions built and not yet executed
  builds

actionVars == <<pool, validators, epoch, block, rows, stakes, built, builds>>

Never == MaxEpoch + 1 \* MAX_U64: not deactivated
None == [m \in {} |-> 0]

ActionsTypeOK ==
  /\ pool.available \in Int /\ pool.total >= 0 /\ pool.supply >= 0
  /\ epoch \in 1..MaxEpoch /\ block \in 1..MaxBlock /\ builds \in 0..MaxBuilds
  /\ IsInjective(rows)
  /\ \A a \in DOMAIN stakes : stakes[a].activation \in 0..MaxEpoch /\ stakes[a].deactivation \in 0..Never
  /\ \A tx \in built : tx.block <= block

ActionsInit ==
  /\ pool \in StakePools /\ validators \in ValidatorLists
  /\ epoch = 1 /\ block = 1 /\ rows = <<>> /\ stakes = None /\ built = {} /\ builds = 0

(* lamportsToPoolTokens, poolTokensToLamports.                             *)
LamportsToPoolTokens(lamports) ==
  IF lamports = 0 \/ pool.total = 0 THEN 0 ELSE (lamports * pool.supply) \div pool.total
PoolTokensToLamports(tokens) ==
  IF tokens = 0 \/ pool.supply = 0 THEN 0 ELSE (tokens * pool.total) \div pool.supply

(* requiredLamports: rounded up.                                           *)
RequiredLamports(tokens) ==
  IF pool.supply > 0 THEN (tokens * pool.total + pool.supply - 1) \div pool.supply ELSE tokens

(* classifyNativeStakeStatus.                                              *)
Status(stake) ==
  IF stake.deactivation # Never
  THEN IF epoch > stake.deactivation THEN "inactive" ELSE "deactivating"
  ELSE IF epoch > stake.activation THEN "active" ELSE "activating"

(* The validators a withdrawal of stake may come from.                     *)
WithdrawableFrom == {i \in DOMAIN validators : validators[i].status = 0 /\ validators[i].stake > 0}

(* selectFallbackValidator: the first, by stake, that covers the amount,   *)
(* or the largest one.                                                     *)
SelectFallbackValidator(tokens) ==
  LET sorted == SortSeq(SetToSeq(WithdrawableFrom), LAMBDA i, j : validators[i].stake > validators[j].stake
                                                       \/ (validators[i].stake = validators[j].stake /\ i < j))
      covering == {k \in DOMAIN sorted : validators[sorted[k]].stake >= RequiredLamports(tokens)}
  IN  IF covering # {} THEN sorted[Min(covering)] ELSE sorted[1]

Tx(kind, address, amount, validator) ==
  [kind |-> kind, address |-> address, amount |-> amount, validator |-> validator, block |-> block]

Build(tx) == built' = built \cup {tx} /\ builds < MaxBuilds /\ builds' = builds + 1

NoAddress == <<"none", 0>>

(* A liquid stake needs no account of its own.                             *)
BuildStake ==
  /\ \E amount \in Lamports : Build(Tx("stake", NoAddress, amount, 0))
  /\ UNCHANGED <<pool, validators, epoch, block, rows, stakes>>

(* A withdrawal the reserve can pay is paid in SOL, or one of a reserve    *)
(* below its own rent, which the program will refuse.                      *)
BuildUnstake ==
  /\ \E amount \in Lamports :
       /\ LamportsToPoolTokens(amount) > 0 /\ (amount <= pool.available \/ pool.available < 0)
       /\ Build(Tx("unstake", NoAddress, LamportsToPoolTokens(amount), 0))
  /\ UNCHANGED <<pool, validators, epoch, block, rows, stakes>>

(* The account a withdrawal of stake creates is derived from the blockhash:*)
(* two of one wallet within a block have the same.                         *)
Destination == <<"unstk", block>>

(* Mutant: the row is left to the execution, which writes none.            *)
TrackMutant(address) == UNCHANGED rows

(* The row of an address is unique: a second one fails the request.        *)
Track(address) == address \notin Range(rows) /\ rows' = Append(rows, address)

(* One the reserve cannot pay takes stake from a validator; without one    *)
(* the request is refused.                                                 *)
BuildFallback ==
  /\ \E amount \in Lamports :
       LET tokens == LamportsToPoolTokens(amount)
       IN  /\ tokens > 0 /\ amount > pool.available /\ pool.available >= 0 /\ WithdrawableFrom # {}
           /\ Build(Tx("fallback", Destination, tokens, SelectFallbackValidator(tokens)))
           /\ Track(Destination)
  /\ UNCHANGED <<pool, validators, epoch, block, stakes>>

(* A native stake with an approved validator, at an address of its own:    *)
(* its seed is the time and a random number.                               *)
BuildNativeStake ==
  /\ \E amount \in Lamports :
       Build(Tx("native", <<"native", builds>>, amount, 0)) /\ Track(<<"native", builds>>)
  /\ UNCHANGED <<pool, validators, epoch, block, stakes>>

(* requireOwnedNativeStake: only an account with a row is acted upon.      *)
Tracked(address) == address \in Range(rows)

BuildUnstakeNative ==
  /\ \E address \in Range(rows) : Build(Tx("deactivate", address, 0, 0))
  /\ UNCHANGED <<pool, validators, epoch, block, rows, stakes>>

(* A withdrawal is refused until the account exists and is inactive; its   *)
(* amount is not compared with what the account has.                       *)
BuildWithdraw ==
  /\ \E address \in DOMAIN stakes : \E amount \in Lamports \cup {stakes[address].lamports} :
       /\ amount > 0 /\ Tracked(address) /\ Status(stakes[address]) = "inactive"
       /\ Build(Tx("withdraw", address, amount, 0))
  /\ UNCHANGED <<pool, validators, epoch, block, rows, stakes>>

Account(activation, lamports) == [activation |-> activation, deactivation |-> Never, lamports |-> lamports]

Opened(address, account) ==
  [a \in DOMAIN stakes \cup {address} |-> IF a = address THEN account ELSE stakes[a]]

(* External: what the staking program does with a transaction whose block  *)
(* is recent; one it refuses leaves nothing behind.                        *)
Executes(tx) ==
  LET lamports == PoolTokensToLamports(tx.amount)
      burnt == [pool EXCEPT !.total = @ - lamports, !.supply = @ - tx.amount]
  IN  CASE tx.kind = "stake" ->
             /\ pool' = [pool EXCEPT !.total = @ + tx.amount, !.supply = @ + LamportsToPoolTokens(tx.amount),
                                     !.available = @ + tx.amount]
             /\ UNCHANGED <<stakes, validators>>
        [] tx.kind = "unstake" ->
             /\ lamports <= pool.available /\ tx.amount <= pool.supply
             /\ pool' = [burnt EXCEPT !.available = @ - lamports]
             /\ UNCHANGED <<stakes, validators>>
        [] tx.kind = "fallback" ->
             /\ tx.address \notin DOMAIN stakes /\ tx.amount <= pool.supply
             /\ validators[tx.validator].status = 0 /\ lamports <= validators[tx.validator].stake
             /\ pool' = burnt /\ stakes' = Opened(tx.address, Account(0, lamports))
             /\ validators' = [validators EXCEPT ![tx.validator].stake = @ - lamports]
        [] tx.kind = "native" ->
             tx.address \notin DOMAIN stakes /\ stakes' = Opened(tx.address, Account(epoch, tx.amount)) /\ UNCHANGED <<pool, validators>>
        [] tx.kind = "deactivate" ->
             /\ tx.address \in DOMAIN stakes /\ stakes[tx.address].deactivation = Never
             /\ stakes' = [stakes EXCEPT ![tx.address].deactivation = epoch]
             /\ UNCHANGED <<pool, validators>>
        [] OTHER ->
             /\ tx.address \in DOMAIN stakes /\ Status(stakes[tx.address]) = "inactive"
             /\ tx.amount <= stakes[tx.address].lamports
             /\ stakes' = IF tx.amount = stakes[tx.address].lamports
                          THEN [a \in DOMAIN stakes \ {tx.address} |-> stakes[a]]
                          ELSE [stakes EXCEPT ![tx.address].lamports = @ - tx.amount]
             /\ UNCHANGED <<pool, validators>>

(* executeTransaction: submitted and confirmed, or an error.               *)
ExecuteTransaction ==
  /\ \E tx \in built : tx.block >= block - 1 /\ Executes(tx) /\ built' = built \ {tx}
  /\ UNCHANGED <<epoch, block, rows, builds>>

Refused ==
  /\ \E tx \in built : built' = built \ {tx}
  /\ UNCHANGED <<pool, validators, epoch, block, rows, stakes, builds>>

NextBlock ==
  /\ block < MaxBlock /\ block' = block + 1
  /\ UNCHANGED <<pool, validators, epoch, rows, stakes, built, builds>>

(* External: an epoch ends; the rewards are part of the pool.              *)
NextEpoch ==
  /\ epoch < MaxEpoch /\ epoch' = epoch + 1
  /\ pool' = [pool EXCEPT !.total = IF @ > 0 THEN @ + 1 ELSE @]
  /\ UNCHANGED <<validators, block, rows, stakes, built, builds>>

ActionsStep ==
  \/ BuildStake \/ BuildUnstake \/ BuildFallback \/ BuildNativeStake \/ BuildUnstakeNative \/ BuildWithdraw
  \/ ExecuteTransaction \/ Refused \/ NextBlock \/ NextEpoch

-------------------------------------------------------------------------------
(* getNativePositions: the items of a page of the rows, newest first;      *)
(* those without an account on the chain are left out and still counted.   *)
NativePositions(n) ==
  LET newest == Reverse(rows)
      slice == SubSeq(newest, (n - 1) * NativePage + 1, Min({n * NativePage, Len(newest)}))
  IN  [items |-> Range(slice) \cap DOMAIN stakes, total |-> Len(rows)]

(***************************************************************************)
(* Properties                                                              *)
(***************************************************************************)

(* No stake is lost: whatever the wallet signs of what was built, in any   *)
(* order and however late, an account on the chain is on one page of the   *)
(* positions, and none is on two.                                          *)
StakesAreListed ==
  LET pages == 1..(Len(rows) \div NativePage + 1)
  IN  \A a \in DOMAIN stakes : Cardinality({n \in pages : a \in NativePositions(n).items}) = 1

===============================================================================
