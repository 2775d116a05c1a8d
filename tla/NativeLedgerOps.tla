--------------------------- MODULE NativeLedgerOps ---------------------------
(***************************************************************************)
(* The native accounting kernel of crates/boole-core/src/native_ledger.rs  *)
(* as pure operators: the ledger value, the emission schedule, the steps   *)
(* that apply one block, the undo record each step extends, and the        *)
(* inverse of a block.  NativeLedger takes the steps one at a time;        *)
(* ApplyBlock folds them, for the modules above.                           *)
(*                                                                         *)
(* A BTreeMap is a total function whose absent keys hold None.  An undo    *)
(* map additionally holds Untouched at the keys it does not mention.       *)
(* Cryptography, hexadecimal and decimal syntax and the payload schema are *)
(* one Boolean of an envelope, `authentic`.                                *)
(***************************************************************************)
EXTENDS Integers, Sequences, FiniteSets, SequencesExt

CONSTANTS
    Accounts,        \* public keys
    Envelopes,       \* the transfers anyone may offer or put into a block
    None,            \* an absent map entry (Option::None)
    Untouched,       \* a key an undo map does not mention
    TotalSupply,     \* EmissionSchedule::total_supply
    InitialReward,   \* EmissionSchedule::initial_reward
    HalvingEpoch,    \* EmissionSchedule::halving_epoch, in blocks
    MinimumFee,      \* NativeLedger::minimum_fee
    RewardMaturity,  \* NativeLedger::reward_maturity, in blocks
    AmountBits,      \* the width of an amount: 128 in the code
    MaxHeight        \* bound: no block above this height is applied

\* EmissionSchedule::new refuses zeros, an amount has AmountBits bits, and a key
\* is a string of fixed length.
ASSUME LedgerAssumption ==
    /\ IsFiniteSet(Accounts)
    /\ AmountBits \in Nat
    /\ \A e \in 0 .. AmountBits : 2^e \in Nat \ {0}
    /\ TotalSupply \in 1 .. 2^AmountBits - 1
    /\ InitialReward \in 1 .. 2^AmountBits - 1
    /\ HalvingEpoch \in Nat \ {0}
    /\ MinimumFee \in Nat
    /\ RewardMaturity \in Nat
    /\ MaxHeight \in Nat

MaxAmount == 2^AmountBits - 1

\* Every height a pending reward can be keyed by.
UnlockHeights == 1 .. MaxHeight + RewardMaturity

Reward == [pk : Accounts, amount : Nat]

Ledger ==
    [height          : Nat,
     issued          : Nat,
     balances        : [Accounts -> Nat \cup {None}],
     next_nonces     : [Accounts -> Nat \cup {None}],
     locked_balances : [Accounts -> Nat \cup {None}],
     pending_rewards : [UnlockHeights -> Reward \cup {None}]]

\* The markers are no map values, no account and no ledger.
ASSUME MarkerAssumption ==
    /\ None # Untouched
    /\ None \notin Nat /\ Untouched \notin Nat
    /\ None \notin Accounts
    /\ None \notin Reward /\ Untouched \notin Reward
    /\ None \notin Ledger

Undo ==
    [height          : Nat,
     issued          : Nat,
     balances        : [Accounts -> Nat \cup {None, Untouched}],
     next_nonces     : [Accounts -> Nat \cup {None, Untouched}],
     locked_balances : [Accounts -> Nat \cup {None, Untouched}],
     pending_rewards : [UnlockHeights -> Reward \cup {None, Untouched}]]

\* A signed transfer envelope, with the fields its payload parses to.
EnvelopeType ==
    [authentic : BOOLEAN, from : Accounts, to : Accounts, amount : Nat,
     fee : Nat, nonce : Nat, valid_before : Nat]

ASSUME EnvelopeAssumption == Envelopes \subseteq EnvelopeType

-----------------------------------------------------------------------------
(* Reading the ledger.                                                     *)

\* NativeLedger::new_with_rules: genesis has no balances.
GenesisLedger ==
    [height          |-> 0,
     issued          |-> 0,
     balances        |-> [a \in Accounts |-> None],
     next_nonces     |-> [a \in Accounts |-> None],
     locked_balances |-> [a \in Accounts |-> None],
     pending_rewards |-> [u \in UnlockHeights |-> None]]

\* map.get(key).copied().unwrap_or(0)
OrZero(entry) == IF entry = None THEN 0 ELSE entry

Balance(l, a) == OrZero(l.balances[a])
LockedBalance(l, a) == OrZero(l.locked_balances[a])
NextNonce(l, a) == OrZero(l.next_nonces[a])
SpendableBalance(l, a) == Balance(l, a) - LockedBalance(l, a)

\* EmissionSchedule::emission: the halved reward, capped by what is left.
Emission(height, issued) ==
    LET epoch     == height \div HalvingEpoch
        reward    == IF epoch < AmountBits THEN InitialReward \div 2^epoch ELSE 0
        remaining == TotalSupply - issued
    IN  IF reward <= remaining THEN reward ELSE remaining

-----------------------------------------------------------------------------
(* Undo records.                                                           *)

\* NativeLedgerUndo::new
NewUndo(l) ==
    [height          |-> l.height,
     issued          |-> l.issued,
     balances        |-> [a \in Accounts |-> Untouched],
     next_nonces     |-> [a \in Accounts |-> Untouched],
     locked_balances |-> [a \in Accounts |-> Untouched],
     pending_rewards |-> [u \in UnlockHeights |-> Untouched]]

\* Mutated form: a key touched twice remembers its latest value, not its oldest.
Remember_Latest(undo_map, map, keys) ==
    [k \in DOMAIN map |-> IF k \in keys THEN map[k] ELSE undo_map[k]]

\* entry(key).or_insert_with(|| map.get(key)): only the first, oldest value of
\* each key is kept.
Remember(undo_map, map, keys) ==
    [k \in DOMAIN map |->
        IF k \in keys /\ undo_map[k] = Untouched THEN map[k] ELSE undo_map[k]]

\* Mutated form: an entry the block created survives the roll-back.
RestoreEntries_KeepsCreated(map, undo_map) ==
    [k \in DOMAIN map |->
        IF undo_map[k] \in {Untouched, None} THEN map[k] ELSE undo_map[k]]

\* restore_entries: Some is inserted, None is removed, the rest is left alone.
RestoreEntries(map, undo_map) ==
    [k \in DOMAIN map |-> IF undo_map[k] = Untouched THEN map[k] ELSE undo_map[k]]

\* NativeLedger::undo_block, past its height check (CanUndo).
UndoBlock(l, undo) ==
    [height          |-> undo.height,
     issued          |-> undo.issued,
     balances        |-> RestoreEntries(l.balances, undo.balances),
     next_nonces     |-> RestoreEntries(l.next_nonces, undo.next_nonces),
     locked_balances |-> RestoreEntries(l.locked_balances, undo.locked_balances),
     pending_rewards |-> RestoreEntries(l.pending_rewards, undo.pending_rewards)]

CanUndo(l, undo) == l.height = undo.height + 1

-----------------------------------------------------------------------------
(* The steps of apply_block_inner.  Each works on a pair of a staged       *)
(* ledger `l` and its undo record `u`; the caller holds the base ledger    *)
(* until every step has succeeded.                                         *)

\* Mutated form: a reward is due one block early.
Matured_Early(l, height) ==
    {k \in UnlockHeights : k <= height + 1 /\ l.pending_rewards[k] # None}

\* The keys of pending_rewards.range(..=height).
Matured(l, height) ==
    {k \in UnlockHeights : k <= height /\ l.pending_rewards[k] # None}

\* The undo loop over pending_rewards.range(..=height), before any unlock.
RememberMatured(l, u, height) ==
    LET due == Matured(l, height)
    IN  [u EXCEPT
           !.locked_balances = Remember(@, l.locked_balances,
                                        {l.pending_rewards[k].pk : k \in due}),
           !.pending_rewards = [k \in UnlockHeights |->
                                   IF k \in due THEN l.pending_rewards[k] ELSE @[k]]]

\* One turn of unlock_rewards: the reward at key k is popped and its lock freed.
UnlockPossible(l, k) ==
    LockedBalance(l, l.pending_rewards[k].pk) >= l.pending_rewards[k].amount

UnlockReward(l, k) ==
    LET r         == l.pending_rewards[k]
        remaining == LockedBalance(l, r.pk) - r.amount
    IN  [l EXCEPT
           !.pending_rewards = [@ EXCEPT ![k] = None],
           !.locked_balances = [@ EXCEPT ![r.pk] =
                                   IF remaining = 0 THEN None ELSE remaining]]

\* validate_native_transfer
ValidatedFields(t) == t.authentic /\ t.amount # 0 /\ t.fee >= MinimumFee

\* stage_credit and credit: a zero credit creates no entry.
Credit(balances, a, amount) ==
    IF amount = 0 THEN balances
    ELSE [balances EXCEPT ![a] = OrZero(@) + amount]

\* Mutated form: the fee is added to the producer's balance before this
\* transfer, losing what the transfer itself did to that account.
StagedBalances_StaleFee(l, reward_pk, t) ==
    LET debited  == [l.balances EXCEPT ![t.from] = OrZero(@) - (t.amount + t.fee)]
        credited == Credit(debited, t.to, t.amount)
    IN  IF reward_pk = None \/ t.fee = 0 THEN credited
        ELSE [credited EXCEPT ![reward_pk] = Balance(l, reward_pk) + t.fee]

\* The balances prepare_transfer stages: debit, then credit, then the fee to
\* the producer when there is one.
StagedBalances(l, reward_pk, t) ==
    LET debited  == [l.balances EXCEPT ![t.from] = OrZero(@) - (t.amount + t.fee)]
        credited == Credit(debited, t.to, t.amount)
    IN  IF reward_pk = None THEN credited ELSE Credit(credited, reward_pk, t.fee)

\* The keys of PreparedTransfer::balances.
StagedKeys(reward_pk, t) ==
    {t.from}
        \cup (IF t.amount = 0 THEN {} ELSE {t.to})
        \cup (IF reward_pk = None \/ t.fee = 0 THEN {} ELSE {reward_pk})

\* Every early return of prepare_transfer up to the balance check; an overflow
\* of amount + fee is an error like the others.
Transferable(l, height, t) ==
    /\ ValidatedFields(t)
    /\ height <= t.valid_before
    /\ t.nonce = NextNonce(l, t.from)
    /\ t.amount + t.fee <= MaxAmount
    /\ t.amount + t.fee <= SpendableBalance(l, t.from)

\* The checked additions of stage_credit.
CreditsFit(l, reward_pk, t) ==
    \A a \in Accounts : OrZero(StagedBalances(l, reward_pk, t)[a]) <= MaxAmount

\* commit_transfer
CommitTransfer(l, reward_pk, t) ==
    [l EXCEPT
       !.balances    = StagedBalances(l, reward_pk, t),
       !.next_nonces = [@ EXCEPT ![t.from] = t.nonce + 1]]

RememberTransfer(l, u, reward_pk, t) ==
    [u EXCEPT
       !.balances    = Remember(@, l.balances, StagedKeys(reward_pk, t)),
       !.next_nonces = Remember(@, l.next_nonces, {t.from})]

\* The checked additions of the emission step.
EmissionFits(l, height, reward_pk) ==
    LET emission == Emission(height, l.issued)
    IN  /\ l.issued <= TotalSupply
        /\ Balance(l, reward_pk) + emission <= MaxAmount
        /\ emission # 0 /\ RewardMaturity # 0
              => LockedBalance(l, reward_pk) + emission <= MaxAmount
        /\ l.issued + emission <= MaxAmount

\* The end of apply_block_inner: scheduled issuance is credited and, when the
\* network has a maturity, locked until height + RewardMaturity.
EmitReward(l, height, reward_pk) ==
    LET emission == Emission(height, l.issued)
        locks    == emission # 0 /\ RewardMaturity # 0
    IN  [height          |-> height,
         issued          |-> l.issued + emission,
         balances        |-> Credit(l.balances, reward_pk, emission),
         next_nonces     |-> l.next_nonces,
         locked_balances |-> IF locks
                             THEN [l.locked_balances EXCEPT ![reward_pk] =
                                      OrZero(@) + emission]
                             ELSE l.locked_balances,
         pending_rewards |-> IF locks
                             THEN [l.pending_rewards EXCEPT ![height + RewardMaturity] =
                                      [pk |-> reward_pk, amount |-> emission]]
                             ELSE l.pending_rewards]

RememberEmission(l, u, height, reward_pk) ==
    LET emits == Emission(height, l.issued) # 0
        locks == emits /\ RewardMaturity # 0
    IN  [u EXCEPT
           !.balances        = Remember(@, l.balances,
                                        IF emits THEN {reward_pk} ELSE {}),
           !.locked_balances = Remember(@, l.locked_balances,
                                        IF locks THEN {reward_pk} ELSE {}),
           !.pending_rewards = Remember(@, l.pending_rewards,
                                        IF locks THEN {height + RewardMaturity} ELSE {})]

-----------------------------------------------------------------------------
(* Whole operations, as folds of the steps.                                *)

\* unlock_rewards: the order of equal heights cannot matter, there is one key
\* per height.
UnlockRewards(l, height) ==
    FoldSet(LAMBDA k, acc : UnlockReward(acc, k), l, Matured(l, height))

\* One transfer of a block or of the pending view; None is an error.
SettleOne(l, height, reward_pk, t) ==
    IF l # None /\ Transferable(l, height, t) /\ CreditsFit(l, reward_pk, t)
    THEN CommitTransfer(l, reward_pk, t)
    ELSE None

\* apply_block: the next ledger, or None when any transfer is refused.
ApplyBlock(l, height, reward_pk, transfers) ==
    LET settled == FoldLeft(LAMBDA acc, t : SettleOne(acc, height, reward_pk, t),
                            UnlockRewards(l, height), transfers)
    IN  IF settled # None /\ EmissionFits(settled, height, reward_pk)
        THEN EmitReward(settled, height, reward_pk)
        ELSE None

\* pending_view: the ledger as the next block will find it.
PendingView(l) == UnlockRewards(l, l.height + 1)

\* NativePendingView::prepare: fees are reserved, not credited to a producer.
PushPending(view, t) == SettleOne(view, view.height + 1, None, t)

=============================================================================
