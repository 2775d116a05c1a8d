----------------------------- MODULE NativeLedger -----------------------------
(***************************************************************************)
(* The accounting of one native chain: blocks are prepared on a staged     *)
(* copy of the ledger, committed, and rolled back through the bounded      *)
(* window of undo records that NativeChain keeps (native_chain.rs).  The   *)
(* loops of apply_block_inner are taken one turn at a time, so that every  *)
(* intermediate pair of staged ledger and undo record is a state.          *)
(***************************************************************************)
EXTENDS NativeLedgerOps

CONSTANTS
    MaxBlockTransfers,  \* NativeNetwork::max_transfers_per_block
    RecentUndoBlocks    \* NATIVE_RECENT_FORK_BLOCKS: 256 in the code

ASSUME ChainAssumption ==
    /\ Accounts # {}
    /\ MaxBlockTransfers \in Nat
    /\ RecentUndoBlocks \in Nat

VARIABLES
    ledger,       \* NativeChain::ledger, the committed ledger
    blocks,       \* NativeChain::blocks, reduced to what moved money
    recent_undo,  \* NativeChain::recent_undo, oldest first
    stage,        \* where the block being prepared is
    staged,       \* prepare_block's clone of the ledger
    undo,         \* the undo record being built with it
    block,        \* the block being prepared
    history       \* auxiliary: history[h + 1] is the ledger at height h of blocks

ledger_vars == <<ledger, blocks, recent_undo, stage, staged, undo, block, history>>

Stages == {"idle", "unlocking", "settling", "prepared"}

\* `reward` is what the block issued; it is set when the block is prepared.
Block == [reward_pk : Accounts, transfers : Seq(Envelopes), reward : Nat]

\* What is in `block` while no block is prepared.
NoBlock == [reward_pk |-> CHOOSE a \in Accounts : TRUE, transfers |-> <<>>, reward |-> 0]

LedgerInit ==
    /\ ledger = GenesisLedger
    /\ blocks = <<>>
    /\ recent_undo = <<>>
    /\ stage = "idle"
    /\ staged = GenesisLedger
    /\ undo = NewUndo(GenesisLedger)
    /\ block = NoBlock
    /\ history = <<GenesisLedger>>

-----------------------------------------------------------------------------
\* prepare_block: clone, open the undo record, check the height (always the
\* next one here, any other is an early return) and note what will unlock.
BeginBlock(reward_pk) ==
    /\ stage = "idle"
    /\ ledger.height < MaxHeight
    /\ stage' = "unlocking"
    /\ staged' = ledger
    /\ undo' = RememberMatured(ledger, NewUndo(ledger), ledger.height + 1)
    /\ block' = [reward_pk |-> reward_pk, transfers |-> <<>>, reward |-> 0]
    /\ UNCHANGED <<ledger, blocks, recent_undo, history>>

Height == ledger.height + 1

\* An early return drops the staged copy and its undo record.
Drop ==
    /\ stage' = "idle"
    /\ staged' = ledger
    /\ undo' = NewUndo(ledger)
    /\ block' = NoBlock
    /\ UNCHANGED <<ledger, blocks, recent_undo, history>>

\* One turn of the loop in unlock_rewards: the reward due first is popped.
UnlockOne(k) ==
    /\ stage = "unlocking"
    /\ k \in Matured(staged, Height)
    /\ \A j \in Matured(staged, Height) : k <= j
    /\ UnlockPossible(staged, k)
    /\ staged' = UnlockReward(staged, k)
    /\ UNCHANGED <<ledger, blocks, recent_undo, stage, undo, block, history>>

UnlockDone ==
    /\ stage = "unlocking"
    /\ Matured(staged, Height) = {}
    /\ stage' = "settling"
    /\ UNCHANGED <<ledger, blocks, recent_undo, staged, undo, block, history>>

\* One turn of the loop over the block's transfers.
SettleTransfer(t) ==
    /\ stage = "settling"
    /\ Len(block.transfers) < MaxBlockTransfers
    /\ Transferable(staged, Height, t)
    /\ CreditsFit(staged, block.reward_pk, t)
    /\ staged' = CommitTransfer(staged, block.reward_pk, t)
    /\ undo' = RememberTransfer(staged, undo, block.reward_pk, t)
    /\ block' = [block EXCEPT !.transfers = Append(@, t)]
    /\ UNCHANGED <<ledger, blocks, recent_undo, stage, history>>

\* A transfer that does not apply makes the whole block invalid.
RefuseTransfer(t) ==
    /\ stage = "settling"
    /\ Len(block.transfers) < MaxBlockTransfers
    /\ ~ (Transferable(staged, Height, t) /\ CreditsFit(staged, block.reward_pk, t))
    /\ Drop

\* The emission step, which completes prepare_block.
SettleEmission ==
    /\ stage = "settling"
    /\ EmissionFits(staged, Height, block.reward_pk)
    /\ stage' = "prepared"
    /\ staged' = EmitReward(staged, Height, block.reward_pk)
    /\ undo' = RememberEmission(staged, undo, Height, block.reward_pk)
    /\ block' = [block EXCEPT !.reward = Emission(Height, staged.issued)]
    /\ UNCHANGED <<ledger, blocks, recent_undo, history>>

\* Mutated form: the undo record is kept for a block that is then dropped.
DropPrepared_KeepsUndo ==
    /\ stage = "prepared"
    /\ stage' = "idle"
    /\ staged' = ledger
    /\ undo' = NewUndo(ledger)
    /\ block' = NoBlock
    /\ recent_undo' = Append(recent_undo, undo)
    /\ UNCHANGED <<ledger, blocks, history>>

\* A prepared block is dropped: a template, or a failed durable append.
DropPrepared ==
    /\ stage = "prepared"
    /\ Drop

\* push_back, then pop_front when the window is over its limit.
PushUndo(window, u) ==
    LET pushed == Append(window, u)
    IN  IF Len(pushed) > RecentUndoBlocks THEN Tail(pushed) ELSE pushed

\* NativeChain::commit
CommitBlock ==
    /\ stage = "prepared"
    /\ ledger' = staged
    /\ blocks' = Append(blocks, block)
    /\ recent_undo' = PushUndo(recent_undo, undo)
    /\ stage' = "idle"
    /\ undo' = NewUndo(staged)
    /\ block' = NoBlock
    /\ history' = Append(history, staged)
    /\ UNCHANGED staged

\* One turn of NativeChain::fork_at.  Where no undo record is left the code
\* replays from genesis instead.
RollBack ==
    /\ stage = "idle"
    /\ recent_undo # <<>>
    /\ LET last     == recent_undo[Len(recent_undo)]
           restored == UndoBlock(ledger, last)
       IN  /\ CanUndo(ledger, last)
           /\ ledger' = restored
           /\ staged' = restored
           /\ undo' = NewUndo(restored)
    /\ recent_undo' = SubSeq(recent_undo, 1, Len(recent_undo) - 1)
    /\ blocks' = SubSeq(blocks, 1, Len(blocks) - 1)
    /\ history' = SubSeq(history, 1, Len(history) - 1)
    /\ UNCHANGED <<stage, block>>

LedgerNext ==
    \/ \E a \in Accounts : BeginBlock(a)
    \/ \E k \in UnlockHeights : UnlockOne(k)
    \/ UnlockDone
    \/ \E t \in Envelopes : SettleTransfer(t) \/ RefuseTransfer(t)
    \/ SettleEmission
    \/ DropPrepared
    \/ CommitBlock
    \/ RollBack

LedgerSpec == LedgerInit /\ [][LedgerNext]_ledger_vars

-----------------------------------------------------------------------------
(* Properties.                                                             *)

\* Every map, staged copy and undo record keeps its shape: in particular no
\* balance, nonce or lock is ever negative.
LedgerTypeOK ==
    /\ ledger \in Ledger
    /\ blocks \in Seq(Block)
    /\ recent_undo \in Seq(Undo)
    /\ stage \in Stages
    /\ staged \in Ledger
    /\ undo \in Undo
    /\ block \in Block
    /\ history \in Seq(Ledger)

\* Money is only made by emission: the balances add up to what was issued, in
\* the committed ledger and after every transfer of a block in preparation
\* (the first check of NativeLedger::audit).
Conservation ==
    \A l \in {ledger, staged} :
        SumFunction([a \in Accounts |-> Balance(l, a)]) = l.issued

\* Issuance never passes the supply cap (audit), in the committed ledger and in
\* a block in preparation.
SupplyCapped ==
    /\ ledger.issued <= TotalSupply
    /\ staged.issued <= TotalSupply

\* The lock of every account is exactly the sum of its pending rewards, with no
\* zero entry, and a pending reward is of a block of this chain and not yet due
\* (the lock checks of NativeLedger::audit).
LocksExact ==
    /\ \A a \in Accounts :
         LET due == {k \in UnlockHeights :
                        /\ ledger.pending_rewards[k] # None
                        /\ ledger.pending_rewards[k].pk = a}
             sum == SumFunction([k \in due |-> ledger.pending_rewards[k].amount])
         IN  ledger.locked_balances[a] = IF sum = 0 THEN None ELSE sum
    /\ \A k \in UnlockHeights : ledger.pending_rewards[k] # None =>
         /\ k > ledger.height
         /\ k - RewardMaturity \in 1 .. ledger.height
         /\ ledger.pending_rewards[k].amount > 0

\* No account, at any step of a block, spends a reward that is still locked.
LocksCovered ==
    \A l \in {ledger, staged} : \A a \in Accounts : LockedBalance(l, a) <= Balance(l, a)

\* Said of the blocks alone: an account still holds every reward it was issued
\* in the last RewardMaturity blocks, whatever it has transferred.
RewardsMature ==
    \A a \in Accounts :
        LET immature == {h \in 1 .. Len(blocks) :
                            h + RewardMaturity > Len(blocks) /\ blocks[h].reward_pk = a}
        IN  Balance(ledger, a) >= SumFunction([h \in immature |-> blocks[h].reward])

\* Rolling back through the undo window gives, at every height, the very ledger
\* the chain had there: the absent and present map entries too.
UndoExact ==
    /\ ledger = history[Len(history)]
    /\ Len(history) = Len(blocks) + 1
    /\ ledger.height = Len(blocks)

\* At every step of a preparation the undo record leads the staged ledger back
\* to the committed one, whatever the steps were.
PreparationReversible ==
    stage # "idle" => UndoBlock(staged, undo) = ledger

\* The ledger is what a replay of the chain's blocks from genesis computes,
\* however it was reached: NativeChain::replay and fork_at agree, and the steps
\* above are apply_block.
ReplayAgrees ==
    ledger = FoldLeft(LAMBDA l, b : ApplyBlock(l, l.height + 1, b.reward_pk, b.transfers),
                      GenesisLedger, blocks)

\* A signed transfer moves money at most once on a chain: the nonces refuse it a
\* second time, across any sequence of commits and roll-backs.
NoReplay ==
    \A i, j \in 1 .. Len(blocks) :
        \A m \in 1 .. Len(blocks[i].transfers), n \in 1 .. Len(blocks[j].transfers) :
            blocks[i].transfers[m] = blocks[j].transfers[n] => <<i, m>> = <<j, n>>

\* The checked subtractions and additions that could make an otherwise valid
\* block fail never do: a matured reward can be unlocked, a staged credit and an
\* emission fit in an amount.
ArithmeticSafe ==
    /\ stage = "unlocking" =>
         \A k \in Matured(staged, Height) : UnlockPossible(staged, k)
    /\ stage = "settling" =>
         /\ EmissionFits(staged, Height, block.reward_pk)
         /\ \A t \in Envelopes : Transferable(staged, Height, t)
                                     => CreditsFit(staged, block.reward_pk, t)

\* earliest_recent_fork_height
EarliestForkHeight == Len(blocks) - Len(recent_undo)

\* What is below the undo window stays there: no sequence of commits, drops and
\* roll-backs lowers the earliest height fork_at can reach or changes a block
\* below it.
WindowFloor ==
    [][/\ EarliestForkHeight' >= EarliestForkHeight
       /\ SubSeq(blocks', 1, EarliestForkHeight)
              = SubSeq(blocks, 1, EarliestForkHeight)]_ledger_vars

\* The money supply is sound: nothing is made but by emission, the cap holds
\* and no checked addition or subtraction of a valid block can fail.
SupplySound == Conservation /\ SupplyCapped /\ ArithmeticSafe

\* Locked rewards are sound: the locks are the pending rewards, the balance
\* covers them, and a reward of the last blocks has not been spent.
LocksSound == LocksExact /\ LocksCovered /\ RewardsMature

\* The ledger is reversible: every value keeps its shape, the undo records lead
\* back through the window, and a preparation leads back to what is committed.
UndoSound == LedgerTypeOK /\ UndoExact /\ PreparationReversible

\* The ledger is the history of its blocks: a replay from genesis gives it, and
\* no transfer occurs twice.
HistorySound == ReplayAgrees /\ NoReplay

=============================================================================
