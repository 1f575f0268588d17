--------------------------- MODULE BillingAccount ---------------------------
(***************************************************************************)
(* A billing account (billing/src/account.rs) with its freeze manager      *)
(* (billing/src/freeze.rs).                                                *)
(*                                                                         *)
(* Every operation takes &mut self, so each is one atomic step.  A call    *)
(* that returns an error changes nothing: it is a stuttering step, and     *)
(* the conditions under which it happens are the negated guards below.     *)
(* Decimal amounts are integers (exact addition and subtraction), time is  *)
(* a counter of hours, which may advance between two readings of the clock *)
(* in one call.  The freeze manager is a public field, so its methods may  *)
(* be called at any time.                                                  *)
(***************************************************************************)
EXTENDS Integers, Sequences

CONSTANTS
    Amounts,           \* amounts a caller may pass (any sign)
    InitialDeposits,   \* arguments of BillingAccount::new
    MIN_WITHDRAWAL,    \* rates.rs: 100.00 RUB
    ExportDuration,    \* FreezeManager::export_duration
    MaxNow, MaxTx      \* bounds: the clock and the number of transactions

ASSUME AmountsAssumption ==
    Amounts \subseteq Int /\ InitialDeposits \subseteq Int
ASSUME MinWithdrawalAssumption == MIN_WITHDRAWAL \in Nat \ {0}
ASSUME ExportDurationAssumption == ExportDuration \in Nat
ASSUME BoundsAssumption == MaxNow \in Nat /\ MaxTx \in Nat

VARIABLES
    balance,           \* BillingAccount::balance
    transactions,      \* BillingAccount::transactions
    state,             \* FreezeManager::state
    frozen_at,         \* FreezeManager::frozen_at
    now,               \* Utc::now()
    since              \* history: transactions when it was last frozen or unfrozen

freezeVars == <<state, frozen_at, now, since>>
vars == <<balance, transactions, state, frozen_at, now, since>>

FreezeState == {"Active", "FrozenExport", "HardDeleted"}
TransactionType == {"Deposit", "BillingCharge", "Withdrawal"}

\* Option<DateTime> without a value: no clock reading equals it.
None == -1

-----------------------------------------------------------------------------
(* FreezeManager *)

\* Mistakes: a charge in the export window restarts it; the end of the window
\* is stored instead of its start.
trigger_freeze_restarts ==
    /\ state' = IF state = "Active" THEN "FrozenExport" ELSE state
    /\ frozen_at' = now
    /\ since' = Len(transactions')
    /\ UNCHANGED now
trigger_freeze_stores_expiry ==
    \/ /\ state = "Active"
       /\ state' = "FrozenExport"
       /\ frozen_at' = now + ExportDuration
       /\ since' = Len(transactions')
       /\ UNCHANGED now
    \/ /\ state # "Active"
       /\ UNCHANGED freezeVars

\* Reads the clock itself, after its caller has.
trigger_freeze ==
    \/ /\ state = "Active"
       /\ state' = "FrozenExport"
       /\ now' \in now..MaxNow
       /\ frozen_at' = now'
       /\ since' = Len(transactions')
    \/ /\ state # "Active"
       /\ UNCHANGED freezeVars

\* The balance is not looked at: only the clock decides.
check_export_expiry ==
    /\ state = "FrozenExport"
    /\ frozen_at # None
    /\ now >= frozen_at + ExportDuration
    /\ state' = "HardDeleted"
    /\ UNCHANGED <<balance, transactions, frozen_at, now, since>>

remaining_export ==
    IF state = "FrozenExport" /\ frozen_at # None
       /\ frozen_at + ExportDuration > now
    THEN frozen_at + ExportDuration - now
    ELSE 0

unfreeze ==
    /\ state = "FrozenExport"
    /\ state' = "Active"
    /\ frozen_at' = None
    /\ since' = Len(transactions)
    /\ UNCHANGED <<balance, transactions, now>>

-----------------------------------------------------------------------------
(* BillingAccount *)

Transaction(tx_type, amount, balance_after, timestamp) ==
    [tx_type |-> tx_type, amount |-> amount,
     balance_after |-> balance_after, timestamp |-> timestamp]

\* Mistake: the balance is recorded before the operation.
record_transaction_before(tx_type, amount) ==
    /\ Len(transactions) < MaxTx
    /\ transactions' = Append(transactions,
                              Transaction(tx_type, amount, balance, now))

\* Records the balance AFTER the operation: every caller assigns balance first.
record_transaction(tx_type, amount) ==
    /\ Len(transactions) < MaxTx
    /\ transactions' = Append(transactions,
                              Transaction(tx_type, amount, balance', now))

\* BillingAccount::new: a non-positive initial deposit is silently skipped.
Init ==
    /\ \E d \in InitialDeposits :
         IF d > 0
         THEN /\ balance = d
              /\ transactions = <<Transaction("Deposit", d, d, 0)>>
         ELSE /\ balance = 0
              /\ transactions = <<>>
    /\ state = "Active"
    /\ frozen_at = None
    /\ now = 0
    /\ since = 0

\* Does not unfreeze a frozen account.
deposit(amount) ==
    /\ amount > 0
    /\ state # "HardDeleted"
    /\ balance' = balance + amount
    /\ record_transaction("Deposit", amount)
    /\ UNCHANGED freezeVars

\* Charges in every state, a hard-deleted account included.
charge(amount) ==
    /\ amount > 0
    /\ balance' = balance - amount
    /\ record_transaction("BillingCharge", amount)
    /\ IF balance' <= 0 THEN trigger_freeze ELSE UNCHANGED freezeVars

\* Mistake: the state is not checked.
request_withdrawal_any_state(amount) ==
    /\ amount >= MIN_WITHDRAWAL
    /\ amount <= balance
    /\ balance' = balance - amount
    /\ record_transaction("Withdrawal", amount)
    /\ UNCHANGED freezeVars

\* May empty the account, and does not check the freeze condition then.
request_withdrawal(amount) ==
    /\ amount >= MIN_WITHDRAWAL
    /\ amount <= balance
    /\ state = "Active"
    /\ balance' = balance - amount
    /\ record_transaction("Withdrawal", amount)
    /\ UNCHANGED freezeVars

can_store == state = "Active" /\ balance > 0

can_download == state \in {"Active", "FrozenExport"}

\* An hour passes.
Tick ==
    /\ now < MaxNow
    /\ now' = now + 1
    /\ UNCHANGED <<balance, transactions, state, frozen_at, since>>

Next ==
    \/ \E a \in Amounts : deposit(a) \/ charge(a) \/ request_withdrawal(a)
    \/ UNCHANGED <<balance, transactions>> /\ trigger_freeze
    \/ unfreeze
    \/ check_export_expiry
    \/ Tick

Spec == Init /\ [][Next]_vars

-----------------------------------------------------------------------------
(* Properties *)

TransactionSet ==
    [tx_type : TransactionType, amount : Int, balance_after : Int,
     timestamp : Nat]

\* The type invariant: every field holds a value of its Rust type, and the
\* recorded freeze time is never in the future.
TypeOK ==
    /\ balance \in Int
    /\ transactions \in Seq(TransactionSet)
    /\ state \in FreezeState
    /\ frozen_at \in Nat \cup {None}
    /\ now \in 0..MaxNow
    /\ frozen_at <= now
    /\ since \in 0..Len(transactions)

\* What a transaction does to the balance.
Signed(tx) == IF tx.tx_type = "Deposit" THEN tx.amount ELSE -tx.amount

\* Balance after the first i transactions, as the history records it.
BalanceAt(i) == IF i = 0 THEN 0 ELSE transactions[i].balance_after

\* The history replays: starting from zero, each transaction leads from the
\* balance the previous one recorded to the balance it records itself, and the
\* last one records the account's balance.  No operation of account.rs moves
\* money without a transaction, or records a balance the account did not have.
HistoryReplays ==
    /\ \A i \in 1..Len(transactions) :
         transactions[i].balance_after
            = BalanceAt(i - 1) + Signed(transactions[i])
    /\ balance = BalanceAt(Len(transactions))

\* Freezes happen where they have to, and bind: an account is out of Active
\* exactly when it has a freeze time; since it was last unfrozen, no charge has
\* brought an Active account to zero or below; and from the freeze on nothing
\* is withdrawn, whatever is deposited or charged.
FreezeExplained ==
    /\ state = "Active" <=> frozen_at = None
    /\ state = "Active" =>
         \A i \in (since + 1)..Len(transactions) :
            ~(transactions[i].tx_type = "BillingCharge"
              /\ transactions[i].balance_after <= 0)
    /\ state # "Active" =>
         \A i \in (since + 1)..Len(transactions) :
            transactions[i].tx_type # "Withdrawal"

\* Hard deletion is final: no later step revives the account or raises its
\* balance (a charge may still lower it).
HardDeleteFinal ==
    [][state = "HardDeleted" =>
         state' = "HardDeleted" /\ frozen_at' = frozen_at /\ balance' <= balance]_vars

\* The account's lifecycle implements the export-window promise: a freeze
\* grants the whole window, no charge or deposit made in it restarts or shortens
\* it, every hour of it passes before a deletion, and only unfreeze leads back.
Lifecycle == INSTANCE ExportWindow
    WITH Window <- ExportDuration, phase <- state, left <- remaining_export
LifecycleSpec == Lifecycle!EWSpec

\* docs/BILLING.md on the export window: a deposit reinstates the account, and
\* at the end of the window an account whose balance is positive is reinstated,
\* not deleted.  So no account is deleted while its balance is positive.
PaidAccountNotDeleted ==
    [][state' = "HardDeleted" /\ state # "HardDeleted" => balance <= 0]_vars

\* freeze.rs and docs/BILLING.md: an account whose balance reaches zero is
\* frozen at once, whatever took the money.
ZeroBalanceFreezes ==
    [][balance > 0 /\ balance' <= 0 => state' # "Active"]_vars
=============================================================================
