--------------------------- MODULE BillingProofs ---------------------------
(* Proofs about the billing crate: about BillingAccount, for every set of  *)
(* amounts, minimum withdrawal, export duration and bound; about           *)
(* Subscription, for a period of any length, any division of a day and any *)
(* number of calls; and about Charges, for any volumes, replication        *)
(* factors and number of entries; both for every mantissa and every set of *)
(* steps that Decimal may have.                                            *)
EXTENDS BillingAccount, Subscription, Charges, TLAPS

-----------------------------------------------------------------------------
(* Accounts *)

USE DEF None

\* The three operations that record a transaction do so at the end of the
\* history and with the balance they leave; nothing else changes the history.
LEMMA RecordTyped ==
    ASSUME TypeOK, balance' \in Int,
           NEW t \in TransactionType, NEW a \in Int, record_transaction(t, a)
    PROVE  /\ transactions' \in Seq(TransactionSet)
           /\ Len(transactions') = Len(transactions) + 1
           /\ since \in 0..Len(transactions')
           /\ Len(transactions') \in 0..Len(transactions')
<1>1. now \in Nat
  BY BoundsAssumption DEF TypeOK
<1>2. Transaction(t, a, balance', now) \in TransactionSet
  BY <1>1 DEF Transaction, TransactionSet
<1>3. transactions' = Append(transactions, Transaction(t, a, balance', now))
  BY DEF record_transaction
<1>4. /\ transactions' \in Seq(TransactionSet)
      /\ Len(transactions') = Len(transactions) + 1 /\ Len(transactions) \in Nat
  BY <1>2, <1>3 DEF TypeOK
<1>5. since \in 0..Len(transactions)
  BY DEF TypeOK
<1> QED BY <1>4, <1>5

\* Every reachable state is well typed (the fields of BillingAccount and
\* FreezeManager), and a freeze time never lies in the future.
THEOREM TypeCorrect == Spec => []TypeOK
<1>1. Init => TypeOK
  <2> SUFFICES ASSUME Init PROVE TypeOK
    OBVIOUS
  <2>1. PICK d \in InitialDeposits :
           IF d > 0
           THEN /\ balance = d
                /\ transactions = <<Transaction("Deposit", d, d, 0)>>
           ELSE balance = 0 /\ transactions = <<>>
    BY DEF Init
  <2>2. d \in Int
    BY AmountsAssumption
  <2>3. Transaction("Deposit", d, d, 0) \in TransactionSet
    BY <2>2 DEF Transaction, TransactionSet, TransactionType
  <2>4. balance \in Int /\ transactions \in Seq(TransactionSet)
    <3>1. <<Transaction("Deposit", d, d, 0)>> \in Seq(TransactionSet)
      BY <2>3
    <3>2. <<>> \in Seq(TransactionSet)
      OBVIOUS
    <3>3. CASE d > 0
      BY <2>1, <2>2, <3>1, <3>3
    <3>4. CASE ~(d > 0)
      BY <2>1, <3>2, <3>4
    <3> QED BY <3>3, <3>4
  <2>5. now \in 0..MaxNow /\ since \in 0..Len(transactions)
    BY <2>4, BoundsAssumption DEF Init
  <2> QED BY <2>4, <2>5 DEF Init, TypeOK, FreezeState
<1>2. TypeOK /\ [Next]_vars => TypeOK'
  <2> SUFFICES ASSUME TypeOK, [Next]_vars PROVE TypeOK'
    OBVIOUS
  <2>a. ASSUME trigger_freeze, balance' \in Int, transactions' \in Seq(TransactionSet),
               since \in 0..Len(transactions'), Len(transactions') \in 0..Len(transactions')
        PROVE  TypeOK'
    <3>1. CASE UNCHANGED freezeVars
      BY <2>a, <3>1 DEF freezeVars, TypeOK
    <3>2. CASE state' = "FrozenExport" /\ now' \in now..MaxNow /\ frozen_at' = now'
               /\ since' = Len(transactions')
      <4>1. now' \in 0..MaxNow /\ now' \in Nat
        BY <3>2, BoundsAssumption DEF TypeOK
      <4> QED BY <2>a, <3>2, <4>1 DEF TypeOK, FreezeState
    <3> QED BY <2>a, <3>1, <3>2 DEF trigger_freeze
  <2>1. ASSUME NEW a \in Amounts, deposit(a) PROVE TypeOK'
    <3>1. a \in Int /\ balance' \in Int
      BY <2>1, AmountsAssumption DEF deposit, TypeOK
    <3>2. transactions' \in Seq(TransactionSet) /\ since \in 0..Len(transactions')
      BY <2>1, <3>1, RecordTyped DEF deposit, TransactionType
    <3> QED BY <2>1, <3>1, <3>2 DEF deposit, freezeVars, TypeOK
  <2>2. ASSUME NEW a \in Amounts, charge(a) PROVE TypeOK'
    <3>1. a \in Int /\ balance' \in Int
      BY <2>2, AmountsAssumption DEF charge, TypeOK
    <3>2. /\ transactions' \in Seq(TransactionSet) /\ since \in 0..Len(transactions')
          /\ Len(transactions') \in 0..Len(transactions')
      BY <2>2, <3>1, RecordTyped DEF charge, TransactionType
    <3>3. CASE UNCHANGED freezeVars
      BY <3>1, <3>2, <3>3 DEF freezeVars, TypeOK
    <3>4. CASE trigger_freeze
      BY <3>1, <3>2, <3>4, <2>a
    <3> QED BY <2>2, <3>3, <3>4 DEF charge
  <2>3. ASSUME NEW a \in Amounts, request_withdrawal(a) PROVE TypeOK'
    <3>1. a \in Int /\ balance' \in Int
      BY <2>3, AmountsAssumption DEF request_withdrawal, TypeOK
    <3>2. transactions' \in Seq(TransactionSet) /\ since \in 0..Len(transactions')
      BY <2>3, <3>1, RecordTyped DEF request_withdrawal, TransactionType
    <3> QED BY <2>3, <3>1, <3>2 DEF request_withdrawal, freezeVars, TypeOK
  <2>b. Len(transactions) \in Nat
    BY DEF TypeOK
  <2>8. CASE UNCHANGED <<balance, transactions>> /\ trigger_freeze
    BY <2>8, <2>a, <2>b DEF TypeOK
  <2>4. CASE unfreeze
    BY <2>4, <2>b DEF unfreeze, TypeOK, FreezeState
  <2>5. CASE check_export_expiry
    BY <2>5 DEF check_export_expiry, TypeOK, FreezeState
  <2>6. CASE Tick
    <3>1. now' \in 0..MaxNow /\ frozen_at <= now'
      BY <2>6, BoundsAssumption DEF Tick, TypeOK
    <3> QED BY <2>6, <3>1 DEF Tick, TypeOK
  <2>7. CASE UNCHANGED vars
    BY <2>7 DEF vars, TypeOK
  <2> QED BY <2>1, <2>2, <2>3, <2>4, <2>5, <2>6, <2>7, <2>8 DEF Next
<1> QED BY <1>1, <1>2, PTL DEF Spec

\* One recorded operation keeps a history that replays: the new transaction
\* starts from the balance the last one left.
LEMMA ReplayStep ==
    ASSUME TypeOK, HistoryReplays,
           NEW t \in TransactionType, NEW a \in Int,
           balance' = balance + (IF t = "Deposit" THEN a ELSE -a),
           record_transaction(t, a)
    PROVE  HistoryReplays'
<1>0. PICK n \in Nat : n = Len(transactions)
  BY DEF TypeOK
<1>1. n \in Nat /\ transactions \in Seq(TransactionSet) /\ balance \in Int
  BY DEF TypeOK
<1>2. /\ Len(transactions') = n + 1
      /\ \A i \in 1..n : transactions'[i] = transactions[i]
      /\ transactions'[n + 1] = Transaction(t, a, balance', now)
  BY <1>0, <1>1 DEF record_transaction
<1>3. balance = BalanceAt(n)
  BY <1>0 DEF HistoryReplays
<1>4. \A i \in 0..n : BalanceAt(i)' = BalanceAt(i)
  BY <1>1, <1>2 DEF BalanceAt
<1>5. ASSUME NEW i \in 1..(n + 1)
      PROVE  transactions'[i].balance_after
                = BalanceAt(i - 1)' + Signed(transactions'[i])
  <2>1. CASE i \in 1..n
    <3>1. transactions[i].balance_after
             = BalanceAt(i - 1) + Signed(transactions[i])
      BY <2>1, <1>0 DEF HistoryReplays
    <3>2. BalanceAt(i - 1)' = BalanceAt(i - 1)
      BY <2>1, <1>1, <1>4
    <3> QED BY <2>1, <3>1, <3>2, <1>2
  <2>2. CASE i = n + 1
    <3>1. BalanceAt(i - 1)' = balance
      BY <2>2, <1>1, <1>3, <1>4
    <3>2. Signed(transactions'[i]) = IF t = "Deposit" THEN a ELSE -a
      BY <2>2, <1>2 DEF Signed, Transaction
    <3>3. transactions'[i].balance_after = balance'
      BY <2>2, <1>2 DEF Transaction
    <3> QED BY <3>1, <3>2, <3>3
  <2> QED BY <1>1, <2>1, <2>2
<1>6. BalanceAt(n + 1)' = balance'
  BY <1>1, <1>2 DEF BalanceAt, Transaction
<1> QED BY <1>2, <1>5, <1>6 DEF HistoryReplays

\* A step that leaves the balance and the history alone keeps it replaying.
LEMMA ReplayUnchanged ==
    ASSUME HistoryReplays, UNCHANGED <<balance, transactions>>
    PROVE  HistoryReplays'
BY DEF HistoryReplays, BalanceAt, Signed

\* The transaction history replays to the account's balance in every
\* reachable state (account.rs: deposit, charge, request_withdrawal).
THEOREM HistoryCorrect == Spec => []HistoryReplays
<1>1. Init => HistoryReplays
  <2> SUFFICES ASSUME Init PROVE HistoryReplays
    OBVIOUS
  <2>1. PICK d \in InitialDeposits :
           IF d > 0
           THEN /\ balance = d
                /\ transactions = <<Transaction("Deposit", d, d, 0)>>
           ELSE balance = 0 /\ transactions = <<>>
    BY DEF Init
  <2>2. d \in Int
    BY AmountsAssumption
  <2>3. CASE d > 0
    <3>1. Len(transactions) = 1 /\ transactions[1] = Transaction("Deposit", d, d, 0)
      BY <2>1, <2>3
    <3>2. transactions[1].balance_after = d /\ Signed(transactions[1]) = d
      BY <3>1 DEF Signed, Transaction
    <3>3. BalanceAt(0) = 0 /\ BalanceAt(1) = d /\ balance = d
      BY <2>1, <2>3, <3>2 DEF BalanceAt
    <3> QED BY <2>2, <3>1, <3>2, <3>3 DEF HistoryReplays
  <2>4. CASE ~(d > 0)
    BY <2>1, <2>4 DEF HistoryReplays, BalanceAt
  <2> QED BY <2>3, <2>4
<1>2. TypeOK /\ HistoryReplays /\ [Next]_vars => HistoryReplays'
  <2> SUFFICES ASSUME TypeOK, HistoryReplays, [Next]_vars
               PROVE  HistoryReplays'
    OBVIOUS
  <2>1. ASSUME NEW a \in Amounts, deposit(a) PROVE HistoryReplays'
    <3>1. a \in Int BY AmountsAssumption
    <3> QED BY <2>1, <3>1, ReplayStep DEF deposit, TransactionType
  <2>2. ASSUME NEW a \in Amounts, charge(a) PROVE HistoryReplays'
    <3>1. a \in Int BY AmountsAssumption
    <3>2. balance' = balance + (-a)
      BY <2>2, <3>1 DEF charge, TypeOK
    <3> QED BY <2>2, <3>1, <3>2, ReplayStep DEF charge, TransactionType
  <2>3. ASSUME NEW a \in Amounts, request_withdrawal(a) PROVE HistoryReplays'
    <3>1. a \in Int BY AmountsAssumption
    <3>2. balance' = balance + (-a)
      BY <2>3, <3>1 DEF request_withdrawal, TypeOK
    <3> QED BY <2>3, <3>1, <3>2, ReplayStep
            DEF request_withdrawal, TransactionType
  <2>4. CASE \/ unfreeze \/ check_export_expiry \/ Tick \/ UNCHANGED vars
             \/ UNCHANGED <<balance, transactions>> /\ trigger_freeze
    BY <2>4, ReplayUnchanged DEF unfreeze, check_export_expiry, Tick, vars
  <2> QED BY <2>1, <2>2, <2>3, <2>4 DEF Next
<1> QED BY <1>1, <1>2, TypeCorrect, PTL DEF Spec

\* A transaction that does not change the state of the freeze manager and is
\* one that this state allows keeps FreezeExplained.
LEMMA RecordExplained ==
    ASSUME TypeOK, FreezeExplained, UNCHANGED freezeVars,
           NEW t \in TransactionType, NEW a \in Int, record_transaction(t, a),
           state = "Active" => ~(t = "BillingCharge" /\ balance' <= 0),
           state # "Active" => t # "Withdrawal"
    PROVE  FreezeExplained'
<1>1. PICK n \in Nat : n = Len(transactions)
  BY DEF TypeOK
<1>2. /\ Len(transactions') = n + 1
      /\ \A k \in 1..n : transactions'[k] = transactions[k]
      /\ transactions'[n + 1].tx_type = t /\ transactions'[n + 1].balance_after = balance'
  BY <1>1 DEF TypeOK, record_transaction, Transaction
<1>3. state' = state /\ frozen_at' = frozen_at /\ since' = since /\ since \in 0..n
  BY <1>1 DEF freezeVars, TypeOK
<1>4. ASSUME NEW i \in (since + 1)..(n + 1)
      PROVE  i = n + 1 \/ (i \in 1..n /\ i \in (since + 1)..n)
  BY <1>3
<1>5. ASSUME state = "Active", NEW i \in (since + 1)..(n + 1)
      PROVE  ~(transactions'[i].tx_type = "BillingCharge"
               /\ transactions'[i].balance_after <= 0)
  BY <1>1, <1>2, <1>4, <1>5 DEF FreezeExplained
<1>6. ASSUME state # "Active", NEW i \in (since + 1)..(n + 1)
      PROVE  transactions'[i].tx_type # "Withdrawal"
  BY <1>1, <1>2, <1>4, <1>6 DEF FreezeExplained
<1> QED BY <1>2, <1>3, <1>5, <1>6 DEF FreezeExplained

\* A change of state opens an interval without transactions.
LEMMA NewlyExplained ==
    ASSUME Len(transactions') \in Nat, since' = Len(transactions'),
           state' = "Active" <=> frozen_at' = None
    PROVE  FreezeExplained'
<1>1. (since' + 1)..Len(transactions') = {}
  OBVIOUS
<1> QED BY <1>1 DEF FreezeExplained

\* No charge empties an Active account without freezing it, and nothing is
\* withdrawn from one that is frozen (charge, trigger_freeze, unfreeze and
\* request_withdrawal in any order, trigger_freeze called by anybody).
THEOREM FreezeCorrect == Spec => []FreezeExplained
<1>1. Init => FreezeExplained
  <2> SUFFICES ASSUME Init PROVE FreezeExplained
    OBVIOUS
  <2>1. PICK d \in InitialDeposits :
           \/ transactions = <<Transaction("Deposit", d, d, 0)>>
           \/ transactions = <<>>
    BY DEF Init
  <2>2. \A i \in 1..Len(transactions) : transactions[i].tx_type = "Deposit"
    BY <2>1 DEF Transaction
  <2> QED BY <2>2 DEF Init, FreezeExplained
<1>2. TypeOK /\ FreezeExplained /\ [Next]_vars => FreezeExplained'
  <2> SUFFICES ASSUME TypeOK, FreezeExplained, [Next]_vars
               PROVE  FreezeExplained'
    OBVIOUS
  <2>a. Len(transactions) \in Nat /\ now \in Nat
    BY BoundsAssumption DEF TypeOK
  <2>b. ASSUME state = "Active", trigger_freeze, Len(transactions') \in Nat
        PROVE  FreezeExplained'
    <3>1. frozen_at' # None /\ state' = "FrozenExport" /\ since' = Len(transactions')
      BY <2>a, <2>b DEF trigger_freeze
    <3> QED BY <2>b, <3>1, NewlyExplained
  <2>1. ASSUME NEW a \in Amounts, deposit(a) PROVE FreezeExplained'
    BY <2>1, RecordExplained, AmountsAssumption DEF deposit, TransactionType
  <2>2. ASSUME NEW a \in Amounts, charge(a) PROVE FreezeExplained'
    <3>1. a \in Int /\ record_transaction("BillingCharge", a)
      BY <2>2, AmountsAssumption DEF charge
    <3>2. CASE state # "Active" \/ ~(balance' <= 0)
      <4>1. UNCHANGED freezeVars
        BY <2>2, <3>2 DEF charge, trigger_freeze
      <4> QED BY <3>1, <3>2, <4>1, RecordExplained DEF TransactionType
    <3>3. CASE state = "Active" /\ balance' <= 0
      <4>1. Len(transactions') \in Nat
        BY <3>1 DEF record_transaction, TypeOK
      <4> QED BY <2>2, <2>b, <3>3, <4>1 DEF charge
    <3> QED BY <3>2, <3>3
  <2>3. ASSUME NEW a \in Amounts, request_withdrawal(a) PROVE FreezeExplained'
    BY <2>3, RecordExplained, AmountsAssumption DEF request_withdrawal, TransactionType
  <2>4. CASE unfreeze
    BY <2>4, <2>a, NewlyExplained DEF unfreeze
  <2>5. CASE check_export_expiry
    BY <2>5 DEF check_export_expiry, FreezeExplained
  <2>6. CASE Tick \/ UNCHANGED vars
    BY <2>6 DEF Tick, vars, FreezeExplained
  <2>7. CASE UNCHANGED <<balance, transactions>> /\ trigger_freeze
    <3>1. CASE UNCHANGED freezeVars
      BY <2>7, <3>1 DEF freezeVars, FreezeExplained
    <3> QED BY <2>7, <2>a, <2>b, <3>1 DEF trigger_freeze
  <2> QED BY <2>1, <2>2, <2>3, <2>4, <2>5, <2>6, <2>7 DEF Next
<1> QED BY <1>1, <1>2, TypeCorrect, PTL DEF Spec

\* No step revives a hard-deleted account or raises its balance.
THEOREM DeletionFinal == Spec => HardDeleteFinal
<1> DEFINE Final == state = "HardDeleted" =>
              /\ state' = "HardDeleted"
              /\ frozen_at' = frozen_at
              /\ balance' <= balance
<1>1. TypeOK /\ [Next]_vars => Final \/ UNCHANGED vars
  BY AmountsAssumption
  DEF TypeOK, Next, deposit, charge, request_withdrawal, unfreeze,
      check_export_expiry, Tick, trigger_freeze, freezeVars
<1>2. TypeOK /\ [Next]_vars => [Final]_vars
  BY <1>1
<1> QED BY <1>2, TypeCorrect, PTL DEF Spec, HardDeleteFinal

\* The account implements the export-window promise (Lifecycle): every step
\* maps to a step of ExportWindow or leaves phase and time left alone.
THEOREM ImplementsLifecycle == Spec => LifecycleSpec
<1> USE ExportDurationAssumption
<1> DEFINE ewUnchanged == UNCHANGED <<state, remaining_export>>
<1>1. Init => Lifecycle!EWInit
  BY DEF Init, Lifecycle!EWInit, remaining_export
<1>2. TypeOK /\ FreezeExplained /\ [Next]_vars
        => [Lifecycle!EWNext]_(Lifecycle!ewVars)
  <2> SUFFICES ASSUME TypeOK, FreezeExplained, [Next]_vars
               PROVE  Lifecycle!EWNext \/ ewUnchanged
    BY DEF Lifecycle!ewVars
  <2>a. ASSUME UNCHANGED <<state, frozen_at, now>> PROVE ewUnchanged
    BY <2>a DEF remaining_export
  <2>1. ASSUME NEW a \in Amounts, deposit(a) \/ request_withdrawal(a)
        PROVE  ewUnchanged
    BY <2>1, <2>a DEF deposit, request_withdrawal, freezeVars
  <2>2. ASSUME trigger_freeze PROVE Lifecycle!EWNext \/ ewUnchanged
    <3>1. CASE UNCHANGED freezeVars
      BY <2>a, <3>1 DEF freezeVars
    <3>2. CASE state = "Active" /\ state' = "FrozenExport"
               /\ now' \in now..MaxNow /\ frozen_at' = now'
      <4>1. now' \in Nat
        BY <3>2, BoundsAssumption DEF TypeOK
      <4>2. remaining_export' = ExportDuration
        <5>1. PICK t \in Nat : now' = t /\ frozen_at' = t
          BY <3>2, <4>1
        <5>2. remaining_export' = IF t + ExportDuration > t THEN t + ExportDuration - t ELSE 0
          BY <3>2, <5>1 DEF remaining_export
        <5> QED BY <5>1, <5>2
      <4> QED BY <3>2, <4>2 DEF Lifecycle!EWNext, Lifecycle!Freeze
    <3> QED BY <2>2, <3>1, <3>2 DEF trigger_freeze
  <2>7. ASSUME NEW a \in Amounts, charge(a)
        PROVE  Lifecycle!EWNext \/ ewUnchanged
    BY <2>7, <2>2, <2>a DEF charge, freezeVars
  <2>3. CASE unfreeze
    BY <2>3 DEF unfreeze, remaining_export, Lifecycle!EWNext,
                Lifecycle!Reinstate
  <2>4. CASE check_export_expiry
    <3>1. remaining_export = 0 /\ remaining_export' = 0
      BY <2>4 DEF check_export_expiry, remaining_export, TypeOK
    <3> QED BY <2>4, <3>1 DEF check_export_expiry, Lifecycle!EWNext,
                              Lifecycle!Delete
  <2>5. CASE Tick
    <3>1. CASE remaining_export = 0
      BY <2>5, <3>1 DEF Tick, remaining_export, TypeOK
    <3>2. CASE remaining_export # 0
      <4>1. /\ state = "FrozenExport" /\ frozen_at # None
            /\ frozen_at + ExportDuration > now
        BY <3>2 DEF remaining_export
      <4>2. /\ remaining_export > 0
            /\ remaining_export' = remaining_export - 1
        BY <2>5, <4>1 DEF Tick, remaining_export, TypeOK
      <4> QED BY <2>5, <4>1, <4>2 DEF Tick, Lifecycle!EWNext,
                                      Lifecycle!Elapse
    <3> QED BY <3>1, <3>2
  <2>6. CASE UNCHANGED vars
    BY <2>6, <2>a DEF vars
  <2> QED BY <2>1, <2>2, <2>3, <2>4, <2>5, <2>6, <2>7 DEF Next
<1> QED BY <1>1, <1>2, TypeCorrect, FreezeCorrect, PTL
        DEF Spec, LifecycleSpec, Lifecycle!EWSpec

-----------------------------------------------------------------------------
(* Decimal *)

\* Rounding half to even is off by half at most.
LEMMA HalfEvenNear ==
    ASSUME NEW n \in Int, NEW d \in Nat \ {0}
    PROVE  /\ HalfEven(n, d) \in Int
           /\ 2 * (d * HalfEven(n, d) - n) <= d
           /\ 2 * (n - d * HalfEven(n, d)) <= d
<1> DEFINE q == n \div d
           r == n % d
           p == d * q
<1>1. q \in Int /\ r \in 0..(d - 1)
  OBVIOUS
<1>2. n = d * q + r
  BY <1>1
<1>3. p \in Int /\ n = p + r /\ d * (q + 1) = p + d
  BY <1>1, <1>2
<1>4. \/ HalfEven(n, d) = q + 1 /\ 2 * r >= d
      \/ HalfEven(n, d) = q /\ 2 * r <= d
  <2> HIDE DEF p
  <2> QED BY <1>1 DEF HalfEven
<1> HIDE DEF p, q, r
<1>5. CASE HalfEven(n, d) = q + 1 /\ 2 * r >= d
  BY <1>1, <1>3, <1>5
<1>6. CASE HalfEven(n, d) = q /\ 2 * r <= d
  BY <1>1, <1>3, <1>6 DEF p
<1> QED BY <1>4, <1>5, <1>6

\* A result that fits somewhere has a smallest step at which it fits.
LEMMA StepIsLeast ==
    ASSUME NEW n \in Int, NEW d \in Nat \ {0}, Fits(n, d)
    PROVE  Step(n, d) \in Steps /\ Step(n, d) \in Nat \ {0} /\ FitsAt(n, d, Step(n, d))
<1> DEFINE S == {s \in Steps : FitsAt(n, d, s)}
<1>1. PICK m \in S : \A t \in S : m <= t
  BY LeastStepAssumption DEF Fits
<1>2. m \in Steps /\ FitsAt(n, d, m) /\ \A t \in Steps : FitsAt(n, d, t) => m <= t
  BY <1>1
<1>3. Step(n, d) \in Steps /\ FitsAt(n, d, Step(n, d))
  BY <1>2 DEF Step
<1> QED BY <1>3, DecimalAssumption

\* A Decimal is at most half its last digit away from the number it stands for.
LEMMA RoundedNear ==
    ASSUME NEW n \in Int, NEW d \in Nat \ {0}, Fits(n, d)
    PROVE  /\ Step(n, d) \in Nat \ {0} /\ Rounded(n, d) \in Int
           /\ 2 * (d * Rounded(n, d) - n) <= d * Step(n, d)
           /\ 2 * (n - d * Rounded(n, d)) <= d * Step(n, d)
<1>1. PICK s \in Nat \ {0} : s = Step(n, d)
  BY StepIsLeast
<1>2. PICK e \in Nat \ {0} : e = d * s
  OBVIOUS
<1>3. PICK h \in Int : h = HalfEven(n, e) /\ 2 * (e * h - n) <= e /\ 2 * (n - e * h) <= e
  BY <1>2, HalfEvenNear
<1>4. Rounded(n, d) = h * s
  BY <1>1, <1>2, <1>3 DEF Rounded
<1>5. h * s \in Int /\ d * (h * s) = e * h
  BY <1>2
<1> QED BY <1>1, <1>2, <1>3, <1>4, <1>5

\* The same for a number that need not be divided: a sum or a product.
LEMMA WholeNear ==
    ASSUME NEW n \in Int, Fits(n, 1)
    PROVE  /\ Step(n, 1) \in Nat \ {0} /\ Rounded(n, 1) \in Int
           /\ 2 * (Rounded(n, 1) - n) <= Step(n, 1)
           /\ 2 * (n - Rounded(n, 1)) <= Step(n, 1)
<1> DEFINE s == Step(n, 1)
           x == Rounded(n, 1)
<1>1. /\ s \in Nat \ {0} /\ x \in Int
      /\ 2 * (1 * x - n) <= 1 * s /\ 2 * (n - 1 * x) <= 1 * s
  BY RoundedNear
<1> HIDE DEF s, x
<1>2. 1 * x = x /\ 1 * s = s
  BY <1>1
<1>3. 2 * (x - n) <= s /\ 2 * (n - x) <= s
  BY <1>1, <1>2
<1> QED BY <1>1, <1>3 DEF s, x

LEMMA TimesMonotone ==
    ASSUME NEW k \in Nat, NEW a \in Int, NEW b \in Int, a <= b
    PROVE  k * a <= k * b
OBVIOUS

-----------------------------------------------------------------------------
(* Subscriptions *)

USE TimeAssumption

\* The whole days that remain are no more than the time left.
LEMMA WholeDays ==
    ASSUME NEW n \in Nat
    PROVE  /\ n \div DayTicks \in Nat
           /\ (n \div DayTicks) * DayTicks \in Nat
           /\ (n \div DayTicks) * DayTicks <= n
<1>1. ASSUME NEW d \in Nat \ {0}
      PROVE  n \div d \in Nat /\ (n \div d) * d \in Nat /\ (n \div d) * d <= n
  <2>1. n \div d \in Nat
    BY <1>1
  <2>2. (n \div d) * d \in Nat
    BY <2>1
  <2>3. (n \div d) * d <= n
    BY <1>1
  <2> QED BY <2>1, <2>2, <2>3
<1> QED BY <1>1, TimeAssumption

LEMMA Prices ==
    ASSUME NEW t \in SubscriptionTier
    PROVE  price_monthly(t) \in {0, 199, 499}
BY DEF SubscriptionTier, price_monthly

LEMMA PeriodTicks == Period * DayTicks \in Nat
OBVIOUS

\* The arithmetic of a settlement: prices P and Q of the days D, daily prices
\* dp and dq with last digits sp and sq, and so on to the net amount N.
LEMMA SettlementArithmetic ==
    ASSUME NEW M \in Nat, NEW D \in Nat, NEW P \in Int, NEW Q \in Int,
           NEW dp \in Int, NEW dq \in Int, NEW sp \in Nat, NEW sq \in Nat,
           NEW rp \in Int, NEW rq \in Int, NEW tp \in Nat, NEW tq \in Nat,
           NEW N \in Int, NEW u \in Nat,
           2 * (Q - M * dq) <= M * sq, 2 * (M * dp - P) <= M * sp,
           2 * (dq * D - rq) <= tq, 2 * (rp - dp * D) <= tp,
           2 * ((rq - rp) - N) <= u
    PROVE  2 * (M * N) + M * (D * (sq + sp) + tq + tp + u) >= 2 * (D * (Q - P))
<1> DEFINE A == M * dq  B == M * dp  S == M * (sq + sp)  E == tq + tp + u
<1>1. A \in Int /\ B \in Int /\ S \in Nat /\ E \in Nat
  OBVIOUS
<1>2. S = M * sq + M * sp
  OBVIOUS
<1>3. 2 * (Q - P) <= 2 * (A - B) + S
  <2>1. M * sq \in Nat /\ M * sp \in Nat
    OBVIOUS
  <2> QED BY <1>1, <1>2, <2>1
<1>4. D * (2 * (Q - P)) <= D * (2 * (A - B) + S)
  BY <1>1, <1>3, TimesMonotone
<1>5. D * (2 * (Q - P)) = 2 * (D * (Q - P)) /\ D * (2 * (A - B) + S) = 2 * (D * (A - B)) + D * S
  <2> HIDE DEF A, B, S
  <2> QED BY <1>1
<1>6. dq * D - dp * D = D * (dq - dp) /\ D * (dq - dp) \in Int
  OBVIOUS
<1>7. 2 * (D * (dq - dp)) <= 2 * N + E
  BY <1>1, <1>6
<1>8. M * (2 * (D * (dq - dp))) <= M * (2 * N + E)
  BY <1>1, <1>6, <1>7, TimesMonotone
<1>9. M * (2 * (D * (dq - dp))) = 2 * (D * (A - B))
  <2>1. A - B = M * (dq - dp)
    OBVIOUS
  <2>2. PICK z \in Int : z = dq - dp
    OBVIOUS
  <2>3. M * (2 * (D * z)) = 2 * (D * (M * z))
    OBVIOUS
  <2> QED BY <2>1, <2>2, <2>3
<1>10. M * (2 * N + E) = 2 * (M * N) + M * E
  <2> HIDE DEF E
  <2> QED BY <1>1
<1>11. M * (D * (sq + sp) + E) = D * S + M * E
  <2>1. PICK w \in Nat : w = sq + sp
    OBVIOUS
  <2>2. M * (D * w + E) = D * (M * w) + M * E
    <3> HIDE DEF E
    <3> QED BY <1>1
  <2> QED BY <2>1, <2>2
<1>12. D * (sq + sp) + tq + tp + u = D * (sq + sp) + E
  OBVIOUS
<1>13. M * N \in Int /\ M * E \in Int /\ D * S \in Int /\ D * (A - B) \in Int /\ D * (Q - P) \in Int
  <2> HIDE DEF A, B, S, E
  <2> QED BY <1>1
<1> QED
  <2> HIDE DEF A, B, S, E
  <2>1. 2 * (D * (Q - P)) <= 2 * (D * (A - B)) + D * S
    BY <1>4, <1>5
  <2>2. 2 * (D * (A - B)) <= 2 * (M * N) + M * E
    BY <1>8, <1>9, <1>10
  <2>3. 2 * (D * (Q - P)) <= 2 * (M * N) + (D * S + M * E)
    BY <2>1, <2>2, <1>13
  <2> QED BY <2>3, <1>11, <1>12, <1>13

\* The net amount of a tier change is the difference of the two prices for the
\* days that remain, less the error of its roundings at most.
LEMMA NetAmountNear ==
    ASSUME SubscriptionTypeOK, NEW t \in SubscriptionTier, Settles(t)
    PROVE  /\ net_amount(t) \in Int /\ RoundingError(t) \in Nat
           /\ 2 * (Period * net_amount(t)) + Period * RoundingError(t)
                >= 2 * (days_remaining * (price_monthly(t) * Units - price_monthly(tier) * Units))
<1> DEFINE D == days_remaining
           Q == price_monthly(t) * Units
           P == price_monthly(tier) * Units
<1>1. D \in Nat /\ tier \in SubscriptionTier
  BY WholeDays, PeriodTicks DEF days_remaining, SubscriptionTypeOK
<1>2. Q \in Int /\ P \in Int
  BY <1>1, Prices, DecimalAssumption
<1>3. /\ DailyDigit(t) \in Nat /\ daily(t) \in Int
      /\ 2 * (Q - Period * daily(t)) <= Period * DailyDigit(t)
  BY <1>2, RoundedNear DEF Settles, daily, DailyDigit
<1>4. /\ DailyDigit(tier) \in Nat /\ daily(tier) \in Int
      /\ 2 * (Period * daily(tier) - P) <= Period * DailyDigit(tier)
  BY <1>2, RoundedNear DEF Settles, daily, DailyDigit
<1>5. daily(t) * D \in Int /\ daily(tier) * D \in Int
  BY <1>1, <1>3, <1>4
<1>6. /\ ProrataDigit(t) \in Nat /\ prorata(t) \in Int
      /\ 2 * (daily(t) * D - prorata(t)) <= ProrataDigit(t)
  BY <1>5, WholeNear DEF Settles, prorata, ProrataDigit
<1>7. /\ ProrataDigit(tier) \in Nat /\ prorata(tier) \in Int
      /\ 2 * (prorata(tier) - daily(tier) * D) <= ProrataDigit(tier)
  BY <1>5, WholeNear DEF Settles, prorata, ProrataDigit
<1>8. prorata(t) - prorata(tier) \in Int
  BY <1>6, <1>7
<1>9. /\ NetDigit(t) \in Nat /\ net_amount(t) \in Int
      /\ 2 * ((prorata(t) - prorata(tier)) - net_amount(t)) <= NetDigit(t)
  BY <1>8, WholeNear DEF Settles, net_amount, NetDigit, Difference
<1> HIDE DEF D, P, Q
<1>10. 2 * (Period * net_amount(t))
         + Period * (D * (DailyDigit(t) + DailyDigit(tier))
                       + ProrataDigit(t) + ProrataDigit(tier) + NetDigit(t))
        >= 2 * (D * (Q - P))
  BY <1>1, <1>2, <1>3, <1>4, <1>6, <1>7, <1>9, SettlementArithmetic
<1>11. RoundingError(t) = D * (DailyDigit(t) + DailyDigit(tier))
                       + ProrataDigit(t) + ProrataDigit(tier) + NetDigit(t)
  BY DEF RoundingError, D
<1>12. RoundingError(t) \in Nat
  BY <1>1, <1>3, <1>4, <1>6, <1>7, <1>9, <1>11
<1> QED BY <1>9, <1>10, <1>11, <1>12 DEF D, P, Q

\* The invariant is inductive once the two properties are taken together.
SubscriptionInv == SubscriptionTypeOK /\ NeverUndercharged

LEMMA SubscriptionInitInv == SubscriptionInit => SubscriptionInv
<1> SUFFICES ASSUME SubscriptionInit PROVE SubscriptionInv
  OBVIOUS
<1>1. 0 \in 0..(Period * DayTicks)
  BY PeriodTicks
<1>2. SubscriptionTypeOK
  <2>1. 0 \in 0..MaxCalls
    OBVIOUS
  <2>2. auto_renew \in BOOLEAN
    BY Zenon DEF SubscriptionInit
  <2>3. /\ tier \in SubscriptionTier /\ begun \in SubscriptionTier /\ left = 0
        /\ calls = 0 /\ settled = 0 /\ consumed = 0 /\ slack = 0
    BY DEF SubscriptionInit, SubscriptionTier
  <2>4. settled \in Int /\ consumed \in Nat /\ slack \in Nat
    BY <2>3
  <2> QED BY <1>1, <2>1, <2>2, <2>3, <2>4 DEF SubscriptionTypeOK
<1>3. price_monthly(tier) = 0 /\ price_monthly(begun) = 0
  BY DEF SubscriptionInit, price_monthly
<1>4. NeverUndercharged
  <2>1. price_monthly(begun) * Units + settled = 0
    BY <1>3, DecimalAssumption DEF SubscriptionInit
  <2>2. consumed + left * price_monthly(tier) = 0 /\ slack = 0
    BY <1>3 DEF SubscriptionInit
  <2>3. 2 * Period * DayTicks * 0 = 0 /\ 2 * Units * 0 = 0
    BY PeriodTicks, DecimalAssumption
  <2> QED BY <2>1, <2>2, <2>3 DEF NeverUndercharged
<1> QED BY <1>2, <1>4 DEF SubscriptionInv

\* The arithmetic of a tier change: F is twice the ticks of a period, Z what
\* was paid, V the value of the service had, K the ticks kept of L, N the net
\* amount, m the service had meanwhile.
LEMMA ChangeArithmetic ==
    ASSUME NEW T \in Nat, NEW M \in Nat, NEW U \in Nat, NEW D \in Nat,
           NEW Z \in Int, NEW N \in Int, NEW s \in Nat, NEW e \in Nat,
           NEW V \in Nat, NEW L \in Nat, NEW p \in Nat, NEW q \in Nat, NEW m \in Nat,
           D * T <= L,
           2 * M * T * Z + s >= 2 * U * (V + L * p),
           2 * (M * N) + M * e >= 2 * (D * (q * U - p * U))
    PROVE  2 * M * T * (Z + N) + (s + M * T * e + 2 * U * m)
              >= 2 * U * (V + m + (D * T) * q)
<1> DEFINE K == D * T
<1>1. K \in Nat /\ L * p \in Nat /\ K * p \in Nat /\ K * q \in Nat
  OBVIOUS
<1>2. K * p <= L * p
  <2>1. p * K <= p * L
    BY <1>1, TimesMonotone
  <2> QED BY <1>1, <2>1
<1>3. T * (2 * (D * (q * U - p * U))) <= T * (2 * (M * N) + M * e)
  <2>1. 2 * (D * (q * U - p * U)) \in Int /\ 2 * (M * N) + M * e \in Int
    OBVIOUS
  <2> QED BY <2>1, TimesMonotone
<1>4. T * (2 * (M * N) + M * e) = 2 * M * T * N + M * T * e
  OBVIOUS
<1>5. T * (2 * (D * (q * U - p * U))) = 2 * U * (K * q) - 2 * U * (K * p)
  <2>1. q * U - p * U = U * (q - p)
    OBVIOUS
  <2>2. PICK z \in Int : z = q - p
    OBVIOUS
  <2>3. T * (2 * (D * (U * z))) = 2 * U * (K * z)
    OBVIOUS
  <2>4. K * z = K * q - K * p
    BY <1>1, <2>2
  <2>5. 2 * U * (K * q - K * p) = 2 * U * (K * q) - 2 * U * (K * p)
    BY <1>1
  <2> QED BY <2>1, <2>2, <2>3, <2>4, <2>5
<1> HIDE DEF K
<1>6. 2 * U * (V + L * p) >= 2 * U * (V + K * p)
  <2>1. V + K * p <= V + L * p /\ V + K * p \in Int /\ V + L * p \in Int
    BY <1>1, <1>2
  <2> QED BY <2>1, TimesMonotone
<1>7. /\ 2 * U * (V + K * p) = 2 * U * V + 2 * U * (K * p)
      /\ 2 * U * (V + m + K * q) = 2 * U * V + 2 * U * m + 2 * U * (K * q)
      /\ 2 * M * T * (Z + N) = 2 * M * T * Z + 2 * M * T * N
  BY <1>1
<1>8. /\ 2 * U * V \in Int /\ 2 * U * (K * p) \in Int /\ 2 * U * (K * q) \in Int
      /\ 2 * U * m \in Int /\ 2 * M * T * Z \in Int /\ 2 * M * T * N \in Int /\ M * T * e \in Int
      /\ 2 * U * (V + L * p) \in Int
  BY <1>1
<1>9. 2 * M * T * Z + s >= 2 * U * V + 2 * U * (K * p)
  BY <1>6, <1>7, <1>8
<1>10. 2 * M * T * N + M * T * e >= 2 * U * (K * q) - 2 * U * (K * p)
  BY <1>3, <1>4, <1>5
<1>11. 2 * M * T * (Z + N) + (s + M * T * e + 2 * U * m) >= 2 * U * (V + m + K * q)
  BY <1>7, <1>8, <1>9, <1>10
<1> QED BY <1>11 DEF K

LEMMA SubscriptionInductive ==
    SubscriptionInv /\ [SubscriptionNext]_subscriptionVars => SubscriptionInv'
<1> SUFFICES ASSUME SubscriptionInv, [SubscriptionNext]_subscriptionVars PROVE SubscriptionInv'
  OBVIOUS
<1>0. /\ left \in Nat /\ left <= Period * DayTicks /\ calls \in 0..MaxCalls
      /\ settled \in Int /\ consumed \in Nat /\ slack \in Nat
      /\ tier \in SubscriptionTier /\ begun \in SubscriptionTier
      /\ price_monthly(tier) \in Nat /\ price_monthly(begun) \in Nat
      /\ Units \in Nat
  BY PeriodTicks, Prices, DecimalAssumption DEF SubscriptionInv, SubscriptionTypeOK
<1>1. ASSUME NEW t \in SubscriptionTier, subscribe(t) PROVE SubscriptionInv'
  <2>1. price_monthly(t) \in Nat
    BY Prices
  <2>2. /\ left' = Period * DayTicks /\ tier' = t /\ begun' = t
        /\ settled' = 0 /\ consumed' = 0 /\ slack' = 0 /\ auto_renew' = TRUE
        /\ calls < MaxCalls /\ calls' = calls + 1
    BY <1>1 DEF subscribe, Call
  <2>3. SubscriptionTypeOK'
    <3>1. left' \in 0..(Period * DayTicks) /\ calls' \in 0..MaxCalls
      BY <1>0, <2>2, PeriodTicks
    <3> QED BY <2>2, <3>1 DEF SubscriptionTypeOK
  <2>4. 2 * Period * DayTicks * (price_monthly(t) * Units + 0) + 0
           >= 2 * Units * (0 + (Period * DayTicks) * price_monthly(t))
    <3>1. ASSUME NEW M \in Nat, NEW T \in Nat, NEW U \in Nat, NEW p \in Nat
          PROVE  2 * M * T * (p * U + 0) + 0 = 2 * U * (0 + (M * T) * p)
      OBVIOUS
    <3>2. 2 * Units * (0 + (Period * DayTicks) * price_monthly(t)) \in Nat
      BY <1>0, <2>1, PeriodTicks
    <3> QED BY <1>0, <2>1, <3>1, <3>2
  <2>5. NeverUndercharged'
    BY <2>2, <2>4 DEF NeverUndercharged
  <2> QED BY <2>3, <2>5 DEF SubscriptionInv
<1>2. ASSUME NEW t \in SubscriptionTier, NEW lag \in 0..MaxLag, change_tier(t, lag)
      PROVE  SubscriptionInv'
  <2> DEFINE days == days_remaining
             m == Meanwhile(lag)
             e == RoundingError(t)
             Z == price_monthly(begun) * Units + settled
  <2>1. days \in Nat /\ days * DayTicks \in Nat /\ days * DayTicks <= left
    BY <1>0, WholeDays DEF days_remaining
  <2>2. price_monthly(t) \in Nat
    BY Prices
  <2>3. m \in Nat
    <3>1. (IF lag < left THEN lag ELSE left) \in Nat
      BY <1>0
    <3> QED BY <1>0, <3>1 DEF Meanwhile
  <2>4. /\ net_amount(t) \in Int /\ e \in Nat
        /\ 2 * (Period * net_amount(t)) + Period * e
             >= 2 * (days * (price_monthly(t) * Units - price_monthly(tier) * Units))
    BY <1>2, NetAmountNear DEF SubscriptionInv, change_tier
  <2>5. /\ left' = days * DayTicks /\ tier' = t /\ begun' = begun /\ auto_renew' = TRUE
        /\ settled' = settled + net_amount(t) /\ consumed' = consumed + m
        /\ slack' = slack + Period * DayTicks * e + 2 * Units * m
        /\ calls < MaxCalls /\ calls' = calls + 1
    BY <1>2 DEF change_tier, Settle, Call
  <2> HIDE DEF days, m, e
  <2>6. SubscriptionTypeOK'
    <3>1. left' \in 0..(Period * DayTicks) /\ calls' \in 0..MaxCalls
      BY <1>0, <2>1, <2>5, PeriodTicks
    <3>2. settled' \in Int /\ consumed' \in Nat
      BY <1>0, <2>3, <2>4, <2>5
    <3>3. slack' \in Nat
      BY <1>0, <2>3, <2>4, <2>5, PeriodTicks
    <3> QED BY <1>0, <2>5, <3>1, <3>2, <3>3 DEF SubscriptionTypeOK
  <2>7. Z \in Int
    BY <1>0
  <2>8. 2 * Period * DayTicks * Z + slack >= 2 * Units * (consumed + left * price_monthly(tier))
    BY DEF SubscriptionInv, NeverUndercharged
  <2>9. (price_monthly(begun) * Units) + (settled + net_amount(t)) = Z + net_amount(t)
    BY <1>0, <2>4
  <2> HIDE DEF Z
  <2>10. 2 * Period * DayTicks * (Z + net_amount(t))
           + (slack + Period * DayTicks * e + 2 * Units * m)
          >= 2 * Units * (consumed + m + (days * DayTicks) * price_monthly(t))
    BY <1>0, <2>1, <2>2, <2>3, <2>4, <2>7, <2>8, ChangeArithmetic
  <2>11. NeverUndercharged'
    BY <2>5, <2>9, <2>10 DEF NeverUndercharged
  <2> QED BY <2>6, <2>11 DEF SubscriptionInv
<1>3. CASE Elapse
  <2>2. /\ left' = left - 1 /\ left > 0 /\ tier' = tier /\ begun' = begun
        /\ settled' = settled /\ slack' = slack
        /\ consumed' = consumed + price_monthly(tier)
    BY <1>3 DEF Elapse, is_active
  <2>3. SubscriptionTypeOK'
    BY <1>0, <1>3, <2>2, PeriodTicks DEF Elapse, SubscriptionTypeOK, SubscriptionInv
  <2>4. consumed' + left' * price_monthly(tier) = consumed + left * price_monthly(tier)
    BY <1>0, <2>2
  <2>5. NeverUndercharged'
    BY <2>2, <2>4 DEF NeverUndercharged, SubscriptionInv
  <2> QED BY <2>3, <2>5 DEF SubscriptionInv
<1>4. CASE UNCHANGED subscriptionVars
  BY <1>4 DEF subscriptionVars, SubscriptionInv, SubscriptionTypeOK, NeverUndercharged
<1> QED BY <1>1, <1>2, <1>3, <1>4 DEF SubscriptionNext

\* The type invariant, and with it that 30 - remaining_days never underflows.
THEOREM SubscriptionTypeCorrect == SubscriptionSpec => []SubscriptionTypeOK
<1>1. SubscriptionInv => SubscriptionTypeOK
  BY DEF SubscriptionInv
<1> QED BY <1>1, SubscriptionInitInv, SubscriptionInductive, PTL DEF SubscriptionSpec

\* The price of the tier a period began with and the net amounts of change_tier
\* cover the service had and the time left, up to the rounding of Decimal and
\* the time a call takes, for periods and days of any length and any precision.
THEOREM PaymentsCoverService == SubscriptionSpec => []NeverUndercharged
<1>1. SubscriptionInv => NeverUndercharged
  BY DEF SubscriptionInv
<1> QED BY <1>1, SubscriptionInitInv, SubscriptionInductive, PTL DEF SubscriptionSpec

\* A tier change never leaves more paid time than there was.
THEOREM NoFreeTime == SubscriptionSpec => ChangeNeverExtends
<1>1. SubscriptionTypeOK /\ [SubscriptionNext]_subscriptionVars =>
        [tier' # tier /\ left' # Period * DayTicks => left' <= left]_subscriptionVars
  <2> SUFFICES ASSUME SubscriptionTypeOK, SubscriptionNext, tier' # tier, left' # Period * DayTicks
               PROVE  left' <= left
    BY DEF subscriptionVars
  <2>1. left \in Nat
    BY PeriodTicks DEF SubscriptionTypeOK
  <2>2. PICK t \in SubscriptionTier, lag \in 0..MaxLag : change_tier(t, lag)
    BY DEF SubscriptionNext, subscribe, Elapse
  <2> QED BY <2>1, <2>2, WholeDays DEF change_tier, days_remaining
<1> QED BY <1>1, SubscriptionTypeCorrect, PTL DEF SubscriptionSpec, ChangeNeverExtends

-----------------------------------------------------------------------------
(* Charges *)

HIDE TimeAssumption
USE ChargesAssumption

\* Every rate is a natural number of ten thousandths.
LEMMA RateNat ==
    ASSUME NEW disk \in DiskType, NEW r \in Nat, NEW cushion \in BOOLEAN
    PROVE  calculate_hourly_rate(disk, r, cushion) \in Nat
<1> DEFINE quarter == IF cushion THEN 5 ELSE 4
<1>1. multiplier(disk) \in {2, 3, 4}
  BY DEF multiplier, DiskType
<1>2. quarter \in {4, 5}
  OBVIOUS
<1>3. 375 * r * multiplier(disk) \in Nat
  BY <1>1
<1>4. calculate_hourly_rate(disk, r, cushion) = (375 * r * multiplier(disk)) * quarter
  BY <1>1 DEF calculate_hourly_rate
<1> QED BY <1>2, <1>3, <1>4

\* The two shares of a total, and what is left after the platform's.
LEMMA Shares ==
    ASSUME NEW t \in Int, Fits(t, 10), Fits(9 * t, 10), Fits(t - platform_share(t), 1)
    PROVE  /\ platform_share(t) \in Int /\ host_share(t) \in Int
           /\ Step(t, 10) \in Nat /\ Step(9 * t, 10) \in Nat
           /\ 2 * Abs(platform_share(t) + host_share(t) - t) <= Step(t, 10) + Step(9 * t, 10)
           /\ 2 * Abs(split_revenue(t).platform + split_revenue(t).host - t)
                <= Step(t - split_revenue(t).platform, 1)
<1> DEFINE p == platform_share(t)
           h == host_share(t)
           a == Step(t, 10)
           b == Step(9 * t, 10)
<1>1. /\ a \in Nat /\ p \in Int /\ 2 * (10 * p - t) <= 10 * a /\ 2 * (t - 10 * p) <= 10 * a
  BY RoundedNear DEF platform_share
<1>2. /\ b \in Nat /\ h \in Int
      /\ 2 * (10 * h - 9 * t) <= 10 * b /\ 2 * (9 * t - 10 * h) <= 10 * b
  BY RoundedNear DEF host_share
<1> HIDE DEF h, a, b
<1>3. 2 * (p + h - t) <= a + b /\ 2 * (t - (p + h)) <= a + b
  <2> HIDE DEF p
  <2> QED BY <1>1, <1>2
<1>4. 2 * Abs(p + h - t) <= a + b
  <2> HIDE DEF p
  <2> QED BY <1>1, <1>2, <1>3 DEF Abs
<1>5. t - p \in Int
  BY <1>1
<1>6. PICK x \in Int, s \in Nat : /\ x = Difference(t, p) /\ s = Step(t - p, 1)
                                  /\ 2 * (x - (t - p)) <= s /\ 2 * ((t - p) - x) <= s
  BY <1>5, WholeNear DEF Difference
<1>7. 2 * Abs(p + x - t) <= s
  <2> HIDE DEF p
  <2> QED BY <1>1, <1>6 DEF Abs
<1>8. split_revenue(t).platform = p /\ split_revenue(t).host = x
  BY <1>6 DEF split_revenue
<1> QED BY <1>1, <1>2, <1>4, <1>6, <1>7, <1>8 DEF a, b, h

\* An entry is made of a total and its two shares.
IsEntry(e) ==
    \E t \in Int :
        /\ e = [total_cost |-> t, platform_fee |-> platform_share(t),
                host_fee |-> host_share(t)]
        /\ Fits(t, 10) /\ Fits(9 * t, 10) /\ Fits(t - platform_share(t), 1)

\* The inductive invariant: the sums are at most as far apart as the last
\* digits of the fees allow.
ChargesInv ==
    /\ entries \in Nat
    /\ entries > 0 => IsEntry(entry)
    /\ billed \in Int /\ fees \in Int /\ last_digits \in Nat
    /\ 2 * Abs(fees - billed) <= last_digits

LEMMA EntryMade ==
    ASSUME NEW volume \in Int, NEW rate \in Nat, Computable(1, volume, rate)
    PROVE  IsEntry(BillingEntry(1, volume, rate))
<1> DEFINE total == total_cost(1, volume, rate)
<1>1. rate * volume \in Int
  OBVIOUS
<1>2. Rounded(rate * volume, 10000) \in Int
  BY <1>1, RoundedNear DEF Computable
<1>3. total \in Int
  BY <1>2, WholeNear DEF Computable, total_cost
<1> QED BY <1>3 DEF BillingEntry, IsEntry, Computable

LEMMA ChargesInitInv == ChargesInit => ChargesInv
BY DEF ChargesInit, ChargesInv, Abs

LEMMA ChargesInductive == ChargesInv /\ [ChargesNext]_chargeVars => ChargesInv'
<1> SUFFICES ASSUME ChargesInv, [ChargesNext]_chargeVars PROVE ChargesInv'
  OBVIOUS
<1>1. ASSUME NEW bytes \in Volumes, NEW disk \in DiskType, NEW r \in Replicas,
             NEW cushion \in BOOLEAN, calculate_hourly(bytes, disk, r, cushion)
      PROVE  ChargesInv'
  <2> DEFINE volume == Rounded(bytes * Units, TB)
             rate == calculate_hourly_rate(disk, r, cushion)
  <2>1. volume \in Int
    <3>1. bytes * Units \in Int
      BY DecimalAssumption
    <3> QED BY <1>1, <3>1, RoundedNear DEF calculate_hourly
  <2>2. rate \in Nat
    BY RateNat
  <2>3. IsEntry(entry')
    BY <1>1, <2>1, <2>2, EntryMade DEF calculate_hourly
  <2>4. PICK t \in Int :
           /\ entry'.total_cost = t
           /\ entry'.platform_fee = platform_share(t)
           /\ entry'.host_fee = host_share(t)
           /\ Fits(t, 10) /\ Fits(9 * t, 10) /\ Fits(t - platform_share(t), 1)
    BY <2>3 DEF IsEntry
  <2>5. /\ billed' = billed + t /\ entries' = entries + 1
        /\ fees' = fees + platform_share(t) + host_share(t)
        /\ last_digits' = last_digits + Step(t, 10) + Step(9 * t, 10)
    BY <1>1, <2>4 DEF calculate_hourly
  <2>6. PICK p \in Int, h \in Int, a \in Nat, b \in Nat :
           /\ p = platform_share(t) /\ h = host_share(t)
           /\ a = Step(t, 10) /\ b = Step(9 * t, 10)
           /\ 2 * Abs(p + h - t) <= a + b
    BY <2>4, Shares
  <2>7. /\ billed' \in Int /\ fees' \in Int /\ last_digits' \in Nat
        /\ 2 * Abs(fees' - billed') <= last_digits'
    BY <2>5, <2>6 DEF ChargesInv, Abs
  <2> QED BY <2>3, <2>5, <2>7 DEF ChargesInv, IsEntry
<1>2. CASE UNCHANGED chargeVars
  BY <1>2 DEF ChargesInv, IsEntry, chargeVars
<1> QED BY <1>1, <1>2 DEF ChargesNext

\* Fees and charges never drift apart by more than half a last digit for each
\* fee, for every size of mantissa and set of steps, every rate and volume.
THEOREM FeesCorrect == ChargesSpec => []FeesAddUp
<1>1. ChargesInv => FeesAddUp
  <2> SUFFICES ASSUME ChargesInv PROVE FeesAddUp
    OBVIOUS
  <2>1. ASSUME entries > 0
        PROVE  2 * Abs(split_revenue(entry.total_cost).platform
                       + split_revenue(entry.total_cost).host - entry.total_cost)
                  <= Step(entry.total_cost - split_revenue(entry.total_cost).platform, 1)
    <3>1. PICK t \in Int : /\ entry.total_cost = t
                           /\ Fits(t, 10) /\ Fits(9 * t, 10)
                           /\ Fits(t - platform_share(t), 1)
      BY <2>1 DEF ChargesInv, IsEntry
    <3> QED BY <3>1, Shares
  <2> QED BY <2>1 DEF ChargesInv, FeesAddUp
<1> QED BY <1>1, ChargesInitInv, ChargesInductive, PTL DEF ChargesSpec
=============================================================================
