---------------------------- MODULE LedgerProofs -----------------------------
(***************************************************************************)
(* What the workers keep true of the ledger tables, for every chain, set   *)
(* of jobs and number of workers, and whatever the tables hold that an     *)
(* earlier release wrote: the balances are the sums of the live entries,   *)
(* the blocks of a holder's row bound its movements, events and entries    *)
(* are orphaned and restored together.                                     *)
(***************************************************************************)
EXTENDS Ledger, Induction

-----------------------------------------------------------------------------
(* Types *)

EventRow == [block : Blocks, hash : DOMAIN Versions, bare : BOOLEAN,
             orphaned : BOOLEAN]
EntryRow == [from : Accounts \cup {NoAccount}, to : Accounts \cup {NoAccount},
             amount : Nat, block : Blocks, hash : DOMAIN Versions,
             orphaned : BOOLEAN]
BalanceRow == [amount : Int, first : OptionalBlocks, last : OptionalBlocks]
FetchedLog == [log : Logs, block : Blocks, hash : DOMAIN Versions]

\* The entries that logs have.
EntryKey == {k \in LogKey \X Nat : \E l \in Logs : l.key = k[1] /\ k[2] \in DOMAIN l.entries}

\* The tables with keys in K and rows in R.
Table(K, R) == UNION {[D -> R] : D \in SUBSET K}

\* The state of an open transaction.
State == [event : Table(LogKey, EventRow), entry : Table(EntryKey, EntryRow),
          balance : Table(Accounts, BalanceRow), ok : BOOLEAN]

LEMMA TableTyped ==
  ASSUME NEW K, NEW R, NEW t \in Table(K, R)
  PROVE  /\ DOMAIN t \subseteq K /\ \A k \in DOMAIN t : t[k] \in R
         /\ t \in [DOMAIN t -> R]
<1>1. PICK D \in SUBSET K : t \in [D -> R]
  BY DEF Table
<1> QED
  BY <1>1

LEMMA TableMember ==
  ASSUME NEW K, NEW R, NEW D \in SUBSET K, NEW t \in [D -> R]
  PROVE  t \in Table(K, R)
BY DEF Table

LEMMA PutCorrect ==
  ASSUME NEW K, NEW R, NEW t \in Table(K, R), NEW k \in K, NEW row \in R
  PROVE  /\ Put(t, k, row) \in Table(K, R)
         /\ DOMAIN Put(t, k, row) = DOMAIN t \cup {k}
         /\ Put(t, k, row)[k] = row
         /\ \A x \in DOMAIN t : x # k => Put(t, k, row)[x] = t[x]
<1>1. DOMAIN t \subseteq K /\ \A x \in DOMAIN t : t[x] \in R
  BY TableTyped
<1>2. Put(t, k, row) \in [DOMAIN t \cup {k} -> R]
  BY <1>1 DEF Put
<1>3. DOMAIN t \cup {k} \in SUBSET K
  BY <1>1
<1> QED
  BY <1>2, <1>3, TableMember DEF Put

LEMMA EmptyTable ==
  ASSUME NEW K, NEW R
  PROVE  <<>> \in Table(K, R) /\ DOMAIN <<>> = {}
<1>1. <<>> \in [{} -> R] /\ DOMAIN <<>> = {}
  OBVIOUS
<1> QED
  BY <1>1, TableMember

LEMMA StateTyped ==
  ASSUME NEW s \in State
  PROVE  /\ s.event \in Table(LogKey, EventRow)
         /\ s.entry \in Table(EntryKey, EntryRow)
         /\ s.balance \in Table(Accounts, BalanceRow)
         /\ s.ok \in BOOLEAN
         /\ s = [event |-> s.event, entry |-> s.entry, balance |-> s.balance, ok |-> s.ok]
BY DEF State

-----------------------------------------------------------------------------
(* The chain *)

\* The hash of a block is the last version that replaced it.
LEMMA HashOfCorrect ==
  ASSUME version \in DOMAIN Versions, NEW b \in Blocks
  PROVE  /\ HashOf(b) \in 1..version /\ HashOf(b) \in DOMAIN Versions
         /\ Versions[HashOf(b)].fork <= b
         /\ \A u \in (HashOf(b) + 1)..version : Versions[u].fork > b
<1> USE LedgerAssumption DEF Blocks
<1> DEFINE T == {n \in 0..(version - 1) : Versions[version - n].fork <= b}
<1>1. version \in Nat /\ version >= 1 /\ \A v \in 1..version : v \in DOMAIN Versions
  OBVIOUS
<1>2. version - 1 \in T
  <2>1. version - (version - 1) = 1 /\ version - 1 \in 0..(version - 1)
    BY <1>1
  <2>2. Versions[version - (version - 1)].fork <= b
    BY <2>1
  <2> QED
    BY <2>1, <2>2
<1>3. PICK n \in T : \A m \in T : n <= m
  <2>1. T \subseteq Nat /\ T # {}
    BY <1>1, <1>2
  <2> HIDE DEF T
  <2> QED
    BY <2>1, LeastElement
<1> DEFINE v == version - n
<1>4. v \in 1..version /\ Versions[v].fork <= b
  BY <1>1, <1>3
<1>5. ASSUME NEW u \in (v + 1)..version PROVE Versions[u].fork > b
  <2>1. version - u \in 0..(version - 1) /\ version - u < n /\ version - (version - u) = u
    BY <1>1, <1>3, <1>4
  <2>2. version - u \notin T
    BY <1>3, <2>1
  <2>3. u \in DOMAIN Versions /\ ~(Versions[u].fork <= b)
    BY <1>1, <1>4, <2>1, <2>2
  <2> QED
    BY <2>3
<1> HIDE DEF v
<1>6. /\ HashOf(b) \in 1..version /\ Versions[HashOf(b)].fork <= b
      /\ \A u \in (HashOf(b) + 1)..version : Versions[u].fork > b
  BY <1>4, <1>5 DEF HashOf
<1> QED
  BY <1>1, <1>6

\* The logs of a block are logs, in this block and with its hash.
LEMMA LogsOfCorrect ==
  ASSUME version \in DOMAIN Versions, NEW b \in Blocks
  PROVE  /\ LogsOf(b) \in Seq(FetchedLog)
         /\ \A f \in ToSet(LogsOf(b)) : f \in FetchedLog /\ f.block = b
<1>1. HashOf(b) \in DOMAIN Versions
  BY HashOfCorrect
<1> DEFINE logs == Versions[version].logs[b]
<1>2. logs \in Seq(Logs)
  BY LedgerAssumption
<1> HIDE DEF logs
<1>3. \A i \in DOMAIN logs : [log |-> logs[i], block |-> b, hash |-> HashOf(b)] \in FetchedLog
  BY <1>1, <1>2 DEF FetchedLog
<1>4. LogsOf(b) = [i \in 1..Len(logs) |-> [log |-> logs[i], block |-> b, hash |-> HashOf(b)]]
  BY <1>2 DEF LogsOf, logs
<1> QED
  BY <1>2, <1>3, <1>4 DEF ToSet

-----------------------------------------------------------------------------
(* One change of the balances *)

EffectOf(row, a) == IF row.orphaned THEN 0 ELSE Effect(row, a)

\* What a row does to a balance, and whose balance.
LEMMA LiveEffectCorrect ==
  ASSUME NEW row \in EntryRow, NEW a
  PROVE  /\ LiveEffect({row}, a) = EffectOf(row, a) /\ EffectOf(row, a) \in Int
         /\ LiveEffect({}, a) = 0
         /\ Live({row}) = IF row.orphaned THEN {} ELSE {row}
<1>1. row.orphaned \in BOOLEAN /\ row.amount \in Int
  BY DEF EntryRow
<1>2. Live({row}) = IF row.orphaned THEN {} ELSE {row}
  BY <1>1 DEF Live
<1>3. Live({}) = {}
  BY DEF Live
<1>4. Effect(row, a) \in Int
  BY <1>1 DEF Effect
<1> QED
  BY <1>1, <1>2, <1>3, <1>4 DEF LiveEffect, EffectOf

\* The previous row, as a set of at most one.
Previous(rows, k) == IF k \in DOMAIN rows THEN {rows[k]} ELSE {}

LEMMA DeltaCorrect ==
  ASSUME NEW rows \in Table(EntryKey, EntryRow), NEW k, NEW row \in EntryRow,
         NEW a \in Accounts
  PROVE  /\ Delta(Previous(rows, k), row, a) =
              EffectOf(row, a) - (IF k \in DOMAIN rows THEN EffectOf(rows[k], a) ELSE 0)
         /\ Delta(Previous(rows, k), row, a) \in Int
         /\ a \notin Touched(Previous(rows, k), row) =>
              Delta(Previous(rows, k), row, a) = 0
<1>1. /\ LiveEffect({row}, a) = EffectOf(row, a) /\ EffectOf(row, a) \in Int
      /\ LiveEffect({}, a) = 0
  BY LiveEffectCorrect
<1>2. ASSUME k \in DOMAIN rows
      PROVE  /\ rows[k] \in EntryRow /\ EffectOf(rows[k], a) \in Int
             /\ LiveEffect({rows[k]}, a) = EffectOf(rows[k], a)
  BY <1>2, TableTyped, LiveEffectCorrect
<1>3. ASSUME NEW r \in EntryRow, ~r.orphaned => a \notin {r.from, r.to}
      PROVE  EffectOf(r, a) = 0
  BY <1>3 DEF EffectOf, Effect, EntryRow
<1>4. /\ Delta(Previous(rows, k), row, a) =
             EffectOf(row, a) - (IF k \in DOMAIN rows THEN EffectOf(rows[k], a) ELSE 0)
      /\ Delta(Previous(rows, k), row, a) \in Int
  <2>1. CASE k \in DOMAIN rows
    <3>1. Previous(rows, k) = {rows[k]}
      BY <2>1 DEF Previous
    <3> QED
      BY <1>1, <1>2, <2>1, <3>1 DEF Delta
  <2>2. CASE k \notin DOMAIN rows
    <3>1. Previous(rows, k) = {}
      BY <2>2 DEF Previous
    <3> QED
      BY <1>1, <2>2, <3>1 DEF Delta
  <2> QED
    BY <2>1, <2>2
<1>5. ASSUME a \notin Touched(Previous(rows, k), row)
      PROVE  Delta(Previous(rows, k), row, a) = 0
  <2>1. \A r \in Previous(rows, k) \cup {row} : ~r.orphaned => a \notin {r.from, r.to}
    BY <1>5 DEF Touched, Live
  <2>2. EffectOf(row, a) = 0
    BY <1>3, <2>1
  <2>3. k \in DOMAIN rows => EffectOf(rows[k], a) = 0
    BY <1>2, <1>3, <2>1 DEF Previous
  <2> QED
    BY <1>4, <2>2, <2>3
<1> QED
  BY <1>4, <1>5

\* The earlier and the later of two optional blocks.
LEMMA OptionalBlockCorrect ==
  ASSUME NEW old \in OptionalBlocks, NEW new \in OptionalBlocks
  PROVE  /\ FirstReceived(old, new) \in OptionalBlocks
         /\ LastMoved(old, new) \in OptionalBlocks
         /\ \A x \in old \cup new : \E b \in FirstReceived(old, new) : b <= x
         /\ \A x \in old \cup new : \E b \in LastMoved(old, new) : x <= b
<1> DEFINE S == old \cup new
<1>1. S \subseteq Blocks /\ \A x \in S : x \in Int
  BY LedgerAssumption DEF OptionalBlocks, Blocks
<1>2. CASE S = {}
  BY <1>2 DEF FirstReceived, LastMoved, OptionalBlock, OptionalBlocks
<1>3. CASE S # {}
  <2>1. PICK x \in S, y \in S : S = {x, y}
    BY <1>3 DEF OptionalBlocks
  <2>2. x \in Int /\ y \in Int
    BY <1>1
  <2>3. \E z \in S : \A u \in S : z <= u
    BY <2>1, <2>2
  <2>4. \E z \in S : \A u \in S : z >= u
    BY <2>1, <2>2
  <2> HIDE DEF S
  <2>5. Least(S) \in S /\ \A u \in S : Least(S) <= u
    BY <2>3 DEF Least
  <2>6. Greatest(S) \in S /\ \A u \in S : u <= Greatest(S)
    BY <1>1, <2>4 DEF Greatest
  <2>7. FirstReceived(old, new) = {Least(S)} /\ LastMoved(old, new) = {Greatest(S)}
    BY <1>3 DEF FirstReceived, LastMoved, OptionalBlock, S
  <2>8. {Least(S)} \in OptionalBlocks /\ {Greatest(S)} \in OptionalBlocks
    BY <1>1, <2>5, <2>6 DEF OptionalBlocks
  <2> QED
    BY <2>5, <2>6, <2>7, <2>8 DEF S
<1> QED
  BY <1>2, <1>3

AmountIn(balances, a) == IF a \in DOMAIN balances THEN balances[a].amount ELSE 0

\* A live row has been taken into account in the row of one of its holders.
Bounds(holding, row, a) ==
  /\ \E b \in holding.last : row.block <= b
  /\ a = row.to => \E b \in holding.first : b <= row.block

\* What apply_balance_delta does to the transaction s.
LEMMA ApplyCorrect ==
  ASSUME NEW s \in State, NEW rows \in Table(EntryKey, EntryRow), NEW k,
         NEW row \in EntryRow
  PROVE  LET previous == Previous(rows, k)
             r == ApplyBalanceDelta(s, previous, row)
         IN  /\ r \in State /\ r.event = s.event /\ r.entry = s.entry
             /\ r.ok => s.ok
             /\ DOMAIN s.balance \subseteq DOMAIN r.balance
             /\ \A a \in Accounts :
                  /\ AmountIn(r.balance, a) =
                       AmountIn(s.balance, a) + Delta(previous, row, a)
                  /\ AmountIn(s.balance, a) \in Int
                  /\ r.ok /\ AmountIn(s.balance, a) >= 0 => AmountIn(r.balance, a) >= 0
                  /\ Delta(previous, row, a) # 0 => a \in DOMAIN r.balance
             /\ \A a \in DOMAIN s.balance : \A x \in EntryRow :
                  Bounds(s.balance[a], x, a) => Bounds(r.balance[a], x, a)
             /\ ~row.orphaned =>
                  \A a \in {row.from, row.to} \cap DOMAIN r.balance :
                    Bounds(r.balance[a], row, a)
<1> DEFINE previous == Previous(rows, k)
           r == ApplyBalanceDelta(s, previous, row)
           T == Touched(previous, row)
           Old(a) == IF a \in DOMAIN s.balance THEN s.balance[a]
                     ELSE [amount |-> 0, first |-> {}, last |-> {}]
           Next(a) == Old(a).amount + Delta(previous, row, a)
           received(a) == {x.block : x \in {y \in Live({row}) : y.to = a}}
           moved(a) == {x.block : x \in {y \in Live({row}) : a \in {y.from, y.to}}}
           Row(a) == [amount |-> Next(a),
                      first |-> FirstReceived(Old(a).first, received(a)),
                      last |-> LastMoved(Old(a).last, moved(a))]
           W == {a \in T : a \in DOMAIN s.balance \/ Next(a) # 0}
           B == [a \in DOMAIN s.balance \cup W |->
                   IF a \in W THEN Row(a) ELSE s.balance[a]]
<1>1. r = [s EXCEPT !.ok = @ /\ ~\E a \in T : Negative(Next(a)), !.balance = B]
  BY DEF ApplyBalanceDelta
<1>2. T \subseteq Accounts /\ DOMAIN s.balance \subseteq Accounts
  BY StateTyped, TableTyped DEF Touched
<1>3. ASSUME NEW a \in Accounts
      PROVE  /\ Old(a) \in BalanceRow /\ Old(a).amount \in Int
             /\ Old(a).first \in OptionalBlocks /\ Old(a).last \in OptionalBlocks
             /\ Old(a).amount = AmountIn(s.balance, a)
  <2>1. \A x \in DOMAIN s.balance : s.balance[x] \in BalanceRow
    BY StateTyped, TableTyped
  <2>2. {} \in OptionalBlocks
    BY DEF OptionalBlocks
  <2>3. Old(a) \in BalanceRow
    BY <2>1, <2>2 DEF BalanceRow
  <2> QED
    BY <2>3 DEF AmountIn, BalanceRow
<1>4. ASSUME NEW a \in Accounts
      PROVE  /\ received(a) \in OptionalBlocks /\ moved(a) \in OptionalBlocks
             /\ ~row.orphaned =>
                  /\ a \in {row.from, row.to} => row.block \in moved(a)
                  /\ a = row.to => row.block \in received(a)
  <2>1. row.block \in Blocks /\ row.orphaned \in BOOLEAN
    BY DEF EntryRow
  <2>2. Live({row}) = IF row.orphaned THEN {} ELSE {row}
    BY LiveEffectCorrect
  <2>3. received(a) = IF ~row.orphaned /\ row.to = a THEN {row.block} ELSE {}
    BY <2>1, <2>2
  <2>4. moved(a) = IF ~row.orphaned /\ a \in {row.from, row.to} THEN {row.block} ELSE {}
    BY <2>1, <2>2
  <2> QED
    BY <2>1, <2>3, <2>4 DEF OptionalBlocks
<1>5. ASSUME NEW a \in Accounts
      PROVE  /\ Delta(previous, row, a) \in Int
             /\ a \notin T => Delta(previous, row, a) = 0
  BY DeltaCorrect
<1> HIDE DEF T, previous, received, moved, Old
<1>6. ASSUME NEW a \in Accounts
      PROVE  /\ Row(a) \in BalanceRow /\ Next(a) \in Int /\ Row(a).amount = Next(a)
             /\ Row(a).first = FirstReceived(Old(a).first, received(a))
             /\ Row(a).last = LastMoved(Old(a).last, moved(a))
  <2>1. Next(a) \in Int
    BY <1>3, <1>5
  <2>2. /\ FirstReceived(Old(a).first, received(a)) \in OptionalBlocks
        /\ LastMoved(Old(a).last, moved(a)) \in OptionalBlocks
    BY <1>3, <1>4, OptionalBlockCorrect
  <2> HIDE DEF Next
  <2> QED
    BY <2>1, <2>2 DEF BalanceRow
<1> HIDE DEF Row, Next
<1>7. B \in Table(Accounts, BalanceRow)
  <2>1. B \in [DOMAIN s.balance \cup W -> BalanceRow]
    BY <1>2, <1>6, StateTyped, TableTyped
  <2>2. DOMAIN s.balance \cup W \in SUBSET Accounts
    BY <1>2
  <2> HIDE DEF B, W
  <2> QED
    BY <2>1, <2>2, TableMember
<1>8. DOMAIN B = DOMAIN s.balance \cup W /\ W \subseteq T
  OBVIOUS
<1>9. \A a \in DOMAIN B : B[a] = IF a \in W THEN Row(a) ELSE s.balance[a]
  OBVIOUS
<1>10. \A a \in T : a \in W <=> a \in DOMAIN s.balance \/ Next(a) # 0
  OBVIOUS
<1> HIDE DEF B, W
<1>11. /\ r.event = s.event /\ r.entry = s.entry /\ r.balance = B
       /\ r.ok = (s.ok /\ ~\E a \in T : Negative(Next(a)))
  BY <1>1, StateTyped
<1>12. r \in State
  <2>1. (s.ok /\ ~\E a \in T : Negative(Next(a))) \in BOOLEAN
    BY StateTyped
  <2> QED
    BY <1>1, <1>7, <2>1, StateTyped DEF State
<1> HIDE DEF r
<1>13. ASSUME NEW a \in Accounts
       PROVE  /\ AmountIn(r.balance, a) = AmountIn(s.balance, a) + Delta(previous, row, a)
              /\ AmountIn(s.balance, a) \in Int
              /\ r.ok /\ AmountIn(s.balance, a) >= 0 => AmountIn(r.balance, a) >= 0
              /\ Delta(previous, row, a) # 0 => a \in DOMAIN r.balance
  <2>1. /\ Old(a).amount \in Int /\ Old(a).amount = AmountIn(s.balance, a)
        /\ Delta(previous, row, a) \in Int
        /\ Next(a) = AmountIn(s.balance, a) + Delta(previous, row, a)
    BY <1>3, <1>5 DEF Next
  <2>2. AmountIn(s.balance, a) \in Int
    BY <2>1
  <2>3. CASE a \in W
    <3>1. AmountIn(r.balance, a) = Next(a) /\ a \in DOMAIN r.balance
      BY <1>6, <1>8, <1>9, <1>11, <2>3 DEF AmountIn
    <3>2. r.ok => ~(Next(a) < 0)
      BY <1>8, <1>11, <2>3 DEF Negative
    <3> QED
      BY <1>6, <2>1, <2>2, <3>1, <3>2
  <2>4. CASE a \notin W
    <3>1. AmountIn(r.balance, a) = AmountIn(s.balance, a)
      BY <1>8, <1>9, <1>11, <2>4 DEF AmountIn
    <3>2. Delta(previous, row, a) = 0
      <4>1. CASE a \notin T
        BY <1>5, <4>1
      <4>2. CASE a \in T
        <5>1. a \notin DOMAIN s.balance /\ Next(a) = 0
          BY <1>10, <2>4, <4>2
        <5>2. AmountIn(s.balance, a) = 0
          BY <5>1 DEF AmountIn
        <5> QED
          BY <2>1, <5>1, <5>2
      <4> QED
        BY <4>1, <4>2
    <3> QED
      BY <2>2, <3>1, <3>2
  <2> QED
    BY <2>3, <2>4
<1>14. ASSUME NEW a \in DOMAIN s.balance, NEW x \in EntryRow, Bounds(s.balance[a], x, a)
       PROVE  Bounds(r.balance[a], x, a)
  <2>1. CASE a \notin W
    BY <1>8, <1>9, <1>11, <1>14, <2>1
  <2>2. CASE a \in W
    <3>1. a \in Accounts /\ Old(a) = s.balance[a]
      BY <1>2 DEF Old
    <3>2. r.balance[a] = Row(a)
      BY <1>8, <1>9, <1>11, <2>2
    <3>3. x.block \in Int /\ \A o \in OptionalBlocks : \A b \in o : b \in Int
      BY LedgerAssumption DEF EntryRow, OptionalBlocks, Blocks
    <3>4. /\ \A b \in Old(a).first : \E c \in Row(a).first : c <= b
          /\ \A b \in Old(a).last : \E c \in Row(a).last : b <= c
          /\ Row(a).first \in OptionalBlocks /\ Row(a).last \in OptionalBlocks
          /\ Old(a).first \in OptionalBlocks /\ Old(a).last \in OptionalBlocks
      BY <1>3, <1>4, <1>6, <3>1, OptionalBlockCorrect
    <3>5. \E c \in Row(a).last : x.block <= c
      <4>1. PICK b \in Old(a).last : x.block <= b
        BY <1>14, <3>1 DEF Bounds
      <4>2. PICK c \in Row(a).last : b <= c
        BY <3>4, <4>1
      <4>3. b \in Int /\ c \in Int
        BY <3>3, <3>4, <4>1, <4>2
      <4> QED
        BY <3>3, <4>1, <4>2, <4>3
    <3>6. ASSUME a = x.to PROVE \E c \in Row(a).first : c <= x.block
      <4>1. PICK b \in Old(a).first : b <= x.block
        BY <1>14, <3>1, <3>6 DEF Bounds
      <4>2. PICK c \in Row(a).first : c <= b
        BY <3>4, <4>1
      <4>3. b \in Int /\ c \in Int
        BY <3>3, <3>4, <4>1, <4>2
      <4> QED
        BY <3>3, <4>1, <4>2, <4>3
    <3> QED
      BY <3>2, <3>5, <3>6 DEF Bounds
  <2> QED
    BY <2>1, <2>2
<1>15. ASSUME ~row.orphaned, NEW a \in {row.from, row.to} \cap DOMAIN r.balance
       PROVE  Bounds(r.balance[a], row, a)
  <2>1. a \in Accounts /\ a \in DOMAIN B
    BY <1>2, <1>8, <1>11
  <2>2. a \in T
    <3>1. row \in Live(previous \cup {row})
      BY <1>15 DEF Live, EntryRow
    <3> QED
      BY <2>1, <3>1 DEF T, Touched
  <2>3. a \in W /\ r.balance[a] = Row(a)
    BY <1>8, <1>9, <1>10, <1>11, <2>1, <2>2
  <2>4. /\ \E c \in Row(a).last : row.block <= c
        /\ a = row.to => \E c \in Row(a).first : c <= row.block
    <3>1. row.block \in moved(a) /\ (a = row.to => row.block \in received(a))
      BY <1>4, <1>15, <2>1
    <3> QED
      BY <1>3, <1>4, <1>6, <2>1, <3>1, OptionalBlockCorrect
  <2> QED
    BY <2>3, <2>4 DEF Bounds
<1>16. r.ok => s.ok
  BY <1>11
<1>17. DOMAIN s.balance \subseteq DOMAIN r.balance
  BY <1>8, <1>11
<1> QED
  BY <1>11, <1>12, <1>13, <1>14, <1>15, <1>16, <1>17 DEF r, previous

-----------------------------------------------------------------------------
(* Balances and entries *)

Total(rows, a) == SumFunctionOnSet([k \in DOMAIN rows |-> EffectOf(rows[k], a)], DOMAIN rows)

\* A row that leaves its mark on the balances of its holders.
Moves(row) == ~row.orphaned /\ row.amount # 0 /\ row.from # row.to

\* The balances are what the rows say.
Agree(rows, balances) ==
  /\ IsFiniteSet(DOMAIN rows)
  /\ \A a \in Accounts : /\ AmountIn(balances, a) = Total(rows, a)
                         /\ AmountIn(balances, a) >= 0
  /\ \A k \in DOMAIN rows : Moves(rows[k]) =>
       \A a \in {rows[k].from, rows[k].to} \cap Accounts :
         a \in DOMAIN balances /\ Bounds(balances[a], rows[k], a)

\* Writing one row changes the total by what the row changes.
LEMMA TotalPut ==
  ASSUME NEW rows \in Table(EntryKey, EntryRow), IsFiniteSet(DOMAIN rows),
         NEW k \in EntryKey, NEW row \in EntryRow, NEW a
  PROVE  /\ IsFiniteSet(DOMAIN Put(rows, k, row))
         /\ Total(rows, a) \in Int
         /\ Total(Put(rows, k, row), a) =
              Total(rows, a)
              + (EffectOf(row, a) - (IF k \in DOMAIN rows THEN EffectOf(rows[k], a) ELSE 0))
<1> DEFINE after == Put(rows, k, row)
           D == DOMAIN rows
           E == DOMAIN after
           f == [x \in D |-> EffectOf(rows[x], a)]
           g == [x \in E |-> EffectOf(after[x], a)]
<1>1. /\ after \in Table(EntryKey, EntryRow) /\ E = D \cup {k} /\ after[k] = row
      /\ \A x \in D : x # k => after[x] = rows[x]
  <2>1. after \in Table(EntryKey, EntryRow)
    BY PutCorrect
  <2>2. E = D \cup {k} /\ after[k] = row
    BY DEF Put
  <2>3. \A x \in D : x # k => after[x] = rows[x]
    BY DEF Put
  <2> QED
    BY <2>1, <2>2, <2>3
<1> HIDE DEF after
<1>2. /\ \A x \in D : rows[x] \in EntryRow /\ f[x] = EffectOf(rows[x], a) /\ f[x] \in Int
      /\ \A x \in E : after[x] \in EntryRow /\ g[x] = EffectOf(after[x], a) /\ g[x] \in Int
  BY <1>1, TableTyped, LiveEffectCorrect
<1>3. IsFiniteSet(E)
  BY <1>1, FS_AddElement
<1>4. /\ Total(rows, a) = SumFunctionOnSet(f, D)
      /\ Total(after, a) = SumFunctionOnSet(g, E)
  BY DEF Total
<1>5. g[k] = EffectOf(row, a) /\ k \in E /\ \A x \in E \ {k} : x \in D /\ f[x] = g[x]
  BY <1>1, <1>2
<1> HIDE DEF f, g, D, E
<1>6. SumFunctionOnSet(g, E) = g[k] + SumFunctionOnSet(g, E \ {k}) /\ g[k] \in Int
  BY <1>2, <1>3, <1>5, SumRemove
<1>7. IsFiniteSet(E \ {k})
  BY <1>3, FS_Subset
<1>8. SumFunctionOnSet(f, E \ {k}) = SumFunctionOnSet(g, E \ {k})
  BY <1>2, <1>5, <1>7, SumEqual
<1>9. SumFunctionOnSet(f, E \ {k}) \in Int
  BY <1>2, <1>5, <1>7, SumUnfolds
<1>10. CASE k \in D
  <2>1. E \ {k} = D \ {k} /\ IsFiniteSet(D)
    BY <1>1, <1>10 DEF D, E
  <2>2. SumFunctionOnSet(f, D) = f[k] + SumFunctionOnSet(f, E \ {k}) /\ f[k] \in Int
    BY <1>2, <1>10, <2>1, SumRemove
  <2>3. f[k] = EffectOf(rows[k], a)
    BY <1>2, <1>10
  <2> QED
    BY <1>3, <1>4, <1>5, <1>6, <1>8, <1>9, <1>10, <2>2, <2>3 DEF after, D, E
<1>11. CASE k \notin D
  <2>1. E \ {k} = D
    BY <1>1, <1>11 DEF D, E
  <2> QED
    BY <1>3, <1>4, <1>5, <1>6, <1>8, <1>9, <1>11, <2>1 DEF after, D, E
<1> QED
  BY <1>10, <1>11

\* A row written together with its balance delta keeps the agreement.
LEMMA ChangeAgrees ==
  ASSUME NEW s \in State, NEW rows \in Table(EntryKey, EntryRow),
         Agree(rows, s.balance), NEW k \in EntryKey, NEW row \in EntryRow,
         ApplyBalanceDelta(s, Previous(rows, k), row).ok
  PROVE  Agree(Put(rows, k, row), ApplyBalanceDelta(s, Previous(rows, k), row).balance)
<1> DEFINE previous == Previous(rows, k)
           r == ApplyBalanceDelta(s, previous, row)
           after == Put(rows, k, row)
           gone(a) == IF k \in DOMAIN rows THEN EffectOf(rows[k], a) ELSE 0
<1>0. r.ok
  OBVIOUS
<1>1. /\ DOMAIN s.balance \subseteq DOMAIN r.balance
      /\ \A a \in Accounts :
           /\ AmountIn(r.balance, a) = AmountIn(s.balance, a) + Delta(previous, row, a)
           /\ AmountIn(s.balance, a) \in Int
           /\ AmountIn(s.balance, a) >= 0 => AmountIn(r.balance, a) >= 0
           /\ Delta(previous, row, a) # 0 => a \in DOMAIN r.balance
      /\ \A a \in DOMAIN s.balance : \A x \in EntryRow :
           Bounds(s.balance[a], x, a) => Bounds(r.balance[a], x, a)
      /\ ~row.orphaned =>
           \A a \in {row.from, row.to} \cap DOMAIN r.balance : Bounds(r.balance[a], row, a)
  BY ApplyCorrect
<1>2. \A a \in Accounts : Delta(previous, row, a) = EffectOf(row, a) - gone(a)
  BY DeltaCorrect
<1>3. /\ IsFiniteSet(DOMAIN after)
      /\ \A a \in Accounts : /\ Total(rows, a) \in Int
                             /\ Total(after, a) = Total(rows, a) + (EffectOf(row, a) - gone(a))
  BY TotalPut DEF Agree
<1>4. /\ DOMAIN after = DOMAIN rows \cup {k} /\ after[k] = row
      /\ \A x \in DOMAIN rows : x # k => after[x] = rows[x]
  BY PutCorrect
<1>5. \A x \in DOMAIN rows : rows[x] \in EntryRow
  BY TableTyped
<1> HIDE DEF previous, r, after
<1>6. ASSUME NEW a \in Accounts
      PROVE  AmountIn(r.balance, a) = Total(after, a) /\ AmountIn(r.balance, a) >= 0
  BY <1>1, <1>2, <1>3, <1>6 DEF Agree
<1>7. ASSUME NEW x \in DOMAIN after, Moves(after[x]),
             NEW a \in {after[x].from, after[x].to} \cap Accounts
      PROVE  a \in DOMAIN r.balance /\ Bounds(r.balance[a], after[x], a)
  <2>1. CASE x # k
    <3>1. x \in DOMAIN rows /\ after[x] = rows[x]
      BY <1>4, <2>1
    <3>2. a \in DOMAIN s.balance /\ Bounds(s.balance[a], rows[x], a)
      BY <1>7, <3>1 DEF Agree
    <3> QED
      BY <1>1, <1>5, <3>1, <3>2
  <2>2. CASE x = k
    <3>1. after[x] = row /\ Moves(row) /\ a \in {row.from, row.to}
      BY <1>4, <1>7, <2>2
    <3>2. EffectOf(row, a) # 0 /\ EffectOf(row, a) \in Int
      BY <3>1, LiveEffectCorrect DEF Moves, EffectOf, Effect, EntryRow
    <3>3. CASE Delta(previous, row, a) # 0
      BY <1>1, <3>1, <3>3 DEF Moves
    <3>4. CASE Delta(previous, row, a) = 0
      <4>1. k \in DOMAIN rows /\ EffectOf(rows[k], a) # 0
        BY <1>2, <3>2, <3>4
      <4>2. rows[k] \in EntryRow
        BY <1>5, <4>1
      <4>3. Moves(rows[k]) /\ a \in {rows[k].from, rows[k].to}
        BY <4>1, <4>2 DEF Moves, EffectOf, Effect, EntryRow
      <4>4. a \in DOMAIN s.balance
        BY <4>1, <4>3 DEF Agree
      <4> QED
        BY <1>1, <3>1, <4>4 DEF Moves
    <3> QED
      BY <3>3, <3>4
  <2> QED
    BY <2>1, <2>2
<1> QED
  BY <1>3, <1>6, <1>7 DEF Agree, r, after, previous

-----------------------------------------------------------------------------
(* Persisting an entry *)

\* What lock_existing_ledger_entry and upsert_ledger_entry make of a row.
Upserted(rows, k, f, restore, row) ==
  /\ row.amount = f.log.entries[k[2]].amount /\ row.hash = f.hash
  /\ IF k \in DOMAIN rows
     THEN /\ row.from = rows[k].from /\ row.to = rows[k].to /\ row.block = rows[k].block
          /\ row.orphaned = (rows[k].orphaned /\ ~restore)
     ELSE /\ row.from = f.log.entries[k[2]].from /\ row.to = f.log.entries[k[2]].to
          /\ row.block = f.block /\ row.orphaned = FALSE

LEMMA UpsertEntryCorrect ==
  ASSUME NEW rows \in Table(EntryKey, EntryRow), NEW k, NEW t \in Transfer,
         NEW f \in FetchedLog, NEW restore \in BOOLEAN, t = f.log.entries[k[2]]
  PROVE  LET row == UpsertLedgerEntry(Previous(rows, k), t, f, restore)
         IN  row \in EntryRow /\ Upserted(rows, k, f, restore, row)
<1> DEFINE row == UpsertLedgerEntry(Previous(rows, k), t, f, restore)
<1>1. f.block \in Blocks /\ f.hash \in DOMAIN Versions
  BY DEF FetchedLog
<1>2. /\ t.from \in Accounts \cup {NoAccount} /\ t.to \in Accounts \cup {NoAccount}
      /\ t.amount \in Nat
  BY DEF Transfer
<1>3. CASE k \in DOMAIN rows
  <2>1. Previous(rows, k) = {rows[k]} /\ rows[k] \in EntryRow
    BY <1>3, TableTyped DEF Previous
  <2>2. row = [rows[k] EXCEPT !.amount = t.amount, !.hash = f.hash,
                              !.orphaned = @ /\ ~restore]
    BY <2>1 DEF UpsertLedgerEntry
  <2>3. (rows[k].orphaned /\ ~restore) \in BOOLEAN
    OBVIOUS
  <2>4. row \in EntryRow
    BY <1>1, <1>2, <2>1, <2>2, <2>3 DEF EntryRow
  <2>5. /\ row.amount = t.amount /\ row.hash = f.hash
        /\ row.from = rows[k].from /\ row.to = rows[k].to /\ row.block = rows[k].block
        /\ row.orphaned = (rows[k].orphaned /\ ~restore)
    BY <2>1, <2>2 DEF EntryRow
  <2> QED
    BY <1>3, <2>4, <2>5 DEF Upserted
<1>4. CASE k \notin DOMAIN rows
  <2>1. Previous(rows, k) = {}
    BY <1>4 DEF Previous
  <2>2. row = [from |-> t.from, to |-> t.to, amount |-> t.amount, block |-> f.block,
               hash |-> f.hash, orphaned |-> FALSE]
    BY <2>1 DEF UpsertLedgerEntry
  <2>3. row \in EntryRow
    BY <1>1, <1>2, <2>2 DEF EntryRow
  <2> QED
    BY <1>4, <2>2, <2>3 DEF Upserted
<1> QED
  BY <1>3, <1>4

\* The entries of a fetched log.
LEMMA EntriesTyped ==
  ASSUME NEW f \in FetchedLog
  PROVE  /\ f.log \in Logs /\ f.log.key \in LogKey /\ f.log.entries \in Seq(Transfer)
         /\ Len(f.log.entries) \in Nat /\ DOMAIN f.log.entries = 1..Len(f.log.entries)
         /\ \A n \in DOMAIN f.log.entries :
              f.log.entries[n] \in Transfer /\ <<f.log.key, n>> \in EntryKey
<1>1. f.log \in Logs
  BY DEF FetchedLog
<1>2. f.log.key \in LogKey /\ f.log.entries \in Seq(Transfer)
  BY <1>1, LedgerAssumption DEF LogKey
<1>3. \A n \in DOMAIN f.log.entries : n \in Nat /\ f.log.entries[n] \in Transfer
  BY <1>2
<1> QED
  BY <1>1, <1>2, <1>3 DEF EntryKey

LEMMA PersistEntryCorrect ==
  ASSUME NEW s \in State, NEW f \in FetchedLog, NEW n \in DOMAIN f.log.entries,
         NEW restore \in BOOLEAN
  PROVE  LET k == <<f.log.key, n>>
             r == PersistEntry(s, f, n, restore)
         IN  /\ r \in State /\ r.event = s.event
             /\ k \in EntryKey
             /\ DOMAIN r.entry = DOMAIN s.entry \cup {k}
             /\ \A x \in DOMAIN s.entry : x # k => r.entry[x] = s.entry[x]
             /\ Upserted(s.entry, k, f, restore, r.entry[k])
             /\ r.ok => s.ok
             /\ r.ok /\ Agree(s.entry, s.balance) => Agree(r.entry, r.balance)
<1> DEFINE k == <<f.log.key, n>>
           t == f.log.entries[n]
           previous == Previous(s.entry, k)
           current == UpsertLedgerEntry(previous, t, f, restore)
           s1 == [s EXCEPT !.entry = Put(@, k, current),
                           !.ok = @ /\ {current.from, current.to} # {NoAccount}]
           r == PersistEntry(s, f, n, restore)
<1>1. r = ApplyBalanceDelta(s1, previous, current)
  BY DEF PersistEntry, Previous
<1>2. k \in EntryKey /\ t \in Transfer /\ t = f.log.entries[k[2]]
  BY EntriesTyped
<1>3. s.entry \in Table(EntryKey, EntryRow)
  BY StateTyped
<1>4. current \in EntryRow /\ Upserted(s.entry, k, f, restore, current)
  BY <1>2, <1>3, UpsertEntryCorrect
<1> HIDE DEF current, k, t
<1>5. Put(s.entry, k, current) \in Table(EntryKey, EntryRow)
  BY <1>2, <1>3, <1>4, PutCorrect
<1>6. /\ s1.event = s.event /\ s1.entry = Put(s.entry, k, current)
      /\ s1.balance = s.balance /\ (s1.ok => s.ok)
  BY StateTyped
<1>7. s1 \in State
  <2>1. (s.ok /\ {current.from, current.to} # {NoAccount}) \in BOOLEAN
    OBVIOUS
  <2> QED
    BY <1>5, <2>1, StateTyped DEF State
<1> HIDE DEF s1
<1>8. /\ r \in State /\ r.event = s.event /\ r.entry = Put(s.entry, k, current)
      /\ r.ok => s.ok
  BY <1>1, <1>3, <1>4, <1>6, <1>7, ApplyCorrect
<1>9. ASSUME r.ok, Agree(s.entry, s.balance) PROVE Agree(r.entry, r.balance)
  <2>1. Agree(s.entry, s1.balance) /\ ApplyBalanceDelta(s1, previous, current).ok
    BY <1>1, <1>6, <1>9
  <2>2. Agree(Put(s.entry, k, current), ApplyBalanceDelta(s1, previous, current).balance)
    BY <1>2, <1>3, <1>4, <1>7, <2>1, ChangeAgrees
  <2> QED
    BY <1>1, <1>8, <2>2
<1>10. /\ DOMAIN r.entry = DOMAIN s.entry \cup {k} /\ r.entry[k] = current
       /\ \A x \in DOMAIN s.entry : x # k => r.entry[x] = s.entry[x]
  BY <1>8 DEF Put
<1> QED
  BY <1>2, <1>4, <1>8, <1>9, <1>10 DEF k

-----------------------------------------------------------------------------
(* Persisting a log *)

LEMMA MaxOfSubset ==
  ASSUME NEW N \in Nat, NEW T \in SUBSET (1..N), T # {}
  PROVE  Max(T) \in T
<1> DEFINE U == {N - x : x \in T}
<1>1. PICK m \in U : \A u \in U : m <= u
  <2>1. \A x \in T : N - x \in Nat
    OBVIOUS
  <2>2. U \subseteq Nat /\ U # {}
    BY <2>1
  <2> HIDE DEF U
  <2> QED
    BY <2>2, LeastElement
<1>2. PICK x \in T : m = N - x
  BY <1>1
<1>3. ASSUME NEW y \in T PROVE x >= y
  <2>1. N - y \in U
    OBVIOUS
  <2>2. N - x <= N - y
    BY <1>1, <1>2, <2>1
  <2> QED
    BY <2>2
<1> QED
  BY <1>2, <1>3 DEF Max

\* What upsert_event makes of the row of a log.
EventUpserted(events, f, restore, row) ==
  /\ row.hash = f.hash
  /\ IF f.log.key \in DOMAIN events
     THEN /\ row.block = events[f.log.key].block
          /\ row.orphaned = (events[f.log.key].orphaned /\ ~restore)
     ELSE row.block = f.block /\ row.orphaned = FALSE

LEMMA UpsertEventCorrect ==
  ASSUME NEW s \in State, NEW f \in FetchedLog, NEW restore \in BOOLEAN
  PROVE  LET r == UpsertEvent(s, f, restore)
         IN  /\ r \in State /\ r.entry = s.entry /\ r.balance = s.balance /\ r.ok = s.ok
             /\ DOMAIN r.event = DOMAIN s.event \cup {f.log.key}
             /\ \A x \in DOMAIN s.event : x # f.log.key => r.event[x] = s.event[x]
             /\ EventUpserted(s.event, f, restore, r.event[f.log.key])
<1> DEFINE k == f.log.key
           row == IF k \in DOMAIN s.event
                  THEN [s.event[k] EXCEPT !.hash = f.hash, !.bare = FALSE,
                                          !.orphaned = @ /\ ~restore]
                  ELSE [block |-> f.block, hash |-> f.hash, bare |-> FALSE,
                        orphaned |-> FALSE]
           r == UpsertEvent(s, f, restore)
<1>1. k \in LogKey /\ f.block \in Blocks /\ f.hash \in DOMAIN Versions
  BY EntriesTyped DEF FetchedLog
<1>2. s.event \in Table(LogKey, EventRow)
  BY StateTyped
<1>3. row \in EventRow /\ EventUpserted(s.event, f, restore, row)
  <2>1. CASE k \in DOMAIN s.event
    <3>1. s.event[k] \in EventRow
      BY <1>2, <2>1, TableTyped
    <3>2. row = [s.event[k] EXCEPT !.hash = f.hash, !.bare = FALSE,
                                   !.orphaned = @ /\ ~restore]
      BY <2>1
    <3>3. (s.event[k].orphaned /\ ~restore) \in BOOLEAN
      OBVIOUS
    <3> HIDE DEF row
    <3>4. row \in EventRow
      BY <1>1, <3>1, <3>2, <3>3 DEF EventRow
    <3>5. /\ row.hash = f.hash /\ row.block = s.event[k].block
          /\ row.orphaned = (s.event[k].orphaned /\ ~restore)
      BY <3>1, <3>2 DEF EventRow
    <3> QED
      BY <2>1, <3>4, <3>5 DEF EventUpserted
  <2>2. CASE k \notin DOMAIN s.event
    <3>1. row = [block |-> f.block, hash |-> f.hash, bare |-> FALSE, orphaned |-> FALSE]
      BY <2>2
    <3> HIDE DEF row
    <3> QED
      BY <1>1, <2>2, <3>1 DEF EventRow, EventUpserted
  <2> QED
    BY <2>1, <2>2
<1>4. r = [s EXCEPT !.event = Put(s.event, k, row)]
  BY DEF UpsertEvent
<1> HIDE DEF row, k, r
<1>5. Put(s.event, k, row) \in Table(LogKey, EventRow)
  BY <1>1, <1>2, <1>3, PutCorrect
<1>6. /\ r \in State /\ r.event = Put(s.event, k, row) /\ r.entry = s.entry
      /\ r.balance = s.balance /\ r.ok = s.ok
  BY <1>4, <1>5, StateTyped DEF State
<1>7. /\ DOMAIN r.event = DOMAIN s.event \cup {k} /\ r.event[k] = row
      /\ \A x \in DOMAIN s.event : x # k => r.event[x] = s.event[x]
  BY <1>6 DEF Put
<1> QED
  BY <1>3, <1>6, <1>7 DEF r, k

\* The entries of T have been persisted on top of s.
EntriesPersisted(s, f, restore, T, r) ==
  /\ DOMAIN r.entry = DOMAIN s.entry \cup {<<f.log.key, n>> : n \in T}
  /\ \A k \in DOMAIN s.entry : k \notin {<<f.log.key, n>> : n \in T} =>
       r.entry[k] = s.entry[k]
  /\ \A n \in T : Upserted(s.entry, <<f.log.key, n>>, f, restore, r.entry[<<f.log.key, n>>])

LEMMA PersistLogCorrect ==
  ASSUME NEW s \in State, NEW f \in FetchedLog, NEW restore \in BOOLEAN
  PROVE  LET r == PersistLog(s, f, restore)
         IN  /\ r \in State /\ r.event = UpsertEvent(s, f, restore).event
             /\ EntriesPersisted(s, f, restore, DOMAIN f.log.entries, r)
             /\ IsFiniteSet(DOMAIN s.entry) => IsFiniteSet(DOMAIN r.entry)
             /\ r.ok => s.ok
             /\ r.ok /\ Agree(s.entry, s.balance) => Agree(r.entry, r.balance)
<1> DEFINE D == DOMAIN f.log.entries
           ids == [i \in D |-> i]
           base == UpsertEvent(s, f, restore)
           c == [T \in SUBSET D |-> Max(T)]
           step == [p \in D \X State |-> PersistEntry(p[2], f, p[1], restore)]
           Right(g) == g = [t \in SUBSET DOMAIN ids |->
                              IF t = {} THEN base
                              ELSE PersistEntry(g[t \ {Max(t)}], f, ids[Max(t)], restore)]
           Inv(T, a) == /\ a \in State /\ a.event = base.event
                        /\ EntriesPersisted(s, f, restore, T, a)
                        /\ IsFiniteSet(DOMAIN s.entry) => IsFiniteSet(DOMAIN a.entry)
                        /\ a.ok => s.ok
                        /\ a.ok /\ Agree(s.entry, s.balance) => Agree(a.entry, a.balance)
<1>1. IsFiniteSet(D) /\ Chooses(c, D)
  <2>1. D = 1..Len(f.log.entries) /\ Len(f.log.entries) \in Nat
    BY EntriesTyped
  <2>2. IsFiniteSet(D)
    BY <2>1, FS_Interval
  <2>3. \A T \in SUBSET D : T # {} => Max(T) \in T
    BY <2>1, MaxOfSubset
  <2> QED
    BY <2>2, <2>3 DEF Chooses
<1>2. /\ base \in State /\ base.entry = s.entry /\ base.balance = s.balance
      /\ base.ok = s.ok
  BY UpsertEventCorrect
<1> HIDE DEF base
<1>3. Operates(step, D, State)
  <2>1. ASSUME NEW x \in D, NEW a \in State PROVE PersistEntry(a, f, x, restore) \in State
    BY PersistEntryCorrect
  <2> QED
    BY <2>1 DEF Operates
<1>4. \E g : Right(g)
  <2>1. PICK g \in [SUBSET D -> State] : IsFold(g, D, c, base, step)
    <3> HIDE DEF c, step, D
    <3> QED
      BY <1>1, <1>2, <1>3, FoldExists
  <2>2. ASSUME NEW t \in SUBSET D
        PROVE  g[t] = IF t = {} THEN base
                      ELSE PersistEntry(g[t \ {Max(t)}], f, ids[Max(t)], restore)
    <3>1. g[t] = IF t = {} THEN base ELSE step[<<c[t], g[t \ {c[t]}]>>]
      BY <2>1 DEF IsFold
    <3>2. t # {} => c[t] = Max(t) /\ Max(t) \in D /\ ids[Max(t)] = Max(t)
      BY <1>1 DEF Chooses
    <3>3. t # {} => g[t \ {Max(t)}] \in State
      BY <2>1
    <3> QED
      BY <3>1, <3>2, <3>3
  <2>3. DOMAIN ids = D
    OBVIOUS
  <2> HIDE DEF ids, D
  <2>4. Right(g)
    BY <2>1, <2>2, <2>3
  <2> QED
    BY <2>4
<1> DEFINE h == CHOOSE g : Right(g)
<1>5. PersistLog(s, f, restore) = h[DOMAIN ids]
  BY DEF PersistLog, FoldLeftDomain, FoldLeft, MapThenFoldSet, base
<1>6. Right(h)
  <2> HIDE DEF Right
  <2> QED
    BY <1>4
<1> HIDE DEF h
<1> DEFINE P == {T \in SUBSET D : Inv(T, h[T])}
<1>7. {} \in P
  <2>1. h[{}] = base
    BY <1>6
  <2>2. EntriesPersisted(s, f, restore, {}, base)
    BY <1>2 DEF EntriesPersisted
  <2> QED
    BY <1>2, <2>1, <2>2
<1>8. ASSUME NEW T \in SUBSET D, T # {}, T \ {c[T]} \in P PROVE T \in P
  <2> DEFINE n == Max(T)
             a == h[T \ {n}]
             k == <<f.log.key, n>>
             r == PersistEntry(a, f, n, restore)
             key == f.log.key
  <2>1. c[T] = n /\ n \in T /\ n \in D /\ ids[n] = n
    BY <1>1, <1>8 DEF Chooses
  <2>2. h[T] = r
    BY <1>6, <1>8, <2>1
  <2>3. Inv(T \ {n}, a)
    BY <1>8, <2>1
  <2> HIDE DEF n, a
  <2>4. /\ r \in State /\ r.event = a.event
        /\ DOMAIN r.entry = DOMAIN a.entry \cup {k}
        /\ \A x \in DOMAIN a.entry : x # k => r.entry[x] = a.entry[x]
        /\ Upserted(a.entry, k, f, restore, r.entry[k])
        /\ r.ok => a.ok
        /\ r.ok /\ Agree(a.entry, a.balance) => Agree(r.entry, r.balance)
    BY <2>1, <2>3, PersistEntryCorrect
  <2> HIDE DEF r
  <2> DEFINE done == {<<key, m>> : m \in T \ {n}}
             all == {<<key, m>> : m \in T}
  <2>5. all = done \cup {k} /\ k \notin done
    BY <2>1
  <2>6. /\ DOMAIN a.entry = DOMAIN s.entry \cup done
        /\ \A x \in DOMAIN s.entry : x \notin done => a.entry[x] = s.entry[x]
        /\ \A m \in T \ {n} : Upserted(s.entry, <<key, m>>, f, restore, a.entry[<<key, m>>])
    BY <2>3 DEF EntriesPersisted
  <2>7. \A m \in T \ {n} : <<key, m>> \in DOMAIN a.entry /\ <<key, m>> # k
    BY <2>6
  <2> HIDE DEF key
  <2>8. DOMAIN r.entry = DOMAIN s.entry \cup all
    BY <2>4, <2>5, <2>6
  <2>9. \A x \in DOMAIN s.entry : x \notin all => r.entry[x] = s.entry[x]
    BY <2>4, <2>5, <2>6
  <2>10. ASSUME NEW m \in T
         PROVE  Upserted(s.entry, <<key, m>>, f, restore, r.entry[<<key, m>>])
    <3>1. CASE m # n
      BY <2>4, <2>6, <2>7, <3>1
    <3>2. CASE m = n
      <4>1. k \in DOMAIN a.entry <=> k \in DOMAIN s.entry
        BY <2>5, <2>6
      <4>2. k \in DOMAIN s.entry => a.entry[k] = s.entry[k]
        BY <2>5, <2>6
      <4> QED
        BY <2>4, <3>2, <4>1, <4>2 DEF Upserted, key
    <3> QED
      BY <3>1, <3>2
  <2>11. EntriesPersisted(s, f, restore, T, r)
    BY <2>8, <2>9, <2>10 DEF EntriesPersisted, key
  <2>12. IsFiniteSet(DOMAIN s.entry) => IsFiniteSet(DOMAIN r.entry)
    <3> HIDE DEF k
    <3>1. IsFiniteSet(DOMAIN a.entry) => IsFiniteSet(DOMAIN a.entry \cup {k})
      BY FS_AddElement
    <3>2. IsFiniteSet(DOMAIN s.entry) => IsFiniteSet(DOMAIN a.entry)
      BY <2>3
    <3> QED
      BY <2>4, <3>1, <3>2
  <2> QED
    BY <2>2, <2>3, <2>4, <2>11, <2>12
<1>9. D \in P
  <2> HIDE DEF P, D, c
  <2>1. Removes(P, D, c)
    BY <1>7, <1>8 DEF Removes
  <2> QED
    BY <1>1, <2>1, FoldInduction
<1>10. Inv(D, h[D]) /\ DOMAIN ids = D
  BY <1>9
<1> QED
  BY <1>5, <1>10 DEF base

-----------------------------------------------------------------------------
(* Events and their entries *)

\* A log is decoded into as many entries whenever it is fetched.
StableDecoding ==
  \A l, m \in Logs : l.key = m.key => DOMAIN l.entries = DOMAIN m.entries

\* An event has all its entries, and they say the same of where it is.
Linked(events, rows) ==
  \A k \in EntryKey :
    /\ k \in DOMAIN rows <=> k[1] \in DOMAIN events
    /\ k \in DOMAIN rows => /\ rows[k].block = events[k[1]].block
                            /\ rows[k].hash = events[k[1]].hash
                            /\ rows[k].orphaned = events[k[1]].orphaned

LEMMA PersistLogLinks ==
  ASSUME NEW s \in State, NEW f \in FetchedLog, NEW restore \in BOOLEAN,
         StableDecoding, Linked(s.event, s.entry)
  PROVE  LET r == PersistLog(s, f, restore) IN Linked(r.event, r.entry)
<1> DEFINE r == PersistLog(s, f, restore)
           key == f.log.key
           D == DOMAIN f.log.entries
<1>1. /\ DOMAIN r.event = DOMAIN s.event \cup {key}
      /\ \A x \in DOMAIN s.event : x # key => r.event[x] = s.event[x]
      /\ EventUpserted(s.event, f, restore, r.event[key])
  BY PersistLogCorrect, UpsertEventCorrect
<1>2. EntriesPersisted(s, f, restore, D, r)
  BY PersistLogCorrect
<1> HIDE DEF r
<1>3. ASSUME NEW k \in EntryKey
      PROVE  /\ k \in DOMAIN r.entry <=> k[1] \in DOMAIN r.event
             /\ k \in DOMAIN r.entry => /\ r.entry[k].block = r.event[k[1]].block
                                        /\ r.entry[k].hash = r.event[k[1]].hash
                                        /\ r.entry[k].orphaned = r.event[k[1]].orphaned
  <2>1. /\ k \in DOMAIN s.entry <=> k[1] \in DOMAIN s.event
        /\ k \in DOMAIN s.entry => /\ s.entry[k].block = s.event[k[1]].block
                                   /\ s.entry[k].hash = s.event[k[1]].hash
                                   /\ s.entry[k].orphaned = s.event[k[1]].orphaned
    BY DEF Linked
  <2>2. CASE k[1] = key
    <3>1. PICK l \in Logs : l.key = key /\ k[2] \in DOMAIN l.entries
      BY <2>2 DEF EntryKey
    <3>2. k[2] \in D
      BY <3>1, EntriesTyped DEF StableDecoding
    <3>3. k = <<key, k[2]>>
      BY <2>2 DEF EntryKey
    <3>4. k \in DOMAIN r.entry /\ Upserted(s.entry, k, f, restore, r.entry[k])
      BY <1>2, <3>2, <3>3 DEF EntriesPersisted
    <3> QED
      BY <1>1, <2>1, <2>2, <3>4 DEF Upserted, EventUpserted
  <2>3. CASE k[1] # key
    <3>1. k \notin {<<key, n>> : n \in D}
      BY <2>3
    <3>2. /\ k \in DOMAIN r.entry <=> k \in DOMAIN s.entry
          /\ k \in DOMAIN s.entry => r.entry[k] = s.entry[k]
      BY <1>2, <3>1 DEF EntriesPersisted
    <3> QED
      BY <1>1, <2>1, <2>3, <3>2
  <2> QED
    BY <2>2, <2>3
<1> QED
  BY <1>3 DEF Linked, r

\* What a transaction keeps: the agreement of the tables when it can commit.
Keeps(s, r) ==
  /\ r \in State
  /\ IsFiniteSet(DOMAIN s.entry) => IsFiniteSet(DOMAIN r.entry)
  /\ r.ok => s.ok
  /\ r.ok /\ Agree(s.entry, s.balance) => Agree(r.entry, r.balance)
  /\ StableDecoding /\ Linked(s.event, s.entry) => Linked(r.event, r.entry)

\* The next log of a batch, and what holds of the logs that are persisted and
\* what that makes of the transaction, one log after the other.
PersistNext(a, f, restore) == IF a.ok THEN PersistLog(a, f, restore) ELSE a
HoldsThrough(Q, s, logs, restore) ==
  /\ <<{}, s>> \in Q
  /\ \A T \in SUBSET DOMAIN logs : \A n \in T : \A a \in State :
       <<T \ {n}, a>> \in Q => <<T, PersistNext(a, logs[n], restore)>> \in Q

LEMMA PersistNextTyped ==
  ASSUME NEW a \in State, NEW f \in FetchedLog, NEW restore \in BOOLEAN
  PROVE  PersistNext(a, f, restore) \in State
BY PersistLogCorrect DEF PersistNext

LEMMA PersistInduction ==
  ASSUME NEW s \in State, NEW logs \in Seq(FetchedLog), NEW restore \in BOOLEAN,
         NEW Q, HoldsThrough(Q, s, logs, restore)
  PROVE  <<DOMAIN logs, PersistDecodedLogs(s, logs, restore)>> \in Q
<1> DEFINE D == DOMAIN logs
           Do(a, i) == PersistNext(a, logs[i], restore)
           c == [T \in SUBSET D |-> Max(T)]
           step == [p \in D \X State |-> Do(p[2], p[1])]
           Right(g) == g = [t \in SUBSET D |->
                              IF t = {} THEN s ELSE Do(g[t \ {Max(t)}], Max(t))]
<1>1. IsFiniteSet(D) /\ Chooses(c, D) /\ \A i \in D : logs[i] \in FetchedLog
  <2>1. D = 1..Len(logs) /\ Len(logs) \in Nat
    OBVIOUS
  <2>2. IsFiniteSet(D)
    BY <2>1, FS_Interval
  <2>3. \A T \in SUBSET D : T # {} => Max(T) \in T
    BY <2>1, MaxOfSubset
  <2> QED
    BY <2>2, <2>3 DEF Chooses
<1>2. \A a \in State : \A i \in D : Do(a, i) \in State
  BY <1>1, PersistNextTyped
<1>3. PersistDecodedLogs(s, logs, restore) = (CHOOSE g : Right(g))[D]
  BY DEF PersistDecodedLogs, FoldLeft, MapThenFoldSet, PersistNext
<1> HIDE DEF Do
<1>4. Operates(step, D, State)
  BY <1>2 DEF Operates
<1>5. \E g : Right(g)
  <2>1. PICK g \in [SUBSET D -> State] : IsFold(g, D, c, s, step)
    <3> HIDE DEF c, step, D
    <3> QED
      BY <1>1, <1>4, FoldExists
  <2>2. ASSUME NEW t \in SUBSET D
        PROVE  g[t] = IF t = {} THEN s ELSE Do(g[t \ {Max(t)}], Max(t))
    <3>1. g[t] = IF t = {} THEN s ELSE step[<<c[t], g[t \ {c[t]}]>>]
      BY <2>1 DEF IsFold
    <3>2. t # {} => c[t] = Max(t) /\ Max(t) \in D
      BY <1>1 DEF Chooses
    <3>3. t # {} => g[t \ {Max(t)}] \in State
      BY <2>1
    <3> QED
      BY <3>1, <3>2, <3>3
  <2> HIDE DEF D
  <2>3. Right(g)
    BY <2>1, <2>2
  <2> QED
    BY <2>3
<1> DEFINE h == CHOOSE g : Right(g)
<1>6. Right(h)
  <2> HIDE DEF Right
  <2> QED
    BY <1>5
<1> HIDE DEF h
<1> DEFINE P == {T \in SUBSET D : h[T] \in State /\ <<T, h[T]>> \in Q}
<1>7. {} \in P
  BY <1>6 DEF HoldsThrough
<1>8. ASSUME NEW T \in SUBSET D, T # {}, T \ {c[T]} \in P PROVE T \in P
  <2> DEFINE a == h[T \ {Max(T)}]
  <2>1. c[T] = Max(T) /\ Max(T) \in T
    BY <1>1, <1>8 DEF Chooses
  <2>2. h[T] = Do(a, Max(T)) /\ a \in State /\ <<T \ {Max(T)}, a>> \in Q
    BY <1>6, <1>8, <2>1
  <2> HIDE DEF a
  <2>3. <<T, h[T]>> \in Q
    BY <2>1, <2>2 DEF HoldsThrough, Do
  <2> QED
    BY <1>2, <2>1, <2>2, <2>3
<1>9. D \in P
  <2> HIDE DEF P, D, c
  <2>1. Removes(P, D, c)
    BY <1>7, <1>8 DEF Removes
  <2> QED
    BY <1>1, <2>1, FoldInduction
<1>10. <<D, h[D]>> \in Q
  BY <1>9
<1> QED
  BY <1>3, <1>10 DEF h

LEMMA PersistDecodedLogsCorrect ==
  ASSUME NEW s \in State, NEW logs \in Seq(FetchedLog), NEW restore \in BOOLEAN
  PROVE  Keeps(s, PersistDecodedLogs(s, logs, restore))
<1> DEFINE Q == {p \in (SUBSET DOMAIN logs) \X State : Keeps(s, p[2])}
<1>1. ASSUME NEW a \in State, NEW n \in DOMAIN logs, Keeps(s, a)
      PROVE  Keeps(s, PersistNext(a, logs[n], restore))
  <2>1. CASE a.ok
    <3>1. PersistNext(a, logs[n], restore) = PersistLog(a, logs[n], restore)
          /\ logs[n] \in FetchedLog
      BY <2>1 DEF PersistNext
    <3>2. Keeps(a, PersistLog(a, logs[n], restore))
      BY <3>1, PersistLogCorrect, PersistLogLinks DEF Keeps
    <3> QED
      BY <1>1, <3>1, <3>2 DEF Keeps
  <2>2. CASE ~a.ok
    BY <1>1, <2>2 DEF PersistNext
  <2> QED
    BY <2>1, <2>2
<1>2. Keeps(s, s)
  BY DEF Keeps
<1>3. ASSUME NEW T \in SUBSET DOMAIN logs, NEW n \in T, NEW a \in State,
             <<T \ {n}, a>> \in Q
      PROVE  <<T, PersistNext(a, logs[n], restore)>> \in Q
  <2>1. Keeps(s, PersistNext(a, logs[n], restore))
    BY <1>1, <1>3
  <2>2. PersistNext(a, logs[n], restore) \in State
    BY <2>1 DEF Keeps
  <2> QED
    BY <2>1, <2>2
<1>4. <<{}, s>> \in Q
  BY <1>2
<1>5. HoldsThrough(Q, s, logs, restore)
  <2> HIDE DEF Q
  <2> QED
    BY <1>3, <1>4 DEF HoldsThrough
<1>6. <<DOMAIN logs, PersistDecodedLogs(s, logs, restore)>> \in Q
  <2> HIDE DEF Q
  <2> QED
    BY <1>5, PersistInduction
<1> QED
  BY <1>6

-----------------------------------------------------------------------------
(* Orphaning *)

\* The order of the reversal, its step and the reversal itself, from a state s
\* of the transaction and with the entries as rows has them.
BeforeIn(rows, k, m) ==
  \/ rows[k].block < rows[m].block
  \/ rows[k].block = rows[m].block
     /\ (k[1].log < m[1].log \/ (k[1].log = m[1].log /\ k[2] <= m[2]))

LastIn(rows, K) == CHOOSE k \in K : \A m \in K : BeforeIn(rows, m, k)

ReverseNext(rows, a, k) ==
  IF a.ok THEN ApplyBalanceDelta(a, {rows[k]}, [rows[k] EXCEPT !.orphaned = TRUE]) ELSE a

ReversedFrom(rows, s, K) ==
  MapThenFoldSet(LAMBDA k, a : ReverseNext(rows, a, k), s, LAMBDA k : k,
                 LAMBDA T : LastIn(rows, T), K)

\* h goes through the states of the reversal.
Unwinds(h, rows, s, K) ==
  /\ h[{}] = s
  /\ \A T \in SUBSET K : T # {} =>
       LET k == LastIn(rows, T)
       IN  k \in T /\ h[T] = ReverseNext(rows, h[T \ {k}], k)

\* The columns the reversal is ordered by.
LEMMA OrderColumns ==
  ASSUME NEW rows \in Table(EntryKey, EntryRow), NEW k \in DOMAIN rows
  PROVE  /\ k \in EntryKey /\ rows[k] \in EntryRow
         /\ rows[k].block \in Int /\ k[1].log \in Int /\ k[2] \in Int
<1>1. k \in EntryKey /\ rows[k] \in EntryRow
  BY TableTyped
<1>2. rows[k].block \in Int
  BY <1>1, LedgerAssumption DEF EntryRow, Blocks
<1>3. PICK l \in Logs : l.key = k[1]
  BY <1>1 DEF EntryKey
<1>4. k[1].log \in Int
  BY <1>3, LedgerAssumption
<1>5. k[2] \in Int
  BY <1>1 DEF EntryKey
<1> QED
  BY <1>1, <1>2, <1>4, <1>5

\* Among finitely many entries there is a last one.
LEMMA LastInCorrect ==
  ASSUME NEW rows \in Table(EntryKey, EntryRow), NEW K \in SUBSET DOMAIN rows,
         IsFiniteSet(K)
  PROVE  \A T \in SUBSET K : T # {} => LastIn(rows, T) \in T
<1> DEFINE R == {p \in K \X K : BeforeIn(rows, p[2], p[1])}
<1>1. \A k \in K : rows[k].block \in Int /\ k[1].log \in Int /\ k[2] \in Int
  BY OrderColumns
<1>2. \A x, y \in K : <<x, y>> \in R <=> BeforeIn(rows, y, x)
  OBVIOUS
<1>3. \A x, y \in K : BeforeIn(rows, y, x) \/ BeforeIn(rows, x, y)
  BY <1>1 DEF BeforeIn
<1>4. \A x, y, z \in K :
        BeforeIn(rows, y, x) /\ BeforeIn(rows, z, y) => BeforeIn(rows, z, x)
  BY <1>1 DEF BeforeIn
<1> HIDE DEF R
<1>5. /\ \A x, y \in K : <<x, y>> \in R \/ <<y, x>> \in R
      /\ \A x, y, z \in K : <<x, y>> \in R /\ <<y, z>> \in R => <<x, z>> \in R
  BY <1>2, <1>3, <1>4
<1>6. \A T \in SUBSET K : T # {} => \E x \in T : \A y \in T : <<x, y>> \in R
  BY <1>5, FirstElement
<1>7. \A T \in SUBSET K : T # {} => \E x \in T : \A y \in T : BeforeIn(rows, y, x)
  BY <1>2, <1>6
<1> QED
  BY <1>7 DEF LastIn

\* Marking rows as orphaned, all of them or one by one.
LEMMA OrphanedCorrect ==
  ASSUME NEW rows \in Table(EntryKey, EntryRow), NEW T \in SUBSET DOMAIN rows
  PROVE  /\ Orphaned(rows, T) \in Table(EntryKey, EntryRow)
         /\ DOMAIN Orphaned(rows, T) = DOMAIN rows
         /\ Orphaned(rows, {}) = rows
         /\ \A k \in T : /\ [rows[k] EXCEPT !.orphaned = TRUE] \in EntryRow
                         /\ Previous(Orphaned(rows, T \ {k}), k) = {rows[k]}
                         /\ Orphaned(rows, T) =
                              Put(Orphaned(rows, T \ {k}), k, [rows[k] EXCEPT !.orphaned = TRUE])
<1> DEFINE D == DOMAIN rows
<1>1. rows \in [D -> EntryRow] /\ D \in SUBSET EntryKey /\ \A k \in D : rows[k] \in EntryRow
  BY TableTyped
<1>2. \A k \in D : [rows[k] EXCEPT !.orphaned = TRUE] \in EntryRow
  BY <1>1 DEF EntryRow
<1>3. Orphaned(rows, T) \in [D -> EntryRow]
  BY <1>1, <1>2 DEF Orphaned
<1>4. Orphaned(rows, T) \in Table(EntryKey, EntryRow) /\ DOMAIN Orphaned(rows, T) = D
  <2> HIDE DEF D
  <2> QED
    BY <1>1, <1>3, TableMember
<1>5. Orphaned(rows, {}) = rows
  BY <1>1 DEF Orphaned
<1>6. ASSUME NEW k \in T
      PROVE  /\ Previous(Orphaned(rows, T \ {k}), k) = {rows[k]}
             /\ Orphaned(rows, T) =
                  Put(Orphaned(rows, T \ {k}), k, [rows[k] EXCEPT !.orphaned = TRUE])
  <2>1. k \in D
    OBVIOUS
  <2>2. Previous(Orphaned(rows, T \ {k}), k) = {rows[k]}
    BY <2>1 DEF Previous, Orphaned
  <2>3. D \cup {k} = D
    BY <2>1
  <2>4. Orphaned(rows, T) =
          Put(Orphaned(rows, T \ {k}), k, [rows[k] EXCEPT !.orphaned = TRUE])
    BY <2>1, <2>3 DEF Put, Orphaned
  <2> QED
    BY <2>2, <2>4
<1> QED
  BY <1>2, <1>4, <1>5, <1>6

\* One step of the reversal.
LEMMA ReverseNextTyped ==
  ASSUME NEW rows \in Table(EntryKey, EntryRow), NEW k \in DOMAIN rows, NEW a \in State
  PROVE  ReverseNext(rows, a, k) \in State
<1>1. Previous(rows, k) = {rows[k]} /\ [rows[k] EXCEPT !.orphaned = TRUE] \in EntryRow
  BY OrphanedCorrect DEF Previous
<1>2. ApplyBalanceDelta(a, {rows[k]}, [rows[k] EXCEPT !.orphaned = TRUE]) \in State
  BY <1>1, ApplyCorrect
<1> QED
  BY <1>2 DEF ReverseNext

LEMMA ReversedUnwinds ==
  ASSUME NEW rows \in Table(EntryKey, EntryRow), NEW s \in State,
         NEW K \in SUBSET DOMAIN rows, IsFiniteSet(K)
  PROVE  \E h \in [SUBSET K -> State] :
           Unwinds(h, rows, s, K) /\ ReversedFrom(rows, s, K) = h[K]
<1> DEFINE c == [T \in SUBSET K |-> LastIn(rows, T)]
           step == [p \in K \X State |-> ReverseNext(rows, p[2], p[1])]
           Right(g) == g = [t \in SUBSET K |->
                              IF t = {} THEN s
                              ELSE ReverseNext(rows, g[t \ {LastIn(rows, t)}], LastIn(rows, t))]
<1>1. /\ Chooses(c, K)
      /\ \A t \in SUBSET K : t # {} => c[t] = LastIn(rows, t) /\ LastIn(rows, t) \in t
  BY LastInCorrect DEF Chooses
<1>2. Operates(step, K, State)
  BY ReverseNextTyped DEF Operates
<1>3. ReversedFrom(rows, s, K) = (CHOOSE g : Right(g))[K]
  BY DEF ReversedFrom, MapThenFoldSet
<1>4. PICK f \in [SUBSET K -> State] : IsFold(f, K, c, s, step)
  <2> HIDE DEF c, step
  <2> QED
    BY <1>1, <1>2, FoldExists
<1>5. Right(f)
  <2>1. ASSUME NEW t \in SUBSET K
        PROVE  f[t] = IF t = {} THEN s
                      ELSE ReverseNext(rows, f[t \ {LastIn(rows, t)}], LastIn(rows, t))
    <3>1. f[t] = IF t = {} THEN s ELSE step[<<c[t], f[t \ {c[t]}]>>]
      BY <1>4 DEF IsFold
    <3>2. t # {} => c[t] = LastIn(rows, t) /\ LastIn(rows, t) \in K
      BY <1>1
    <3>3. t # {} => f[t \ {LastIn(rows, t)}] \in State
      BY <1>4
    <3> QED
      BY <3>1, <3>2, <3>3
  <2> QED
    BY <1>4, <2>1
<1> DEFINE h == CHOOSE g : Right(g)
<1>6. Right(h)
  <2> HIDE DEF Right
  <2> QED
    BY <1>5
<1> HIDE DEF h
<1>7. /\ DOMAIN h = SUBSET K /\ h[{}] = s
      /\ h = [t \in SUBSET K |-> h[t]]
      /\ \A t \in SUBSET K : t # {} =>
           h[t] = ReverseNext(rows, h[t \ {LastIn(rows, t)}], LastIn(rows, t))
  BY <1>6
<1>8. Unwinds(h, rows, s, K)
  BY <1>1, <1>7 DEF Unwinds
<1>9. h \in [SUBSET K -> State]
  <2> DEFINE P == {T \in SUBSET K : h[T] \in State}
  <2>1. {} \in P
    BY <1>7
  <2>2. ASSUME NEW T \in SUBSET K, T # {}, T \ {c[T]} \in P PROVE T \in P
    <3> DEFINE k == LastIn(rows, T)
    <3>1. c[T] = k /\ k \in DOMAIN rows /\ h[T] = ReverseNext(rows, h[T \ {k}], k)
      BY <1>1, <1>7, <2>2
    <3> HIDE DEF k
    <3> QED
      BY <2>2, <3>1, ReverseNextTyped
  <2>3. \A T \in SUBSET K : T \in P
    <3>1. \A T \in SUBSET K : T # {} => c[T] \in T
      BY <1>1
    <3> HIDE DEF P, c
    <3> QED
      BY <2>1, <2>2, <3>1, RemovalInduction
  <2> QED
    BY <1>7, <2>3
<1> QED
  BY <1>3, <1>8, <1>9 DEF h

\* When the reversal of the loaded entries does not fail, it leaves the balances
\* that go with these entries orphaned.
LEMMA ReversedCorrect ==
  ASSUME NEW rows \in Table(EntryKey, EntryRow), NEW s \in State,
         NEW K \in SUBSET DOMAIN rows, IsFiniteSet(K)
  PROVE  LET r == ReversedFrom(rows, s, K)
         IN  /\ r \in State
             /\ Agree(rows, s.balance) /\ r.ok => Agree(Orphaned(rows, K), r.balance)
<1>1. PICK h \in [SUBSET K -> State] :
        Unwinds(h, rows, s, K) /\ ReversedFrom(rows, s, K) = h[K]
  BY ReversedUnwinds
<1> DEFINE Right(T, a) == Agree(rows, s.balance) /\ a.ok => Agree(Orphaned(rows, T), a.balance)
           P == {T \in SUBSET K : Right(T, h[T])}
           c == [T \in SUBSET K |-> LastIn(rows, T)]
<1>2. ASSUME NEW T \in SUBSET K, NEW k \in T, NEW a \in State, Right(T \ {k}, a)
      PROVE  Right(T, ReverseNext(rows, a, k))
  <2> DEFINE before == Orphaned(rows, T \ {k})
             row == [rows[k] EXCEPT !.orphaned = TRUE]
             b == ReverseNext(rows, a, k)
  <2>1. /\ before \in Table(EntryKey, EntryRow) /\ row \in EntryRow
        /\ Previous(before, k) = {rows[k]} /\ Orphaned(rows, T) = Put(before, k, row)
    <3>1. T \in SUBSET DOMAIN rows /\ T \ {k} \in SUBSET DOMAIN rows
      OBVIOUS
    <3> QED
      BY <3>1, OrphanedCorrect
  <2>2. k \in EntryKey
    BY OrderColumns
  <2>3. CASE a.ok
    <3>1. b = ApplyBalanceDelta(a, Previous(before, k), row)
      BY <2>1, <2>3 DEF ReverseNext
    <3>2. Agree(rows, s.balance) => Agree(before, a.balance)
      BY <1>2, <2>3
    <3> HIDE DEF before, row, b
    <3>3. Agree(rows, s.balance) /\ b.ok => Agree(Put(before, k, row), b.balance)
      BY <2>1, <2>2, <3>1, <3>2, ChangeAgrees
    <3> QED
      BY <2>1, <3>3 DEF b
  <2>4. CASE ~a.ok
    BY <2>4 DEF ReverseNext
  <2> QED
    BY <2>3, <2>4
<1>3. /\ Chooses(c, K)
      /\ \A T \in SUBSET K : T # {} => c[T] = LastIn(rows, T)
  BY LastInCorrect DEF Chooses
<1>4. {} \in P
  BY <1>1, OrphanedCorrect DEF Unwinds
<1>5. ASSUME NEW T \in SUBSET K, T # {}, T \ {c[T]} \in P PROVE T \in P
  <2> DEFINE k == LastIn(rows, T)
  <2>1. c[T] = k /\ k \in T /\ h[T] = ReverseNext(rows, h[T \ {k}], k)
    BY <1>1, <1>3, <1>5 DEF Unwinds
  <2> HIDE DEF k
  <2>2. Right(T \ {k}, h[T \ {k}]) /\ h[T \ {k}] \in State
    BY <1>1, <1>5, <2>1
  <2> HIDE DEF Right
  <2> QED
    BY <1>2, <2>1, <2>2
<1>6. K \in P
  <2> HIDE DEF P, c
  <2>1. Removes(P, K, c)
    BY <1>4, <1>5 DEF Removes
  <2> QED
    BY <1>3, <2>1, FoldInduction
<1> QED
  BY <1>1, <1>6

\* The reversal sees only the rows it reverses, and the balances.
LEMMA ReversedSame ==
  ASSUME NEW rows \in Table(EntryKey, EntryRow), NEW new \in Table(EntryKey, EntryRow),
         NEW s \in State, NEW t \in State, s.ok = t.ok, s.balance = t.balance,
         NEW K \in SUBSET DOMAIN rows, K \in SUBSET DOMAIN new, IsFiniteSet(K),
         \A k \in K : new[k] = rows[k]
  PROVE  /\ ReversedFrom(new, t, K).ok = ReversedFrom(rows, s, K).ok
         /\ ReversedFrom(new, t, K).balance = ReversedFrom(rows, s, K).balance
<1>1. PICK h \in [SUBSET K -> State] :
        Unwinds(h, rows, s, K) /\ ReversedFrom(rows, s, K) = h[K]
  BY ReversedUnwinds
<1>2. PICK g \in [SUBSET K -> State] :
        Unwinds(g, new, t, K) /\ ReversedFrom(new, t, K) = g[K]
  BY ReversedUnwinds
<1> DEFINE P == {T \in SUBSET K : g[T].ok = h[T].ok /\ g[T].balance = h[T].balance}
           c == [T \in SUBSET K |-> LastIn(rows, T)]
<1>3. /\ Chooses(c, K)
      /\ \A T \in SUBSET K : T # {} => c[T] = LastIn(rows, T)
  BY LastInCorrect DEF Chooses
<1>4. ASSUME NEW T \in SUBSET K PROVE LastIn(new, T) = LastIn(rows, T)
  <2> DEFINE Old(k) == k \in T /\ \A m \in T : BeforeIn(rows, m, k)
             New(k) == k \in T /\ \A m \in T : BeforeIn(new, m, k)
  <2>1. \A k, m \in T : BeforeIn(new, m, k) <=> BeforeIn(rows, m, k)
    BY DEF BeforeIn
  <2>2. \A k : Old(k) <=> New(k)
    BY <2>1
  <2>3. (CHOOSE k : Old(k)) = (CHOOSE k : New(k))
    <3> HIDE DEF Old, New
    <3> QED
      BY <2>2, Zenon
  <2>4. LastIn(rows, T) = (CHOOSE k : Old(k)) /\ LastIn(new, T) = (CHOOSE k : New(k))
    BY Zenon DEF LastIn
  <2> QED
    BY <2>3, <2>4
<1>5. ASSUME NEW k \in K, NEW a \in State, NEW b \in State,
             b.ok = a.ok, b.balance = a.balance
      PROVE  /\ ReverseNext(new, b, k).ok = ReverseNext(rows, a, k).ok
             /\ ReverseNext(new, b, k).balance = ReverseNext(rows, a, k).balance
  <2>1. new[k] = rows[k]
    OBVIOUS
  <2> DEFINE row == rows[k]
             gone == [rows[k] EXCEPT !.orphaned = TRUE]
             x == ApplyBalanceDelta(a, {row}, gone)
             y == ApplyBalanceDelta(b, {row}, gone)
  <2>2. y.ok = x.ok /\ y.balance = x.balance
    <3> HIDE DEF row, gone
    <3> QED
      BY <1>5 DEF ApplyBalanceDelta, State
  <2>3. /\ ReverseNext(rows, a, k) = IF a.ok THEN x ELSE a
        /\ ReverseNext(new, b, k) = IF b.ok THEN y ELSE b
    BY <2>1 DEF ReverseNext
  <2> HIDE DEF x, y
  <2> QED
    BY <1>5, <2>2, <2>3
<1>6. {} \in P
  BY <1>1, <1>2 DEF Unwinds
<1>7. ASSUME NEW T \in SUBSET K, T # {}, T \ {c[T]} \in P PROVE T \in P
  <2> DEFINE k == LastIn(rows, T)
  <2>1. /\ c[T] = k /\ k \in T /\ h[T] = ReverseNext(rows, h[T \ {k}], k)
        /\ g[T] = ReverseNext(new, g[T \ {k}], k)
    BY <1>1, <1>2, <1>3, <1>4, <1>7 DEF Unwinds
  <2> HIDE DEF k
  <2>2. /\ g[T \ {k}].ok = h[T \ {k}].ok /\ g[T \ {k}].balance = h[T \ {k}].balance
        /\ g[T \ {k}] \in State /\ h[T \ {k}] \in State
    BY <1>1, <1>2, <1>7, <2>1
  <2> QED
    BY <1>5, <2>1, <2>2
<1>8. K \in P
  <2> HIDE DEF P, c
  <2>1. Removes(P, K, c)
    BY <1>6, <1>7 DEF Removes
  <2> QED
    BY <1>3, <2>1, FoldInduction
<1> QED
  BY <1>1, <1>2, <1>8

\* The reversal of an orphaning that is open.
LEMMA ReversedNow ==
  ASSUME NEW K
  PROVE  Reversed(K) = ReversedFrom(entry, Opened, K)
BY DEF Reversed, ReversedFrom, ReverseNext, LastOf, LastIn, Before, BeforeIn, MapThenFoldSet

-----------------------------------------------------------------------------
(* The invariant *)

ReceiptRow == [block : Blocks, hash : DOMAIN Versions]
Phases == {"off", "idle", "orphan", "reversed", "marked", "fetch", "persist", "receipts"}
Locking == {"reversed", "marked"}

\* What the executions hold between their steps.
ExecInv ==
  /\ version \in DOMAIN Versions
  /\ phase \in [Workers -> Phases]
  /\ job \in [Workers -> Work \cup {NoJob}]
  /\ cursor \in [Workers -> Int]
  /\ fetched \in [Workers -> Seq(FetchedLog)]
  /\ locked \in [Workers -> (SUBSET EntryKey) \X (SUBSET EntryKey)]
  /\ collected \in [Workers -> Table(Transaction, ReceiptRow)]
  /\ \A w \in Workers :
       /\ phase[w] \notin {"idle", "off"} => job[w] \in Work
       /\ phase[w] \in {"orphan", "reversed", "marked", "fetch"} =>
            cursor[w] \in BlocksOf(job[w])

RestInv ==
  /\ receipt \in Table(Transaction, ReceiptRow)
  /\ synced \subseteq Blocks /\ stale \subseteq Blocks /\ receipted \subseteq Blocks

\* The tables are well-formed, and an open orphaning holds rows that are there.
StateInv ==
  /\ Opened \in State
  /\ IsFiniteSet(DOMAIN entry)
  /\ \A w \in Workers : phase[w] \in Locking =>
       locked[w][1] \in SUBSET DOMAIN entry /\ locked[w][2] \in SUBSET DOMAIN entry

\* Between two transactions the tables agree.
TablesInv ==
  /\ Agree(entry, balance)
  /\ StableDecoding => Linked(event, entry)

\* One orphaning is open at a time, and what it loaded is still what there is to
\* orphan: whoever else changes entries waits for the lock of the source.
LockInv ==
  /\ \A u, w \in Workers : phase[u] \in Locking /\ phase[w] \in Locking => u = w
  /\ \A w \in Workers : phase[w] \in Locking =>
       /\ locked[w][1] = InRange(entry, BlocksOf(job[w]))
       /\ Reversed(locked[w][1]).ok
       /\ phase[w] = "marked" => locked[w][2] = locked[w][1]

\* The first part does not need the second, and does not depend on who else
\* rewrites entries.
Typing == ExecInv /\ RestInv /\ StateInv
Agreement == TablesInv /\ LockInv
LgInv == Typing /\ Agreement

LEMMA WorkTyped ==
  ASSUME NEW j \in Work
  PROVE  /\ j.from \in Nat /\ j.to \in Nat /\ j.from <= j.to /\ j.type \in {"ingest", "replay"}
         /\ BlocksOf(j) \subseteq Blocks /\ j.from \in BlocksOf(j)
BY LedgerAssumption DEF Blocks, BlocksOf

\* Orphaning a range orphans events and entries together.
LEMMA OrphaningLinks ==
  ASSUME NEW events \in Table(LogKey, EventRow), NEW rows \in Table(EntryKey, EntryRow),
         NEW R
  PROVE  /\ Orphaned(events, InRange(events, R)) \in Table(LogKey, EventRow)
         /\ Linked(events, rows) =>
              Linked(Orphaned(events, InRange(events, R)), Orphaned(rows, InRange(rows, R)))
<1>1. \A k \in DOMAIN rows : k \in EntryKey /\ rows[k] \in EntryRow
  BY TableTyped
<1>2. DOMAIN events \in SUBSET LogKey /\ \A k \in DOMAIN events : events[k] \in EventRow
  BY TableTyped
<1>4. \A row \in EventRow : [row EXCEPT !.orphaned = TRUE] \in EventRow
  BY DEF EventRow
<1>5. Orphaned(events, InRange(events, R)) \in [DOMAIN events -> EventRow]
  BY <1>2, <1>4 DEF Orphaned
<1>6. Orphaned(events, InRange(events, R)) \in Table(LogKey, EventRow)
  BY <1>2, <1>5, TableMember
<1>7. ASSUME Linked(events, rows)
      PROVE  Linked(Orphaned(events, InRange(events, R)), Orphaned(rows, InRange(rows, R)))
  <2> DEFINE E == Orphaned(events, InRange(events, R))
             N == Orphaned(rows, InRange(rows, R))
  <2>1. /\ DOMAIN E = DOMAIN events /\ DOMAIN N = DOMAIN rows
        /\ \A k \in DOMAIN events :
             /\ E[k].block = events[k].block /\ E[k].hash = events[k].hash
             /\ E[k].orphaned = (k \in InRange(events, R) \/ events[k].orphaned)
        /\ \A k \in DOMAIN rows :
             /\ N[k].block = rows[k].block /\ N[k].hash = rows[k].hash
             /\ N[k].orphaned = (k \in InRange(rows, R) \/ rows[k].orphaned)
    BY <1>1, <1>2 DEF Orphaned, EventRow, EntryRow
  <2> HIDE DEF E, N
  <2>2. ASSUME NEW k \in EntryKey
        PROVE  /\ k \in DOMAIN N <=> k[1] \in DOMAIN E
               /\ k \in DOMAIN N => /\ N[k].block = E[k[1]].block
                                    /\ N[k].hash = E[k[1]].hash
                                    /\ N[k].orphaned = E[k[1]].orphaned
    <3>1. k \in InRange(rows, R) <=> k[1] \in InRange(events, R)
      BY <1>7 DEF Linked, InRange
    <3> QED
      BY <1>7, <2>1, <3>1 DEF Linked
  <2> QED
    BY <2>2 DEF Linked, E, N
<1> QED
  BY <1>6, <1>7

-----------------------------------------------------------------------------
(* The initial states *)

LEMMA EmptyCorrect ==
  /\ Empty \in State /\ Agree(Empty.entry, Empty.balance)
  /\ Linked(Empty.event, Empty.entry)
<1>1. Empty \in State
  BY EmptyTable DEF Empty, State
<1>2. /\ Empty.entry = <<>> /\ Empty.balance = <<>> /\ Empty.event = <<>>
      /\ DOMAIN Empty.entry = {} /\ DOMAIN Empty.balance = {} /\ DOMAIN Empty.event = {}
  BY EmptyTable DEF Empty
<1>3. ASSUME NEW a
      PROVE  AmountIn(Empty.balance, a) = Total(Empty.entry, a) /\ AmountIn(Empty.balance, a) = 0
  <2>1. Total(Empty.entry, a) = 0
    <3> DEFINE f == [k \in DOMAIN Empty.entry |-> EffectOf(Empty.entry[k], a)]
               S == DOMAIN Empty.entry
    <3>1. IsFiniteSet(S) /\ S = {} /\ \A x \in S : f[x] \in Int
      BY <1>2, FS_EmptySet
    <3>2. Total(Empty.entry, a) = SumFunctionOnSet(f, S)
      BY DEF Total
    <3> HIDE DEF f, S
    <3> QED
      BY <3>1, <3>2, SumUnfolds
  <2> QED
    BY <1>2, <2>1 DEF AmountIn
<1>4. IsFiniteSet(DOMAIN Empty.entry)
  BY <1>2, FS_EmptySet
<1>5. Agree(Empty.entry, Empty.balance)
  BY <1>2, <1>3, <1>4 DEF Agree
<1>6. Linked(Empty.event, Empty.entry)
  BY <1>2 DEF Linked
<1> QED
  BY <1>1, <1>5, <1>6

\* What an earlier release can have left.
LEMMA LegacyCorrect ==
  ASSUME version \in DOMAIN Versions, NEW B \in SUBSET Blocks
  PROVE  Keeps(Empty, LegacyTables(B))
<1> DEFINE seqs == [i \in 1..(MaxBlock + 1) |-> IF i - 1 \in B THEN LogsOf(i - 1) ELSE <<>>]
           logs == FlattenSeq(seqs)
           s == PersistDecodedLogs(Empty, logs, FALSE)
           events == [k \in DOMAIN s.event |-> [s.event[k] EXCEPT !.bare = TRUE]]
           r == LegacyTables(B)
<1>1. logs \in Seq(FetchedLog)
  <2>1. \A i \in 1..(MaxBlock + 1) : seqs[i] \in Seq(FetchedLog)
    BY LogsOfCorrect
  <2>2. seqs \in Seq(Seq(FetchedLog))
    <3> DEFINE S == Seq(FetchedLog)
    <3>1. MaxBlock + 1 \in Nat
      BY LedgerAssumption
    <3>2. seqs \in [1..(MaxBlock + 1) -> S]
      BY <2>1
    <3> HIDE DEF seqs, S
    <3> QED
      BY <3>1, <3>2 DEF S
  <2> HIDE DEF seqs
  <2> QED
    BY <2>2, FlattenTyped
<1>2. r = [s EXCEPT !.event = events]
  BY DEF LegacyTables
<1> HIDE DEF logs
<1>3. Keeps(Empty, s)
  BY <1>1, EmptyCorrect, PersistDecodedLogsCorrect
<1> HIDE DEF s
<1>4. s \in State /\ s.event \in Table(LogKey, EventRow)
  BY <1>3, StateTyped DEF Keeps
<1>5. DOMAIN s.event \in SUBSET LogKey /\ \A k \in DOMAIN s.event : s.event[k] \in EventRow
  BY <1>4, TableTyped
<1>6. /\ events \in [DOMAIN s.event -> EventRow] /\ DOMAIN events = DOMAIN s.event
      /\ \A k \in DOMAIN s.event : /\ events[k].block = s.event[k].block
                                   /\ events[k].hash = s.event[k].hash
                                   /\ events[k].orphaned = s.event[k].orphaned
  BY <1>5 DEF EventRow
<1> HIDE DEF events
<1>7. events \in Table(LogKey, EventRow)
  BY <1>5, <1>6, TableMember
<1>8. /\ r \in State /\ r.event = events /\ r.entry = s.entry /\ r.balance = s.balance
      /\ r.ok = s.ok
  BY <1>2, <1>4, <1>7, StateTyped DEF State
<1> HIDE DEF r
<1>9. Linked(s.event, s.entry) => Linked(r.event, r.entry)
  BY <1>6, <1>8 DEF Linked
<1> QED
  BY <1>3, <1>8, <1>9 DEF Keeps, r

LEMMA LgInitCorrect == LgInit => LgInv
<1> SUFFICES ASSUME LgInit PROVE LgInv
  OBVIOUS
<1> USE DEF LgInit
<1>1. version \in DOMAIN Versions
  BY LedgerAssumption
<1>2. <<>> \in Seq(FetchedLog) /\ <<>> \in Table(Transaction, ReceiptRow)
  BY EmptyTable
<1>3. ExecInv
  BY <1>1, <1>2 DEF ExecInv, Phases
<1>4. RestInv
  BY <1>2 DEF RestInv
<1>5. LockInv
  BY DEF LockInv, Locking
<1>6. StateInv /\ TablesInv
  <2>1. PICK B \in Legacies : /\ event = LegacyTables(B).event /\ entry = LegacyTables(B).entry
                              /\ balance = LegacyTables(B).balance /\ LegacyTables(B).ok
    OBVIOUS
  <2>2. Keeps(Empty, LegacyTables(B))
    BY <1>1, LegacyCorrect, LedgerAssumption
  <2> DEFINE s == LegacyTables(B)
  <2> HIDE DEF s
  <2>3. /\ s \in State /\ Agree(s.entry, s.balance)
        /\ StableDecoding => Linked(s.event, s.entry)
    BY <2>1, <2>2, EmptyCorrect DEF Keeps, s
  <2>4. Opened \in State
    <3>1. /\ s.event \in Table(LogKey, EventRow) /\ s.entry \in Table(EntryKey, EntryRow)
          /\ s.balance \in Table(Accounts, BalanceRow)
      BY <2>3, StateTyped
    <3> QED
      BY <2>1, <3>1 DEF Opened, State, s
  <2>5. IsFiniteSet(DOMAIN entry)
    BY <2>1, <2>3 DEF Agree, s
  <2> QED
    BY <2>1, <2>3, <2>4, <2>5 DEF StateInv, TablesInv, Locking, s
<1> QED
  BY <1>3, <1>4, <1>5, <1>6 DEF LgInv, Typing, Agreement

-----------------------------------------------------------------------------
(* The steps *)

\* A worker gives up its job.
LEMMA LeaveExec ==
  ASSUME ExecInv, NEW w \in Workers, Leave(w), version' = version
  PROVE  /\ ExecInv'
         /\ \A u \in Workers : phase'[u] = IF u = w THEN "idle" ELSE phase[u]
         /\ \A u \in Workers \ {w} : job'[u] = job[u] /\ locked'[u] = locked[u]
<1> USE DEF ExecInv, Leave
<1>1. <<>> \in Seq(FetchedLog) /\ <<>> \in Table(Transaction, ReceiptRow)
  BY EmptyTable
<1>2. <<{}, {}>> \in (SUBSET EntryKey) \X (SUBSET EntryKey)
  OBVIOUS
<1>3. version' \in DOMAIN Versions' /\ phase' \in [Workers -> Phases]
  BY DEF Phases
<1>4. job' \in [Workers -> Work \cup {NoJob}] /\ cursor' \in [Workers -> Int]
  OBVIOUS
<1>5. fetched' \in [Workers -> Seq(FetchedLog)]
  BY <1>1
<1>6. collected' \in [Workers -> Table(Transaction, ReceiptRow)]
  BY <1>1
<1>7. locked' \in [Workers -> (SUBSET EntryKey) \X (SUBSET EntryKey)]
  BY <1>2
<1>8. ASSUME NEW u \in Workers
      PROVE  /\ phase'[u] \notin {"idle", "off"} => job'[u] \in Work
             /\ phase'[u] \in {"orphan", "reversed", "marked", "fetch"} =>
                  cursor'[u] \in BlocksOf(job'[u])
  BY DEF BlocksOf
<1> QED
  BY <1>3, <1>4, <1>5, <1>6, <1>7, <1>8

\* The open orphaning is undisturbed by steps of W that leave the tables alone.
Undisturbed(W) ==
  /\ UNCHANGED tables
  /\ \A u \in W : phase'[u] \notin Locking
  /\ \A u \in Workers \ W : /\ phase'[u] = phase[u] /\ job'[u] = job[u]
                            /\ locked'[u] = locked[u]

LEMMA LockKept ==
  ASSUME LockInv, NEW W, Undisturbed(W)
  PROVE  LockInv'
<1> USE DEF Undisturbed
<1>1. \A u, v \in Workers : phase'[u] \in Locking /\ phase'[v] \in Locking => u = v
  BY DEF LockInv
<1>2. ASSUME NEW u \in Workers, phase'[u] \in Locking
      PROVE  /\ locked'[u][1] = InRange(entry', BlocksOf(job'[u]))
             /\ Reversed(locked[u][1])'.ok
             /\ phase'[u] = "marked" => locked'[u][2] = locked'[u][1]
  <2>1. phase'[u] = phase[u] /\ job'[u] = job[u] /\ locked'[u] = locked[u] /\ entry' = entry
    BY <1>2 DEF tables
  <2>2. Reversed(locked[u][1])' = Reversed(locked[u][1])
    BY <2>1 DEF tables, Reversed, Opened, LastOf, Before, MapThenFoldSet
  <2> QED
    BY <1>2, <2>1, <2>2 DEF LockInv
<1> QED
  BY <1>1, <1>2 DEF LockInv

LEMMA UndisturbedKeeps ==
  ASSUME NEW W, Undisturbed(W)
  PROVE  (StateInv => StateInv') /\ (Agreement => Agreement')
<1> USE DEF Undisturbed
<1>1. StateInv => StateInv'
  BY DEF StateInv, tables, Opened
<1>2. TablesInv => TablesInv'
  BY DEF TablesInv, tables
<1>3. LockInv => LockInv'
  BY LockKept
<1> QED
  BY <1>1, <1>2, <1>3 DEF Agreement

LEMMA BeginKeeps ==
  ASSUME Typing, NEW w \in Workers, NEW j \in Work, Begin(w, j)
  PROVE  Typing' /\ (Agreement => Agreement')
<1> USE DEF Begin
<1>1. ExecInv'
  <2> USE DEF Typing, ExecInv
  <2>1. j.type \in {"ingest", "replay"} /\ j.from \in Int /\ j.from \in BlocksOf(j)
    BY WorkTyped
  <2>2. phase' \in [Workers -> Phases]
    BY DEF Phases
  <2>3. job' \in [Workers -> Work \cup {NoJob}] /\ cursor' \in [Workers -> Int]
    BY <2>1
  <2>4. ASSUME NEW u \in Workers
        PROVE  /\ phase'[u] \notin {"idle", "off"} => job'[u] \in Work
               /\ phase'[u] \in {"orphan", "reversed", "marked", "fetch"} =>
                    cursor'[u] \in BlocksOf(job'[u])
    BY <2>1
  <2> QED
    BY <2>2, <2>3, <2>4
<1>2. RestInv'
  BY DEF Typing, RestInv
<1>3. Undisturbed({w})
  BY DEF Typing, ExecInv, Undisturbed, Locking
<1> QED
  BY <1>1, <1>2, <1>3, UndisturbedKeeps DEF Typing

LEMMA InRangeTyped ==
  ASSUME Opened \in State, NEW R
  PROVE  /\ InRange(entry, R) \in SUBSET DOMAIN entry
         /\ InRange(entry, R) \in SUBSET EntryKey
<1>1. entry \in Table(EntryKey, EntryRow)
  BY StateTyped DEF Opened
<1> QED
  BY <1>1, TableTyped DEF InRange

LEMMA LoadForOrphaningKeeps ==
  ASSUME Typing, NEW w \in Workers, LoadForOrphaning(w)
  PROVE  Typing' /\ (Agreement => Agreement')
<1> DEFINE K == InRange(entry, BlocksOf(job[w]))
<1>1. K \in SUBSET EntryKey /\ K \in SUBSET DOMAIN entry
  BY InRangeTyped DEF Typing, StateInv
<1>2. phase[w] = "orphan" /\ ~SourceLocked /\ UNCHANGED <<version, tables, receipt, history>>
  BY DEF LoadForOrphaning
<1>3. RestInv'
  BY <1>2 DEF Typing, RestInv, history
<1>4. CASE ~Reversed(K).ok
  <2>1. Leave(w)
    BY <1>4 DEF LoadForOrphaning
  <2>2. ExecInv' /\ Undisturbed({w})
    BY <1>2, <2>1, LeaveExec DEF Typing, Locking, Undisturbed
  <2> QED
    BY <1>3, <2>2, UndisturbedKeeps DEF Typing
<1>5. CASE Reversed(K).ok
  <2>1. /\ phase' = [phase EXCEPT ![w] = "reversed"]
        /\ locked' = [locked EXCEPT ![w] = <<K, {}>>]
        /\ UNCHANGED <<job, cursor, fetched, collected>>
    BY <1>5 DEF LoadForOrphaning
  <2> HIDE DEF K
  <2>2. ExecInv'
    <3> USE DEF Typing, ExecInv
    <3>1. phase' \in [Workers -> Phases]
      BY <2>1 DEF Phases
    <3>2. locked' \in [Workers -> (SUBSET EntryKey) \X (SUBSET EntryKey)]
      BY <1>1, <2>1
    <3>3. ASSUME NEW u \in Workers
          PROVE  /\ phase'[u] \notin {"idle", "off"} => job'[u] \in Work
                 /\ phase'[u] \in {"orphan", "reversed", "marked", "fetch"} =>
                      cursor'[u] \in BlocksOf(job'[u])
      BY <1>2, <2>1
    <3> QED
      BY <1>2, <2>1, <3>1, <3>2, <3>3
  <2>3. LockInv'
    <3>1. \A u \in Workers : phase'[u] \in Locking => u = w
      BY <1>2, <2>1 DEF SourceLocked, Locking, Typing, ExecInv
    <3>2. locked'[w][1] = K /\ phase'[w] = "reversed"
      BY <2>1 DEF Typing, ExecInv
    <3>3. Reversed(locked[w][1])' = Reversed(K)
      BY <1>2, <3>2 DEF tables, Reversed, Opened, LastOf, Before, MapThenFoldSet
    <3>4. K = InRange(entry', BlocksOf(job'[w]))
      BY <1>2, <2>1 DEF K, tables
    <3>5. ASSUME NEW u \in Workers, phase'[u] \in Locking
          PROVE  /\ locked'[u][1] = InRange(entry', BlocksOf(job'[u]))
                 /\ Reversed(locked[u][1])'.ok
                 /\ phase'[u] = "marked" => locked'[u][2] = locked'[u][1]
      <4>1. u = w
        BY <3>1, <3>5
      <4> QED
        BY <1>5, <3>2, <3>3, <3>4, <4>1
    <3> QED
      BY <3>1, <3>5 DEF LockInv
  <2>4. StateInv'
    <3>1. \A u \in Workers : phase'[u] \in Locking => u = w
      BY <1>2, <2>1 DEF SourceLocked, Locking, Typing, ExecInv
    <3>2. locked'[w] = <<K, {}>> /\ entry' = entry /\ Opened' = Opened
      BY <1>2, <2>1 DEF Typing, ExecInv, tables, Opened
    <3> QED
      BY <1>1, <3>1, <3>2 DEF Typing, StateInv
  <2>5. TablesInv => TablesInv'
    BY <1>2 DEF TablesInv, tables
  <2> QED
    BY <1>3, <2>2, <2>3, <2>4, <2>5 DEF Typing, Agreement
<1> QED
  BY <1>4, <1>5

LEMMA MarkEntriesKeeps ==
  ASSUME Typing, NEW w \in Workers, MarkEntries(w)
  PROVE  Typing' /\ (Agreement => Agreement')
<1> DEFINE K == InRange(entry, BlocksOf(job[w]))
<1> USE DEF MarkEntries
<1>1. K \in SUBSET EntryKey /\ K \in SUBSET DOMAIN entry
  BY InRangeTyped DEF Typing, StateInv
<1>2. RestInv' /\ (TablesInv => TablesInv')
  BY DEF Typing, RestInv, history, TablesInv, tables
<1>3. locked' = [locked EXCEPT ![w] = [locked[w] EXCEPT ![2] = K]]
  OBVIOUS
<1>4. locked[w] \in (SUBSET EntryKey) \X (SUBSET EntryKey)
  BY DEF Typing, ExecInv
<1> HIDE DEF K
<1>5. [locked[w] EXCEPT ![2] = K] = <<locked[w][1], K>>
  BY <1>4
<1>6. locked'[w] = <<locked[w][1], K>> /\ \A u \in Workers \ {w} : locked'[u] = locked[u]
  BY <1>3, <1>5 DEF Typing, ExecInv
<1>7. locked' \in [Workers -> (SUBSET EntryKey) \X (SUBSET EntryKey)]
  <2>1. <<locked[w][1], K>> \in (SUBSET EntryKey) \X (SUBSET EntryKey)
    BY <1>1, <1>4
  <2> QED
    BY <1>3, <1>5, <2>1 DEF Typing, ExecInv
<1>8. ExecInv'
  <2> USE DEF Typing, ExecInv
  <2>1. phase' \in [Workers -> Phases]
    BY DEF Phases
  <2>2. ASSUME NEW u \in Workers
        PROVE  /\ phase'[u] \notin {"idle", "off"} => job'[u] \in Work
               /\ phase'[u] \in {"orphan", "reversed", "marked", "fetch"} =>
                    cursor'[u] \in BlocksOf(job'[u])
    OBVIOUS
  <2> QED
    BY <1>7, <2>1, <2>2
<1>9. ASSUME LockInv PROVE LockInv'
  <2>1. phase[w] = "reversed" /\ locked[w][1] = K /\ Reversed(locked[w][1]).ok
    BY <1>9 DEF LockInv, Locking, K
  <2>2. \A u \in Workers : phase'[u] \in Locking => phase[u] \in Locking
    BY <2>1 DEF Typing, ExecInv, Locking
  <2>3. \A u \in Workers : phase[u] \in Locking => u = w
    BY <1>9, <2>1 DEF LockInv, Locking
  <2>4. locked'[w][1] = K /\ locked'[w][2] = K
    BY <1>6, <2>1
  <2>5. Reversed(locked[w][1])' = Reversed(K)
    <3>1. UNCHANGED tables
      OBVIOUS
    <3> HIDE DEF MarkEntries
    <3> QED
      BY <2>4, <3>1 DEF tables, Reversed, Opened, LastOf, Before, MapThenFoldSet
  <2>6. K = InRange(entry', BlocksOf(job'[w]))
    BY DEF K, tables
  <2>7. ASSUME NEW u \in Workers, phase'[u] \in Locking
        PROVE  /\ locked'[u][1] = InRange(entry', BlocksOf(job'[u]))
               /\ Reversed(locked[u][1])'.ok
               /\ phase'[u] = "marked" => locked'[u][2] = locked'[u][1]
    <3>1. u = w
      BY <2>2, <2>3, <2>7
    <3> QED
      BY <2>1, <2>4, <2>5, <2>6, <3>1
  <2> QED
    BY <2>2, <2>3, <2>7 DEF LockInv
<1>10. StateInv'
  <2>1. \A u \in Workers : phase'[u] \in Locking => phase[u] \in Locking
    BY DEF Typing, ExecInv, Locking
  <2>2. entry' = entry /\ Opened' = Opened
    BY DEF tables, Opened
  <2> HIDE DEF MarkEntries
  <2>3. ASSUME NEW u \in Workers, phase'[u] \in Locking
        PROVE  locked'[u][1] \in SUBSET DOMAIN entry /\ locked'[u][2] \in SUBSET DOMAIN entry
    <3>1. locked[u][1] \in SUBSET DOMAIN entry /\ locked[u][2] \in SUBSET DOMAIN entry
      BY <2>1, <2>3 DEF Typing, StateInv
    <3> QED
      BY <1>1, <1>6, <3>1
  <2> QED
    BY <2>2, <2>3 DEF Typing, StateInv
<1> QED
  BY <1>2, <1>8, <1>9, <1>10 DEF Typing, Agreement

LEMMA OpenedTyped ==
  ASSUME NEW s \in State
  PROVE  [event |-> s.event, entry |-> s.entry, balance |-> s.balance, ok |-> TRUE] \in State
BY StateTyped DEF State

\* A committed transaction leaves tables that agree.
LEMMA CommitKeeps ==
  ASSUME NEW s, Keeps(Opened, s), s.ok, Commit(s)
  PROVE  /\ Opened' \in State /\ (IsFiniteSet(DOMAIN entry) => IsFiniteSet(DOMAIN entry'))
         /\ TablesInv => TablesInv'
<1>1. /\ Opened.event = event /\ Opened.entry = entry /\ Opened.balance = balance
      /\ event' = s.event /\ entry' = s.entry /\ balance' = s.balance
  BY DEF Opened, Commit
<1>2. s \in State /\ (IsFiniteSet(DOMAIN entry) => IsFiniteSet(DOMAIN s.entry))
  BY <1>1 DEF Keeps
<1>3. Opened' \in State
  BY <1>1, <1>2, OpenedTyped DEF Opened
<1>4. TablesInv => TablesInv'
  BY <1>1 DEF Keeps, TablesInv
<1> QED
  BY <1>1, <1>2, <1>3, <1>4

LEMMA MarkEventsKeeps ==
  ASSUME Typing, NEW w \in Workers, MarkEvents(w)
  PROVE  Typing' /\ (Agreement => Agreement')
<1> DEFINE R == BlocksOf(job[w])
           K == InRange(entry, R)
<1> USE DEF MarkEvents
<1>1. /\ phase[w] = "marked" /\ event' = Orphaned(event, InRange(event, R))
      /\ entry' = Orphaned(entry, locked[w][2]) /\ balance' = Reversed(locked[w][1]).balance
  OBVIOUS
<1>2. /\ event \in Table(LogKey, EventRow) /\ entry \in Table(EntryKey, EntryRow)
      /\ Opened \in State /\ IsFiniteSet(DOMAIN entry)
  BY StateTyped DEF Typing, StateInv, Opened
<1>3. /\ locked[w][1] \in SUBSET DOMAIN entry /\ locked[w][2] \in SUBSET DOMAIN entry
      /\ IsFiniteSet(locked[w][1])
  BY <1>1, <1>2, FS_Subset DEF Typing, StateInv, Locking
<1> HIDE DEF MarkEvents
<1>4. StateInv'
  <2>1. Reversed(locked[w][1]) \in State
    BY <1>2, <1>3, ReversedNow, ReversedCorrect
  <2>2. balance' \in Table(Accounts, BalanceRow)
    BY <1>1, <2>1, StateTyped
  <2>3. entry' \in Table(EntryKey, EntryRow) /\ DOMAIN entry' = DOMAIN entry
    BY <1>1, <1>2, <1>3, OrphanedCorrect
  <2>4. event' \in Table(LogKey, EventRow)
    BY <1>1, <1>2, OrphaningLinks
  <2>5. Opened' \in State
    BY <2>2, <2>3, <2>4 DEF Opened, State
  <2>6. \A u \in Workers : phase'[u] \in Locking => phase[u] \in Locking /\ locked'[u] = locked[u]
    BY DEF MarkEvents, Typing, ExecInv, Locking
  <2> QED
    BY <1>2, <2>3, <2>5, <2>6 DEF Typing, StateInv
<1>5. ASSUME Agreement PROVE TablesInv'
  <2>1. locked[w][1] = K /\ locked[w][2] = K /\ Reversed(K).ok
    BY <1>1, <1>5 DEF Agreement, LockInv, Locking
  <2>2. Agree(Orphaned(entry, K), Reversed(K).balance)
    <3>1. Reversed(K) = ReversedFrom(entry, Opened, K) /\ Opened.balance = balance
      BY ReversedNow DEF Opened
    <3>2. Agree(entry, balance)
      BY <1>5 DEF Agreement, TablesInv
    <3> QED
      BY <1>2, <1>3, <2>1, <3>1, <3>2, ReversedCorrect
  <2>3. Linked(event, entry) => Linked(event', entry')
    BY <1>1, <1>2, <2>1, OrphaningLinks
  <2> QED
    BY <1>1, <1>5, <2>1, <2>2, <2>3 DEF Agreement, TablesInv
<1> USE DEF MarkEvents
<1>6. ExecInv'
  <2> USE DEF Typing, ExecInv
  <2>1. phase' \in [Workers -> Phases]
    BY DEF Phases
  <2>2. locked' \in [Workers -> (SUBSET EntryKey) \X (SUBSET EntryKey)]
    OBVIOUS
  <2>3. ASSUME NEW u \in Workers
        PROVE  /\ phase'[u] \notin {"idle", "off"} => job'[u] \in Work
               /\ phase'[u] \in {"orphan", "reversed", "marked", "fetch"} =>
                    cursor'[u] \in BlocksOf(job'[u])
    OBVIOUS
  <2> QED
    BY <2>1, <2>2, <2>3
<1>7. RestInv'
  BY DEF Typing, RestInv
<1>8. ASSUME LockInv PROVE LockInv'
  <2>1. \A u \in Workers : phase'[u] \notin Locking
    BY <1>8 DEF Typing, ExecInv, LockInv, Locking
  <2> QED
    BY <2>1 DEF LockInv
<1> QED
  BY <1>4, <1>5, <1>6, <1>7, <1>8 DEF Typing, Agreement

LEMMA FetchChunkKeeps ==
  ASSUME Typing, NEW w \in Workers, FetchChunk(w)
  PROVE  Typing' /\ (Agreement => Agreement')
<1> DEFINE last == Least({cursor[w] + ChunkSize - 1, job[w].to})
           n == last - cursor[w] + 1
           seqs == [i \in 1..n |-> LogsOf(cursor[w] + i - 1)]
           logs == FlattenSeq(seqs)
<1>1. /\ phase[w] = "fetch"
      /\ fetched' = [fetched EXCEPT ![w] = @ \o logs]
      /\ cursor' = [cursor EXCEPT ![w] = last + 1]
      /\ phase' = [phase EXCEPT ![w] = IF last = job[w].to THEN "persist" ELSE "fetch"]
      /\ UNCHANGED <<version, tables, receipt, job, locked, collected, history>>
  BY DEF FetchChunk
<1>2. /\ job[w] \in Work /\ cursor[w] \in Nat /\ job[w].to \in Nat /\ job[w].from \in Nat
      /\ job[w].from <= cursor[w] /\ cursor[w] <= job[w].to
  <2>1. job[w] \in Work /\ cursor[w] \in Int /\ cursor[w] \in BlocksOf(job[w])
    BY <1>1 DEF Typing, ExecInv
  <2>2. job[w].to \in Nat /\ job[w].from \in Nat
    BY <2>1, WorkTyped
  <2> QED
    BY <2>1, <2>2 DEF BlocksOf
<1>3. last \in Int /\ cursor[w] <= last /\ last <= job[w].to
  <2> DEFINE x == cursor[w] + ChunkSize - 1
             y == job[w].to
  <2>1. x \in Int /\ y \in Int /\ cursor[w] <= x /\ cursor[w] <= y
    BY <1>2, LedgerAssumption
  <2> HIDE DEF x
  <2>2. \E z \in {x, y} : \A u \in {x, y} : z <= u
    BY <2>1
  <2>3. Least({x, y}) \in {x, y} /\ Least({x, y}) <= y
    BY <2>2 DEF Least
  <2> QED
    BY <2>1, <2>3 DEF x
<1> HIDE DEF last
<1>4. logs \in Seq(FetchedLog)
  <2> DEFINE S == Seq(FetchedLog)
  <2>1. n \in Nat
    BY <1>2, <1>3
  <2>2. \A i \in 1..n : seqs[i] \in S
    <3>1. ASSUME NEW i \in 1..n PROVE cursor[w] + i - 1 \in Blocks
      BY <1>2, <1>3, LedgerAssumption DEF Blocks
    <3> QED
      BY <3>1, LogsOfCorrect DEF Typing, ExecInv
  <2> HIDE DEF n, S
  <2>3. seqs \in [1..n -> S]
    BY <2>2
  <2> HIDE DEF seqs
  <2>4. seqs \in Seq(S)
    BY <2>1, <2>3
  <2> QED
    BY <2>4, FlattenTyped DEF S
<1> HIDE DEF logs
<1>5. ExecInv'
  <2> USE DEF Typing, ExecInv
  <2>1. phase' \in [Workers -> Phases]
    BY <1>1 DEF Phases
  <2>2. cursor' \in [Workers -> Int]
    BY <1>1, <1>3
  <2>3. fetched' \in [Workers -> Seq(FetchedLog)]
    <3>1. fetched[w] \o logs \in Seq(FetchedLog)
      BY <1>4
    <3> QED
      BY <1>1, <3>1
  <2>4. ASSUME NEW u \in Workers
        PROVE  /\ phase'[u] \notin {"idle", "off"} => job'[u] \in Work
               /\ phase'[u] \in {"orphan", "reversed", "marked", "fetch"} =>
                    cursor'[u] \in BlocksOf(job'[u])
    <3>1. CASE u # w
      BY <1>1, <3>1
    <3>2. CASE u = w
      <4>1. last # job[w].to => last + 1 \in BlocksOf(job[w])
        BY <1>2, <1>3 DEF BlocksOf
      <4> QED
        BY <1>1, <1>2, <3>2, <4>1
    <3> QED
      BY <3>1, <3>2
  <2> QED
    BY <1>1, <2>1, <2>2, <2>3, <2>4
<1>6. RestInv'
  BY <1>1 DEF Typing, RestInv, history
<1>7. Undisturbed({w})
  BY <1>1 DEF Typing, ExecInv, Undisturbed, Locking
<1> QED
  BY <1>5, <1>6, <1>7, UndisturbedKeeps DEF Typing

LEMMA PersistKeeps ==
  ASSUME Typing, NEW w \in Workers, Persist(w)
  PROVE  Typing' /\ (Agreement => Agreement')
<1> DEFINE restore == job[w].type = "replay"
           s == PersistDecodedLogs(Opened, fetched[w], restore)
<1>1. phase[w] = "persist" /\ ~SourceLocked /\ UNCHANGED <<version, receipt, budget, receipted>>
  BY DEF Persist
<1>2. job[w] \in Work /\ fetched[w] \in Seq(FetchedLog) /\ BlocksOf(job[w]) \subseteq Blocks
  BY <1>1, WorkTyped DEF Typing, ExecInv
<1>3. Keeps(Opened, s)
  BY <1>2, PersistDecodedLogsCorrect DEF Typing, StateInv
<1>4. \/ s.ok /\ Commit(s) /\ synced' \subseteq synced \cup Canonical(w)
                /\ stale' = stale \cup (BlocksOf(job[w]) \ Canonical(w))
      \/ UNCHANGED <<tables, synced, stale>>
  BY DEF Persist
<1>5. \/ Leave(w)
      \/ /\ phase' = [phase EXCEPT ![w] = "receipts"]
         /\ UNCHANGED <<job, cursor, fetched, locked, collected>>
  BY DEF Persist
<1> HIDE DEF s
<1>6. /\ Opened' \in State /\ IsFiniteSet(DOMAIN entry')
      /\ TablesInv => TablesInv'
  <2>1. CASE UNCHANGED tables
    BY <2>1 DEF Typing, StateInv, TablesInv, tables, Opened
  <2>2. CASE ~UNCHANGED tables
    BY <1>3, <1>4, <2>2, CommitKeeps DEF Typing, StateInv
  <2> QED
    BY <2>1, <2>2
<1>7. RestInv'
  <2>1. Canonical(w) \subseteq Blocks
    BY <1>2 DEF Canonical
  <2> QED
    BY <1>1, <1>2, <1>4, <2>1 DEF Typing, RestInv
<1>8. ExecInv' /\ \A u \in Workers : phase'[u] \notin Locking
  <2>1. \A u \in Workers : phase[u] \notin Locking
    BY <1>1 DEF SourceLocked, Locking
  <2>2. CASE Leave(w)
    BY <1>1, <2>1, <2>2, LeaveExec DEF Typing, Locking
  <2>3. CASE ~Leave(w)
    <3>1. phase' \in [Workers -> Phases] /\ \A u \in Workers : phase'[u] \notin Locking
      BY <1>5, <2>1, <2>3 DEF Typing, ExecInv, Phases, Locking
    <3>2. \A u \in Workers :
            /\ phase'[u] \notin {"idle", "off"} => job'[u] \in Work
            /\ phase'[u] \in {"orphan", "reversed", "marked", "fetch"} =>
                 cursor'[u] \in BlocksOf(job'[u])
      BY <1>2, <1>5, <2>3 DEF Typing, ExecInv
    <3> QED
      BY <1>1, <1>5, <2>3, <3>1, <3>2 DEF Typing, ExecInv
  <2> QED
    BY <2>2, <2>3
<1>9. LockInv' /\ StateInv'
  BY <1>6, <1>8 DEF LockInv, StateInv
<1> QED
  BY <1>6, <1>7, <1>8, <1>9 DEF Typing, Agreement

\* The receipt of a transaction that is on the chain.
LEMMA ReceiptOfCorrect ==
  ASSUME version \in DOMAIN Versions, NEW t, OnChain(t)
  PROVE  /\ ReceiptOf(t) \in ReceiptRow
         /\ \E b \in Blocks : /\ t \in TransactionsOf(b)
                              /\ ReceiptOf(t) = [block |-> b, hash |-> HashOf(b)]
<1> DEFINE b == CHOOSE b \in Blocks : t \in TransactionsOf(b)
<1>1. b \in Blocks /\ t \in TransactionsOf(b)
  BY DEF OnChain
<1>2. ReceiptOf(t) = [block |-> b, hash |-> HashOf(b)]
  BY DEF ReceiptOf
<1> HIDE DEF b
<1> QED
  BY <1>1, <1>2, HashOfCorrect DEF ReceiptRow

LEMMA UncollectedTyped ==
  ASSUME ExecInv, NEW w \in Workers
  PROVE  \A t \in Uncollected(w) : t \in Transaction
<1>1. fetched[w] \in Seq(FetchedLog)
  BY DEF ExecInv
<1>2. \A f \in ToSet(fetched[w]) : f \in FetchedLog
  BY <1>1 DEF ToSet
<1>3. \A f \in ToSet(fetched[w]) : f.log.key \in LogKey
  BY <1>2, EntriesTyped
<1> QED
  BY <1>3 DEF Uncollected, Transaction

LEMMA FetchReceiptKeeps ==
  ASSUME Typing, NEW w \in Workers, FetchReceipt(w)
  PROVE  Typing' /\ (Agreement => Agreement')
<1> DEFINE t == CHOOSE t \in Uncollected(w) : TRUE
<1>1. /\ phase[w] = "receipts" /\ Uncollected(w) # {}
      /\ UNCHANGED <<version, tables, receipt, history>>
  BY DEF FetchReceipt
<1>2. \/ /\ OnChain(t)
         /\ collected' = [collected EXCEPT ![w] = Put(@, t, ReceiptOf(t))]
         /\ UNCHANGED <<job, phase, cursor, fetched, locked>>
      \/ Leave(w)
  BY DEF FetchReceipt
<1>3. t \in Transaction
  BY <1>1, UncollectedTyped DEF Typing
<1> HIDE DEF t
<1>4. RestInv'
  BY <1>1 DEF Typing, RestInv, history
<1>5. ExecInv' /\ Undisturbed({w})
  <2>1. CASE Leave(w)
    BY <1>1, <2>1, LeaveExec DEF Typing, Undisturbed, Locking
  <2>2. CASE ~Leave(w)
    <3>1. ReceiptOf(t) \in ReceiptRow
      BY <1>2, <2>2, ReceiptOfCorrect DEF Typing, ExecInv
    <3>2. Put(collected[w], t, ReceiptOf(t)) \in Table(Transaction, ReceiptRow)
      <4>1. collected[w] \in Table(Transaction, ReceiptRow)
        BY DEF Typing, ExecInv
      <4> QED
        BY <1>3, <3>1, <4>1, PutCorrect
    <3>3. collected' \in [Workers -> Table(Transaction, ReceiptRow)]
      BY <1>2, <2>2, <3>2 DEF Typing, ExecInv
    <3> QED
      BY <1>1, <1>2, <2>2, <3>3 DEF Typing, ExecInv, Undisturbed, Locking
  <2> QED
    BY <2>1, <2>2
<1> QED
  BY <1>4, <1>5, UndisturbedKeeps DEF Typing

LEMMA PutAllCorrect ==
  ASSUME NEW K, NEW R, NEW t \in Table(K, R), NEW rows \in Table(K, R)
  PROVE  /\ PutAll(t, rows) \in Table(K, R)
         /\ DOMAIN PutAll(t, rows) = DOMAIN t \cup DOMAIN rows
<1>1. /\ DOMAIN t \subseteq K /\ \A x \in DOMAIN t : t[x] \in R
      /\ DOMAIN rows \subseteq K /\ \A x \in DOMAIN rows : rows[x] \in R
  BY TableTyped
<1>2. PutAll(t, rows) \in [DOMAIN t \cup DOMAIN rows -> R]
  BY <1>1 DEF PutAll
<1>3. DOMAIN t \cup DOMAIN rows \in SUBSET K
  BY <1>1
<1> QED
  BY <1>2, <1>3, TableMember

LEMMA PersistReceiptsKeeps ==
  ASSUME Typing, NEW w \in Workers, PersistReceipts(w)
  PROVE  Typing' /\ (Agreement => Agreement')
<1> USE DEF PersistReceipts
<1>1. ExecInv' /\ Undisturbed({w})
  BY LeaveExec DEF Typing, Undisturbed, Locking
<1>2. job[w] \in Work /\ BlocksOf(job[w]) \subseteq Blocks
  BY WorkTyped DEF Typing, ExecInv
<1>3. receipt' \in Table(Transaction, ReceiptRow)
  BY PutAllCorrect DEF Typing, RestInv, ExecInv, UpsertReceipts
<1>4. receipted' \subseteq Blocks
  BY <1>2 DEF Typing, RestInv, Canonical
<1>5. RestInv'
  BY <1>3, <1>4 DEF Typing, RestInv
<1> QED
  BY <1>1, <1>5, UndisturbedKeeps DEF Typing

LEMMA AbandonKeeps ==
  ASSUME Typing, NEW w \in Workers, Abandon(w)
  PROVE  Typing' /\ (Agreement => Agreement')
<1> USE DEF Abandon
<1>1. ExecInv' /\ Undisturbed({w}) /\ RestInv'
  BY LeaveExec DEF Typing, RestInv, Undisturbed, Locking, history
<1> QED
  BY <1>1, UndisturbedKeeps DEF Typing

LEMMA ReorgKeeps ==
  ASSUME Typing, Reorg
  PROVE  Typing' /\ (Agreement => Agreement')
<1> USE DEF Reorg, exec
<1>1. version' \in DOMAIN Versions
  BY LedgerAssumption DEF Typing, ExecInv
<1>2. ExecInv'
  BY <1>1 DEF Typing, ExecInv
<1>3. RestInv'
  BY DEF Typing, RestInv
<1>4. Undisturbed({})
  BY DEF Undisturbed
<1> QED
  BY <1>2, <1>3, <1>4, UndisturbedKeeps DEF Typing

LEMMA LgStepKeeps ==
  ASSUME Typing, [LgNext]_lgVars
  PROVE  Typing' /\ (Agreement => Agreement')
<1> DEFINE Kept == Typing' /\ (Agreement => Agreement')
<1>1. CASE Reorg
  BY <1>1, ReorgKeeps
<1>2. ASSUME NEW w \in Workers, NEW j \in Work, Begin(w, j) PROVE Kept
  BY <1>2, BeginKeeps
<1>3. ASSUME NEW w \in Workers, LoadForOrphaning(w) PROVE Kept
  BY <1>3, LoadForOrphaningKeeps
<1>4. ASSUME NEW w \in Workers, MarkEntries(w) PROVE Kept
  BY <1>4, MarkEntriesKeeps
<1>5. ASSUME NEW w \in Workers, MarkEvents(w) PROVE Kept
  BY <1>5, MarkEventsKeeps
<1>6. ASSUME NEW w \in Workers, FetchChunk(w) PROVE Kept
  BY <1>6, FetchChunkKeeps
<1>7. ASSUME NEW w \in Workers, Persist(w) PROVE Kept
  BY <1>7, PersistKeeps
<1>8. ASSUME NEW w \in Workers, FetchReceipt(w) PROVE Kept
  BY <1>8, FetchReceiptKeeps
<1>9. ASSUME NEW w \in Workers, PersistReceipts(w) PROVE Kept
  BY <1>9, PersistReceiptsKeeps
<1>10. ASSUME NEW w \in Workers, Abandon(w) PROVE Kept
  BY <1>10, AbandonKeeps
<1>11. CASE UNCHANGED lgVars
  <2> USE <1>11 DEF lgVars, exec, history
  <2>1. ExecInv' /\ RestInv'
    BY DEF Typing, ExecInv, RestInv
  <2>2. Undisturbed({})
    BY DEF Undisturbed
  <2> QED
    BY <2>1, <2>2, UndisturbedKeeps DEF Typing
<1> QED
  BY <1>1, <1>2, <1>3, <1>4, <1>5, <1>6, <1>7, <1>8, <1>9, <1>10, <1>11 DEF LgNext

LEMMA LgInvKept == LgInv /\ [LgNext]_lgVars => LgInv'
BY LgStepKeeps DEF LgInv

-----------------------------------------------------------------------------
(* The theorems *)

\* The invariant of the workers' transactions, from which the other theorems follow.
THEOREM LgInvariance == LgSpec => []LgInv
BY LgInitCorrect, LgInvKept, PTL DEF LgSpec

\* Every row that the transactions write has the type of its table, and no
\* balance becomes negative.
THEOREM LgTypeCorrect == LgSpec => []LgTypeOK
<1>1. LgInv => LgTypeOK
  <2> SUFFICES ASSUME LgInv PROVE LgTypeOK
    OBVIOUS
  <2>1. /\ event \in Table(LogKey, EventRow) /\ entry \in Table(EntryKey, EntryRow)
        /\ balance \in Table(Accounts, BalanceRow)
    BY StateTyped DEF LgInv, Typing, StateInv, Opened
  <2>2. /\ DOMAIN event \subseteq LogKey
        /\ \A k \in DOMAIN event :
             event[k] \in [block : Blocks, hash : DOMAIN Versions, bare : BOOLEAN,
                           orphaned : BOOLEAN]
    <3>1. DOMAIN event \subseteq LogKey /\ \A k \in DOMAIN event : event[k] \in EventRow
      BY <2>1, TableTyped
    <3> QED
      BY <3>1 DEF EventRow
  <2>3. ASSUME NEW k \in DOMAIN entry
        PROVE  /\ k[1] \in LogKey
               /\ entry[k].block \in Blocks /\ entry[k].hash \in DOMAIN Versions
               /\ entry[k].orphaned \in BOOLEAN
               /\ [from |-> entry[k].from, to |-> entry[k].to,
                   amount |-> entry[k].amount] \in Transfer
    <3>1. k \in EntryKey /\ entry[k] \in EntryRow
      BY <2>1, TableTyped
    <3> QED
      BY <3>1 DEF EntryKey, EntryRow, Transfer
  <2>4. /\ DOMAIN balance \subseteq Accounts
        /\ \A a \in DOMAIN balance : balance[a] \in BalanceRow
    BY <2>1, TableTyped
  <2>5. ASSUME NEW a \in DOMAIN balance
        PROVE  /\ balance[a].amount \in Nat
               /\ {balance[a].first, balance[a].last} \subseteq OptionalBlocks
    <3>1. balance[a].amount >= 0
      BY <2>4 DEF LgInv, Agreement, TablesInv, Agree, AmountIn
    <3> QED
      BY <2>4, <3>1 DEF BalanceRow
  <2>6. /\ DOMAIN receipt \subseteq Transaction
        /\ \A t \in DOMAIN receipt : receipt[t] \in [block : Blocks, hash : DOMAIN Versions]
    <3>1. receipt \in Table(Transaction, ReceiptRow)
      BY DEF LgInv, Typing, RestInv
    <3>2. /\ DOMAIN receipt \subseteq Transaction
          /\ \A t \in DOMAIN receipt : receipt[t] \in ReceiptRow
      BY <3>1, TableTyped
    <3> QED
      BY <3>2 DEF ReceiptRow
  <2>7. /\ version \in DOMAIN Versions
        /\ phase \in [Workers -> {"off", "idle", "orphan", "reversed", "marked", "fetch",
                                  "persist", "receipts"}]
        /\ UNION {synced, stale, receipted} \subseteq Blocks
    BY DEF LgInv, Typing, ExecInv, RestInv, Phases
  <2> QED
    BY <2>2, <2>3, <2>4, <2>5, <2>6, <2>7 DEF LgTypeOK
<1> QED
  BY <1>1, LgInvariance, PTL

\* What the invariant says of the balances, of the movements and of the events.
LEMMA BalancesFollow == LgInv => BalancesMatchLedger
<1> SUFFICES ASSUME LgInv, NEW a \in Accounts
             PROVE  BalanceOf(a) =
               SumFunctionOnSet([k \in LiveKeys |-> Effect(entry[k], a)], LiveKeys)
  BY DEF BalancesMatchLedger
<1> DEFINE D == DOMAIN entry
           f == [k \in D |-> EffectOf(entry[k], a)]
           g == [k \in LiveKeys |-> Effect(entry[k], a)]
<1>1. entry \in Table(EntryKey, EntryRow) /\ IsFiniteSet(D)
  BY StateTyped DEF LgInv, Typing, StateInv, Opened
<1>2. BalanceOf(a) = SumFunctionOnSet(f, D)
  BY DEF LgInv, Agreement, TablesInv, Agree, AmountIn, BalanceOf, Total
<1>3. LiveKeys \in SUBSET D /\ IsFiniteSet(LiveKeys)
  BY <1>1, FS_Subset DEF LiveKeys
<1>4. \A k \in D : f[k] = EffectOf(entry[k], a) /\ f[k] \in Int
  BY <1>1, TableTyped, LiveEffectCorrect
<1>5. \A k \in D \ LiveKeys : f[k] = 0
  BY <1>4 DEF LiveKeys, EffectOf
<1>6. \A k \in LiveKeys : f[k] \in Int /\ f[k] = g[k]
  BY <1>3, <1>4 DEF LiveKeys, EffectOf
<1> HIDE DEF f, g, D
<1>7. SumFunctionOnSet(f, D) = SumFunctionOnSet(f, LiveKeys)
  BY <1>1, <1>3, <1>4, <1>5, SumWithoutZeros
<1>8. SumFunctionOnSet(f, LiveKeys) = SumFunctionOnSet(g, LiveKeys)
  BY <1>3, <1>6, SumEqual
<1> QED
  BY <1>2, <1>7, <1>8 DEF g

\* token_balances is the sum of the live ledger_entries, however many workers
\* ingest, orphan and replay which ranges, and whichever transactions roll back.
THEOREM BalancesAreSums == LgSpec => []BalancesMatchLedger
BY LgInvariance, BalancesFollow, PTL

LEMMA MovementsFollow == LgInv => MovementBounds
<1> SUFFICES ASSUME LgInv, NEW k \in LiveKeys,
                    NEW a \in {entry[k].from, entry[k].to} \cap Accounts,
                    entry[k].amount # 0, entry[k].from # entry[k].to
             PROVE  /\ a \in DOMAIN balance
                    /\ \E b \in balance[a].last : entry[k].block <= b
                    /\ a = entry[k].to => \E b \in balance[a].first : b <= entry[k].block
  BY DEF MovementBounds
<1>1. k \in DOMAIN entry /\ Moves(entry[k])
  BY DEF LiveKeys, Moves
<1>2. a \in DOMAIN balance /\ Bounds(balance[a], entry[k], a)
  BY <1>1 DEF LgInv, Agreement, TablesInv, Agree
<1> QED
  BY <1>2 DEF Bounds

\* A live movement has left a row for each of its holders, whose
\* first_received_block and last_moved_block bound it.
THEOREM MovementsAreBounded == LgSpec => []MovementBounds
BY LgInvariance, MovementsFollow, PTL

LEMMA EntriesFollow == LgInv => (StableDecoding => LiveEntriesHaveLiveEvents)
<1> SUFFICES ASSUME LgInv, StableDecoding, NEW k \in LiveKeys
             PROVE  /\ k[1] \in DOMAIN event
                    /\ ~event[k[1]].orphaned
                    /\ event[k[1]].block = entry[k].block
                    /\ event[k[1]].hash = entry[k].hash
  BY DEF LiveEntriesHaveLiveEvents
<1>1. k \in DOMAIN entry /\ ~entry[k].orphaned
  BY DEF LiveKeys
<1>2. k \in EntryKey
  BY <1>1, StateTyped, TableTyped DEF LgInv, Typing, StateInv, Opened
<1> QED
  BY <1>1, <1>2 DEF LgInv, Agreement, TablesInv, Linked

\* When a log is always decoded into the same number of entries, a live entry
\* belongs to a live event of the same block and hash.
THEOREM EntriesFollowEvents == LgSpec => [](StableDecoding => LiveEntriesHaveLiveEvents)
BY LgInvariance, EntriesFollow, PTL

-----------------------------------------------------------------------------
(* After a replay *)

SameParties(l, m) ==
  /\ DOMAIN l.entries = DOMAIN m.entries
  /\ \A n \in DOMAIN l.entries : /\ l.entries[n].from = m.entries[n].from
                                 /\ l.entries[n].to = m.entries[n].to

\* A log that is mined again is in the same block, and of the same holders (what
\* the tables do not overwrite); a key names one log of a chain.
StableLogs ==
  \A u, v \in DOMAIN Versions : \A b, c \in Blocks :
    \A l \in ToSet(Versions[u].logs[b]), m \in ToSet(Versions[v].logs[c]) :
      l.key = m.key => b = c /\ SameParties(l, m) /\ (u = v => l = m)

LEMMA StableLogsDecode == StableLogs => StableDecoding
<1> SUFFICES ASSUME StableLogs, NEW l \in Logs, NEW m \in Logs, l.key = m.key
             PROVE  DOMAIN l.entries = DOMAIN m.entries
  BY DEF StableDecoding
<1>1. PICK u \in DOMAIN Versions, b \in Blocks : l \in ToSet(Versions[u].logs[b])
  BY DEF Logs
<1>2. PICK v \in DOMAIN Versions, c \in Blocks : m \in ToSet(Versions[v].logs[c])
  BY DEF Logs
<1> QED
  BY <1>1, <1>2 DEF StableLogs, SameParties

\* What can be fetched of the blocks R.
MinedIn(R) ==
  {f \in FetchedLog : f.block \in R /\ \E v \in DOMAIN Versions :
                                         f.log \in ToSet(Versions[v].logs[f.block])}

\* A row has the place and the holders that f gives to it.
PlacedBy(f, k, row) ==
  /\ k[2] \in DOMAIN f.log.entries
  /\ row.block = f.block
  /\ row.from = f.log.entries[k[2]].from /\ row.to = f.log.entries[k[2]].to

\* A row says what f says.
WrittenFrom(f, k, row) ==
  /\ f.log.key = k[1] /\ PlacedBy(f, k, row)
  /\ row.amount = f.log.entries[k[2]].amount /\ row.hash = f.hash

WellPlaced(rows) ==
  \A k \in DOMAIN rows : \A f \in MinedIn(Blocks) : f.log.key = k[1] => PlacedBy(f, k, rows[k])

\* Persisting logs of F has made a of the rows: the others are as before, and no
\* row is orphaned.
Recorded(rows, F, a) ==
  /\ WellPlaced(a)
  /\ \A k \in DOMAIN rows : k \in DOMAIN a /\ (~rows[k].orphaned => ~a[k].orphaned)
  /\ \A k \in DOMAIN a : \/ k \in DOMAIN rows /\ a[k] = rows[k]
                         \/ \E f \in F : WrittenFrom(f, k, a[k])

\* Every entry of f has its row, after a replay a live one.
Present(f, restore, rows) ==
  \A n \in DOMAIN f.log.entries :
    /\ <<f.log.key, n>> \in DOMAIN rows
    /\ restore => ~rows[<<f.log.key, n>>].orphaned

\* The present logs of a block can be fetched.
LEMMA LogsOfMined ==
  ASSUME version \in DOMAIN Versions, NEW R \in SUBSET Blocks, NEW b \in R
  PROVE  /\ LogsOf(b) \in Seq(MinedIn(R))
         /\ \A f \in ToSet(LogsOf(b)) : f \in MinedIn(R) /\ f.block = b
<1> DEFINE logs == Versions[version].logs[b]
           A == MinedIn(R)
<1>1. logs \in Seq(Logs) /\ b \in Blocks
  BY LedgerAssumption
<1>2. HashOf(b) \in DOMAIN Versions
  BY <1>1, HashOfCorrect
<1>3. \A n \in DOMAIN logs : logs[n] \in ToSet(logs) /\ logs[n] \in Logs
  BY <1>1 DEF ToSet
<1>4. ASSUME NEW n \in DOMAIN logs
      PROVE  [log |-> logs[n], block |-> b, hash |-> HashOf(b)] \in A
  <2> DEFINE f == [log |-> logs[n], block |-> b, hash |-> HashOf(b)]
  <2>1. f \in FetchedLog /\ f.block = b /\ f.log = logs[n]
    BY <1>1, <1>2, <1>3 DEF FetchedLog
  <2>2. f.log \in ToSet(Versions[version].logs[f.block])
    BY <1>3, <2>1
  <2> QED
    BY <2>1, <2>2 DEF MinedIn
<1> HIDE DEF logs, A
<1>5. LogsOf(b) = [n \in 1..Len(logs) |-> [log |-> logs[n], block |-> b, hash |-> HashOf(b)]]
  BY <1>1 DEF LogsOf, logs
<1>6. LogsOf(b) \in Seq(A)
  BY <1>1, <1>4, <1>5
<1>7. \A f \in ToSet(LogsOf(b)) : f \in A /\ f.block = b
  BY <1>1, <1>4, <1>5 DEF ToSet
<1> QED
  BY <1>6, <1>7 DEF A

LEMMA MinedLogsStable ==
  ASSUME StableLogs, NEW f \in MinedIn(Blocks), NEW g \in MinedIn(Blocks),
         f.log.key = g.log.key
  PROVE  f.block = g.block /\ SameParties(f.log, g.log)
<1>1. PICK u \in DOMAIN Versions : f.log \in ToSet(Versions[u].logs[f.block])
  BY DEF MinedIn
<1>2. PICK v \in DOMAIN Versions : g.log \in ToSet(Versions[v].logs[g.block])
  BY DEF MinedIn
<1>3. f.block \in Blocks /\ g.block \in Blocks
  BY DEF MinedIn
<1> QED
  BY <1>1, <1>2, <1>3 DEF StableLogs

LEMMA PersistLogRecords ==
  ASSUME StableLogs, NEW rows, NEW a \in State, NEW F \in SUBSET MinedIn(Blocks), NEW f \in F,
         NEW restore \in BOOLEAN, Recorded(rows, F, a.entry)
  PROVE  LET r == PersistLog(a, f, restore)
         IN  /\ Recorded(rows, F, r.entry) /\ Present(f, restore, r.entry)
             /\ \A g : Present(g, restore, a.entry) => Present(g, restore, r.entry)
<1> DEFINE r == PersistLog(a, f, restore)
           key == f.log.key
           D == DOMAIN f.log.entries
           keys == {<<key, n>> : n \in D}
           new == r.entry
           old == a.entry
<1>1. f \in FetchedLog /\ f \in MinedIn(Blocks)
  BY DEF MinedIn
<1>2. EntriesPersisted(a, f, restore, D, r)
  BY <1>1, PersistLogCorrect
<1> HIDE DEF r
<1>3. /\ DOMAIN new = DOMAIN old \cup keys
      /\ \A k \in DOMAIN old : k \notin keys => new[k] = old[k]
      /\ \A n \in D : Upserted(old, <<key, n>>, f, restore, new[<<key, n>>])
  BY <1>2 DEF EntriesPersisted
<1> HIDE DEF new, old
<1>4. ASSUME NEW k \in keys
      PROVE  /\ k[1] = key /\ k[2] \in D /\ k \in DOMAIN new
             /\ Upserted(old, k, f, restore, new[k])
  BY <1>3
<1>5. /\ WellPlaced(old)
      /\ \A k \in DOMAIN rows : k \in DOMAIN old /\ (~rows[k].orphaned => ~old[k].orphaned)
      /\ \A k \in DOMAIN old : \/ k \in DOMAIN rows /\ old[k] = rows[k]
                               \/ \E g \in F : WrittenFrom(g, k, old[k])
  BY DEF Recorded, old
<1> HIDE DEF keys
<1>6. ASSUME NEW k \in keys, NEW g \in MinedIn(Blocks), g.log.key = k[1]
      PROVE  PlacedBy(g, k, new[k])
  <2>1. f.block = g.block /\ SameParties(f.log, g.log)
    BY <1>1, <1>4, <1>6, MinedLogsStable
  <2>2. k[2] \in DOMAIN g.log.entries
    BY <1>4, <2>1 DEF SameParties
  <2>3. CASE k \in DOMAIN old
    BY <1>4, <1>5, <1>6, <2>3 DEF WellPlaced, PlacedBy, Upserted
  <2>4. CASE k \notin DOMAIN old
    BY <1>4, <2>1, <2>2, <2>4 DEF PlacedBy, Upserted, SameParties
  <2> QED
    BY <2>3, <2>4
<1>7. WellPlaced(new)
  BY <1>3, <1>5, <1>6 DEF WellPlaced
<1>8. ASSUME NEW k \in DOMAIN old, ~old[k].orphaned PROVE ~new[k].orphaned
  <2>1. CASE k \in keys
    BY <1>4, <1>8, <2>1 DEF Upserted
  <2>2. CASE k \notin keys
    BY <1>3, <1>8, <2>2
  <2> QED
    BY <2>1, <2>2
<1>9. ASSUME NEW k \in DOMAIN new
      PROVE  \/ k \in DOMAIN rows /\ new[k] = rows[k]
             \/ \E g \in F : WrittenFrom(g, k, new[k])
  <2>1. CASE k \in keys
    <3>1. PlacedBy(f, k, new[k])
      BY <1>1, <1>4, <1>6, <2>1
    <3>2. WrittenFrom(f, k, new[k])
      BY <1>4, <2>1, <3>1 DEF WrittenFrom, Upserted
    <3> QED
      BY <3>2
  <2>2. CASE k \notin keys
    BY <1>3, <1>5, <2>2
  <2> QED
    BY <2>1, <2>2
<1>10. Recorded(rows, F, new)
  BY <1>3, <1>5, <1>7, <1>8, <1>9 DEF Recorded
<1>11. Present(f, restore, new)
  BY <1>3 DEF Present, Upserted, keys
<1>12. ASSUME NEW g, Present(g, restore, old) PROVE Present(g, restore, new)
  BY <1>3, <1>8, <1>12 DEF Present
<1> QED
  BY <1>10, <1>11, <1>12 DEF r, new, old

LEMMA PersistDecodedLogsRecords ==
  ASSUME StableLogs, NEW s \in State, NEW logs \in Seq(MinedIn(Blocks)),
         NEW restore \in BOOLEAN, WellPlaced(s.entry),
         PersistDecodedLogs(s, logs, restore).ok
  PROVE  LET r == PersistDecodedLogs(s, logs, restore)
         IN  /\ Recorded(s.entry, ToSet(logs), r.entry)
             /\ \A f \in ToSet(logs) : Present(f, restore, r.entry)
<1> DEFINE D == DOMAIN logs
           F == ToSet(logs)
           r == PersistDecodedLogs(s, logs, restore)
           Right(T, a) == a.ok => /\ Recorded(s.entry, F, a.entry)
                                  /\ \A n \in T : Present(logs[n], restore, a.entry)
           Q == {p \in (SUBSET D) \X State : Right(p[1], p[2])}
<1>1. /\ F \in SUBSET MinedIn(Blocks) /\ \A n \in D : logs[n] \in F
      /\ \A f \in F : \E n \in D : f = logs[n]
  BY DEF ToSet
<1>2. logs \in Seq(FetchedLog)
  <2>1. MinedIn(Blocks) \subseteq FetchedLog
    BY DEF MinedIn
  <2> QED
    BY <2>1, SeqMonotonic
<1> HIDE DEF F
<1>3. <<{}, s>> \in Q
  BY DEF Recorded
<1>4. ASSUME NEW T \in SUBSET D, NEW n \in T, NEW a \in State, Right(T \ {n}, a)
      PROVE  Right(T, PersistNext(a, logs[n], restore)) /\ PersistNext(a, logs[n], restore) \in State
  <2> DEFINE f == logs[n]
             b == PersistLog(a, f, restore)
  <2>1. f \in F /\ f \in FetchedLog /\ b \in State /\ (b.ok => a.ok)
    BY <1>1, <1>2, PersistLogCorrect DEF MinedIn
  <2>2. CASE ~a.ok
    BY <2>2 DEF PersistNext
  <2>3. CASE a.ok
    <3>1. Recorded(s.entry, F, a.entry) /\ \A m \in T \ {n} : Present(logs[m], restore, a.entry)
      BY <1>4, <2>3
    <3>2. /\ Recorded(s.entry, F, b.entry) /\ Present(f, restore, b.entry)
          /\ \A g : Present(g, restore, a.entry) => Present(g, restore, b.entry)
      <4> HIDE DEF f
      <4> QED
        BY <1>1, <2>1, <3>1, PersistLogRecords
    <3>3. \A m \in T : Present(logs[m], restore, b.entry)
      BY <3>1, <3>2
    <3>4. PersistNext(a, logs[n], restore) = b
      BY <2>3 DEF PersistNext
    <3> QED
      BY <2>1, <3>2, <3>3, <3>4
  <2> QED
    BY <2>2, <2>3
<1>5. HoldsThrough(Q, s, logs, restore)
  <2> HIDE DEF Right
  <2>1. ASSUME NEW T \in SUBSET D, NEW n \in T, NEW a \in State, <<T \ {n}, a>> \in Q
        PROVE  <<T, PersistNext(a, logs[n], restore)>> \in Q
    BY <1>4, <2>1
  <2> HIDE DEF Q
  <2> QED
    BY <1>3, <2>1 DEF HoldsThrough
<1>6. <<D, r>> \in Q
  <2> HIDE DEF Q
  <2> QED
    BY <1>2, <1>5, PersistInduction
<1>7. Right(D, r)
  BY <1>6
<1> HIDE DEF r
<1>8. Recorded(s.entry, F, r.entry) /\ \A n \in D : Present(logs[n], restore, r.entry)
  BY <1>7 DEF r
<1> QED
  BY <1>1, <1>8 DEF r, F

\* The blocks whose logs an execution may have fetched.
ReachOf(at, j) == IF at \in {"fetch", "persist", "receipts"} THEN BlocksOf(j) ELSE {}

FetchInv == \A w \in Workers : fetched[w] \in Seq(MinedIn(ReachOf(phase[w], job[w])))

\* A block that is not stale holds no live row but those of its present logs, and
\* if a replay brought it up to date it holds all of them.
CanonInv ==
  /\ WellPlaced(entry)
  /\ \A b \in Blocks \ stale : \A k \in DOMAIN entry :
       ~entry[k].orphaned /\ entry[k].block = b =>
         \E f \in ToSet(LogsOf(b)) : WrittenFrom(f, k, entry[k])
  /\ \A b \in synced \ stale : \A f \in ToSet(LogsOf(b)) : Present(f, TRUE, entry)

ReplayInv == FetchInv /\ (StableLogs => CanonInv)

\* Fetched logs are kept, for a range that does not shrink, or dropped.
LEMMA FetchedKept ==
  ASSUME FetchInv,
         \A u \in Workers :
           \/ fetched'[u] = <<>>
           \/ /\ fetched'[u] = fetched[u]
              /\ ReachOf(phase[u], job[u]) \subseteq ReachOf(phase'[u], job'[u])
  PROVE  FetchInv'
<1>1. ASSUME NEW u \in Workers
      PROVE  fetched'[u] \in Seq(MinedIn(ReachOf(phase'[u], job'[u])))
  <2>1. CASE fetched'[u] = <<>>
    <3> DEFINE A == MinedIn(ReachOf(phase'[u], job'[u]))
    <3> HIDE DEF A
    <3>1. fetched'[u] \in Seq(A)
      BY <2>1
    <3> QED
      BY <3>1 DEF A
  <2>2. CASE /\ fetched'[u] = fetched[u]
             /\ ReachOf(phase[u], job[u]) \subseteq ReachOf(phase'[u], job'[u])
    <3> DEFINE A == MinedIn(ReachOf(phase[u], job[u]))
               B == MinedIn(ReachOf(phase'[u], job'[u]))
    <3>1. A \subseteq B
      BY <2>2 DEF MinedIn
    <3>2. fetched'[u] \in Seq(A)
      BY <2>2 DEF FetchInv
    <3> HIDE DEF A, B
    <3>3. fetched'[u] \in Seq(B)
      BY <3>1, <3>2, SeqMonotonic
    <3> QED
      BY <3>3 DEF B
  <2> QED
    BY <2>1, <2>2
<1> QED
  BY <1>1 DEF FetchInv, MinedIn, ReachOf, BlocksOf

LEMMA LogsOfSame ==
  ASSUME version' = version
  PROVE  \A b : LogsOf(b)' = LogsOf(b)
BY DEF LogsOf, HashOf

LEMMA CanonKept ==
  ASSUME CanonInv, UNCHANGED <<version, entry, synced, stale>>
  PROVE  CanonInv'
<1>1. \A b : LogsOf(b)' = LogsOf(b)
  BY LogsOfSame
<1> QED
  BY <1>1 DEF CanonInv

\* A reorganisation leaves the logs of the blocks before its fork alone.
LEMMA LogsOfKept ==
  ASSUME version \in DOMAIN Versions, Reorg, NEW b \in Blocks, b < Versions[version + 1].fork
  PROVE  LogsOf(b)' = LogsOf(b)
<1>1. /\ version \in Nat /\ version >= 1 /\ version' = version + 1
      /\ version + 1 \in 2..Len(Versions) /\ b \in Int
  BY LedgerAssumption DEF Reorg, Blocks
<1>2. Versions[version + 1].logs[b] = Versions[version].logs[b]
  <2>1. (version + 1) - 1 = version
    BY <1>1
  <2> QED
    BY <1>1, <2>1, LedgerAssumption
<1>3. Versions[version + 1].fork \in Nat /\ ~(Versions[version + 1].fork <= b)
      /\ Versions[version + 1].fork > b
  BY <1>1, LedgerAssumption
<1> DEFINE Old(v) == /\ v \in 1..version /\ Versions[v].fork <= b
                     /\ \A u \in (v + 1)..version : Versions[u].fork > b
           New(v) == /\ v \in 1..(version + 1) /\ Versions[v].fork <= b
                     /\ \A u \in (v + 1)..(version + 1) : Versions[u].fork > b
<1>4. ASSUME NEW v PROVE Old(v) <=> New(v)
  <2>1. ASSUME Old(v) PROVE New(v)
    <3>1. \A u \in (v + 1)..(version + 1) : u \in (v + 1)..version \/ u = version + 1
      BY <1>1, <2>1
    <3> QED
      BY <1>1, <1>3, <2>1, <3>1
  <2>2. ASSUME New(v) PROVE Old(v)
    <3>1. v # version + 1
      BY <1>3, <2>2
    <3>2. \A u \in (v + 1)..version : u \in (v + 1)..(version + 1)
      BY <1>1, <2>2
    <3> QED
      BY <1>1, <2>2, <3>1, <3>2
  <2> QED
    BY <2>1, <2>2
<1>5. (CHOOSE v : Old(v)) = (CHOOSE v : New(v))
  <2> HIDE DEF Old, New
  <2> QED
    BY <1>4, Zenon
<1>6. HashOf(b) = CHOOSE v : Old(v)
  BY Zenon DEF HashOf
<1>7. HashOf(b)' = CHOOSE v : New(v)
  BY <1>1, Zenon DEF HashOf
<1>8. HashOf(b)' = HashOf(b)
  BY <1>5, <1>6, <1>7
<1> QED
  BY <1>1, <1>2, <1>8 DEF LogsOf

LEMMA ReorgReplays ==
  ASSUME Typing, ReplayInv, Reorg
  PROVE  ReplayInv'
<1> USE DEF Reorg, exec
<1>1. FetchInv'
  <2>1. \A u \in Workers : fetched'[u] = fetched[u] /\ phase'[u] = phase[u] /\ job'[u] = job[u]
    OBVIOUS
  <2> QED
    BY <2>1, FetchedKept DEF ReplayInv
<1>2. ASSUME StableLogs, CanonInv PROVE CanonInv'
  <2>1. version \in Nat /\ version + 1 \in DOMAIN Versions
    BY LedgerAssumption DEF Typing, ExecInv
  <2>2. ASSUME NEW b \in Blocks \ stale' PROVE b \notin stale /\ LogsOf(b)' = LogsOf(b)
    <3>1. b \notin stale /\ ~(b >= Versions[version + 1].fork)
      OBVIOUS
    <3>2. b \in Nat /\ Versions[version + 1].fork \in Nat
      BY <2>1, LedgerAssumption DEF Blocks
    <3>3. b < Versions[version + 1].fork
      BY <3>1, <3>2
    <3> QED
      BY <3>1, <3>3, LogsOfKept DEF Typing, ExecInv
  <2>3. entry' = entry /\ synced' \subseteq synced
    BY DEF tables
  <2>4. WellPlaced(entry)'
    BY <1>2, <2>3 DEF CanonInv, WellPlaced, MinedIn, PlacedBy
  <2>5. ASSUME NEW b \in Blocks \ stale', NEW k \in DOMAIN entry',
               ~entry'[k].orphaned, entry'[k].block = b
        PROVE  \E f \in ToSet(LogsOf(b)') : WrittenFrom(f, k, entry'[k])
    BY <1>2, <2>2, <2>3, <2>5 DEF CanonInv
  <2>6. ASSUME NEW b \in synced' \ stale', b \in Blocks, NEW f \in ToSet(LogsOf(b)')
        PROVE  Present(f, TRUE, entry')
    BY <1>2, <2>2, <2>3, <2>6 DEF CanonInv
  <2>7. synced' \subseteq Blocks
    BY <2>3 DEF Typing, RestInv
  <2> QED
    BY <2>4, <2>5, <2>6, <2>7 DEF CanonInv
<1> QED
  BY <1>1, <1>2 DEF ReplayInv

LEMMA MarkEventsReplays ==
  ASSUME Typing, LockInv, ReplayInv, NEW w \in Workers, MarkEvents(w)
  PROVE  ReplayInv'
<1> DEFINE R == BlocksOf(job[w])
           K == InRange(entry, R)
<1>1. /\ phase[w] = "marked" /\ entry' = Orphaned(entry, locked[w][2])
      /\ phase' = [phase EXCEPT ![w] = "fetch"]
      /\ synced' = synced \ R /\ stale' = stale \ R
      /\ UNCHANGED <<version, job, fetched>>
  BY DEF MarkEvents
<1>2. phase \in [Workers -> Phases] /\ synced \subseteq Blocks /\ stale \subseteq Blocks
  BY DEF Typing, ExecInv, RestInv
<1>3. locked[w][2] = K
  BY <1>1 DEF LockInv, Locking
<1>4. /\ DOMAIN entry' = DOMAIN entry
      /\ \A k \in DOMAIN entry : entry'[k] = IF k \in K THEN [entry[k] EXCEPT !.orphaned = TRUE]
                                             ELSE entry[k]
  BY <1>1, <1>3 DEF Orphaned
<1>5. \A k \in DOMAIN entry : k \in K <=> entry[k].block \in R /\ ~entry[k].orphaned
  BY DEF InRange
<1>6. \A k \in DOMAIN entry : entry[k] \in EntryRow
  BY TableTyped, StateTyped DEF Typing, StateInv, Opened
<1> HIDE DEF K
<1>7. ASSUME NEW k \in DOMAIN entry
      PROVE  /\ entry'[k].block = entry[k].block /\ entry'[k].from = entry[k].from
             /\ entry'[k].to = entry[k].to
             /\ ~entry'[k].orphaned <=> ~entry[k].orphaned /\ entry[k].block \notin R
             /\ ~entry'[k].orphaned => entry'[k] = entry[k]
  <2>1. CASE k \in K
    <3>1. entry'[k] = [entry[k] EXCEPT !.orphaned = TRUE] /\ entry[k] \in EntryRow
      BY <1>4, <1>6, <2>1
    <3> QED
      BY <1>5, <2>1, <3>1 DEF EntryRow
  <2>2. CASE k \notin K
    <3>1. entry'[k] = entry[k]
      BY <1>4, <2>2
    <3> QED
      BY <1>5, <2>2, <3>1
  <2> QED
    BY <2>1, <2>2
<1> HIDE DEF R
<1>8. FetchInv'
  <2>1. \A u \in Workers : fetched'[u] = fetched[u]
                           /\ ReachOf(phase[u], job[u]) \subseteq ReachOf(phase'[u], job'[u])
    BY <1>1, <1>2 DEF ReachOf
  <2> QED
    BY <2>1, FetchedKept DEF ReplayInv
<1>9. ASSUME StableLogs, CanonInv PROVE CanonInv'
  <2>1. WellPlaced(entry)'
    BY <1>4, <1>7, <1>9 DEF CanonInv, WellPlaced, MinedIn, PlacedBy
  <2>2. \A b : LogsOf(b)' = LogsOf(b)
    BY <1>1, LogsOfSame
  <2>3. ASSUME NEW b \in Blocks \ stale', NEW k \in DOMAIN entry',
               ~entry'[k].orphaned, entry'[k].block = b
        PROVE  \E f \in ToSet(LogsOf(b)) : WrittenFrom(f, k, entry'[k])
    <3>1. /\ k \in DOMAIN entry /\ entry'[k] = entry[k] /\ entry[k].block = b
          /\ ~entry[k].orphaned /\ b \notin R
      BY <1>4, <1>7, <2>3
    <3>2. b \in Blocks \ stale
      BY <1>1, <3>1
    <3> QED
      BY <1>9, <3>1, <3>2 DEF CanonInv
  <2>4. ASSUME NEW b \in synced' \ stale', NEW f \in ToSet(LogsOf(b))
        PROVE  Present(f, TRUE, entry')
    <3>1. b \in synced \ stale /\ b \notin R /\ b \in Blocks
      BY <1>1, <1>2
    <3>2. Present(f, TRUE, entry)
      BY <1>9, <3>1 DEF CanonInv
    <3>3. f \in MinedIn(Blocks) /\ f.block = b
      BY <3>1, LogsOfMined DEF Typing, ExecInv
    <3>4. ASSUME NEW n \in DOMAIN f.log.entries
          PROVE  /\ <<f.log.key, n>> \in DOMAIN entry'
                 /\ ~entry'[<<f.log.key, n>>].orphaned
      <4> DEFINE k == <<f.log.key, n>>
      <4>1. k \in DOMAIN entry /\ ~entry[k].orphaned /\ k[1] = f.log.key
        BY <3>2 DEF Present
      <4> HIDE DEF k
      <4>2. entry[k].block = b
        BY <1>9, <3>3, <4>1 DEF CanonInv, WellPlaced, PlacedBy
      <4> QED
        BY <1>4, <1>7, <3>1, <4>1, <4>2 DEF k
    <3> QED
      BY <3>4 DEF Present
  <2> QED
    BY <2>1, <2>2, <2>3, <2>4 DEF CanonInv
<1> QED
  BY <1>8, <1>9 DEF ReplayInv

\* What the commit of an execution does to the blocks that are not stale then.
LEMMA PersistReplays ==
  ASSUME Typing, ReplayInv, NEW w \in Workers, Persist(w)
  PROVE  ReplayInv'
<1> DEFINE restore == job[w].type = "replay"
           R == BlocksOf(job[w])
           F == ToSet(fetched[w])
           s == PersistDecodedLogs(Opened, fetched[w], restore)
<1>1. phase[w] = "persist" /\ version' = version
  BY DEF Persist
<1>2. /\ job[w] \in Work /\ R \subseteq Blocks /\ phase \in [Workers -> Phases]
      /\ Opened \in State /\ Opened.entry = entry
      /\ synced \subseteq Blocks /\ stale \subseteq Blocks
  BY <1>1, WorkTyped DEF Typing, ExecInv, RestInv, StateInv, Opened
<1>3. \/ /\ s.ok /\ entry' = s.entry
         /\ synced' = IF restore THEN synced \cup Canonical(w) ELSE synced
         /\ stale' = stale \cup (R \ Canonical(w))
      \/ UNCHANGED <<entry, synced, stale>>
  BY DEF Persist, Commit, tables
<1>4. FetchInv'
  <2>1. ASSUME NEW u \in Workers
        PROVE  \/ fetched'[u] = <<>>
               \/ /\ fetched'[u] = fetched[u]
                  /\ ReachOf(phase[u], job[u]) \subseteq ReachOf(phase'[u], job'[u])
    BY <1>1, <1>2 DEF Persist, Leave, ReachOf, Typing, ExecInv
  <2> QED
    BY <2>1, FetchedKept DEF ReplayInv
<1>5. fetched[w] \in Seq(MinedIn(R))
  <2>1. ReachOf(phase[w], job[w]) = R
    BY <1>1 DEF ReachOf
  <2> QED
    BY <2>1 DEF ReplayInv, FetchInv
<1>6. \A f \in F : f \in MinedIn(R) /\ f.block \in R
  BY <1>5 DEF ToSet, MinedIn
<1>7. fetched[w] \in Seq(MinedIn(Blocks))
  <2>1. MinedIn(R) \subseteq MinedIn(Blocks)
    BY <1>2 DEF MinedIn
  <2> QED
    BY <1>5, <2>1, SeqMonotonic
<1>8. \A b \in Canonical(w) : b \in R /\ \A f : f \in F /\ f.block = b <=> f \in ToSet(LogsOf(b))
  BY DEF Canonical
<1>9. CASE UNCHANGED <<entry, synced, stale>>
  BY <1>1, <1>4, <1>9, CanonKept DEF ReplayInv
<1>10. CASE /\ s.ok /\ entry' = s.entry
            /\ synced' = IF restore THEN synced \cup Canonical(w) ELSE synced
            /\ stale' = stale \cup (R \ Canonical(w))
  <2> SUFFICES ASSUME StableLogs, CanonInv PROVE CanonInv'
    BY <1>4 DEF ReplayInv
  <2>1. /\ Recorded(entry, F, entry')
        /\ \A f \in F : Present(f, restore, entry')
    <3>1. WellPlaced(Opened.entry) /\ restore \in BOOLEAN
      BY <1>2 DEF CanonInv
    <3>2. /\ Recorded(Opened.entry, F, s.entry)
          /\ \A f \in F : Present(f, restore, s.entry)
      <4> HIDE DEF restore
      <4> QED
        BY <1>2, <1>7, <1>10, <3>1, PersistDecodedLogsRecords
    <3> QED
      BY <1>2, <1>10, <3>2
  <2> HIDE DEF s, F, R
  <2>2. /\ WellPlaced(entry')
        /\ \A k \in DOMAIN entry : k \in DOMAIN entry' /\ (~entry[k].orphaned => ~entry'[k].orphaned)
        /\ \A k \in DOMAIN entry' : \/ k \in DOMAIN entry /\ entry'[k] = entry[k]
                                    \/ \E f \in F : WrittenFrom(f, k, entry'[k])
    BY <2>1 DEF Recorded
  <2>3. \A b : LogsOf(b)' = LogsOf(b)
    BY <1>1, LogsOfSame
  <2>4. WellPlaced(entry)'
    BY <2>2 DEF WellPlaced, MinedIn, PlacedBy
  <2>5. ASSUME NEW b \in Blocks \ stale', NEW k \in DOMAIN entry',
               ~entry'[k].orphaned, entry'[k].block = b
        PROVE  \E f \in ToSet(LogsOf(b)) : WrittenFrom(f, k, entry'[k])
    <3>1. b \in Blocks \ stale /\ (b \in R => b \in Canonical(w))
      BY <1>10
    <3>2. CASE k \in DOMAIN entry /\ entry'[k] = entry[k]
      BY <2>5, <3>1, <3>2 DEF CanonInv
    <3>3. CASE \E f \in F : WrittenFrom(f, k, entry'[k])
      <4>1. PICK f \in F : WrittenFrom(f, k, entry'[k])
        BY <3>3
      <4>2. f.block = b
        BY <2>5, <4>1 DEF WrittenFrom, PlacedBy
      <4>3. f \in ToSet(LogsOf(b))
        BY <1>6, <1>8, <3>1, <4>2
      <4> QED
        BY <4>1, <4>3
    <3> QED
      BY <2>2, <3>2, <3>3
  <2>6. ASSUME NEW b \in synced' \ stale', NEW f \in ToSet(LogsOf(b))
        PROVE  Present(f, TRUE, entry')
    <3>1. CASE restore /\ b \in Canonical(w)
      <4>1. f \in F /\ restore = TRUE
        BY <1>8, <3>1
      <4> QED
        BY <2>1, <4>1
    <3>2. CASE ~(restore /\ b \in Canonical(w))
      <4>1. b \in synced \ stale
        BY <1>10, <3>2
      <4>2. Present(f, TRUE, entry)
        BY <4>1 DEF CanonInv
      <4> QED
        BY <2>2, <4>2 DEF Present
    <3> QED
      BY <3>1, <3>2
  <2> QED
    BY <2>3, <2>4, <2>5, <2>6 DEF CanonInv
<1> QED
  BY <1>3, <1>9, <1>10

\* Fetching a chunk adds logs of blocks of the job.
LEMMA FetchChunkReplays ==
  ASSUME Typing, ReplayInv, NEW w \in Workers, FetchChunk(w)
  PROVE  ReplayInv'
<1> DEFINE last == Least({cursor[w] + ChunkSize - 1, job[w].to})
           n == last - cursor[w] + 1
           seqs == [i \in 1..n |-> LogsOf(cursor[w] + i - 1)]
           logs == FlattenSeq(seqs)
           R == BlocksOf(job[w])
           A == MinedIn(R)
<1>1. /\ phase[w] = "fetch"
      /\ fetched' = [fetched EXCEPT ![w] = @ \o logs]
      /\ phase' = [phase EXCEPT ![w] = IF last = job[w].to THEN "persist" ELSE "fetch"]
      /\ UNCHANGED <<version, job, entry, synced, stale>>
  BY DEF FetchChunk, tables, history
<1>2. /\ job[w] \in Work /\ cursor[w] \in Nat /\ job[w].to \in Nat /\ job[w].from \in Nat
      /\ job[w].from <= cursor[w] /\ cursor[w] <= job[w].to /\ R \subseteq Blocks
  <2>1. job[w] \in Work /\ cursor[w] \in Int /\ cursor[w] \in BlocksOf(job[w])
    BY <1>1 DEF Typing, ExecInv
  <2>2. job[w].to \in Nat /\ job[w].from \in Nat /\ R \subseteq Blocks
    BY <2>1, WorkTyped
  <2> QED
    BY <2>1, <2>2 DEF BlocksOf
<1>3. last \in Int /\ cursor[w] <= last /\ last <= job[w].to
  <2> DEFINE x == cursor[w] + ChunkSize - 1
             y == job[w].to
  <2>1. x \in Int /\ y \in Int /\ cursor[w] <= x /\ cursor[w] <= y
    BY <1>2, LedgerAssumption
  <2> HIDE DEF x
  <2>2. \E z \in {x, y} : \A u \in {x, y} : z <= u
    BY <2>1
  <2>3. Least({x, y}) \in {x, y} /\ Least({x, y}) <= y
    BY <2>2 DEF Least
  <2> QED
    BY <2>1, <2>3 DEF x
<1> HIDE DEF last
<1>4. logs \in Seq(A)
  <2> DEFINE S == Seq(A)
  <2>1. n \in Nat
    BY <1>2, <1>3
  <2>2. ASSUME NEW i \in 1..n PROVE seqs[i] \in S
    <3>1. cursor[w] + i - 1 \in R
      BY <1>2, <1>3 DEF BlocksOf
    <3> DEFINE b == cursor[w] + i - 1
    <3> HIDE DEF R
    <3>2. b \in R
      BY <3>1
    <3>3. seqs[i] = LogsOf(b)
      OBVIOUS
    <3> HIDE DEF b
    <3>4. LogsOf(b) \in Seq(A)
      BY <1>2, <3>2, LogsOfMined DEF Typing, ExecInv
    <3> QED
      BY <3>3, <3>4
  <2> HIDE DEF n, S
  <2>3. seqs \in [1..n -> S]
    BY <2>2
  <2> HIDE DEF seqs
  <2>4. seqs \in Seq(S)
    BY <2>1, <2>3
  <2> HIDE DEF A
  <2> QED
    BY <2>4, FlattenTyped DEF S
<1>5. ReachOf(phase[w], job[w]) = R /\ ReachOf(phase'[w], job'[w]) = R
  BY <1>1 DEF ReachOf, Typing, ExecInv
<1>6. fetched[w] \in Seq(A)
  BY <1>5 DEF ReplayInv, FetchInv
<1> HIDE DEF logs, A, R
<1>7. fetched[w] \o logs \in Seq(A)
  BY <1>4, <1>6
<1>8. ASSUME NEW u \in Workers
      PROVE  fetched'[u] \in Seq(MinedIn(ReachOf(phase'[u], job'[u])))
  <2>1. CASE u = w
    <3>1. fetched'[w] = fetched[w] \o logs
      BY <1>1 DEF Typing, ExecInv
    <3> QED
      BY <1>5, <1>7, <2>1, <3>1 DEF A
  <2>2. CASE u # w
    <3>1. fetched'[u] = fetched[u] /\ phase'[u] = phase[u] /\ job'[u] = job[u]
      BY <1>1, <2>2 DEF Typing, ExecInv
    <3>2. ReachOf(phase'[u], job'[u]) = ReachOf(phase[u], job[u])
      BY <3>1
    <3> QED
      BY <3>1, <3>2 DEF ReplayInv, FetchInv
  <2> QED
    BY <2>1, <2>2
<1>9. FetchInv'
  BY <1>8 DEF FetchInv, MinedIn, ReachOf, BlocksOf
<1> QED
  BY <1>1, <1>9, CanonKept DEF ReplayInv

\* The other steps keep or drop what is fetched, and leave the entries alone.
LEMMA QuietReplays ==
  ASSUME ReplayInv, UNCHANGED <<version, entry, synced, stale>>,
         \A u \in Workers :
           \/ fetched'[u] = <<>>
           \/ /\ fetched'[u] = fetched[u]
              /\ ReachOf(phase[u], job[u]) \subseteq ReachOf(phase'[u], job'[u])
  PROVE  ReplayInv'
BY FetchedKept, CanonKept DEF ReplayInv

LEMMA BeginReplays ==
  ASSUME Typing, ReplayInv, NEW w \in Workers, NEW j \in Work, Begin(w, j)
  PROVE  ReplayInv'
<1>1. /\ phase[w] = "idle" /\ fetched' = fetched
      /\ UNCHANGED <<version, entry, synced, stale>>
      /\ \A u \in Workers \ {w} : phase'[u] = phase[u] /\ job'[u] = job[u]
  BY DEF Begin, tables, Typing, ExecInv
<1>2. ReachOf(phase[w], job[w]) = {}
  BY <1>1 DEF ReachOf
<1>3. \A u \in Workers : ReachOf(phase[u], job[u]) \subseteq ReachOf(phase'[u], job'[u])
  BY <1>1, <1>2
<1> QED
  BY <1>1, <1>3, QuietReplays

\* A worker that leaves its job forgets what it fetched.
LEMMA LeaveReplays ==
  ASSUME Typing, ReplayInv, NEW w \in Workers, Leave(w),
         UNCHANGED <<version, entry, synced, stale>>
  PROVE  ReplayInv'
<1>1. /\ fetched'[w] = <<>>
      /\ \A u \in Workers \ {w} : /\ fetched'[u] = fetched[u]
                                  /\ phase'[u] = phase[u] /\ job'[u] = job[u]
  BY DEF Leave, Typing, ExecInv
<1>2. \A u \in Workers \ {w} :
        ReachOf(phase[u], job[u]) \subseteq ReachOf(phase'[u], job'[u])
  BY <1>1
<1> QED
  BY <1>1, <1>2, QuietReplays

\* A worker goes on, before it fetches logs or after it has them all.
LEMMA ProceedReplays ==
  ASSUME Typing, ReplayInv, NEW w \in Workers, NEW at,
         phase' = [phase EXCEPT ![w] = at],
         phase[w] \notin {"fetch", "persist", "receipts"} \/ at = phase[w],
         UNCHANGED <<version, entry, synced, stale, job, fetched>>
  PROVE  ReplayInv'
<1>1. \A u \in Workers : fetched'[u] = fetched[u] /\ job'[u] = job[u]
  OBVIOUS
<1>2. \A u \in Workers \ {w} : phase'[u] = phase[u]
  BY DEF Typing, ExecInv
<1>3. phase'[w] = at
  BY DEF Typing, ExecInv
<1>4. ReachOf(phase[w], job[w]) \subseteq ReachOf(phase'[w], job'[w])
  BY <1>1, <1>3 DEF ReachOf
<1>5. \A u \in Workers : ReachOf(phase[u], job[u]) \subseteq ReachOf(phase'[u], job'[u])
  BY <1>1, <1>2, <1>4
<1> QED
  BY <1>1, <1>5, QuietReplays

\* The rows of an earlier release are those of the blocks it indexed.
LEMMA LegacyReplays ==
  ASSUME StableLogs, version \in DOMAIN Versions, NEW B \in SUBSET Blocks, LegacyTables(B).ok
  PROVE  LET rows == LegacyTables(B).entry
         IN  /\ WellPlaced(rows)
             /\ \A k \in DOMAIN rows : \E f \in ToSet(LogsOf(rows[k].block)) :
                  rows[k].block \in Blocks /\ WrittenFrom(f, k, rows[k])
<1> DEFINE M == MinedIn(Blocks)
           seqs == [i \in 1..(MaxBlock + 1) |-> IF i - 1 \in B THEN LogsOf(i - 1) ELSE <<>>]
           logs == FlattenSeq(seqs)
           s == PersistDecodedLogs(Empty, logs, FALSE)
           rows == LegacyTables(B).entry
<1>1. MaxBlock + 1 \in Nat
  BY LedgerAssumption
<1>2. ASSUME NEW i \in 1..(MaxBlock + 1) PROVE seqs[i] \in Seq(M)
  <2>1. CASE i - 1 \in B
    <3> DEFINE b == i - 1
    <3>1. seqs[i] = LogsOf(b) /\ b \in Blocks
      BY <2>1
    <3> HIDE DEF b, seqs
    <3>2. LogsOf(b) \in Seq(M)
      BY <3>1, LogsOfMined
    <3> QED
      BY <3>1, <3>2
  <2>2. CASE i - 1 \notin B
    <3>1. seqs[i] = <<>>
      BY <2>2
    <3> HIDE DEF M, seqs
    <3> QED
      BY <3>1
  <2> QED
    BY <2>1, <2>2
<1>3. seqs \in Seq(Seq(M))
  <2> DEFINE S == Seq(M)
  <2>1. seqs \in [1..(MaxBlock + 1) -> S]
    BY <1>2
  <2> HIDE DEF seqs, S
  <2> QED
    BY <1>1, <2>1 DEF S
<1>4. Len(seqs) = MaxBlock + 1
  BY <1>1
<1>5. \A i \in 1..(MaxBlock + 1) : Len(seqs[i]) > 0 => i - 1 \in B /\ seqs[i] = LogsOf(i - 1)
  OBVIOUS
<1>6. LegacyTables(B) = [s EXCEPT !.event = [k \in DOMAIN @ |-> [@[k] EXCEPT !.bare = TRUE]]]
  BY DEF LegacyTables
<1> HIDE DEF M, seqs
<1>7. logs \in Seq(M)
  BY <1>3, FlattenTyped
<1>8. ASSUME NEW f \in ToSet(logs)
      PROVE  f.block \in Blocks /\ f \in ToSet(LogsOf(f.block))
  <2>1. PICK m \in 1..Len(logs) : f = logs[m]
    BY <1>7 DEF ToSet
  <2>2. PICK i \in 1..Len(seqs) : \E k \in 1..Len(seqs[i]) : f = seqs[i][k]
    BY <1>3, <2>1, FlattenOrigin
  <2>3. PICK k \in 1..Len(seqs[i]) : f = seqs[i][k]
    BY <2>2
  <2> DEFINE b == i - 1
  <2>4. seqs[i] \in Seq(M) /\ i \in 1..(MaxBlock + 1)
    BY <1>2, <1>4
  <2>5. b \in B /\ seqs[i] = LogsOf(b)
    BY <1>5, <2>3, <2>4
  <2> HIDE DEF b
  <2>6. f \in ToSet(LogsOf(b))
    BY <2>3, <2>4, <2>5 DEF ToSet
  <2>7. b \in Blocks
    BY <2>5
  <2>8. f.block = b
    BY <2>6, <2>7, LogsOfCorrect
  <2> QED
    BY <2>6, <2>7, <2>8
<1> HIDE DEF logs
<1>9. M \subseteq FetchedLog
  BY DEF M, MinedIn
<1>10. logs \in Seq(FetchedLog)
  BY <1>7, <1>9, SeqMonotonic
<1>11. Empty \in State /\ WellPlaced(Empty.entry) /\ DOMAIN Empty.entry = {}
  BY EmptyCorrect, EmptyTable DEF Empty, WellPlaced
<1>12. s \in State
  BY <1>10, <1>11, PersistDecodedLogsCorrect DEF Keeps
<1>13. rows = s.entry /\ s.ok
  <2> HIDE DEF s
  <2> QED
    BY <1>6, <1>12, StateTyped
<1>14. Recorded(Empty.entry, ToSet(logs), s.entry)
  BY <1>7, <1>11, <1>13, PersistDecodedLogsRecords DEF M
<1> HIDE DEF s
<1>15. /\ WellPlaced(rows)
       /\ \A k \in DOMAIN rows : \E f \in ToSet(logs) : WrittenFrom(f, k, rows[k])
  BY <1>11, <1>13, <1>14 DEF Recorded
<1> HIDE DEF rows
<1>16. ASSUME NEW k \in DOMAIN rows
       PROVE  \E f \in ToSet(LogsOf(rows[k].block)) :
                rows[k].block \in Blocks /\ WrittenFrom(f, k, rows[k])
  <2>1. PICK f \in ToSet(logs) : WrittenFrom(f, k, rows[k])
    BY <1>15
  <2>2. rows[k].block = f.block
    BY <2>1 DEF WrittenFrom, PlacedBy
  <2> QED
    BY <1>8, <2>1, <2>2
<1> QED
  BY <1>15, <1>16 DEF rows

LEMMA InitReplays == LgInit => ReplayInv
<1> SUFFICES ASSUME LgInit PROVE ReplayInv
  OBVIOUS
<1>1. FetchInv
  <2>1. ASSUME NEW w \in Workers PROVE fetched[w] \in Seq(MinedIn(ReachOf(phase[w], job[w])))
    <3> DEFINE A == MinedIn(ReachOf(phase[w], job[w]))
    <3>1. fetched[w] = <<>>
      BY DEF LgInit
    <3> HIDE DEF A
    <3>2. fetched[w] \in Seq(A)
      BY <3>1
    <3> QED
      BY <3>2 DEF A
  <2> QED
    BY <2>1 DEF FetchInv
<1>2. ASSUME StableLogs PROVE CanonInv
  <2>1. PICK B \in Legacies : entry = LegacyTables(B).entry /\ LegacyTables(B).ok
    BY DEF LgInit
  <2>2. version \in DOMAIN Versions /\ B \in SUBSET Blocks
    BY LedgerAssumption DEF LgInit
  <2>3. /\ WellPlaced(entry)
        /\ \A k \in DOMAIN entry : \E f \in ToSet(LogsOf(entry[k].block)) :
             entry[k].block \in Blocks /\ WrittenFrom(f, k, entry[k])
    BY <1>2, <2>1, <2>2, LegacyReplays
  <2>4. synced = {}
    BY DEF LgInit
  <2> QED
    BY <2>3, <2>4 DEF CanonInv
<1> QED
  BY <1>1, <1>2 DEF ReplayInv

LEMMA StepReplays ==
  ASSUME LgInv, ReplayInv, [LgNext]_lgVars
  PROVE  ReplayInv'
<1> USE DEF LgInv, Agreement
<1>1. CASE Reorg
  BY <1>1, ReorgReplays
<1>2. ASSUME NEW w \in Workers, NEW j \in Work, Begin(w, j) PROVE ReplayInv'
  BY <1>2, BeginReplays
<1>3. ASSUME NEW w \in Workers, LoadForOrphaning(w) PROVE ReplayInv'
  <2>1. UNCHANGED <<version, entry, synced, stale>>
    BY <1>3 DEF LoadForOrphaning, tables, history
  <2>2. CASE Leave(w)
    BY <2>1, <2>2, LeaveReplays
  <2>3. CASE ~Leave(w)
    <3>1. /\ phase[w] = "orphan" /\ phase' = [phase EXCEPT ![w] = "reversed"]
          /\ UNCHANGED <<job, fetched>>
      BY <1>3, <2>3, Zenon DEF LoadForOrphaning
    <3> QED
      BY <2>1, <3>1, ProceedReplays
  <2> QED
    BY <2>2, <2>3
<1>4. ASSUME NEW w \in Workers, MarkEntries(w) PROVE ReplayInv'
  <2>1. /\ phase[w] = "reversed" /\ phase' = [phase EXCEPT ![w] = "marked"]
        /\ UNCHANGED <<version, entry, synced, stale, job, fetched>>
    BY <1>4 DEF MarkEntries, tables, history
  <2> QED
    BY <2>1, ProceedReplays
<1>5. ASSUME NEW w \in Workers, MarkEvents(w) PROVE ReplayInv'
  BY <1>5, MarkEventsReplays
<1>6. ASSUME NEW w \in Workers, FetchChunk(w) PROVE ReplayInv'
  BY <1>6, FetchChunkReplays
<1>7. ASSUME NEW w \in Workers, Persist(w) PROVE ReplayInv'
  BY <1>7, PersistReplays
<1>8. ASSUME NEW w \in Workers, FetchReceipt(w) PROVE ReplayInv'
  <2>1. UNCHANGED <<version, entry, synced, stale>>
    BY <1>8 DEF FetchReceipt, tables, history
  <2>2. CASE Leave(w)
    BY <2>1, <2>2, LeaveReplays
  <2>3. CASE ~Leave(w)
    <3>1. UNCHANGED <<job, phase, fetched>>
      BY <1>8, <2>3, Zenon DEF FetchReceipt
    <3>2. phase' = [phase EXCEPT ![w] = phase[w]]
      BY <3>1 DEF Typing, ExecInv
    <3> QED
      BY <2>1, <3>1, <3>2, ProceedReplays
  <2> QED
    BY <2>2, <2>3
<1>9. ASSUME NEW w \in Workers, PersistReceipts(w) PROVE ReplayInv'
  BY <1>9, LeaveReplays DEF PersistReceipts, tables
<1>10. ASSUME NEW w \in Workers, Abandon(w) PROVE ReplayInv'
  BY <1>10, LeaveReplays DEF Abandon, tables, history
<1>11. CASE UNCHANGED lgVars
  <2>1. UNCHANGED <<version, entry, synced, stale, fetched, phase, job>>
    BY <1>11 DEF lgVars, exec, history, tables
  <2> QED
    BY <2>1, QuietReplays
<1> QED
  BY <1>1, <1>2, <1>3, <1>4, <1>5, <1>6, <1>7, <1>8, <1>9, <1>10, <1>11 DEF LgNext

LEMMA ReplaysCorrect ==
  ASSUME LgInv, ReplayInv, StableLogs
  PROVE  CanonicalAfterReplay
<1> SUFFICES ASSUME NEW b \in synced \ stale PROVE LedgerAt(b) = CanonicalAt(b)
  BY DEF CanonicalAfterReplay
<1>1. CanonInv /\ b \in Blocks \ stale /\ version \in DOMAIN Versions
  BY DEF ReplayInv, LgInv, Typing, ExecInv, RestInv
<1>2. ASSUME NEW f \in ToSet(LogsOf(b))
      PROVE  /\ f \in MinedIn(Blocks) /\ f.block = b /\ f.hash = HashOf(b)
             /\ f.log \in ToSet(Versions[version].logs[b])
  <2> DEFINE logs == Versions[version].logs[b]
  <2>1. logs \in Seq(Logs)
    BY <1>1, LedgerAssumption
  <2>2. PICK n \in DOMAIN logs : f = [log |-> logs[n], block |-> b, hash |-> HashOf(b)]
    BY <1>2 DEF LogsOf, ToSet
  <2>3. f.log \in ToSet(logs) /\ f.hash = HashOf(b)
    BY <2>2 DEF ToSet
  <2> QED
    BY <1>1, <2>3, LogsOfMined
<1>3. ASSUME NEW k \in DOMAIN entry, ~entry[k].orphaned, entry[k].block = b
      PROVE  \E f \in ToSet(LogsOf(b)) : WrittenFrom(f, k, entry[k])
  BY <1>1, <1>3 DEF CanonInv
<1>4. \A k \in DOMAIN entry : k = <<k[1], k[2]>>
  <2>1. entry \in Table(EntryKey, EntryRow)
    BY StateTyped DEF LgInv, Typing, StateInv, Opened
  <2>2. \A k \in DOMAIN entry : k \in LogKey \X Nat
    BY <2>1, TableTyped DEF EntryKey
  <2> QED
    BY <2>2
<1> DEFINE Row(k) == <<k[1], k[2], entry[k].from, entry[k].to, entry[k].amount, entry[k].hash>>
           Of(f, n) == <<f.log.key, n, f.log.entries[n].from, f.log.entries[n].to,
                         f.log.entries[n].amount, f.hash>>
<1>5. \A x : x \in LedgerAt(b) <=>
               \E k \in DOMAIN entry : ~entry[k].orphaned /\ entry[k].block = b /\ x = Row(k)
  BY DEF LedgerAt, LiveKeys
<1>6. \A x : x \in CanonicalAt(b) <=>
               \E f \in ToSet(LogsOf(b)) : \E n \in DOMAIN f.log.entries : x = Of(f, n)
  BY DEF CanonicalAt
<1>7. ASSUME NEW f, NEW k, WrittenFrom(f, k, entry[k])
      PROVE  k[2] \in DOMAIN f.log.entries /\ Row(k) = Of(f, k[2])
  BY <1>7 DEF WrittenFrom, PlacedBy
<1>8. ASSUME NEW f \in ToSet(LogsOf(b)), NEW n \in DOMAIN f.log.entries
      PROVE  \E k \in DOMAIN entry : ~entry[k].orphaned /\ entry[k].block = b /\ Of(f, n) = Row(k)
  <2> DEFINE k == <<f.log.key, n>>
  <2>1. k \in DOMAIN entry /\ ~entry[k].orphaned
    BY <1>1 DEF CanonInv, Present
  <2>2. k[1] = f.log.key /\ k[2] = n
    OBVIOUS
  <2> HIDE DEF k
  <2>3. entry[k].block = b
    BY <1>1, <1>2, <2>1, <2>2 DEF CanonInv, WellPlaced, PlacedBy
  <2>4. PICK g \in ToSet(LogsOf(b)) : WrittenFrom(g, k, entry[k])
    BY <1>3, <2>1, <2>3
  <2>5. g.log.key = f.log.key
    BY <2>2, <2>4 DEF WrittenFrom
  <2>6. g.log = f.log
    BY <1>1, <1>2, <2>5 DEF StableLogs
  <2>7. g.hash = f.hash
    BY <1>2
  <2>8. Row(k) = Of(g, k[2])
    BY <1>7, <2>4
  <2> QED
    BY <2>1, <2>2, <2>3, <2>6, <2>7, <2>8
<1> HIDE DEF Row, Of
<1>9. \A x : x \in LedgerAt(b) <=> x \in CanonicalAt(b)
  BY <1>3, <1>5, <1>6, <1>7, <1>8
<1> QED
  BY <1>9

\* When a log that is mined again keeps its block, sender and receiver, a replay
\* that commits the present logs of a block has made its live entries exactly
\* those logs, and they stay that until the chain changes or an execution commits
\* logs from before it changed.
THEOREM ReplaysMakeCanonical == LgSpec => [](StableLogs => CanonicalAfterReplay)
<1>1. LgInit => LgInv /\ ReplayInv
  BY LgInitCorrect, InitReplays
<1>2. LgInv /\ ReplayInv /\ [LgNext]_lgVars => (LgInv /\ ReplayInv)'
  BY LgInvKept, StepReplays
<1>3. LgInv /\ ReplayInv => (StableLogs => CanonicalAfterReplay)
  BY ReplaysCorrect
<1> QED
  BY <1>1, <1>2, <1>3, PTL DEF LgSpec
=============================================================================
