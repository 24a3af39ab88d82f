--------------------------- MODULE CronVoidProofs ---------------------------
(***************************************************************************)
(* The void of the old-mempool cron, statement by statement: what holds    *)
(* for any set of transactions, wherever addNewTx commits in between and   *)
(* wherever an execution stops.                                            *)
(***************************************************************************)
EXTENDS CronVoid, FiniteSums

\* The full node does not send two transactions that spend one output.
NoConflicts == \A t, u \in Tx : t # u => Inputs[t] \cap Inputs[u] = {}

\* Every transaction has a decodable output.
EveryTxHasOutputs == \A t \in Tx : OutputsOf(t) # {}

-----------------------------------------------------------------------------
(* The execution of the cron, field by field *)

Quiet == {"idle", "next", "readDiffs", "writeCounts"}
Marking == {"markHistory", "getOutputs", "getSpent", "unspend", "markOutputs", "getSpenders"}
Rebuilding == {"readCounts", "reset", "sumUnlocked", "sumLocked"}
Counting == {"reset", "sumUnlocked", "sumLocked", "readDiffs", "writeCounts"}

CronTypes ==
    /\ DOMAIN cron = DOMAIN Idle
    /\ cron.pc \in Quiet \cup {"markTxs"} \cup Marking \cup Rebuilding
    /\ cron.todo \subseteq Tx
    /\ cron.txs \subseteq Tx
    /\ cron.rows \subseteq Output
    /\ cron.spenders \subseteq Tx
    /\ cron.spent \subseteq Output
    /\ cron.affected \subseteq Output
    /\ cron.visited \subseteq Tx
    /\ cron.left \subseteq Address
    /\ cron.tokenDiff \in Nat

CountTypes ==
    /\ cron.pc \in Counting =>
          \A a \in AffectedAddresses : cron.counts[a].txs \in Int /\ cron.counts[a].received \in Int
    /\ cron.pc = "writeCounts" => cron.left \subseteq AffectedAddresses

Types == TypeOK /\ CronTypes /\ CountTypes

\* The fields the void works with, after a step.
CronBecomes(pc, todo, txs, rows, spenders, spent, affected, visited) ==
    /\ cron'.pc = pc
    /\ cron'.todo = todo
    /\ cron'.txs = txs
    /\ cron'.rows = rows
    /\ cron'.spenders = spenders
    /\ cron'.spent = spent
    /\ cron'.affected = affected
    /\ cron'.visited = visited

\* The fields of the rebuild.
CountsBecome(counts, left, tokenDiff) ==
    /\ DOMAIN cron' = DOMAIN cron
    /\ cron'.counts = counts
    /\ cron'.left = left
    /\ cron'.tokenDiff = tokenDiff

LEMMA FetchEffect ==
    ASSUME CronTypes, NEW S, Fetch(S)
    PROVE  CronBecomes("next", S, {}, {}, {}, {}, {}, {}) /\ CountsBecome(<<>>, {}, 0)
BY DEF CronTypes, Fetch, CronBecomes, CountsBecome, Idle

LEMMA HandleEffect ==
    ASSUME CronTypes, NEW t, Handle(t)
    PROVE  IF t \in nodeVoided
           THEN CronBecomes("markTxs", cron.todo \ {t}, {t}, {}, {}, {}, {}, {}) /\ CountsBecome(<<>>, {}, 0)
           ELSE /\ CronBecomes("next", cron.todo \ {t}, cron.txs, cron.rows, cron.spenders, cron.spent,
                               cron.affected, cron.visited)
                /\ CountsBecome(cron.counts, cron.left, cron.tokenDiff)
BY DEF CronTypes, Handle, CronBecomes, CountsBecome, Idle

LEMMA IdleEffect ==
    ASSUME CronTypes, cron' = Idle
    PROVE  CronBecomes("idle", {}, {}, {}, {}, {}, {}, {}) /\ CountsBecome(<<>>, {}, 0)
BY DEF CronTypes, CronBecomes, CountsBecome, Idle

LEMMA MarkTxsEffect ==
    ASSUME CronTypes, MarkTxsAsVoided
    PROVE  /\ CronBecomes("markHistory", cron.todo, cron.txs, cron.rows, cron.spenders, cron.spent,
                          cron.affected, cron.visited \cup cron.txs)
           /\ CountsBecome(cron.counts, cron.left, cron.tokenDiff)
BY DEF CronTypes, MarkTxsAsVoided, CronBecomes, CountsBecome, Idle

LEMMA MarkHistoryEffect ==
    ASSUME CronTypes, MarkAddressTxHistoryAsVoided
    PROVE  /\ CronBecomes("getOutputs", cron.todo, cron.txs, cron.rows, cron.spenders, cron.spent,
                          cron.affected, cron.visited)
           /\ CountsBecome(cron.counts, cron.left, cron.tokenDiff)
BY DEF CronTypes, MarkAddressTxHistoryAsVoided, CronBecomes, CountsBecome, Idle

\* What GetTxOutputs and GetTxOutputsBySpent read.
RowsRead == {o \in Output : TxOf[o] \in cron.txs /\ utxo[o] # "none"}
SpendersRead == {spentBy[o] : o \in RowsRead} \ {NoTx}
SpentRead == {o \in Output : spentBy[o] \in {TxOf[r] : r \in cron.rows}}

LEMMA GetOutputsEffect ==
    ASSUME CronTypes, GetTxOutputs
    PROVE  /\ CronBecomes("getSpent", cron.todo, cron.txs, RowsRead, SpendersRead, cron.spent,
                          cron.affected, cron.visited)
           /\ CountsBecome(cron.counts, cron.left, cron.tokenDiff)
BY DEF CronTypes, GetTxOutputs, CronBecomes, CountsBecome, Idle, RowsRead, SpendersRead

LEMMA GetSpentEffect ==
    ASSUME CronTypes, GetTxOutputsBySpent
    PROVE  /\ CronBecomes("unspend", cron.todo, cron.txs, cron.rows, cron.spenders, SpentRead,
                          cron.affected, cron.visited)
           /\ CountsBecome(cron.counts, cron.left, cron.tokenDiff)
BY DEF CronTypes, GetTxOutputsBySpent, CronBecomes, CountsBecome, Idle, SpentRead

LEMMA UnspendEffect ==
    ASSUME CronTypes, UnspendUtxos
    PROVE  /\ CronBecomes("markOutputs", cron.todo, cron.txs, cron.rows, cron.spenders, cron.spent,
                          cron.affected, cron.visited)
           /\ CountsBecome(cron.counts, cron.left, cron.tokenDiff)
BY DEF CronTypes, UnspendUtxos, CronBecomes, CountsBecome, Idle

LEMMA MarkOutputsEffect ==
    ASSUME CronTypes, MarkUtxosAsVoided
    PROVE  /\ CronBecomes("getSpenders", cron.todo, cron.txs, cron.rows, cron.spenders, cron.spent,
                          AllAffected, cron.visited)
           /\ CountsBecome(cron.counts, cron.left, cron.tokenDiff)
BY DEF CronTypes, MarkUtxosAsVoided, CronBecomes, CountsBecome, Idle

LEMMA GetSpendersEffect ==
    ASSUME CronTypes, GetSpenders
    PROVE  IF NewTxs # {}
           THEN /\ CronBecomes("markTxs", cron.todo, NewTxs, cron.rows, cron.spenders, cron.spent,
                               cron.affected, cron.visited)
                /\ CountsBecome(cron.counts, cron.left, cron.tokenDiff)
           ELSE IF cron.affected = {}
           THEN CronBecomes("next", cron.todo, {}, {}, {}, {}, {}, {}) /\ CountsBecome(<<>>, {}, 0)
           ELSE /\ CronBecomes("readCounts", cron.todo, {}, {}, {}, {}, cron.affected, cron.visited)
                /\ CountsBecome(<<>>, {}, 0)
BY DEF CronTypes, GetSpenders, CronBecomes, CountsBecome, Idle

CountsRead == [a \in AffectedAddresses |-> [txs |-> txCount[a], received |-> received[a]]]

LEMMA ReadCountsEffect ==
    ASSUME CronTypes, ReadCounts
    PROVE  /\ CronBecomes("reset", cron.todo, cron.txs, cron.rows, cron.spenders, cron.spent,
                          cron.affected, cron.visited)
           /\ CountsBecome(CountsRead, cron.left, cron.tokenDiff)
BY DEF CronTypes, ReadCounts, CronBecomes, CountsBecome, Idle, CountsRead

LEMMA ResetEffect ==
    ASSUME CronTypes, ResetBalances
    PROVE  /\ CronBecomes("sumUnlocked", cron.todo, cron.txs, cron.rows, cron.spenders, cron.spent,
                          cron.affected, cron.visited)
           /\ CountsBecome(cron.counts, cron.left, cron.tokenDiff)
BY DEF CronTypes, ResetBalances, CronBecomes, CountsBecome, Idle

LEMMA SumUnlockedEffect ==
    ASSUME CronTypes, SumUnlocked
    PROVE  /\ CronBecomes("sumLocked", cron.todo, cron.txs, cron.rows, cron.spenders, cron.spent,
                          cron.affected, cron.visited)
           /\ CountsBecome(cron.counts, cron.left, cron.tokenDiff)
BY DEF CronTypes, SumUnlocked, CronBecomes, CountsBecome, Idle

LEMMA SumLockedEffect ==
    ASSUME CronTypes, SumLocked
    PROVE  /\ CronBecomes("readDiffs", cron.todo, cron.txs, cron.rows, cron.spenders, cron.spent,
                          cron.affected, {})
           /\ CountsBecome(cron.counts, cron.left, cron.tokenDiff)
BY DEF CronTypes, SumLocked, CronBecomes, CountsBecome, Idle

CountsLeft == [a \in AffectedAddresses |->
    [txs |-> cron.counts[a].txs - AffectedAddressTxCount(a),
     received |-> cron.counts[a].received - AffectedAddressTotalReceived(a)]]

LEMMA ReadDiffsEffect ==
    ASSUME CronTypes, ReadDiffs
    PROVE  /\ CronBecomes("writeCounts", cron.todo, cron.txs, cron.rows, cron.spenders, cron.spent,
                          cron.affected, cron.visited)
           /\ CountsBecome(CountsLeft, AffectedAddresses, AffectedTokenTxCount)
BY DEF CronTypes, ReadDiffs, CronBecomes, CountsBecome, Idle, CountsLeft

LEMMA WriteCountsEffect ==
    ASSUME CronTypes, NEW a, WriteCounts(a)
    PROVE  \/ cron' = Idle
           \/ /\ CronBecomes("writeCounts", cron.todo, cron.txs, cron.rows, cron.spenders, cron.spent,
                             cron.affected, cron.visited)
              /\ CountsBecome(cron.counts, cron.left \ {a}, cron.tokenDiff)
BY DEF CronTypes, WriteCounts, CronBecomes, CountsBecome, Idle

LEMMA WriteTokenCountEffect ==
    ASSUME CronTypes, WriteTokenCount
    PROVE  \/ cron' = Idle
           \/ CronBecomes("next", cron.todo, {}, {}, {}, {}, {}, {}) /\ CountsBecome(<<>>, {}, 0)
BY DEF CronTypes, WriteTokenCount, CronBecomes, CountsBecome, Idle

-----------------------------------------------------------------------------
(* Types *)

LEMMA SumOfIsSum == \A S, a : SumOf(S, a) = SumOver(Value, {o \in S : AddressOf[o] = a})
BY DEF SumOf, SumOver

LEMMA ValueIsNat == Value \in [Output -> Nat] /\ Value \in [Output -> Int] /\ IsFiniteSet(Output)
BY CronAssumption

LEMMA SumOfNat == \A S \in SUBSET Output : \A a : SumOf(S, a) \in Nat
<1> SUFFICES ASSUME NEW S \in SUBSET Output, NEW a PROVE SumOf(S, a) \in Nat
    OBVIOUS
<1>1. {o \in S : AddressOf[o] = a} \in SUBSET Output
    OBVIOUS
<1>2. SumOver(Value, {o \in S : AddressOf[o] = a}) \in Nat
    BY <1>1, ValueIsNat, SumIsNat
<1> QED
    BY <1>2, SumOfIsSum

LEMMA SetsOfOutputs ==
    /\ \A t \in Tx : Inputs[t] \in SUBSET Output /\ OutputsOf(t) \in SUBSET Output
    /\ Unspent \in SUBSET Output
BY CronAssumption DEF OutputsOf, Unspent

\* The steps that are not the cron's leave it alone.
Around(t) == NodeVoids(t) \/ NodeTakesBack(t) \/ AlreadyKnown(t) \/ AddNewTx(t)

LEMMA AroundEffect == ASSUME NEW t, Around(t) PROVE cron' = cron
BY DEF Around, NodeVoids, NodeTakesBack, AlreadyKnown, AddNewTx

\* Every step, by name.
Named ==
    \/ \E t \in Tx : Around(t)
    \/ \E S \in SUBSET Tx : Fetch(S)
    \/ \E t \in Tx : Handle(t)
    \/ Finish
    \/ MarkTxsAsVoided \/ MarkAddressTxHistoryAsVoided
    \/ GetTxOutputs \/ GetTxOutputsBySpent \/ UnspendUtxos \/ MarkUtxosAsVoided \/ GetSpenders
    \/ ReadCounts \/ ResetBalances \/ SumUnlocked \/ SumLocked \/ ReadDiffs
    \/ \E a \in Address : WriteCounts(a)
    \/ WriteTokenCount
    \/ CronStops

LEMMA StepsAreNamed == ASSUME [Next]_vars PROVE Named \/ UNCHANGED vars
BY DEF Next, Cron, HandleVoidedTxList, RebuildAddressBalancesFromUtxos, Named, Around

\* Which statement leads to which.
Leads(step, pc) == cron'.pc = pc => step \/ cron' = cron

LEMMA StageSteps ==
    ASSUME CronTypes, [Next]_vars
    PROVE  /\ Leads((\E t \in Tx : Handle(t)) \/ GetSpenders, "markTxs")
           /\ Leads(MarkTxsAsVoided, "markHistory")
           /\ Leads(MarkAddressTxHistoryAsVoided, "getOutputs")
           /\ Leads(GetTxOutputs, "getSpent")
           /\ Leads(GetTxOutputsBySpent, "unspend")
           /\ Leads(UnspendUtxos, "markOutputs")
           /\ Leads(MarkUtxosAsVoided, "getSpenders")
           /\ Leads(GetSpenders, "readCounts")
           /\ Leads(ReadCounts, "reset")
           /\ Leads(ResetBalances, "sumUnlocked")
           /\ Leads(SumUnlocked, "sumLocked")
           /\ Leads(SumLocked, "readDiffs")
           /\ Leads(ReadDiffs \/ (\E a \in Address : WriteCounts(a)), "writeCounts")
<1> USE DEF CronBecomes, Leads
<1>1. ASSUME NEW S, Fetch(S) PROVE cron'.pc = "next"
    BY <1>1, FetchEffect
<1>2. ASSUME NEW t, Handle(t) PROVE cron'.pc = "next" \/ cron'.pc = "markTxs"
    BY <1>2, HandleEffect
<1>3. ASSUME cron' = Idle PROVE cron'.pc = "idle"
    BY <1>3, IdleEffect
<1>4. ASSUME NEW a, WriteCounts(a) PROVE cron'.pc = "idle" \/ cron'.pc = "writeCounts"
    BY <1>3, <1>4, WriteCountsEffect
<1>5. WriteTokenCount => cron'.pc = "idle" \/ cron'.pc = "next"
    BY <1>3, WriteTokenCountEffect
<1>6. Finish \/ CronStops => cron'.pc = "idle"
    BY <1>3 DEF Finish, CronStops
<1>7. /\ MarkTxsAsVoided => cron'.pc = "markHistory"
      /\ MarkAddressTxHistoryAsVoided => cron'.pc = "getOutputs"
      /\ GetTxOutputs => cron'.pc = "getSpent"
      /\ GetTxOutputsBySpent => cron'.pc = "unspend"
      /\ UnspendUtxos => cron'.pc = "markOutputs"
      /\ MarkUtxosAsVoided => cron'.pc = "getSpenders"
    BY MarkTxsEffect, MarkHistoryEffect, GetOutputsEffect, GetSpentEffect, UnspendEffect, MarkOutputsEffect
<1>8. GetSpenders => cron'.pc \in {"markTxs", "next", "readCounts"}
    BY GetSpendersEffect
<1>9. /\ ReadCounts => cron'.pc = "reset"
      /\ ResetBalances => cron'.pc = "sumUnlocked"
      /\ SumUnlocked => cron'.pc = "sumLocked"
      /\ SumLocked => cron'.pc = "readDiffs"
      /\ ReadDiffs => cron'.pc = "writeCounts"
    BY ReadCountsEffect, ResetEffect, SumUnlockedEffect, SumLockedEffect, ReadDiffsEffect
<1>10. CASE cron' = cron
    BY <1>10
<1>11. (\E t \in Tx : Around(t)) \/ UNCHANGED vars => cron' = cron
    BY AroundEffect DEF vars
<1> QED
    BY <1>1, <1>2, <1>4, <1>5, <1>6, <1>7, <1>8, <1>9, <1>10, <1>11, StepsAreNamed DEF Named

\* Which statement comes after which.
Follows(pc, step) == cron.pc = pc => step \/ cron' = cron \/ cron' = Idle

LEMMA NextStatement ==
    ASSUME [Next]_vars
    PROVE  /\ Follows("markTxs", MarkTxsAsVoided)
           /\ Follows("markHistory", MarkAddressTxHistoryAsVoided)
           /\ Follows("getOutputs", GetTxOutputs)
           /\ Follows("getSpent", GetTxOutputsBySpent)
           /\ Follows("unspend", UnspendUtxos)
           /\ Follows("markOutputs", MarkUtxosAsVoided)
           /\ Follows("getSpenders", GetSpenders)
           /\ Follows("readCounts", ReadCounts)
           /\ Follows("reset", ResetBalances)
           /\ Follows("sumUnlocked", SumUnlocked)
           /\ Follows("sumLocked", SumLocked)
           /\ Follows("readDiffs", ReadDiffs)
<1> USE DEF Follows
<1>1. (\E t \in Tx : Around(t)) \/ UNCHANGED vars => cron' = cron
    BY AroundEffect DEF vars
<1>2. Finish \/ CronStops => cron' = Idle
    BY DEF Finish, CronStops
<1>3. (\E S \in SUBSET Tx : Fetch(S)) \/ (\E t \in Tx : Handle(t)) \/ WriteTokenCount \/ (\E a \in Address : WriteCounts(a))
          => cron.pc \in {"idle", "next", "writeCounts"}
    BY DEF Fetch, Handle, WriteCounts, WriteTokenCount
<1>4. /\ MarkTxsAsVoided => cron.pc = "markTxs"
      /\ MarkAddressTxHistoryAsVoided => cron.pc = "markHistory"
      /\ GetTxOutputs => cron.pc = "getOutputs"
      /\ GetTxOutputsBySpent => cron.pc = "getSpent"
      /\ UnspendUtxos => cron.pc = "unspend"
      /\ MarkUtxosAsVoided => cron.pc = "markOutputs"
      /\ GetSpenders => cron.pc = "getSpenders"
    BY DEF MarkTxsAsVoided, MarkAddressTxHistoryAsVoided, GetTxOutputs, GetTxOutputsBySpent, UnspendUtxos,
       MarkUtxosAsVoided, GetSpenders
<1>5. /\ ReadCounts => cron.pc = "readCounts"
      /\ ResetBalances => cron.pc = "reset"
      /\ SumUnlocked => cron.pc = "sumUnlocked"
      /\ SumLocked => cron.pc = "sumLocked"
      /\ ReadDiffs => cron.pc = "readDiffs"
    BY DEF ReadCounts, ResetBalances, SumUnlocked, SumLocked, ReadDiffs
<1> QED
    BY <1>1, <1>2, <1>3, <1>4, <1>5, StepsAreNamed DEF Named

LEMMA CronTypesKept == ASSUME Types, [Next]_vars PROVE CronTypes'
<1> USE DEF CronBecomes, CountsBecome
<1>1. CronTypes /\ TypeOK
    BY DEF Types
<1>2. CASE cron' = cron
    BY <1>1, <1>2 DEF CronTypes
<1>3. CASE cron' = Idle
    BY <1>1, <1>3, IdleEffect DEF CronTypes, Quiet
<1>4. ASSUME NEW S \in SUBSET Tx, Fetch(S) PROVE CronTypes'
    BY <1>1, <1>4, FetchEffect DEF CronTypes, Quiet
<1>5. ASSUME NEW t \in Tx, Handle(t) PROVE CronTypes'
    BY <1>1, <1>5, HandleEffect DEF CronTypes, Quiet
<1>6. CASE MarkTxsAsVoided
    BY <1>1, <1>6, MarkTxsEffect DEF CronTypes, Marking
<1>7. CASE MarkAddressTxHistoryAsVoided
    BY <1>1, <1>7, MarkHistoryEffect DEF CronTypes, Marking
<1>8. CASE GetTxOutputs
  <2>1. RowsRead \subseteq Output /\ SpendersRead \subseteq Tx
      BY <1>1 DEF RowsRead, SpendersRead, TypeOK
  <2> QED
      BY <1>1, <1>8, <2>1, GetOutputsEffect DEF CronTypes, Marking
<1>9. CASE GetTxOutputsBySpent
    BY <1>1, <1>9, GetSpentEffect DEF CronTypes, Marking, SpentRead
<1>10. CASE UnspendUtxos
    BY <1>1, <1>10, UnspendEffect DEF CronTypes, Marking
<1>11. CASE MarkUtxosAsVoided
    BY <1>1, <1>11, MarkOutputsEffect DEF CronTypes, Marking, AllAffected
<1>12. CASE GetSpenders
    BY <1>1, <1>12, GetSpendersEffect DEF CronTypes, NewTxs, Quiet, Rebuilding
<1>13. CASE ReadCounts
    BY <1>1, <1>13, ReadCountsEffect DEF CronTypes, Rebuilding
<1>14. CASE ResetBalances
    BY <1>1, <1>14, ResetEffect DEF CronTypes, Rebuilding
<1>15. CASE SumUnlocked
    BY <1>1, <1>15, SumUnlockedEffect DEF CronTypes, Rebuilding
<1>16. CASE SumLocked
    BY <1>1, <1>16, SumLockedEffect DEF CronTypes, Quiet
<1>17. CASE ReadDiffs
  <2>1. AffectedAddresses \subseteq Address
      BY <1>1, CronAssumption DEF CronTypes, AffectedAddresses
  <2>2. AffectedTokenTxCount \in Nat
    <3>1. {t \in AffectedTxs : history[t] = "voided"} \subseteq Tx
        BY <1>1, CronAssumption DEF CronTypes, AffectedTxs
    <3> QED
        BY <3>1, CronAssumption, FS_Subset, FS_CardinalityType DEF AffectedTokenTxCount
  <2> QED
      BY <1>1, <1>17, <2>1, <2>2, ReadDiffsEffect DEF CronTypes, Quiet
<1>18. ASSUME NEW a \in Address, WriteCounts(a) PROVE CronTypes'
    BY <1>1, <1>3, <1>18, WriteCountsEffect DEF CronTypes, Quiet
<1>19. CASE WriteTokenCount
    BY <1>1, <1>3, <1>19, WriteTokenCountEffect DEF CronTypes, Quiet
<1> QED
  <2>1. CASE \E t \in Tx : Around(t)
      BY <1>2, <2>1, AroundEffect
  <2>2. CASE Finish \/ CronStops
      BY <1>3, <2>2 DEF Finish, CronStops
  <2>3. CASE UNCHANGED vars
      BY <1>2, <2>3 DEF vars
  <2> QED
      BY <1>4, <1>5, <1>6, <1>7, <1>8, <1>9, <1>10, <1>11, <1>12, <1>13, <1>14, <1>15, <1>16,
         <1>17, <1>18, <1>19, <2>1, <2>2, <2>3, StepsAreNamed DEF Named

LEMMA CountTypesKept == ASSUME Types, [Next]_vars PROVE CountTypes'
<1> USE DEF CronBecomes, CountsBecome
<1>1. CronTypes /\ TypeOK /\ CountTypes
    BY DEF Types
<1>2. CASE cron'.pc = cron.pc /\ cron'.affected = cron.affected /\ cron'.counts = cron.counts /\ cron'.left \subseteq cron.left
    BY <1>1, <1>2 DEF CountTypes, AffectedAddresses
<1>3. CASE cron'.pc \notin Counting
    BY <1>3 DEF CountTypes, Counting
<1>4. AffectedAddresses \subseteq Address
    BY <1>1, CronAssumption DEF CronTypes, AffectedAddresses
<1>5. CASE cron' = Idle
    BY <1>1, <1>3, <1>5, IdleEffect DEF Counting
<1>6. ASSUME NEW S, Fetch(S) PROVE CountTypes'
    BY <1>1, <1>3, <1>6, FetchEffect DEF Counting
<1>7. ASSUME NEW t \in Tx, Handle(t) PROVE CountTypes'
    BY <1>1, <1>3, <1>7, HandleEffect DEF Counting
<1>8. CASE MarkTxsAsVoided \/ MarkAddressTxHistoryAsVoided \/ GetTxOutputs \/ GetTxOutputsBySpent
           \/ UnspendUtxos \/ MarkUtxosAsVoided
    BY <1>1, <1>3, <1>8, MarkTxsEffect, MarkHistoryEffect, GetOutputsEffect, GetSpentEffect,
       UnspendEffect, MarkOutputsEffect DEF Counting
<1>9. CASE GetSpenders
    BY <1>1, <1>3, <1>9, GetSpendersEffect DEF Counting
<1>10. CASE ReadCounts
  <2>1. cron'.pc = "reset" /\ cron'.affected = cron.affected /\ cron'.counts = CountsRead
      BY <1>1, <1>10, ReadCountsEffect
  <2>2. AffectedAddresses' = AffectedAddresses
      BY <2>1 DEF AffectedAddresses
  <2>3. \A a \in AffectedAddresses : CountsRead[a].txs \in Int /\ CountsRead[a].received \in Int
      BY <1>1, <1>4 DEF CountsRead, TypeOK
  <2> QED
      BY <2>1, <2>2, <2>3 DEF CountTypes
<1>11. CASE ResetBalances \/ SumUnlocked \/ SumLocked
  <2>1. /\ cron.pc \in Counting /\ cron'.pc # "writeCounts"
        /\ cron'.affected = cron.affected /\ cron'.counts = cron.counts
      BY <1>1, <1>11, ResetEffect, SumUnlockedEffect, SumLockedEffect
      DEF ResetBalances, SumUnlocked, SumLocked, Counting
  <2>2. AffectedAddresses' = AffectedAddresses
      BY <2>1 DEF AffectedAddresses
  <2> QED
      BY <1>1, <2>1, <2>2 DEF CountTypes
<1>12. CASE ReadDiffs
  <2>1. /\ cron.pc \in Counting /\ cron'.affected = cron.affected
        /\ cron'.counts = CountsLeft /\ cron'.left = AffectedAddresses
      BY <1>1, <1>12, ReadDiffsEffect DEF ReadDiffs, Counting
  <2>2. AffectedAddresses' = AffectedAddresses
      BY <2>1 DEF AffectedAddresses
  <2>3. ASSUME NEW a \in AffectedAddresses PROVE CountsLeft[a].txs \in Int /\ CountsLeft[a].received \in Int
    <3>1. AffectedAddressTxCount(a) \in Nat
      <4>1. {t \in AffectedTxs : a \in AddressesOf(t) /\ history[t] = "voided"} \subseteq Tx
          BY <1>1, CronAssumption DEF CronTypes, AffectedTxs
      <4> QED
          BY <4>1, CronAssumption, FS_Subset, FS_CardinalityType DEF AffectedAddressTxCount
    <3>2. AffectedAddressTotalReceived(a) \in Nat
        BY SumOfNat DEF AffectedAddressTotalReceived
    <3>3. cron.counts[a].txs \in Int /\ cron.counts[a].received \in Int
        BY <1>1, <2>1 DEF CountTypes
    <3> QED
        BY <3>1, <3>2, <3>3 DEF CountsLeft
  <2> QED
      BY <2>1, <2>2, <2>3 DEF CountTypes
<1>13. ASSUME NEW a \in Address, WriteCounts(a) PROVE CountTypes'
    BY <1>1, <1>2, <1>5, <1>13, WriteCountsEffect DEF WriteCounts
<1>14. CASE WriteTokenCount
    BY <1>1, <1>3, <1>5, <1>14, WriteTokenCountEffect DEF Counting
<1> QED
  <2>1. CASE \E t \in Tx : Around(t)
      BY <1>2, <2>1, AroundEffect
  <2>2. CASE Finish \/ CronStops
      BY <1>5, <2>2 DEF Finish, CronStops
  <2>3. CASE UNCHANGED vars
      BY <1>2, <2>3 DEF vars
  <2> QED
      BY <1>6, <1>7, <1>8, <1>9, <1>10, <1>11, <1>12, <1>13, <1>14, <2>1, <2>2, <2>3, StepsAreNamed DEF Named

LEMMA TypeOKKept == ASSUME Types, [Next]_vars PROVE TypeOK'
<1>1. CronTypes /\ TypeOK /\ CountTypes
    BY DEF Types
<1> USE DEF rowVars, balanceVars, countVars, outside
<1>2. ASSUME NEW t \in Tx, NodeVoids(t) PROVE TypeOK'
    BY <1>1, <1>2 DEF TypeOK, NodeVoids, Descendants
<1>3. ASSUME NEW t \in Tx, NodeTakesBack(t) PROVE TypeOK'
    BY <1>1, <1>3 DEF TypeOK, NodeTakesBack
<1>4. ASSUME NEW t \in Tx, AlreadyKnown(t) PROVE TypeOK'
    BY <1>1, <1>4 DEF TypeOK, AlreadyKnown
<1>5. ASSUME NEW t \in Tx, AddNewTx(t) PROVE TypeOK'
  <2> DEFINE gained(a) == SumOf(OutputsOf(t) \ Locked, a)
             paid(a) == SumOf(Inputs[t], a)
             locked(a) == SumOf(OutputsOf(t) \cap Locked, a)
             all(a) == SumOf(OutputsOf(t), a)
  <2>1. \A a \in Address : gained(a) \in Nat /\ paid(a) \in Nat /\ locked(a) \in Nat /\ all(a) \in Nat
    <3>1. OutputsOf(t) \ Locked \in SUBSET Output /\ Inputs[t] \in SUBSET Output
          /\ OutputsOf(t) \cap Locked \in SUBSET Output /\ OutputsOf(t) \in SUBSET Output
        BY SetsOfOutputs
    <3> QED
        BY <3>1, SumOfNat
  <2>2. /\ \A a \in Address : unlockedBal[a] + gained(a) - paid(a) >= 0
        /\ unlockedBal' = [a \in Address |-> unlockedBal[a] + gained(a) - paid(a)]
        /\ lockedBal' = [a \in Address |-> lockedBal[a] + locked(a)]
        /\ txCount' = [a \in Address |-> txCount[a] + IF a \in AddressesOf(t) THEN 1 ELSE 0]
        /\ received' = [a \in Address |-> received[a] + all(a)]
      BY <1>5 DEF AddNewTx
  <2> HIDE DEF gained, paid, locked, all
  <2>3. unlockedBal' \in [Address -> Nat] /\ lockedBal' \in [Address -> Nat]
      BY <1>1, <2>1, <2>2 DEF TypeOK
  <2>4. txCount' \in [Address -> Nat] /\ received' \in [Address -> Nat]
      BY <1>1, <2>1, <2>2 DEF TypeOK
  <2>5. txRow' \in [Tx -> {"none", "valid", "voided"}] /\ history' \in [Tx -> {"none", "valid", "voided"}]
      BY <1>1, <1>5 DEF TypeOK, AddNewTx
  <2>6. utxo' \in [Output -> {"none", "live", "voided"}]
      BY <1>1, <1>5 DEF TypeOK, AddNewTx
  <2>7. spentBy' \in [Output -> Tx \cup {NoTx}]
      BY <1>1, <1>5 DEF TypeOK, AddNewTx
  <2>8. tokenTxs' \in Nat /\ nodeVoided' \subseteq Tx /\ inbox' \subseteq Tx /\ crossed' \subseteq Tx
      BY <1>1, <1>5 DEF TypeOK, AddNewTx
  <2> QED
      BY <2>3, <2>4, <2>5, <2>6, <2>7, <2>8 DEF TypeOK
<1>6. CASE /\ UNCHANGED <<rowVars, balanceVars, countVars, outside>>
           /\ crossed' = crossed \/ crossed' = crossed \cup cron.visited
    BY <1>1, <1>6 DEF TypeOK, CronTypes
<1>7. CASE MarkTxsAsVoided
    BY <1>1, <1>7 DEF TypeOK, CronTypes, MarkTxsAsVoided
<1>8. CASE MarkAddressTxHistoryAsVoided
    BY <1>1, <1>8 DEF TypeOK, CronTypes, MarkAddressTxHistoryAsVoided
<1>9. CASE UnspendUtxos
    BY <1>1, <1>9 DEF TypeOK, CronTypes, UnspendUtxos
<1>10. CASE MarkUtxosAsVoided
    BY <1>1, <1>10 DEF TypeOK, CronTypes, MarkUtxosAsVoided
<1>11. CASE ResetBalances
    BY <1>1, <1>11 DEF TypeOK, ResetBalances
<1>12. \A balance \in [Address -> Nat] : \A S \in SUBSET Output : WithSums(balance, S) \in [Address -> Nat]
    BY SumOfNat DEF WithSums
<1>13. Unspent \ Locked \in SUBSET Output /\ Unspent \cap Locked \in SUBSET Output
    BY DEF Unspent
<1>14. CASE SumUnlocked
    BY <1>1, <1>12, <1>13, <1>14 DEF TypeOK, SumUnlocked
<1>15. CASE SumLocked
    BY <1>1, <1>12, <1>13, <1>15 DEF TypeOK, SumLocked
<1>16. ASSUME NEW a \in Address, WriteCounts(a) PROVE TypeOK'
  <2>1. cron.counts[a].txs \in Int /\ cron.counts[a].received \in Int
      BY <1>1, <1>16 DEF WriteCounts, CountTypes, Counting
  <2> QED
      BY <1>1, <1>16, <2>1 DEF TypeOK, WriteCounts
<1>17. CASE WriteTokenCount
    BY <1>1, <1>17 DEF TypeOK, CronTypes, WriteTokenCount
<1> QED
  <2>1. ASSUME NEW t \in Tx, Around(t) PROVE TypeOK'
      BY <1>2, <1>3, <1>4, <1>5, <2>1 DEF Around
  <2>2. ASSUME NEW S, Fetch(S) PROVE TypeOK'
      BY <1>6, <2>2 DEF Fetch
  <2>3. ASSUME NEW t, Handle(t) PROVE TypeOK'
      BY <1>6, <2>3 DEF Handle
  <2>4. CASE Finish \/ GetTxOutputs \/ GetTxOutputsBySpent \/ GetSpenders \/ ReadCounts \/ ReadDiffs \/ CronStops
      BY <1>6, <2>4 DEF Finish, GetTxOutputs, GetTxOutputsBySpent, GetSpenders, ReadCounts, ReadDiffs, CronStops
  <2>5. CASE UNCHANGED vars
      BY <1>6, <2>5 DEF vars
  <2> QED
      BY <1>7, <1>8, <1>9, <1>10, <1>11, <1>14, <1>15, <1>16, <1>17, <2>1, <2>2, <2>3, <2>4, <2>5,
         StepsAreNamed DEF Named

LEMMA TypesInit == ASSUME Init PROVE Types
BY CronAssumption DEF Init, Types, TypeOK, CronTypes, CountTypes, Idle, Quiet, Counting

\* Type correctness: no column of address_balance goes below zero, nor does
\* token.transactions, however the statements of a void and addNewTx interleave.
THEOREM VoidTypes == Spec => []TypeOK
<1>1. Init => Types
    BY TypesInit
<1>2. Types /\ [Next]_vars => Types'
    BY CronTypesKept, CountTypesKept, TypeOKKept DEF Types
<1>3. Types => TypeOK
    BY DEF Types
<1> QED
    BY <1>1, <1>2, <1>3, PTL DEF Spec

-----------------------------------------------------------------------------
(* What the tables know and what the full node has voided *)

\* A row of one table has its rows in the others, and what is spent is there.
KnownRows ==
    /\ \A t \in Tx : txRow[t] = "none" <=> history[t] = "none"
    /\ \A o \in Output : utxo[o] = "none" <=> txRow[TxOf[o]] = "none"
    /\ \A t \in Tx : txRow[t] # "none" => \A o \in Inputs[t] : utxo[o] # "none"

\* An output is marked with a transaction that spends it.
SpentByInput ==
    \A o \in Output : spentBy[o] # NoTx => o \in Inputs[spentBy[o]] /\ txRow[spentBy[o]] # "none"

\* What the full node has voided it has voided with all that depends on it.
NodeIsClosed == \A t \in Tx : \A o \in Inputs[t] : TxOf[o] \in nodeVoided => t \in nodeVoided

\* What is voided here is voided there, or will be brought again.
VoidedIsVoid == \A t \in Tx : txRow[t] = "voided" => t \in nodeVoided \cup inbox \cup crossed

\* o is an output or an input of one of S.
Touches(S, o) == TxOf[o] \in S \/ \E t \in S : o \in Inputs[t]

\* What an execution holds.
KnownLocals == \A t \in cron.todo \cup cron.txs \cup cron.spenders : txRow[t] # "none"
VisitedLocals ==
    /\ cron.pc \in Quiet => cron.visited = {}
    /\ cron.pc \in Marking => cron.txs \subseteq cron.visited
    /\ cron.pc = "markTxs" => cron.txs \cap cron.visited \subseteq crossed
RowsLocals ==
    cron.pc \in {"getSpent", "unspend", "markOutputs", "getSpenders"} =>
        cron.rows = {o \in Output : TxOf[o] \in cron.txs}
SpentLocals ==
    cron.pc \in {"unspend", "markOutputs"} => \A o \in cron.spent : \E t \in cron.txs : o \in Inputs[t]
AffectedLocals ==
    cron.pc \notin Quiet => \A o \in cron.affected : Touches(cron.visited, o)

\* The transactions whose void is under way, but for those that came back.
Voiding == cron.visited \ crossed
VoidingIsVoided == \A t \in Voiding : txRow[t] = "voided"

Facts == /\ KnownRows /\ SpentByInput /\ NodeIsClosed /\ VoidedIsVoid
         /\ KnownLocals /\ VisitedLocals /\ RowsLocals /\ SpentLocals /\ AffectedLocals
         /\ VoidingIsVoided

\* The steps that write rows, and the others.
RowsStay == UNCHANGED rowVars
LEMMA RowSteps ==
    ASSUME Types, [Next]_vars
    PROVE  \/ \E t \in Tx : AddNewTx(t)
           \/ MarkTxsAsVoided
           \/ MarkAddressTxHistoryAsVoided
           \/ UnspendUtxos
           \/ MarkUtxosAsVoided
           \/ RowsStay
<1>1. ASSUME NEW t \in Tx, Around(t) PROVE RowsStay \/ AddNewTx(t)
    BY <1>1 DEF Around, NodeVoids, NodeTakesBack, AlreadyKnown, RowsStay
<1>2. ASSUME NEW S, Fetch(S) PROVE RowsStay
    BY <1>2 DEF Fetch, RowsStay
<1>3. ASSUME NEW t, Handle(t) PROVE RowsStay
    BY <1>3 DEF Handle, RowsStay
<1>4. ASSUME NEW a, WriteCounts(a) PROVE RowsStay
    BY <1>4 DEF WriteCounts, RowsStay
<1>5. CASE Finish \/ GetTxOutputs \/ GetTxOutputsBySpent \/ GetSpenders \/ ReadCounts \/ ResetBalances
           \/ SumUnlocked \/ SumLocked \/ ReadDiffs \/ WriteTokenCount \/ CronStops
    BY <1>5 DEF Finish, GetTxOutputs, GetTxOutputsBySpent, GetSpenders, ReadCounts, ResetBalances,
       SumUnlocked, SumLocked, ReadDiffs, WriteTokenCount, CronStops, RowsStay
<1>6. CASE UNCHANGED vars
    BY <1>6 DEF vars, RowsStay
<1> QED
    BY <1>1, <1>2, <1>3, <1>4, <1>5, <1>6, StepsAreNamed DEF Named

\* What the full node and the daemon hold changes around the cron only.
LEMMA OutsideSteps == ASSUME [Next]_vars PROVE (\E t \in Tx : Around(t)) \/ UNCHANGED outside
<1>1. ASSUME NEW S, Fetch(S) PROVE UNCHANGED outside
    BY <1>1 DEF Fetch
<1>2. ASSUME NEW t, Handle(t) PROVE UNCHANGED outside
    BY <1>2 DEF Handle
<1>3. ASSUME NEW a, WriteCounts(a) PROVE UNCHANGED outside
    BY <1>3 DEF WriteCounts
<1>4. CASE MarkTxsAsVoided \/ MarkAddressTxHistoryAsVoided \/ UnspendUtxos \/ MarkUtxosAsVoided
           \/ Finish \/ GetTxOutputs \/ GetTxOutputsBySpent \/ GetSpenders \/ ReadCounts \/ ResetBalances
           \/ SumUnlocked \/ SumLocked \/ ReadDiffs \/ WriteTokenCount \/ CronStops
    BY <1>4 DEF MarkTxsAsVoided, MarkAddressTxHistoryAsVoided, UnspendUtxos, MarkUtxosAsVoided,
       Finish, GetTxOutputs, GetTxOutputsBySpent, GetSpenders, ReadCounts, ResetBalances,
       SumUnlocked, SumLocked, ReadDiffs, WriteTokenCount, CronStops
<1>5. CASE UNCHANGED vars
    BY <1>5 DEF vars
<1> QED
    BY <1>1, <1>2, <1>3, <1>4, <1>5, StepsAreNamed DEF Named

LEMMA CrossedSteps ==
    ASSUME [Next]_vars
    PROVE  /\ crossed \subseteq crossed'
           /\ crossed' = crossed \/ MarkTxsAsVoided \/ CronStops \/ \E t \in Tx : AddNewTx(t)
<1>1. ASSUME NEW t \in Tx, Around(t) PROVE crossed' = crossed \/ AddNewTx(t)
    BY <1>1 DEF Around, NodeVoids, NodeTakesBack, AlreadyKnown
<1>2. ASSUME NEW S, Fetch(S) PROVE crossed' = crossed
    BY <1>2 DEF Fetch
<1>3. ASSUME NEW t, Handle(t) PROVE crossed' = crossed
    BY <1>3 DEF Handle
<1>4. ASSUME NEW a, WriteCounts(a) PROVE crossed' = crossed
    BY <1>4 DEF WriteCounts
<1>5. CASE MarkAddressTxHistoryAsVoided \/ UnspendUtxos \/ MarkUtxosAsVoided
           \/ Finish \/ GetTxOutputs \/ GetTxOutputsBySpent \/ GetSpenders \/ ReadCounts \/ ResetBalances
           \/ SumUnlocked \/ SumLocked \/ ReadDiffs \/ WriteTokenCount
    BY <1>5 DEF MarkAddressTxHistoryAsVoided, UnspendUtxos, MarkUtxosAsVoided,
       Finish, GetTxOutputs, GetTxOutputsBySpent, GetSpenders, ReadCounts, ResetBalances,
       SumUnlocked, SumLocked, ReadDiffs, WriteTokenCount
<1>6. CASE UNCHANGED vars
    BY <1>6 DEF vars
<1>7. crossed' = crossed \/ MarkTxsAsVoided \/ CronStops \/ \E t \in Tx : AddNewTx(t)
    BY <1>1, <1>2, <1>3, <1>4, <1>5, <1>6, StepsAreNamed DEF Named
<1>8. MarkTxsAsVoided \/ CronStops \/ (\E t \in Tx : AddNewTx(t)) => crossed \subseteq crossed'
    BY DEF MarkTxsAsVoided, CronStops, AddNewTx
<1> QED
    BY <1>7, <1>8

LEMMA KnownStays == ASSUME Types, [Next]_vars PROVE \A t \in Tx : txRow[t] # "none" => txRow'[t] # "none"
<1>1. CASE txRow' = txRow
    BY <1>1
<1>2. ASSUME NEW t \in Tx, AddNewTx(t) PROVE \A u \in Tx : txRow[u] # "none" => txRow'[u] # "none"
    BY <1>2 DEF AddNewTx, Types, TypeOK
<1>3. CASE MarkTxsAsVoided
    BY <1>3 DEF MarkTxsAsVoided
<1> QED
    BY <1>1, <1>2, <1>3, RowSteps DEF MarkAddressTxHistoryAsVoided, UnspendUtxos, MarkUtxosAsVoided, RowsStay, rowVars

LEMMA KnownRowsKept == ASSUME Types, KnownRows, [Next]_vars PROVE KnownRows'
<1>1. TypeOK
    BY DEF Types
<1>2. ASSUME NEW t \in Tx, AddNewTx(t) PROVE KnownRows'
  <2>1. /\ \A u \in Tx : txRow'[u] = IF u = t THEN "valid" ELSE txRow[u]
        /\ \A u \in Tx : history'[u] = IF u = t THEN "valid" ELSE history[u]
        /\ \A o \in Output : utxo'[o] = IF TxOf[o] = t THEN "live" ELSE utxo[o]
        /\ \A o \in Inputs[t] : utxo[o] # "none"
      BY <1>1, <1>2 DEF AddNewTx, TypeOK
  <2>2. \A u \in Tx : Inputs[u] \subseteq Output
      BY CronAssumption
  <2>3. \A o \in Output : TxOf[o] \in Tx
      BY CronAssumption
  <2> QED
      BY <2>1, <2>2, <2>3 DEF KnownRows
<1>3. CASE MarkTxsAsVoided
    BY <1>1, <1>3, CronAssumption DEF MarkTxsAsVoided, KnownRows, TypeOK
<1>4. CASE MarkAddressTxHistoryAsVoided
    BY <1>1, <1>4 DEF MarkAddressTxHistoryAsVoided, KnownRows, TypeOK
<1>5. CASE UnspendUtxos
    BY <1>1, <1>5 DEF UnspendUtxos, KnownRows, TypeOK
<1>6. CASE MarkUtxosAsVoided
    BY <1>1, <1>6, CronAssumption DEF MarkUtxosAsVoided, KnownRows, TypeOK
<1>7. CASE RowsStay
    BY <1>7 DEF RowsStay, rowVars, KnownRows
<1> QED
    BY <1>2, <1>3, <1>4, <1>5, <1>6, <1>7, RowSteps

LEMMA SpentByInputKept == ASSUME Types, SpentByInput, [Next]_vars PROVE SpentByInput'
<1>1. TypeOK
    BY DEF Types
<1>2. \A t \in Tx : txRow[t] # "none" => txRow'[t] # "none"
    BY KnownStays
<1>3. ASSUME NEW t \in Tx, AddNewTx(t) PROVE SpentByInput'
  <2>1. /\ \A o \in Output : spentBy'[o] \in {t, NoTx, spentBy[o]}
        /\ \A o \in Output : spentBy'[o] = t => o \in Inputs[t] \/ spentBy[o] = t
        /\ txRow'[t] = "valid"
      BY <1>1, <1>3, CronAssumption DEF AddNewTx, TypeOK
  <2>2. \A o \in Output : spentBy[o] # NoTx => spentBy[o] \in Tx
      BY <1>1 DEF TypeOK
  <2> QED
      BY <1>2, <2>1, <2>2 DEF SpentByInput
<1>4. CASE spentBy' = spentBy
    BY <1>1, <1>2, <1>4 DEF SpentByInput, TypeOK
<1>5. CASE UnspendUtxos
    BY <1>1, <1>2, <1>5 DEF UnspendUtxos, SpentByInput, TypeOK
<1> QED
    BY <1>3, <1>4, <1>5, RowSteps DEF MarkTxsAsVoided, MarkAddressTxHistoryAsVoided, MarkUtxosAsVoided, RowsStay, rowVars

LEMMA DescendantsAreClosed ==
    \A t, u \in Tx : \A o \in Inputs[u] : TxOf[o] \in Descendants(t) => u \in Descendants(t)
BY CronAssumption DEF Descendants, Spenders

LEMMA NodeIsClosedKept == ASSUME Types, NodeIsClosed, [Next]_vars PROVE NodeIsClosed'
<1>1. ASSUME NEW t \in Tx, Around(t) PROVE NodeIsClosed'
  <2>1. CASE NodeVoids(t)
      BY <2>1, DescendantsAreClosed DEF NodeVoids, NodeIsClosed
  <2>2. CASE NodeTakesBack(t)
      BY <2>2 DEF NodeTakesBack, NodeIsClosed
  <2>3. CASE nodeVoided' = nodeVoided
      BY <2>3 DEF NodeIsClosed
  <2> QED
      BY <1>1, <2>1, <2>2, <2>3 DEF Around, AlreadyKnown, AddNewTx
<1>2. CASE UNCHANGED outside
    BY <1>2 DEF outside, NodeIsClosed
<1> QED
    BY <1>1, <1>2, OutsideSteps

LEMMA VoidedIsVoidKept == ASSUME Types, VoidedIsVoid, VisitedLocals, [Next]_vars PROVE VoidedIsVoid'
<1>0. TypeOK /\ crossed \subseteq crossed'
    BY CrossedSteps DEF Types
<1>1. ASSUME NEW t \in Tx, Around(t) PROVE VoidedIsVoid'
  <2>1. CASE NodeVoids(t)
      BY <2>1 DEF NodeVoids, VoidedIsVoid, rowVars
  <2>2. CASE NodeTakesBack(t)
      BY <2>2 DEF NodeTakesBack, VoidedIsVoid, rowVars
  <2>3. CASE AlreadyKnown(t)
      BY <2>3 DEF AlreadyKnown, VoidedIsVoid, rowVars
  <2>4. CASE AddNewTx(t)
      BY <1>0, <2>4 DEF AddNewTx, VoidedIsVoid, TypeOK
  <2> QED
      BY <1>1, <2>1, <2>2, <2>3, <2>4 DEF Around
<1>2. CASE MarkTxsAsVoided
    BY <1>0, <1>2 DEF MarkTxsAsVoided, VoidedIsVoid, TypeOK, outside
<1>3. CASE txRow' = txRow /\ UNCHANGED outside
    BY <1>0, <1>3 DEF VoidedIsVoid, outside
<1>4. CASE \E t \in Tx : AddNewTx(t)
    BY <1>1, <1>4 DEF Around
<1> QED
    BY <1>1, <1>2, <1>3, <1>4, RowSteps, OutsideSteps
    DEF MarkAddressTxHistoryAsVoided, UnspendUtxos, MarkUtxosAsVoided, RowsStay, rowVars

LEMMA KnownLocalsKept == ASSUME Types, KnownLocals, SpentByInput, [Next]_vars PROVE KnownLocals'
<1> USE DEF CronBecomes
<1>0. CronTypes /\ TypeOK /\ \A t \in Tx : txRow[t] # "none" => txRow'[t] # "none"
    BY KnownStays DEF Types
<1>1. CASE /\ cron'.todo \cup cron'.txs \cup cron'.spenders \subseteq cron.todo \cup cron.txs \cup cron.spenders
    BY <1>0, <1>1 DEF KnownLocals, CronTypes
<1>2. CASE cron' = Idle
    BY <1>0, <1>1, <1>2, IdleEffect
<1>3. ASSUME NEW S, Fetch(S) PROVE KnownLocals'
  <2>1. S \subseteq Tx /\ \A t \in S : txRow[t] # "none"
      BY <1>3 DEF Fetch, Candidates
  <2> QED
      BY <1>0, <1>3, <2>1, FetchEffect DEF KnownLocals
<1>4. ASSUME NEW t, Handle(t) PROVE KnownLocals'
  <2>1. t \in cron.todo
      BY <1>4 DEF Handle
  <2>2. cron'.todo \cup cron'.txs \cup cron'.spenders \subseteq cron.todo \cup cron.txs \cup cron.spenders
      BY <1>0, <1>4, <2>1, HandleEffect
  <2> QED
      BY <1>1, <2>2
<1>5. CASE GetTxOutputs
  <2>1. SpendersRead \subseteq Tx /\ \A t \in SpendersRead : txRow[t] # "none"
      BY <1>0 DEF SpendersRead, RowsRead, SpentByInput, TypeOK
  <2>2. cron'.todo = cron.todo /\ cron'.txs = cron.txs /\ cron'.spenders = SpendersRead
      BY <1>0, <1>5, GetOutputsEffect
  <2> QED
      BY <1>0, <2>1, <2>2 DEF KnownLocals, CronTypes
<1>6. CASE GetSpenders
    BY <1>0, <1>1, <1>6, GetSpendersEffect DEF NewTxs
<1>7. CASE MarkTxsAsVoided \/ MarkAddressTxHistoryAsVoided \/ GetTxOutputsBySpent \/ UnspendUtxos
           \/ MarkUtxosAsVoided \/ ReadCounts \/ ResetBalances \/ SumUnlocked \/ SumLocked \/ ReadDiffs
    BY <1>0, <1>1, <1>7, MarkTxsEffect, MarkHistoryEffect, GetSpentEffect, UnspendEffect, MarkOutputsEffect,
       ReadCountsEffect, ResetEffect, SumUnlockedEffect, SumLockedEffect, ReadDiffsEffect
<1>8. ASSUME NEW a, WriteCounts(a) PROVE KnownLocals'
    BY <1>0, <1>1, <1>2, <1>8, WriteCountsEffect
<1>9. CASE WriteTokenCount
    BY <1>0, <1>1, <1>2, <1>9, WriteTokenCountEffect
<1>10. CASE cron' = cron
    BY <1>1, <1>10
<1> QED
  <2>1. CASE \E t \in Tx : Around(t)
      BY <1>10, <2>1, AroundEffect
  <2>2. CASE Finish \/ CronStops
      BY <1>2, <2>2 DEF Finish, CronStops
  <2>3. CASE UNCHANGED vars
      BY <1>10, <2>3 DEF vars
  <2> QED
      BY <1>3, <1>4, <1>5, <1>6, <1>7, <1>8, <1>9, <2>1, <2>2, <2>3, StepsAreNamed DEF Named

LEMMA VisitedSteps == ASSUME CronTypes, [Next]_vars PROVE cron'.visited \subseteq cron.visited \/ MarkTxsAsVoided
<1> USE DEF CronBecomes
<1>1. ASSUME NEW S, Fetch(S) PROVE cron'.visited \subseteq cron.visited
    BY <1>1, FetchEffect
<1>2. ASSUME NEW t, Handle(t) PROVE cron'.visited \subseteq cron.visited
    BY <1>2, HandleEffect
<1>3. ASSUME NEW a, WriteCounts(a) PROVE cron'.visited \subseteq cron.visited
    BY <1>3, WriteCountsEffect, IdleEffect
<1>4. CASE MarkAddressTxHistoryAsVoided \/ GetTxOutputs \/ GetTxOutputsBySpent \/ UnspendUtxos
           \/ MarkUtxosAsVoided \/ ReadCounts \/ ResetBalances \/ SumUnlocked \/ SumLocked \/ ReadDiffs
    BY <1>4, MarkHistoryEffect, GetOutputsEffect, GetSpentEffect, UnspendEffect, MarkOutputsEffect,
       ReadCountsEffect, ResetEffect, SumUnlockedEffect, SumLockedEffect, ReadDiffsEffect
<1>5. CASE GetSpenders
    BY <1>5, GetSpendersEffect
<1>6. CASE WriteTokenCount
    BY <1>6, WriteTokenCountEffect, IdleEffect
<1>7. CASE Finish \/ CronStops
    BY <1>7, IdleEffect DEF Finish, CronStops
<1>8. CASE \E t \in Tx : Around(t)
    BY <1>8, AroundEffect
<1>9. CASE UNCHANGED vars
    BY <1>9 DEF vars
<1> QED
    BY <1>1, <1>2, <1>3, <1>4, <1>5, <1>6, <1>7, <1>8, <1>9, StepsAreNamed DEF Named

LEMMA VoidingIsVoidedKept ==
    ASSUME Types, Facts, [Next]_vars PROVE VoidingIsVoided'
<1> USE DEF CronBecomes, Voiding
<1>0. CronTypes /\ TypeOK /\ crossed \subseteq crossed' /\ VoidingIsVoided /\ KnownLocals
    BY CrossedSteps DEF Types, Facts
<1>1. CASE txRow' = txRow /\ cron'.visited \subseteq cron.visited
    BY <1>0, <1>1 DEF VoidingIsVoided
<1>2. ASSUME NEW t \in Tx, AddNewTx(t) PROVE VoidingIsVoided'
    BY <1>0, <1>2 DEF AddNewTx, VoidingIsVoided, TypeOK, CronTypes
<1>3. CASE MarkTxsAsVoided
  <2>1. \A t \in cron.txs : txRow'[t] = "voided"
      BY <1>0, <1>3 DEF MarkTxsAsVoided, KnownLocals, CronTypes, TypeOK
  <2>2. \A t \in Tx : txRow[t] = "voided" => txRow'[t] = "voided"
      BY <1>0, <1>3 DEF MarkTxsAsVoided, TypeOK
  <2>3. cron'.visited = cron.visited \cup cron.txs
      BY <1>0, <1>3, MarkTxsEffect
  <2> QED
      BY <1>0, <2>1, <2>2, <2>3 DEF VoidingIsVoided, CronTypes
<1> QED
    BY <1>0, <1>1, <1>2, <1>3, RowSteps, VisitedSteps
    DEF MarkAddressTxHistoryAsVoided, UnspendUtxos, MarkUtxosAsVoided, RowsStay, rowVars

LEMMA VisitedLocalsKept == ASSUME Types, Facts, [Next]_vars PROVE VisitedLocals'
<1> USE DEF CronBecomes, Quiet, Marking, VisitedLocals
<1>0. CronTypes /\ TypeOK /\ crossed \subseteq crossed' /\ VoidingIsVoided /\ VisitedLocals
    BY CrossedSteps DEF Types, Facts
<1>1. CASE cron' = cron
    BY <1>0, <1>1
<1>2. CASE cron' = Idle
    BY <1>0, <1>2, IdleEffect
<1>3. ASSUME NEW S, Fetch(S) PROVE VisitedLocals'
    BY <1>0, <1>3, FetchEffect
<1>4. ASSUME NEW t, Handle(t) PROVE VisitedLocals'
    BY <1>0, <1>4, HandleEffect DEF Handle
<1>5. CASE MarkTxsAsVoided
    BY <1>0, <1>5, MarkTxsEffect
<1>6. CASE MarkAddressTxHistoryAsVoided \/ GetTxOutputs \/ GetTxOutputsBySpent \/ UnspendUtxos \/ MarkUtxosAsVoided
    BY <1>0, <1>6, MarkHistoryEffect, GetOutputsEffect, GetSpentEffect, UnspendEffect, MarkOutputsEffect
    DEF MarkAddressTxHistoryAsVoided, GetTxOutputs, GetTxOutputsBySpent, UnspendUtxos, MarkUtxosAsVoided
<1>7. CASE GetSpenders
  <2>1. NewTxs \cap cron.visited \subseteq crossed
      BY <1>0 DEF NewTxs, VoidingIsVoided, Voiding
  <2> QED
      BY <1>0, <1>7, <2>1, GetSpendersEffect
<1>8. CASE ReadCounts \/ ResetBalances \/ SumUnlocked \/ SumLocked
    BY <1>0, <1>8, ReadCountsEffect, ResetEffect, SumUnlockedEffect, SumLockedEffect
<1>9. CASE ReadDiffs
    BY <1>0, <1>9, ReadDiffsEffect DEF ReadDiffs
<1>10. ASSUME NEW a, WriteCounts(a) PROVE VisitedLocals'
    BY <1>0, <1>2, <1>10, WriteCountsEffect DEF WriteCounts
<1>11. CASE WriteTokenCount
    BY <1>0, <1>2, <1>11, WriteTokenCountEffect
<1> QED
  <2>1. CASE \E t \in Tx : Around(t)
      BY <1>1, <2>1, AroundEffect
  <2>2. CASE Finish \/ CronStops
      BY <1>2, <2>2 DEF Finish, CronStops
  <2>3. CASE UNCHANGED vars
      BY <1>1, <2>3 DEF vars
  <2> QED
      BY <1>3, <1>4, <1>5, <1>6, <1>7, <1>8, <1>9, <1>10, <1>11, <2>1, <2>2, <2>3, StepsAreNamed DEF Named

LEMMA RowsLocalsKept == ASSUME Types, Facts, [Next]_vars PROVE RowsLocals'
<1> USE DEF CronBecomes, RowsLocals
<1>0. CronTypes /\ RowsLocals /\ KnownRows /\ KnownLocals
    BY DEF Types, Facts
<1>1. CASE cron' = cron
    BY <1>0, <1>1
<1>2. CASE GetTxOutputs
  <2>1. RowsRead = {o \in Output : TxOf[o] \in cron.txs}
      BY <1>0 DEF RowsRead, KnownRows, KnownLocals
  <2> QED
      BY <1>0, <1>2, <2>1, GetOutputsEffect
<1>3. CASE GetTxOutputsBySpent
    BY <1>0, <1>3, GetSpentEffect DEF GetTxOutputsBySpent
<1>4. CASE UnspendUtxos
    BY <1>0, <1>4, UnspendEffect DEF UnspendUtxos
<1>5. CASE MarkUtxosAsVoided
    BY <1>0, <1>5, MarkOutputsEffect DEF MarkUtxosAsVoided
<1> QED
    BY <1>0, <1>1, <1>2, <1>3, <1>4, <1>5, StageSteps DEF Leads

LEMMA SpentLocalsKept == ASSUME Types, Facts, [Next]_vars PROVE SpentLocals'
<1> USE DEF CronBecomes, SpentLocals
<1>0. CronTypes /\ TypeOK /\ RowsLocals /\ SpentByInput /\ SpentLocals
    BY DEF Types, Facts
<1>1. CASE cron' = cron
    BY <1>0, <1>1
<1>2. CASE GetTxOutputsBySpent
  <2>1. \A o \in SpentRead : \E t \in cron.txs : o \in Inputs[t]
    <3>1. cron.rows = {o \in Output : TxOf[o] \in cron.txs}
        BY <1>0, <1>2 DEF GetTxOutputsBySpent, RowsLocals
    <3>2. \A o \in SpentRead : spentBy[o] \in cron.txs
        BY <3>1 DEF SpentRead
    <3> QED
        BY <1>0, <3>2, CronAssumption DEF SpentByInput, CronTypes, SpentRead
  <2> QED
      BY <1>0, <1>2, <2>1, GetSpentEffect
<1>3. CASE UnspendUtxos
    BY <1>0, <1>3, UnspendEffect DEF UnspendUtxos
<1> QED
    BY <1>0, <1>1, <1>2, <1>3, StageSteps DEF Leads

LEMMA AffectedLocalsKept == ASSUME Types, Facts, [Next]_vars PROVE AffectedLocals'
<1> USE DEF CronBecomes, AffectedLocals
<1>0. CronTypes /\ TypeOK /\ RowsLocals /\ SpentLocals /\ VisitedLocals /\ AffectedLocals
    BY DEF Types, Facts
<1>1. CASE cron' = cron
    BY <1>0, <1>1
<1>2. ASSUME NEW t, Handle(t) PROVE AffectedLocals'
    BY <1>0, <1>2, HandleEffect DEF Quiet
<1>3. CASE MarkTxsAsVoided
    BY <1>0, <1>3, MarkTxsEffect DEF MarkTxsAsVoided, Quiet, Touches
<1>4. CASE MarkAddressTxHistoryAsVoided \/ GetTxOutputs \/ GetTxOutputsBySpent \/ UnspendUtxos
           \/ ReadCounts \/ ResetBalances \/ SumUnlocked
  <2>1. cron.pc \notin Quiet /\ cron'.affected = cron.affected /\ cron'.visited = cron.visited
      BY <1>0, <1>4, MarkHistoryEffect, GetOutputsEffect, GetSpentEffect, UnspendEffect, ReadCountsEffect,
         ResetEffect, SumUnlockedEffect
      DEF MarkAddressTxHistoryAsVoided, GetTxOutputs, GetTxOutputsBySpent, UnspendUtxos,
          ReadCounts, ResetBalances, SumUnlocked, Quiet
  <2> QED
      BY <1>0, <2>1
<1>5. CASE MarkUtxosAsVoided
  <2>1. cron.pc = "markOutputs" /\ cron'.affected = AllAffected /\ cron'.visited = cron.visited
      BY <1>0, <1>5, MarkOutputsEffect DEF MarkUtxosAsVoided
  <2>2. cron.txs \subseteq cron.visited /\ cron.rows = {o \in Output : TxOf[o] \in cron.txs}
      BY <1>0, <2>1 DEF VisitedLocals, RowsLocals, Marking
  <2>3. \A o \in AllAffected : Touches(cron.visited, o)
    <3>1. \A o \in cron.affected : Touches(cron.visited, o)
        BY <1>0, <2>1 DEF Quiet
    <3>2. \A o \in cron.rows : Touches(cron.visited, o)
        BY <2>2 DEF Touches
    <3>3. \A o \in cron.spent : Touches(cron.visited, o)
        BY <1>0, <2>1, <2>2 DEF SpentLocals, Touches
    <3> QED
        BY <3>1, <3>2, <3>3 DEF AllAffected
  <2> QED
      BY <2>1, <2>3
<1>6. CASE GetSpenders
    BY <1>0, <1>6, GetSpendersEffect DEF GetSpenders, Quiet
<1>7. CASE cron'.pc \in Quiet
    BY <1>7
<1> QED
  <2>1. CronTypes'
      BY CronTypesKept
  <2>2. cron'.pc \in Quiet \cup {"markTxs"} \cup Marking \cup Rebuilding
      BY <2>1 DEF CronTypes
  <2> QED
      BY <1>0, <1>1, <1>2, <1>3, <1>4, <1>5, <1>6, <1>7, <2>2, StageSteps DEF Leads, Marking, Rebuilding

LEMMA FactsKept == ASSUME Types, Facts, [Next]_vars PROVE Facts'
<1>1. KnownRows /\ SpentByInput /\ NodeIsClosed /\ VoidedIsVoid /\ KnownLocals /\ VisitedLocals
    BY DEF Facts
<1>2. KnownRows' /\ SpentByInput' /\ NodeIsClosed' /\ VoidedIsVoid'
    BY <1>1, KnownRowsKept, SpentByInputKept, NodeIsClosedKept, VoidedIsVoidKept
<1>3. KnownLocals' /\ VisitedLocals' /\ RowsLocals'
    BY <1>1, KnownLocalsKept, VisitedLocalsKept, RowsLocalsKept
<1>4. SpentLocals' /\ AffectedLocals' /\ VoidingIsVoided'
    BY SpentLocalsKept, AffectedLocalsKept, VoidingIsVoidedKept
<1> QED
    BY <1>2, <1>3, <1>4 DEF Facts

LEMMA FactsInit == ASSUME Init PROVE Facts
BY CronAssumption DEF Init, Facts, KnownRows, SpentByInput, NodeIsClosed, VoidedIsVoid, KnownLocals, VisitedLocals,
   RowsLocals, SpentLocals, AffectedLocals, VoidingIsVoided, Voiding, Idle, Quiet, Marking

-----------------------------------------------------------------------------
(* Rows: a void that has ended has ended in every table *)

\* How far a void has come, by table.
HistoryFollows ==
    \A t \in Voiding : history[t] = "voided" \/ (cron.pc = "markHistory" /\ t \in cron.txs)
OutputsFollow ==
    \A o \in Output : TxOf[o] \in Voiding =>
        utxo[o] = "voided" \/ (TxOf[o] \in cron.txs /\ cron.pc \in Marking \ {"getSpenders"})

\* A valid transaction that spends what is being voided is on its way to be voided.
IsNext(t, o) ==
    \/ cron.pc = "markTxs" /\ t \in cron.txs
    \/ /\ TxOf[o] \in cron.txs
       /\ \/ cron.pc \in {"markHistory", "getOutputs"} /\ spentBy[o] = t
          \/ cron.pc \in {"getSpent", "unspend", "markOutputs", "getSpenders"} /\ t \in cron.spenders
SpendersFollow ==
    \A t \in Tx \ Doubtful : txRow[t] = "valid" =>
        \A o \in Inputs[t] : TxOf[o] \in Voiding => IsNext(t, o)

RowInv == OnlyDoubtfulRows /\ HistoryFollows /\ OutputsFollow /\ SpendersFollow

\* A transaction that arrives spends outputs of valid ones: the full node has not
\* voided it, so it has not voided what it spends.
LEMMA InputsAreSound ==
    ASSUME Types, Facts, NEW t \in Tx, AddNewTx(t), NEW o \in Inputs[t], TxOf[o] \notin crossed
    PROVE  TxOf[o] \notin Doubtful /\ txRow[TxOf[o]] = "valid"
<1>1. /\ t \notin nodeVoided
      /\ utxo[o] # "none" /\ TxOf[o] \notin inbox
    BY DEF AddNewTx
<1>2. o \in Output /\ TxOf[o] \in Tx
    BY CronAssumption
<1>3. TxOf[o] \notin nodeVoided
    BY <1>1 DEF Facts, NodeIsClosed
<1>4. txRow[TxOf[o]] # "voided" /\ txRow[TxOf[o]] # "none"
    BY <1>1, <1>2, <1>3 DEF Facts, VoidedIsVoid, KnownRows
<1>5. TxOf[o] \notin Doubtful
    BY <1>4 DEF Facts, VoidingIsVoided, Voiding, Doubtful
<1> QED
    BY <1>2, <1>4, <1>5 DEF Types, TypeOK

\* What is no longer doubtful: a void has ended.
VoidEnds == RowsStay /\ crossed' = crossed /\ cron'.visited = {} /\ (SumLocked \/ (GetSpenders /\ NewTxs = {}))

LEMMA DoubtfulSteps == ASSUME Types, Facts, [Next]_vars PROVE Doubtful \subseteq Doubtful' \/ VoidEnds
<1> USE DEF CronBecomes, Doubtful
<1>0. CronTypes /\ VisitedLocals /\ crossed \subseteq crossed'
    BY CrossedSteps DEF Types, Facts
<1>1. CASE cron.visited \subseteq cron'.visited
    BY <1>0, <1>1
<1>2. CASE cron.pc \in Quiet
    BY <1>0, <1>2 DEF VisitedLocals
<1>3. CASE SumLocked
    BY <1>0, <1>3, SumLockedEffect DEF SumLocked, VoidEnds, RowsStay
<1>4. CASE GetSpenders
    BY <1>0, <1>1, <1>4, GetSpendersEffect DEF GetSpenders, VoidEnds, RowsStay
<1>5. CASE CronStops
    BY <1>5 DEF CronStops
<1>6. CASE MarkTxsAsVoided \/ MarkAddressTxHistoryAsVoided \/ GetTxOutputs \/ GetTxOutputsBySpent \/ UnspendUtxos
           \/ MarkUtxosAsVoided \/ ReadCounts \/ ResetBalances \/ SumUnlocked
    BY <1>0, <1>1, <1>6, MarkTxsEffect, MarkHistoryEffect, GetOutputsEffect, GetSpentEffect, UnspendEffect,
       MarkOutputsEffect, ReadCountsEffect, ResetEffect, SumUnlockedEffect
<1> QED
  <2>1. CASE (\E t \in Tx : Around(t)) \/ UNCHANGED vars
      BY <1>1, <2>1, AroundEffect DEF vars
  <2>2. CASE (\E S \in SUBSET Tx : Fetch(S)) \/ (\E t \in Tx : Handle(t)) \/ Finish \/ ReadDiffs
             \/ (\E a \in Address : WriteCounts(a)) \/ WriteTokenCount
      BY <1>2, <2>2 DEF Fetch, Handle, Finish, ReadDiffs, WriteCounts, WriteTokenCount, Quiet
  <2> QED
      BY <1>3, <1>4, <1>5, <1>6, <2>1, <2>2, StepsAreNamed DEF Named

LEMMA VoidingSteps ==
    ASSUME Types, Facts, [Next]_vars
    PROVE  /\ Voiding' \subseteq Voiding \/ (MarkTxsAsVoided /\ Voiding' \subseteq Voiding \cup cron.txs)
           /\ \A t \in Tx : AddNewTx(t) => t \notin Voiding'
<1> USE DEF CronBecomes, Voiding
<1>0. CronTypes /\ crossed \subseteq crossed'
    BY CrossedSteps DEF Types
<1>1. \A t \in Tx : AddNewTx(t) => t \notin Voiding'
    BY DEF AddNewTx
<1>2. CASE cron'.visited \subseteq cron.visited
    BY <1>0, <1>1, <1>2
<1>3. CASE MarkTxsAsVoided
    BY <1>0, <1>1, <1>3, MarkTxsEffect
<1> QED
    BY <1>0, <1>1, <1>2, <1>3, VisitedSteps

LEMMA DoubtfulRowsKept ==
    ASSUME Types, Facts, RowInv, NoConflicts, [Next]_vars PROVE OnlyDoubtfulRows'
<1>0. TypeOK /\ CronTypes /\ OnlyDoubtfulRows
    BY DEF Types, RowInv
<1> DEFINE Agrees(t) ==
              /\ txRow[t] = history[t]
              /\ \A o \in OutputsOf(t) : utxo[o] = IF txRow[t] = "valid" THEN "live" ELSE txRow[t]
              /\ txRow[t] = "valid" => \A o \in Inputs[t] :
                    TxOf[o] \in Doubtful \/ (utxo[o] = "live" /\ spentBy[o] = t)
<1>1. OnlyDoubtfulRows <=> \A t \in Tx \ Doubtful : Agrees(t)
    BY DEF OnlyDoubtfulRows
<1>2. OnlyDoubtfulRows' <=> \A t \in Tx : t \notin Doubtful' => Agrees(t)'
    BY DEF OnlyDoubtfulRows
<1>3. CASE VoidEnds
  <2> SUFFICES ASSUME NEW t \in Tx, t \notin Doubtful' PROVE Agrees(t)'
      BY <1>2
  <2>1. /\ UNCHANGED <<txRow, history, utxo, spentBy>> /\ crossed' = crossed /\ cron'.visited = {}
        /\ cron.pc \in {"sumLocked", "getSpenders"}
      BY <1>3 DEF VoidEnds, RowsStay, rowVars, SumLocked, GetSpenders
  <2>2. \A u \in Tx : u \in Doubtful /\ u \notin Doubtful' => u \in Voiding
      BY <2>1 DEF Doubtful, Voiding
  <2>3. CASE t \in Doubtful
    <3>1. txRow[t] = "voided" /\ history[t] = "voided"
        BY <2>1, <2>2, <2>3 DEF Facts, VoidingIsVoided, RowInv, HistoryFollows
    <3>2. \A o \in OutputsOf(t) : utxo[o] = "voided"
        BY <2>1, <2>2, <2>3 DEF RowInv, OutputsFollow, OutputsOf, Marking
    <3> QED
        BY <2>1, <3>1, <3>2 DEF OutputsOf
  <2>4. CASE t \notin Doubtful
    <3>1. ASSUME txRow[t] = "valid", NEW o \in Inputs[t], TxOf[o] \in Voiding PROVE FALSE
      <4>1. IsNext(t, o)
          BY <2>4, <3>1 DEF RowInv, SpendersFollow
      <4>2. cron.pc = "getSpenders" /\ t \in cron.spenders
          BY <2>1, <4>1 DEF IsNext
      <4>3. NewTxs = {}
          BY <1>3, <4>2 DEF VoidEnds, SumLocked
      <4> QED
          BY <3>1, <4>2, <4>3 DEF NewTxs
    <3>2. \A o \in Inputs[t] : TxOf[o] \in Tx
        BY CronAssumption
    <3>3. Agrees(t)
        BY <1>0, <1>1, <2>4
    <3> QED
        BY <2>1, <2>2, <3>1, <3>2, <3>3 DEF OutputsOf
  <2> QED
      BY <2>3, <2>4
<1>4. CASE Doubtful \subseteq Doubtful'
  <2> SUFFICES ASSUME NEW t \in Tx, t \notin Doubtful' PROVE Agrees(t)'
      BY <1>2
  <2>1. t \notin Doubtful /\ Agrees(t)
      BY <1>0, <1>1, <1>4
  <2>2. \A o \in Inputs[t] : o \in Output /\ TxOf[o] \in Tx
      BY CronAssumption
  <2>3. ASSUME NEW u \in Tx, AddNewTx(u) PROVE Agrees(t)'
    <3>1. /\ txRow' = [txRow EXCEPT ![u] = "valid"]
          /\ history' = [history EXCEPT ![u] = "valid"]
          /\ \A o \in Output : utxo'[o] = IF TxOf[o] = u THEN "live" ELSE utxo[o]
          /\ \A o \in Output : spentBy'[o] =
                IF o \in Inputs[u] THEN u
                ELSE IF TxOf[o] = u /\ utxo[o] # "live" THEN NoTx ELSE spentBy[o]
        BY <2>3 DEF AddNewTx
    <3>2. CASE t = u
      <4>1. ASSUME NEW o \in Inputs[t], TxOf[o] \notin Doubtful' PROVE utxo'[o] = "live" /\ spentBy'[o] = t
        <5>1. TxOf[o] \notin crossed
            BY <1>4, <4>1 DEF Doubtful
        <5>2. TxOf[o] \notin Doubtful /\ txRow[TxOf[o]] = "valid"
            BY <2>3, <3>2, <5>1, InputsAreSound
        <5>3. utxo[o] = "live"
            BY <1>0, <1>1, <2>2, <5>2 DEF OutputsOf
        <5> QED
            BY <2>2, <3>1, <3>2, <5>3
      <4> QED
          BY <1>0, <3>1, <3>2, <4>1 DEF TypeOK, OutputsOf
    <3>3. CASE t # u
      <4>1. ASSUME txRow[t] = "valid", NEW o \in Inputs[t], TxOf[o] \notin Doubtful'
            PROVE  utxo'[o] = "live" /\ spentBy'[o] = t
        <5>1. utxo[o] = "live" /\ spentBy[o] = t
            BY <1>4, <2>1, <4>1
        <5>2. o \notin Inputs[u]
            BY <3>3, <4>1 DEF NoConflicts
        <5> QED
            BY <2>2, <3>1, <5>1, <5>2
      <4>2. txRow'[t] = txRow[t] /\ history'[t] = history[t] /\ \A o \in OutputsOf(t) : utxo'[o] = utxo[o]
          BY <1>0, <3>1, <3>3 DEF TypeOK, OutputsOf
      <4> QED
          BY <2>1, <4>1, <4>2 DEF OutputsOf
    <3> QED
        BY <3>2, <3>3
  <2>4. CASE MarkTxsAsVoided
    <3>1. t \notin cron.txs
        BY <1>0, <2>4, MarkTxsEffect DEF CronBecomes, Doubtful
    <3>2. txRow'[t] = txRow[t] /\ history' = history /\ utxo' = utxo /\ spentBy' = spentBy
        BY <1>0, <2>4, <3>1 DEF MarkTxsAsVoided, TypeOK
    <3> QED
        BY <1>4, <2>1, <3>2 DEF OutputsOf
  <2>5. cron.pc \in Marking => t \notin cron.txs
      BY <2>1 DEF Facts, VisitedLocals, Doubtful
  <2>6. CASE MarkAddressTxHistoryAsVoided
    <3>1. history'[t] = history[t] /\ txRow' = txRow /\ utxo' = utxo /\ spentBy' = spentBy
        BY <1>0, <2>5, <2>6 DEF MarkAddressTxHistoryAsVoided, TypeOK, Marking
    <3> QED
        BY <1>4, <2>1, <3>1 DEF OutputsOf
  <2>7. CASE UnspendUtxos
    <3>1. \A o \in Inputs[t] : o \notin cron.spent
      <4>1. \A o \in cron.spent : \E u \in cron.txs : o \in Inputs[u]
          BY <2>7 DEF UnspendUtxos, Facts, SpentLocals
      <4>2. t \notin cron.txs
          BY <2>5, <2>7 DEF UnspendUtxos, Marking
      <4> QED
          BY <1>0, <4>1, <4>2 DEF NoConflicts, CronTypes
    <3>2. (\A o \in Inputs[t] : spentBy'[o] = spentBy[o]) /\ txRow' = txRow /\ utxo' = utxo /\ history' = history
        BY <1>0, <2>2, <2>7, <3>1 DEF UnspendUtxos, TypeOK
    <3> QED
        BY <1>4, <2>1, <3>2 DEF OutputsOf
  <2>8. CASE MarkUtxosAsVoided
    <3>1. cron.txs \subseteq cron.visited /\ \A r \in cron.rows : TxOf[r] \in cron.txs
        BY <2>8 DEF MarkUtxosAsVoided, Facts, VisitedLocals, RowsLocals, Marking
    <3>2. \A o \in Output : TxOf[o] \notin Doubtful => utxo'[o] = utxo[o]
        BY <1>0, <2>8, <3>1 DEF MarkUtxosAsVoided, TypeOK, Doubtful
    <3>3. spentBy' = spentBy /\ txRow' = txRow /\ history' = history
        BY <2>8 DEF MarkUtxosAsVoided
    <3> QED
        BY <1>4, <2>1, <2>2, <3>2, <3>3 DEF OutputsOf
  <2>9. CASE RowsStay
      BY <1>4, <2>1, <2>9 DEF RowsStay, rowVars, OutputsOf
  <2> QED
      BY <2>3, <2>4, <2>6, <2>7, <2>8, <2>9, RowSteps
<1> QED
    BY <1>3, <1>4, DoubtfulSteps

LEMMA HistoryFollowsKept ==
    ASSUME Types, Facts, RowInv, [Next]_vars PROVE HistoryFollows'
<1> USE DEF CronBecomes
<1>0. TypeOK /\ CronTypes /\ HistoryFollows /\ KnownRows /\ KnownLocals
    BY DEF Types, RowInv, Facts
<1>1. /\ Voiding' \subseteq Voiding \/ (MarkTxsAsVoided /\ Voiding' \subseteq Voiding \cup cron.txs)
      /\ \A t \in Tx : AddNewTx(t) => t \notin Voiding'
      /\ Voiding \subseteq Tx /\ Voiding' \subseteq Tx
    BY <1>0, VoidingSteps, CronTypesKept DEF Voiding, CronTypes
<1>2. CASE cron' = Idle
    BY <1>0, <1>2, IdleEffect DEF HistoryFollows, Voiding
<1>3. ASSUME NEW t \in Tx, AddNewTx(t) PROVE HistoryFollows'
  <2>1. cron' = cron /\ \A u \in Tx : u # t => history'[u] = history[u]
      BY <1>0, <1>3 DEF AddNewTx, TypeOK
  <2>2. Voiding' \subseteq Voiding
      BY <1>1, <1>3 DEF AddNewTx, MarkTxsAsVoided, Voiding
  <2> QED
      BY <1>0, <1>1, <1>3, <2>1, <2>2 DEF HistoryFollows
<1>4. CASE MarkTxsAsVoided
    BY <1>0, <1>1, <1>4, MarkTxsEffect DEF HistoryFollows, MarkTxsAsVoided
<1>5. CASE MarkAddressTxHistoryAsVoided
  <2>1. \A t \in cron.txs : history[t] # "none"
      BY <1>0 DEF KnownRows, KnownLocals, CronTypes
  <2>2. \A t \in Tx : history'[t] = IF t \in cron.txs /\ history[t] # "none" THEN "voided" ELSE history[t]
      BY <1>5 DEF MarkAddressTxHistoryAsVoided
  <2>3. Voiding' \subseteq Voiding
      BY <1>1, <1>5 DEF MarkAddressTxHistoryAsVoided, MarkTxsAsVoided
  <2> QED
      BY <1>0, <1>1, <2>1, <2>2, <2>3 DEF HistoryFollows
<1>6. CASE history' = history /\ cron' = cron
    BY <1>0, <1>1, <1>4, <1>6 DEF HistoryFollows
<1>7. CASE history' = history /\ cron.pc # "markHistory"
    BY <1>0, <1>1, <1>4, <1>7 DEF HistoryFollows
<1> QED
  <2>1. cron.pc = "markHistory" => MarkAddressTxHistoryAsVoided \/ cron' = cron \/ cron' = Idle
      BY NextStatement DEF Follows
  <2>2. (\E t \in Tx : AddNewTx(t)) \/ MarkTxsAsVoided \/ MarkAddressTxHistoryAsVoided \/ history' = history
      BY RowSteps DEF UnspendUtxos, MarkUtxosAsVoided, RowsStay, rowVars
  <2> QED
      BY <1>2, <1>3, <1>4, <1>5, <1>6, <1>7, <2>1, <2>2

LEMMA OutputsFollowKept ==
    ASSUME Types, Facts, RowInv, [Next]_vars PROVE OutputsFollow'
<1> USE DEF CronBecomes
<1>0. TypeOK /\ CronTypes /\ OutputsFollow /\ KnownRows /\ KnownLocals /\ RowsLocals /\ \A o \in Output : TxOf[o] \in Tx
    BY CronAssumption DEF Types, RowInv, Facts
<1>1. /\ Voiding' \subseteq Voiding \/ (MarkTxsAsVoided /\ Voiding' \subseteq Voiding \cup cron.txs)
      /\ \A t \in Tx : AddNewTx(t) => t \notin Voiding'
    BY VoidingSteps
<1>2. CASE cron' = Idle
    BY <1>0, <1>2, IdleEffect DEF OutputsFollow, Voiding
<1>3. ASSUME NEW t \in Tx, AddNewTx(t) PROVE OutputsFollow'
  <2>1. cron' = cron /\ \A o \in Output : TxOf[o] # t => utxo'[o] = utxo[o]
      BY <1>0, <1>3 DEF AddNewTx, TypeOK
  <2>2. Voiding' \subseteq Voiding
      BY <1>1, <1>3 DEF AddNewTx, MarkTxsAsVoided, Voiding
  <2> QED
      BY <1>0, <1>1, <1>3, <2>1, <2>2 DEF OutputsFollow
<1>4. CASE MarkTxsAsVoided
    BY <1>0, <1>1, <1>4, MarkTxsEffect DEF OutputsFollow, MarkTxsAsVoided, Marking
<1>5. CASE MarkUtxosAsVoided
  <2>1. cron.pc = "markOutputs" /\ cron.rows = {o \in Output : TxOf[o] \in cron.txs}
      BY <1>0, <1>5 DEF MarkUtxosAsVoided, RowsLocals
  <2>2. \A o \in Output : TxOf[o] \in cron.txs => utxo[o] # "none"
      BY <1>0 DEF KnownRows, KnownLocals
  <2>3. \A o \in Output : utxo'[o] = IF TxOf[o] \in cron.txs THEN "voided" ELSE utxo[o]
      BY <1>0, <1>5, <2>1, <2>2 DEF MarkUtxosAsVoided
  <2>4. Voiding' \subseteq Voiding
      BY <1>1, <1>5 DEF MarkUtxosAsVoided, MarkTxsAsVoided
  <2> QED
      BY <1>0, <2>3, <2>4 DEF OutputsFollow
<1>6. CASE utxo' = utxo /\ Voiding' \subseteq Voiding /\ cron'.txs = cron.txs
           /\ (cron.pc \in Marking \ {"getSpenders"} => cron'.pc \in Marking \ {"getSpenders"})
    BY <1>0, <1>6 DEF OutputsFollow
<1>7. CASE utxo' = utxo /\ Voiding' \subseteq Voiding /\ cron.pc \notin Marking \ {"getSpenders"}
    BY <1>0, <1>7 DEF OutputsFollow
<1>8. CASE MarkAddressTxHistoryAsVoided \/ GetTxOutputs \/ GetTxOutputsBySpent \/ UnspendUtxos
  <2>1. utxo' = utxo /\ cron'.txs = cron.txs /\ cron'.pc \in Marking \ {"getSpenders"} /\ cron.pc # "markTxs"
      BY <1>0, <1>8, MarkHistoryEffect, GetOutputsEffect, GetSpentEffect, UnspendEffect
      DEF MarkAddressTxHistoryAsVoided, GetTxOutputs, GetTxOutputsBySpent, UnspendUtxos, rowVars, Marking
  <2>2. Voiding' \subseteq Voiding
      BY <1>1, <2>1 DEF MarkTxsAsVoided
  <2> QED
      BY <1>6, <2>1, <2>2
<1> QED
  <2>1. cron.pc \in Marking \ {"getSpenders"} =>
           MarkAddressTxHistoryAsVoided \/ GetTxOutputs \/ GetTxOutputsBySpent \/ UnspendUtxos
           \/ MarkUtxosAsVoided \/ cron' = cron \/ cron' = Idle
      BY NextStatement DEF Follows, Marking
  <2>2. (\E t \in Tx : AddNewTx(t)) \/ MarkTxsAsVoided \/ MarkUtxosAsVoided \/ utxo' = utxo
      BY RowSteps DEF MarkAddressTxHistoryAsVoided, UnspendUtxos, RowsStay, rowVars
  <2> QED
      BY <1>1, <1>2, <1>3, <1>4, <1>5, <1>6, <1>7, <1>8, <2>1, <2>2

LEMMA SpendersFollowKept ==
    ASSUME Types, Facts, RowInv, NoConflicts, [Next]_vars PROVE SpendersFollow'
<1> USE DEF CronBecomes
<1>0. /\ TypeOK /\ CronTypes /\ SpendersFollow /\ KnownRows /\ OnlyDoubtfulRows
      /\ \A t \in Tx : \A o \in Inputs[t] : o \in Output /\ TxOf[o] \in Tx
      /\ NoTx \notin Tx
    BY CronAssumption DEF Types, RowInv, Facts
<1>1. /\ Voiding' \subseteq Voiding \/ (MarkTxsAsVoided /\ Voiding' \subseteq Voiding \cup cron.txs)
      /\ \A t \in Tx : AddNewTx(t) => t \notin Voiding'
    BY VoidingSteps
<1> SUFFICES ASSUME NEW t \in Tx, t \notin Doubtful', txRow'[t] = "valid",
                    NEW o \in Inputs[t], TxOf[o] \in Voiding'
             PROVE  IsNext(t, o)'
    BY DEF SpendersFollow
<1>2. cron'.visited # {}
    BY DEF Voiding
<1>3. t \notin Doubtful
    BY <1>2, DoubtfulSteps DEF VoidEnds
<1>4. ASSUME AddNewTx(t) PROVE FALSE
  <2>1. TxOf[o] \notin crossed
      BY CrossedSteps DEF Voiding
  <2>2. TxOf[o] \notin Doubtful
      BY <1>4, <2>1, InputsAreSound
  <2>3. Voiding' \subseteq Voiding
      BY <1>1, <1>4 DEF AddNewTx, MarkTxsAsVoided, Voiding
  <2> QED
      BY <2>2, <2>3 DEF Doubtful, Voiding
<1>5. txRow[t] = "valid"
  <2>1. ASSUME NEW u \in Tx, AddNewTx(u), u # t PROVE txRow'[t] = txRow[t]
      BY <1>0, <2>1 DEF AddNewTx, TypeOK
  <2>2. MarkTxsAsVoided => txRow[t] = "valid"
      BY <1>0 DEF MarkTxsAsVoided, TypeOK
  <2> QED
      BY <1>4, <2>1, <2>2, RowSteps DEF MarkAddressTxHistoryAsVoided, UnspendUtxos, MarkUtxosAsVoided, RowsStay, rowVars
<1>6. utxo[o] # "none"
    BY <1>0, <1>5 DEF KnownRows
<1>7. CASE TxOf[o] \notin Voiding
  <2>1. MarkTxsAsVoided /\ TxOf[o] \in cron.txs
      BY <1>1, <1>7
  <2>2. TxOf[o] \notin Doubtful
      BY <1>7, CrossedSteps DEF Voiding, Doubtful
  <2>3. spentBy[o] = t
      BY <1>0, <1>3, <1>5, <2>2 DEF OnlyDoubtfulRows
  <2> QED
      BY <1>0, <2>1, <2>3, MarkTxsEffect DEF IsNext, MarkTxsAsVoided
<1>8. CASE TxOf[o] \in Voiding
  <2>1. IsNext(t, o)
      BY <1>0, <1>3, <1>5, <1>8 DEF SpendersFollow
  <2>2. CASE cron' = cron
    <3>1. ASSUME spentBy[o] = t PROVE spentBy'[o] = t
      <4>1. ASSUME NEW u \in Tx, AddNewTx(u) PROVE spentBy'[o] = t
        <5>1. u # t /\ u # TxOf[o]
            BY <1>1, <1>4, <4>1
        <5>2. o \notin Inputs[u]
            BY <5>1 DEF NoConflicts
        <5> QED
            BY <1>0, <3>1, <4>1, <5>1, <5>2 DEF AddNewTx
      <4>2. ASSUME UnspendUtxos PROVE FALSE
          BY <1>0, <2>2, <4>2, UnspendEffect DEF UnspendUtxos
      <4> QED
          BY <3>1, <4>1, <4>2, RowSteps
          DEF MarkTxsAsVoided, MarkAddressTxHistoryAsVoided, MarkUtxosAsVoided, RowsStay, rowVars
    <3> QED
        BY <2>1, <2>2, <3>1 DEF IsNext
  <2>3. CASE cron' = Idle
      BY <1>0, <1>2, <2>3, IdleEffect
  <2>4. CASE MarkTxsAsVoided
    <3>1. t \in cron.txs
        BY <2>1, <2>4 DEF IsNext, MarkTxsAsVoided
    <3> QED
        BY <1>0, <2>4, <3>1, MarkTxsEffect DEF Doubtful
  <2>5. CASE MarkAddressTxHistoryAsVoided
      BY <1>0, <2>1, <2>5, MarkHistoryEffect DEF IsNext, MarkAddressTxHistoryAsVoided
  <2>6. CASE GetTxOutputs
    <3>1. TxOf[o] \in cron.txs /\ spentBy[o] = t
        BY <2>1, <2>6 DEF IsNext, GetTxOutputs
    <3>2. t \in SpendersRead
        BY <1>0, <1>6, <3>1 DEF SpendersRead, RowsRead
    <3> QED
        BY <1>0, <2>6, <3>1, <3>2, GetOutputsEffect DEF IsNext
  <2>7. CASE GetTxOutputsBySpent
      BY <1>0, <2>1, <2>7, GetSpentEffect DEF IsNext, GetTxOutputsBySpent
  <2>8. CASE UnspendUtxos
      BY <1>0, <2>1, <2>8, UnspendEffect DEF IsNext, UnspendUtxos
  <2>9. CASE MarkUtxosAsVoided
      BY <1>0, <2>1, <2>9, MarkOutputsEffect DEF IsNext, MarkUtxosAsVoided
  <2>10. CASE GetSpenders
    <3>1. t \in NewTxs
        BY <1>5, <2>1, <2>10 DEF IsNext, GetSpenders, NewTxs
    <3> QED
        BY <1>0, <2>10, <3>1, GetSpendersEffect DEF IsNext
  <2> QED
      BY <2>1, <2>2, <2>3, <2>4, <2>5, <2>6, <2>7, <2>8, <2>9, <2>10, NextStatement DEF Follows, IsNext
<1> QED
    BY <1>7, <1>8

LEMMA RowInvInit == ASSUME Init PROVE RowInv
BY CronAssumption DEF Init, RowInv, OnlyDoubtfulRows, HistoryFollows, OutputsFollow, SpendersFollow, Voiding, Idle,
   OutputsOf

\* A void that has ended has ended in every table and for every generation, whatever
\* arrives between its statements: rows of other transactions agree, and a valid one
\* spends live outputs marked with it.
THEOREM VoidsAreComplete == ASSUME NoConflicts PROVE Spec => []OnlyDoubtfulRows
<1> DEFINE Inv == Types /\ Facts /\ RowInv
<1>1. Init => Inv
    BY TypesInit, FactsInit, RowInvInit
<1>2. Inv /\ [Next]_vars => Inv'
  <2> SUFFICES ASSUME Inv, [Next]_vars PROVE Inv'
      OBVIOUS
  <2>1. Types'
      BY CronTypesKept, CountTypesKept, TypeOKKept DEF Types
  <2>2. Facts'
      BY FactsKept
  <2>3. RowInv'
      BY DoubtfulRowsKept, HistoryFollowsKept, OutputsFollowKept, SpendersFollowKept DEF RowInv
  <2> QED
      BY <2>1, <2>2, <2>3
<1>3. Inv => OnlyDoubtfulRows
    BY DEF RowInv
<1> QED
    BY <1>1, <1>2, <1>3, PTL DEF Spec

-----------------------------------------------------------------------------
(* Marks: who spends an output *)

\* A mark is that of a valid transaction, and a void takes away the marks of what it
\* voids between the statement that reads them and the one that unspends.
MarksAreValid ==
    \A o \in Output : spentBy[o] # NoTx => txRow[spentBy[o]] = "valid" \/ spentBy[o] \in Doubtful
MarksAreTaken ==
    \A o \in Output : spentBy[o] \in Voiding =>
        /\ spentBy[o] \in cron.txs
        /\ cron.pc \in {"markHistory", "getOutputs", "getSpent"} \/ (cron.pc = "unspend" /\ o \in cron.spent)

MarkInv == MarksAreValid /\ MarksAreTaken

LEMMA MarksAreTakenKept ==
    ASSUME Types, Facts, MarkInv, EveryTxHasOutputs, [Next]_vars PROVE MarksAreTaken'
<1> USE DEF CronBecomes
<1>0. /\ TypeOK /\ CronTypes /\ MarksAreTaken /\ RowsLocals
      /\ NoTx \notin Tx /\ Voiding \subseteq Tx /\ Voiding' \subseteq Tx
    BY CronAssumption, CronTypesKept DEF Types, MarkInv, Facts, Voiding, CronTypes
<1>1. /\ Voiding' \subseteq Voiding \/ (MarkTxsAsVoided /\ Voiding' \subseteq Voiding \cup cron.txs)
      /\ \A t \in Tx : AddNewTx(t) => t \notin Voiding'
    BY VoidingSteps
<1> SUFFICES ASSUME NEW o \in Output, spentBy'[o] \in Voiding'
             PROVE  /\ spentBy'[o] \in cron'.txs
                    /\ \/ cron'.pc \in {"markHistory", "getOutputs", "getSpent"}
                       \/ cron'.pc = "unspend" /\ o \in cron'.spent
    BY DEF MarksAreTaken
<1>2. cron'.visited # {}
    BY DEF Voiding
<1>3. spentBy'[o] = spentBy[o]
  <2>1. ASSUME NEW t \in Tx, AddNewTx(t) PROVE spentBy'[o] = spentBy[o]
    <3>1. spentBy'[o] # t /\ spentBy'[o] # NoTx
        BY <1>0, <1>1, <2>1
    <3> QED
        BY <2>1, <3>1 DEF AddNewTx
  <2>2. ASSUME UnspendUtxos PROVE spentBy'[o] = spentBy[o]
      BY <1>0, <2>2 DEF UnspendUtxos
  <2> QED
      BY <2>1, <2>2, RowSteps DEF MarkTxsAsVoided, MarkAddressTxHistoryAsVoided, MarkUtxosAsVoided, RowsStay, rowVars
<1>4. CASE MarkTxsAsVoided
  <2>1. spentBy[o] \in cron.txs
      BY <1>0, <1>1, <1>3, <1>4 DEF MarksAreTaken, MarkTxsAsVoided
  <2> QED
      BY <1>0, <1>3, <1>4, <2>1, MarkTxsEffect
<1>5. CASE spentBy[o] \in Voiding
  <2>1. /\ spentBy[o] \in cron.txs
        /\ cron.pc \in {"markHistory", "getOutputs", "getSpent"} \/ (cron.pc = "unspend" /\ o \in cron.spent)
      BY <1>0, <1>5 DEF MarksAreTaken
  <2>2. CASE cron' = cron
      BY <1>3, <2>1, <2>2
  <2>3. CASE cron' = Idle
      BY <1>0, <1>2, <2>3, IdleEffect
  <2>4. CASE MarkAddressTxHistoryAsVoided
      BY <1>0, <1>3, <2>1, <2>4, MarkHistoryEffect
  <2>5. CASE GetTxOutputs
      BY <1>0, <1>3, <2>1, <2>5, GetOutputsEffect
  <2>6. CASE GetTxOutputsBySpent
    <3>1. cron.rows = {r \in Output : TxOf[r] \in cron.txs}
        BY <1>0, <2>6 DEF GetTxOutputsBySpent, RowsLocals
    <3>2. PICK r \in Output : TxOf[r] = spentBy[o]
        BY <1>0, <1>5 DEF EveryTxHasOutputs, OutputsOf
    <3>3. o \in SpentRead
        BY <2>1, <3>1, <3>2 DEF SpentRead
    <3> QED
        BY <1>0, <1>3, <2>1, <2>6, <3>3, GetSpentEffect
  <2>7. CASE UnspendUtxos
    <3>1. o \in cron.spent
        BY <2>1, <2>7 DEF UnspendUtxos
    <3>2. spentBy'[o] = NoTx
        BY <2>7, <3>1 DEF UnspendUtxos
    <3> QED
        BY <1>0, <3>2
  <2> QED
      BY <2>1, <2>2, <2>3, <2>4, <2>5, <2>6, <2>7, NextStatement DEF Follows
<1> QED
    BY <1>1, <1>3, <1>4, <1>5

LEMMA MarksAreValidKept ==
    ASSUME Types, Facts, MarkInv, [Next]_vars PROVE MarksAreValid'
<1> USE DEF CronBecomes
<1>0. /\ TypeOK /\ CronTypes /\ MarksAreValid /\ MarksAreTaken /\ NoTx \notin Tx
      /\ \A o \in Output : spentBy[o] # NoTx => spentBy[o] \in Tx
    BY CronAssumption DEF Types, MarkInv, TypeOK
<1>1. CASE VoidEnds
  <2>1. /\ UNCHANGED <<txRow, spentBy>> /\ crossed' = crossed
        /\ cron.pc \in {"sumLocked", "getSpenders"}
      BY <1>1 DEF VoidEnds, RowsStay, rowVars, SumLocked, GetSpenders
  <2>2. \A o \in Output : spentBy[o] \notin Voiding
      BY <1>0, <2>1 DEF MarksAreTaken
  <2> QED
      BY <1>0, <2>1, <2>2 DEF MarksAreValid, Voiding, Doubtful
<1>2. CASE Doubtful \subseteq Doubtful'
  <2>1. ASSUME NEW t \in Tx, AddNewTx(t) PROVE MarksAreValid'
    <3>1. /\ \A u \in Tx : txRow'[u] = IF u = t THEN "valid" ELSE txRow[u]
          /\ \A o \in Output : spentBy'[o] \in {t, NoTx, spentBy[o]}
        BY <1>0, <2>1 DEF AddNewTx, TypeOK
    <3> QED
        BY <1>0, <1>2, <3>1 DEF MarksAreValid
  <2>2. CASE MarkTxsAsVoided
    <3>1. cron.txs \subseteq Doubtful' /\ spentBy' = spentBy
          /\ \A u \in Tx : u \notin cron.txs => txRow'[u] = txRow[u]
        BY <1>0, <2>2, MarkTxsEffect DEF MarkTxsAsVoided, Doubtful
    <3> QED
        BY <1>0, <1>2, <3>1 DEF MarksAreValid
  <2>3. CASE UnspendUtxos
      BY <1>0, <1>2, <2>3 DEF MarksAreValid, UnspendUtxos
  <2>4. CASE txRow' = txRow /\ spentBy' = spentBy
      BY <1>0, <1>2, <2>4 DEF MarksAreValid
  <2> QED
      BY <2>1, <2>2, <2>3, <2>4, RowSteps DEF MarkAddressTxHistoryAsVoided, MarkUtxosAsVoided, RowsStay, rowVars
<1> QED
    BY <1>1, <1>2, DoubtfulSteps

LEMMA MarkInvInit == ASSUME Init PROVE MarkInv
BY CronAssumption DEF Init, MarkInv, MarksAreValid, MarksAreTaken, Voiding, Idle

-----------------------------------------------------------------------------
(* Balances *)

\* The outputs of an address.
At(S, a) == {o \in S : AddressOf[o] = a}

LEMMA SumAt == \A S, a : SumOf(S, a) = SumOver(Value, At(S, a))
BY SumOfIsSum DEF At

LEMMA SumOfSameSet == ASSUME NEW a, NEW S, NEW T, At(S, a) = At(T, a) PROVE SumOf(S, a) = SumOf(T, a)
BY SumAt

LEMMA SumOfNone == ASSUME NEW a, NEW S, At(S, a) = {} PROVE SumOf(S, a) = 0
<1>1. SumOver(Value, {}) = 0
    BY ValueIsNat, SumUnfolds
<1> QED
    BY <1>1, SumAt

LEMMA SumOfParts ==
    ASSUME NEW a, NEW S \in SUBSET Output, NEW T \in SUBSET Output, S \cap T = {}
    PROVE  SumOf(S \cup T, a) = SumOf(S, a) + SumOf(T, a)
<1>1. /\ At(S, a) \in SUBSET Output /\ At(T, a) \in SUBSET Output /\ At(S, a) \cap At(T, a) = {}
      /\ At(S \cup T, a) = At(S, a) \cup At(T, a)
    BY DEF At
<1>2. SumOver(Value, At(S, a) \cup At(T, a)) = SumOver(Value, At(S, a)) + SumOver(Value, At(T, a))
    BY <1>1, ValueIsNat, SumOfUnion
<1> QED
    BY <1>1, <1>2, SumAt

\* What an address gains and what it pays.
LEMMA SumOfExchange ==
    ASSUME NEW a, NEW S \in SUBSET Output, NEW T \in SUBSET Output,
           NEW X \in SUBSET Output, NEW I \in SUBSET Output,
           At(I, a) \subseteq At(S, a), At(X, a) \cap At(S, a) = {},
           At(T, a) = (At(S, a) \cup At(X, a)) \ At(I, a)
    PROVE  SumOf(T, a) = SumOf(S, a) + SumOf(X, a) - SumOf(I, a)
<1>1. At(S, a) \in SUBSET Output /\ At(X, a) \in SUBSET Output /\ At(I, a) \in SUBSET At(S, a)
    BY DEF At
<1>2. SumOver(Value, (At(S, a) \cup At(X, a)) \ At(I, a))
          = SumOver(Value, At(S, a)) + SumOver(Value, At(X, a)) - SumOver(Value, At(I, a))
    BY <1>1, ValueIsNat, SumOfChange
<1> QED
    BY <1>2, SumAt

\* An address that a transaction touches whose void was cut short, or met its return.
Crossed(a) == \E t \in crossed : a \in AddressesOf(t)

\* An address the execution is going to rebuild.
ToRebuild(a) ==
    /\ cron.pc \notin Quiet
    /\ a \in AffectedAddresses \/ (cron.pc = "markOutputs" /\ \E o \in cron.spent : AddressOf[o] = a)

UnlockedSum(a) == SumOf(Unspent \ Locked, a)
LockedSum(a) == SumOf(Unspent \cap Locked, a)

BalanceAgrees(a) == ~ToRebuild(a) => unlockedBal[a] + lockedBal[a] = SumOf(Unspent, a)
BalanceIsReset(a) ==
    cron.pc = "sumUnlocked" /\ a \in AffectedAddresses =>
        unlockedBal[a] <= UnlockedSum(a) /\ lockedBal[a] <= LockedSum(a)
BalanceIsHalfSet(a) ==
    cron.pc = "sumLocked" /\ a \in AffectedAddresses =>
        unlockedBal[a] = UnlockedSum(a) /\ lockedBal[a] <= LockedSum(a)

AddressInv(a) == ~Crossed(a) => BalanceAgrees(a) /\ BalanceIsReset(a) /\ BalanceIsHalfSet(a)
BalanceInv == \A a \in Address : AddressInv(a)

LEMMA SumOfHalves ==
    ASSUME NEW a
    PROVE  /\ SumOf(Unspent, a) = UnlockedSum(a) + LockedSum(a)
           /\ SumOf(Unspent, a) \in Nat /\ UnlockedSum(a) \in Nat /\ LockedSum(a) \in Nat
<1>1. Unspent \ Locked \in SUBSET Output /\ Unspent \cap Locked \in SUBSET Output /\ Unspent \in SUBSET Output
      /\ (Unspent \ Locked) \cap (Unspent \cap Locked) = {} /\ (Unspent \ Locked) \cup (Unspent \cap Locked) = Unspent
    BY DEF Unspent
<1>2. SumOf((Unspent \ Locked) \cup (Unspent \cap Locked), a) = SumOf(Unspent \ Locked, a) + SumOf(Unspent \cap Locked, a)
    BY <1>1, SumOfParts
<1> QED
    BY <1>1, <1>2, SumOfNat DEF UnlockedSum, LockedSum

LEMMA CrossedStays == ASSUME [Next]_vars, NEW a PROVE Crossed(a) => Crossed(a)'
<1>1. crossed \subseteq crossed'
    BY CrossedSteps
<1> QED
    BY <1>1 DEF Crossed, AddressesOf, OutputsOf

\* What addNewTx changes at an address no doubtful transaction touches: its outputs
\* become unspent, and its inputs were.
LEMMA UnspentOfNewTx ==
    ASSUME Types, Facts, RowInv, MarkInv, NoConflicts,
           NEW t \in Tx, AddNewTx(t), NEW a \in Address, ~Crossed(a)'
    PROVE  /\ At(Inputs[t], a) \subseteq At(Unspent, a)
           /\ At(OutputsOf(t), a) \cap At(Unspent, a) = {}
           /\ At(Unspent', a) = (At(Unspent, a) \cup At(OutputsOf(t), a)) \ At(Inputs[t], a)
<1>0. /\ TypeOK /\ OnlyDoubtfulRows /\ MarksAreValid /\ SpentByInput /\ NoTx \notin Tx
      /\ \A u \in Tx : \A o \in Inputs[u] : o \in Output /\ TxOf[o] \in Tx /\ TxOf[o] # u
    BY CronAssumption DEF Types, RowInv, MarkInv, Facts
<1>1. /\ txRow[t] # "valid"
      /\ \A o \in Output : utxo'[o] = IF TxOf[o] = t THEN "live" ELSE utxo[o]
      /\ \A o \in Output : spentBy'[o] =
            IF o \in Inputs[t] THEN t
            ELSE IF TxOf[o] = t /\ utxo[o] # "live" THEN NoTx ELSE spentBy[o]
      /\ crossed' = crossed \cup ({t} \cap cron.visited)
    BY DEF AddNewTx
<1>2. Unspent' = {o \in Output : utxo'[o] = "live" /\ spentBy'[o] = NoTx}
    BY DEF Unspent
<1>3. a \in AddressesOf(t) => t \notin Doubtful
    BY <1>1 DEF Crossed, Doubtful, AddressesOf, OutputsOf
<1>4. ASSUME NEW o \in OutputsOf(t), AddressOf[o] = a PROVE utxo[o] # "live"
  <2>1. t \notin Doubtful
      BY <1>3, <1>4 DEF AddressesOf
  <2> QED
      BY <1>0, <1>1, <2>1 DEF OnlyDoubtfulRows, TypeOK
<1>5. ASSUME NEW o \in Inputs[t], AddressOf[o] = a PROVE utxo[o] = "live" /\ spentBy[o] = NoTx
  <2>1. t \notin Doubtful
      BY <1>3, <1>5 DEF AddressesOf
  <2>2. TxOf[o] \notin crossed
      BY <1>0, <1>1, <1>5 DEF Crossed, AddressesOf, OutputsOf
  <2>3. TxOf[o] \notin Doubtful /\ txRow[TxOf[o]] = "valid"
      BY <2>2, InputsAreSound
  <2>4. utxo[o] = "live"
      BY <1>0, <2>3 DEF OnlyDoubtfulRows, OutputsOf
  <2>5. ASSUME spentBy[o] # NoTx PROVE FALSE
    <3>1. spentBy[o] \in Tx /\ o \in Inputs[spentBy[o]]
        BY <1>0, <2>5 DEF SpentByInput, TypeOK
    <3>2. spentBy[o] = t
        BY <3>1 DEF NoConflicts
    <3> QED
        BY <1>0, <1>1, <2>1, <2>5, <3>2 DEF MarksAreValid
  <2> QED
      BY <2>4, <2>5
<1>6. At(Inputs[t], a) \subseteq At(Unspent, a)
    BY <1>0, <1>5 DEF At, Unspent
<1>7. At(OutputsOf(t), a) \cap At(Unspent, a) = {}
    BY <1>4 DEF At, Unspent
<1>8. ASSUME NEW o \in Output, AddressOf[o] = a
      PROVE  o \in Unspent' <=> (o \in Unspent \/ o \in OutputsOf(t)) /\ o \notin Inputs[t]
  <2>1. CASE o \in Inputs[t]
      BY <1>0, <1>1, <1>2, <2>1
  <2>2. CASE o \in OutputsOf(t) /\ o \notin Inputs[t]
    <3>1. TxOf[o] = t /\ utxo[o] # "live"
        BY <1>4, <1>8, <2>2 DEF OutputsOf
    <3> QED
        BY <1>1, <1>2, <2>2, <3>1
  <2>3. CASE o \notin OutputsOf(t) /\ o \notin Inputs[t]
      BY <1>1, <1>2, <2>3 DEF OutputsOf, Unspent
  <2> QED
      BY <2>1, <2>2, <2>3
<1>9. At(Unspent', a) = (At(Unspent, a) \cup At(OutputsOf(t), a)) \ At(Inputs[t], a)
    BY <1>0, <1>2, <1>8 DEF At, Unspent, OutputsOf
<1> QED
    BY <1>6, <1>7, <1>9

LEMMA BalanceOfNewTx ==
    ASSUME Types, Facts, RowInv, MarkInv, NoConflicts, NEW t \in Tx, AddNewTx(t),
           NEW a \in Address, ~Crossed(a)', AddressInv(a), ~Crossed(a)
    PROVE  AddressInv(a)'
<1> DEFINE out == OutputsOf(t)
           in == Inputs[t]
           next == Unspent'
<1>0. /\ out \in SUBSET Output /\ in \in SUBSET Output /\ in \cap Locked = {} /\ out \cap in = {}
      /\ Unspent \in SUBSET Output /\ next \in SUBSET Output
    BY CronAssumption DEF OutputsOf, Unspent
<1>1. /\ At(in, a) \subseteq At(Unspent, a)
      /\ At(out, a) \cap At(Unspent, a) = {}
      /\ At(next, a) = (At(Unspent, a) \cup At(out, a)) \ At(in, a)
    BY UnspentOfNewTx
<1>2. /\ UnlockedSum(a)' = SumOf(next \ Locked, a)
      /\ LockedSum(a)' = SumOf(next \cap Locked, a)
      /\ SumOf(Unspent, a)' = SumOf(next, a)
    BY DEF UnlockedSum, LockedSum
<1>3. /\ unlockedBal'[a] = unlockedBal[a] + SumOf(out \ Locked, a) - SumOf(in, a)
      /\ lockedBal'[a] = lockedBal[a] + SumOf(out \cap Locked, a)
      /\ cron' = cron
    BY DEF AddNewTx
<1> HIDE DEF out, in, next
<1>4. SumOf(next, a) = SumOf(Unspent, a) + SumOf(out, a) - SumOf(in, a)
    BY <1>0, <1>1, SumOfExchange
<1>5. SumOf(next \ Locked, a) = SumOf(Unspent \ Locked, a) + SumOf(out \ Locked, a) - SumOf(in, a)
  <2>1. /\ At(in, a) \subseteq At(Unspent \ Locked, a)
        /\ At(out \ Locked, a) \cap At(Unspent \ Locked, a) = {}
        /\ At(next \ Locked, a) = (At(Unspent \ Locked, a) \cup At(out \ Locked, a)) \ At(in, a)
      BY <1>0, <1>1 DEF At
  <2>2. Unspent \ Locked \in SUBSET Output /\ next \ Locked \in SUBSET Output /\ out \ Locked \in SUBSET Output
      BY <1>0
  <2> DEFINE S == Unspent \ Locked
             T == next \ Locked
             X == out \ Locked
  <2> HIDE DEF S, T, X
  <2>3. /\ At(in, a) \subseteq At(S, a) /\ At(X, a) \cap At(S, a) = {} /\ At(T, a) = (At(S, a) \cup At(X, a)) \ At(in, a)
        /\ S \in SUBSET Output /\ T \in SUBSET Output /\ X \in SUBSET Output
      BY <2>1, <2>2 DEF S, T, X
  <2>4. SumOf(T, a) = SumOf(S, a) + SumOf(X, a) - SumOf(in, a)
      BY <1>0, <2>3, SumOfExchange
  <2> QED
      BY <2>4 DEF S, T, X
<1>6. SumOf(next \cap Locked, a) = SumOf(Unspent \cap Locked, a) + SumOf(out \cap Locked, a)
  <2>1. /\ At({}, a) \subseteq At(Unspent \cap Locked, a)
        /\ At(out \cap Locked, a) \cap At(Unspent \cap Locked, a) = {}
        /\ At(next \cap Locked, a) = (At(Unspent \cap Locked, a) \cup At(out \cap Locked, a)) \ At({}, a)
      BY <1>0, <1>1 DEF At
  <2>2. Unspent \cap Locked \in SUBSET Output /\ next \cap Locked \in SUBSET Output
        /\ out \cap Locked \in SUBSET Output /\ {} \in SUBSET Output
      BY <1>0
  <2>3. SumOf(next \cap Locked, a) = SumOf(Unspent \cap Locked, a) + SumOf(out \cap Locked, a) - SumOf({}, a)
    <3> DEFINE S == Unspent \cap Locked
               T == next \cap Locked
               X == out \cap Locked
               I == {}
    <3> HIDE DEF S, T, X, I
    <3>1. /\ At(I, a) \subseteq At(S, a) /\ At(X, a) \cap At(S, a) = {} /\ At(T, a) = (At(S, a) \cup At(X, a)) \ At(I, a)
          /\ S \in SUBSET Output /\ T \in SUBSET Output /\ X \in SUBSET Output /\ I \in SUBSET Output
        BY <2>1, <2>2 DEF S, T, X, I
    <3>2. SumOf(T, a) = SumOf(S, a) + SumOf(X, a) - SumOf(I, a)
        BY <3>1, SumOfExchange
    <3> QED
        BY <3>2 DEF S, T, X, I
  <2>4. SumOf({}, a) = 0
      BY SumOfNone DEF At
  <2>5. SumOf(Unspent \cap Locked, a) \in Nat /\ SumOf(out \cap Locked, a) \in Nat
      BY <2>2, SumOfNat
  <2> QED
      BY <2>3, <2>4, <2>5
<1>7. SumOf(out, a) = SumOf(out \ Locked, a) + SumOf(out \cap Locked, a)
  <2>1. out = (out \ Locked) \cup (out \cap Locked) /\ out \ Locked \in SUBSET Output /\ out \cap Locked \in SUBSET Output
        /\ (out \ Locked) \cap (out \cap Locked) = {}
      BY <1>0
  <2> QED
      BY <2>1, SumOfParts
<1>8. /\ unlockedBal[a] \in Nat /\ lockedBal[a] \in Nat
      /\ SumOf(out \ Locked, a) \in Nat /\ SumOf(out \cap Locked, a) \in Nat /\ SumOf(in, a) \in Nat
      /\ SumOf(Unspent, a) \in Nat /\ SumOf(Unspent \ Locked, a) \in Nat /\ SumOf(Unspent \cap Locked, a) \in Nat
  <2>1. out \ Locked \in SUBSET Output /\ out \cap Locked \in SUBSET Output
        /\ Unspent \ Locked \in SUBSET Output /\ Unspent \cap Locked \in SUBSET Output
      BY <1>0
  <2> QED
      BY <1>0, <2>1, SumOfNat DEF Types, TypeOK
<1>9. BalanceAgrees(a)'
  <2>1. ToRebuild(a)' <=> ToRebuild(a)
      BY <1>3 DEF ToRebuild, AffectedAddresses
  <2>2. BalanceAgrees(a)
      BY DEF AddressInv
  <2> QED
      BY <1>2, <1>3, <1>4, <1>7, <1>8, <2>1, <2>2 DEF BalanceAgrees
<1>10. BalanceIsReset(a)'
  <2>1. BalanceIsReset(a) /\ AffectedAddresses' = AffectedAddresses
      BY <1>3 DEF AddressInv, AffectedAddresses
  <2> QED
      BY <1>2, <1>3, <1>5, <1>6, <1>8, <2>1 DEF BalanceIsReset, UnlockedSum, LockedSum
<1>11. BalanceIsHalfSet(a)'
  <2>1. BalanceIsHalfSet(a) /\ AffectedAddresses' = AffectedAddresses
      BY <1>3 DEF AddressInv, AffectedAddresses
  <2> QED
      BY <1>2, <1>3, <1>5, <1>6, <1>8, <2>1 DEF BalanceIsHalfSet, UnlockedSum, LockedSum
<1> QED
    BY <1>9, <1>10, <1>11 DEF AddressInv

\* What a step keeps that moves nothing at the address.
LEMMA BalanceUntouched ==
    ASSUME NEW a \in Address, AddressInv(a), ~Crossed(a),
           At(Unspent', a) = At(Unspent, a), unlockedBal'[a] = unlockedBal[a], lockedBal'[a] = lockedBal[a],
           ToRebuild(a) => ToRebuild(a)',
           cron' = cron \/ cron'.pc \notin {"sumUnlocked", "sumLocked"} \/ a \notin AffectedAddresses'
    PROVE  AddressInv(a)'
<1> DEFINE next == Unspent'
<1>1. /\ UnlockedSum(a)' = SumOf(next \ Locked, a)
      /\ LockedSum(a)' = SumOf(next \cap Locked, a)
      /\ SumOf(Unspent, a)' = SumOf(next, a)
    BY DEF UnlockedSum, LockedSum
<1>2. /\ At(next, a) = At(Unspent, a)
      /\ At(next \ Locked, a) = At(Unspent \ Locked, a)
      /\ At(next \cap Locked, a) = At(Unspent \cap Locked, a)
    BY DEF At
<1> HIDE DEF next
<1>3. /\ SumOf(next, a) = SumOf(Unspent, a)
      /\ SumOf(next \ Locked, a) = SumOf(Unspent \ Locked, a)
      /\ SumOf(next \cap Locked, a) = SumOf(Unspent \cap Locked, a)
    BY <1>2, SumAt
<1>4. /\ UnlockedSum(a)' = UnlockedSum(a) /\ LockedSum(a)' = LockedSum(a)
      /\ SumOf(Unspent, a)' = SumOf(Unspent, a)
    BY <1>1, <1>3 DEF UnlockedSum, LockedSum
<1>5. BalanceAgrees(a) /\ BalanceIsReset(a) /\ BalanceIsHalfSet(a)
    BY DEF AddressInv
<1>6. BalanceAgrees(a)'
    BY <1>4, <1>5 DEF BalanceAgrees
<1>7. BalanceIsReset(a)' /\ BalanceIsHalfSet(a)'
  <2>1. CASE cron' = cron
    <3>1. AffectedAddresses' = AffectedAddresses
        BY <2>1 DEF AffectedAddresses
    <3> QED
        BY <1>4, <1>5, <2>1, <3>1 DEF BalanceIsReset, BalanceIsHalfSet
  <2>2. CASE cron'.pc \notin {"sumUnlocked", "sumLocked"} \/ a \notin AffectedAddresses'
      BY <2>2 DEF BalanceIsReset, BalanceIsHalfSet
  <2> QED
      BY <2>1, <2>2
<1> QED
    BY <1>6, <1>7 DEF AddressInv

\* An execution that ends in the middle of a void was stopped.
LEMMA StopSteps ==
    ASSUME CronTypes, [Next]_vars, cron.pc \notin Quiet, cron' = Idle PROVE CronStops
<1> USE DEF CronBecomes
<1>0. cron.pc # "idle" /\ cron'.pc = "idle"
    BY IdleEffect DEF Quiet
<1>1. CASE \E t \in Tx : Handle(t)
    BY <1>1 DEF Handle, Quiet
<1>2. CASE \E S \in SUBSET Tx : Fetch(S)
    BY <1>2 DEF Fetch, Quiet
<1>3. CASE Finish \/ WriteTokenCount \/ ReadDiffs \/ \E a \in Address : WriteCounts(a)
    BY <1>3 DEF Finish, WriteTokenCount, WriteCounts, ReadDiffs, Quiet
<1>4. CASE \E t \in Tx : Around(t)
    BY <1>0, <1>4, AroundEffect
<1>5. CASE UNCHANGED vars
    BY <1>0, <1>5 DEF vars
<1>6. ~(MarkTxsAsVoided \/ MarkAddressTxHistoryAsVoided \/ GetTxOutputs \/ GetTxOutputsBySpent
        \/ UnspendUtxos \/ MarkUtxosAsVoided)
    BY <1>0, MarkTxsEffect, MarkHistoryEffect, GetOutputsEffect, GetSpentEffect, UnspendEffect, MarkOutputsEffect
<1>7. ~(GetSpenders \/ ReadCounts \/ ResetBalances \/ SumUnlocked \/ SumLocked)
    BY <1>0, GetSpendersEffect, ReadCountsEffect, ResetEffect, SumUnlockedEffect, SumLockedEffect
<1> QED
    BY <1>1, <1>2, <1>3, <1>4, <1>5, <1>6, <1>7, StepsAreNamed DEF Named

\* What is to be rebuilt is an address of the void under way.
LEMMA RebuiltIsVisited ==
    ASSUME Types, Facts, NEW a \in Address, ToRebuild(a) PROVE \E t \in cron.visited : a \in AddressesOf(t)
<1>1. /\ CronTypes /\ VisitedLocals /\ AffectedLocals /\ SpentLocals /\ cron.pc \notin Quiet
      /\ AddressOf \in [Output -> Address] /\ TxOf \in [Output -> Tx] /\ Inputs \in [Tx -> SUBSET Output]
    BY CronAssumption DEF Types, Facts, ToRebuild
<1>2. \E o \in Output : AddressOf[o] = a /\ Touches(cron.visited, o)
  <2>1. CASE a \in AffectedAddresses
      BY <1>1, <2>1 DEF AffectedAddresses, AffectedLocals, CronTypes
  <2>2. CASE cron.pc = "markOutputs" /\ \E o \in cron.spent : AddressOf[o] = a
    <3>1. PICK o \in cron.spent : AddressOf[o] = a
        BY <2>2
    <3>2. o \in Output /\ (\E t \in cron.txs : o \in Inputs[t]) /\ cron.txs \subseteq cron.visited
        BY <1>1, <2>2 DEF CronTypes, SpentLocals, VisitedLocals, Marking
    <3> QED
        BY <3>1, <3>2 DEF Touches
  <2> QED
      BY <2>1, <2>2 DEF ToRebuild
<1> QED
    BY <1>1, <1>2 DEF Touches, AddressesOf, OutputsOf

\* Until the sums are written, or the void is cut short, the address waits for its rebuild.
LEMMA RebuildWaits ==
    ASSUME Types, Facts, [Next]_vars, NEW a \in Address, ~Crossed(a)', ~SumLocked
    PROVE  ToRebuild(a) => ToRebuild(a)'
<1> USE DEF CronBecomes
<1>0. /\ CronTypes /\ VisitedLocals /\ AffectedLocals /\ SpentLocals
      /\ AddressOf \in [Output -> Address] /\ TxOf \in [Output -> Tx] /\ Inputs \in [Tx -> SUBSET Output]
    BY CronAssumption DEF Types, Facts
<1> SUFFICES ASSUME ToRebuild(a) PROVE ToRebuild(a)'
    OBVIOUS
<1>1. /\ cron.pc \in {"markTxs"} \cup Marking \cup Rebuilding
      /\ a \in AffectedAddresses \/ (cron.pc = "markOutputs" /\ \E o \in cron.spent : AddressOf[o] = a)
    BY <1>0 DEF ToRebuild, CronTypes
<1>2. ASSUME cron'.affected = cron.affected, cron.pc # "markOutputs", cron'.pc \notin Quiet PROVE ToRebuild(a)'
    BY <1>1, <1>2 DEF ToRebuild, AffectedAddresses
<1>3. CASE cron' = cron
    BY <1>3 DEF ToRebuild, AffectedAddresses
<1>4. CASE cron' = Idle
  <2>1. crossed' = crossed \cup cron.visited
      BY <1>0, <1>4, StopSteps DEF CronStops, ToRebuild
  <2>2. \E t \in cron.visited : a \in AddressesOf(t)
      BY RebuiltIsVisited
  <2>3. Crossed(a)'
      BY <2>1, <2>2 DEF Crossed, AddressesOf, OutputsOf
  <2> QED
      BY <2>3
<1>5. CASE MarkTxsAsVoided \/ MarkAddressTxHistoryAsVoided \/ GetTxOutputs \/ GetTxOutputsBySpent \/ UnspendUtxos
  <2>1. cron'.affected = cron.affected /\ cron'.pc \notin Quiet
      BY <1>0, <1>5, MarkTxsEffect, MarkHistoryEffect, GetOutputsEffect, GetSpentEffect, UnspendEffect DEF Quiet
  <2>2. cron.pc # "markOutputs"
      BY <1>5 DEF MarkTxsAsVoided, MarkAddressTxHistoryAsVoided, GetTxOutputs, GetTxOutputsBySpent, UnspendUtxos
  <2> QED
      BY <1>2, <2>1, <2>2
<1>6. CASE MarkUtxosAsVoided
  <2>1. cron'.affected = AllAffected /\ cron'.pc = "getSpenders"
      BY <1>0, <1>6, MarkOutputsEffect
  <2> QED
      BY <1>1, <2>1 DEF ToRebuild, AffectedAddresses, AllAffected, Quiet
<1>7. CASE GetSpenders
  <2>1. cron.pc = "getSpenders" /\ cron.affected # {}
      BY <1>1, <1>7 DEF GetSpenders, AffectedAddresses
  <2>2. cron'.affected = cron.affected /\ cron'.pc \notin Quiet
      BY <1>0, <1>7, <2>1, GetSpendersEffect DEF Quiet
  <2> QED
      BY <1>2, <2>1, <2>2
<1>8. CASE ReadCounts \/ ResetBalances \/ SumUnlocked
  <2>1. cron'.affected = cron.affected /\ cron'.pc \notin Quiet
      BY <1>0, <1>8, ReadCountsEffect, ResetEffect, SumUnlockedEffect DEF Quiet
  <2>2. cron.pc # "markOutputs"
      BY <1>8 DEF ReadCounts, ResetBalances, SumUnlocked
  <2> QED
      BY <1>2, <2>1, <2>2
<1> QED
    BY <1>1, <1>3, <1>4, <1>5, <1>6, <1>7, <1>8, NextStatement DEF Follows, Marking, Rebuilding

LEMMA UnspentStays ==
    ASSUME RowsStay \/ MarkTxsAsVoided \/ MarkAddressTxHistoryAsVoided PROVE Unspent' = Unspent
BY DEF RowsStay, MarkTxsAsVoided, MarkAddressTxHistoryAsVoided, rowVars, Unspent

\* Only addNewTx and the rebuild write balances.
LEMMA BalanceSteps ==
    ASSUME [Next]_vars
    PROVE  \/ \E t \in Tx : AddNewTx(t)
           \/ ResetBalances \/ SumUnlocked \/ SumLocked
           \/ unlockedBal' = unlockedBal /\ lockedBal' = lockedBal
<1> DEFINE Same == unlockedBal' = unlockedBal /\ lockedBal' = lockedBal
<1>1. ASSUME NEW t \in Tx, Around(t) PROVE Same \/ AddNewTx(t)
    BY <1>1 DEF Around, NodeVoids, NodeTakesBack, AlreadyKnown, balanceVars
<1>2. ASSUME NEW S, Fetch(S) PROVE Same
    BY <1>2 DEF Fetch, balanceVars
<1>3. ASSUME NEW t, Handle(t) PROVE Same
    BY <1>3 DEF Handle, balanceVars
<1>4. ASSUME NEW b, WriteCounts(b) PROVE Same
    BY <1>4 DEF WriteCounts, balanceVars
<1>5. CASE MarkTxsAsVoided \/ MarkAddressTxHistoryAsVoided \/ UnspendUtxos \/ MarkUtxosAsVoided
           \/ Finish \/ GetTxOutputs \/ GetTxOutputsBySpent \/ GetSpenders
           \/ ReadCounts \/ ReadDiffs \/ WriteTokenCount \/ CronStops
    BY <1>5 DEF MarkTxsAsVoided, MarkAddressTxHistoryAsVoided, UnspendUtxos, MarkUtxosAsVoided,
       Finish, GetTxOutputs, GetTxOutputsBySpent, GetSpenders, ReadCounts,
       ReadDiffs, WriteTokenCount, CronStops, balanceVars
<1>6. CASE UNCHANGED vars
    BY <1>6 DEF vars, balanceVars
<1> QED
    BY <1>1, <1>2, <1>3, <1>4, <1>5, <1>6, StepsAreNamed DEF Named

\* The three statements that rebuild.
LEMMA BalanceOfReset ==
    ASSUME Types, NEW a \in Address, AddressInv(a), ~Crossed(a), ResetBalances PROVE AddressInv(a)'
<1> USE DEF CronBecomes
<1>0. /\ CronTypes /\ Unspent' = Unspent /\ cron.pc = "reset"
      /\ cron'.pc = "sumUnlocked" /\ cron'.affected = cron.affected /\ AffectedAddresses' = AffectedAddresses
  <2>1. CronTypes
      BY DEF Types
  <2>2. Unspent' = Unspent /\ cron.pc = "reset"
      BY UnspentStays DEF ResetBalances, RowsStay
  <2> QED
      BY <2>1, <2>2, ResetEffect DEF AffectedAddresses
<1>1. CASE a \in AffectedAddresses
  <2>1. unlockedBal'[a] = 0 /\ lockedBal'[a] = 0
      BY <1>1 DEF ResetBalances
  <2>2. UnlockedSum(a)' = UnlockedSum(a) /\ LockedSum(a)' = LockedSum(a)
      BY <1>0 DEF UnlockedSum, LockedSum
  <2>3. ToRebuild(a)'
      BY <1>0, <1>1 DEF ToRebuild, Quiet
  <2> QED
      BY <1>0, <2>1, <2>2, <2>3, SumOfHalves DEF AddressInv, BalanceAgrees, BalanceIsReset, BalanceIsHalfSet
<1>2. CASE a \notin AffectedAddresses
  <2>1. unlockedBal'[a] = unlockedBal[a] /\ lockedBal'[a] = lockedBal[a] /\ ~ToRebuild(a)
      BY <1>0, <1>2 DEF ResetBalances, ToRebuild
  <2> QED
      BY <1>0, <1>2, <2>1, BalanceUntouched
<1> QED
    BY <1>1, <1>2

\* What INSERT ... SELECT leaves: the sum, if the balance was at most the sum.
LEMMA SumsAreWritten ==
    ASSUME NEW balance, NEW S \in SUBSET Output, NEW a \in Address, a \in AffectedAddresses,
           balance[a] \in Nat, balance[a] <= SumOf(S, a)
    PROVE  WithSums(balance, S)[a] = SumOf(S, a)
<1>1. CASE \E o \in S : AddressOf[o] = a
    BY <1>1 DEF WithSums
<1>2. CASE ~ \E o \in S : AddressOf[o] = a
  <2>1. WithSums(balance, S)[a] = balance[a]
      BY <1>2 DEF WithSums
  <2>2. SumOf(S, a) = 0
      BY <1>2, SumOfNone DEF At
  <2> QED
      BY <2>1, <2>2
<1> QED
    BY <1>1, <1>2

LEMMA BalanceOfSumUnlocked ==
    ASSUME Types, NEW a \in Address, AddressInv(a), ~Crossed(a), SumUnlocked PROVE AddressInv(a)'
<1> USE DEF CronBecomes
<1>1. CronTypes /\ unlockedBal[a] \in Nat /\ Unspent \in SUBSET Output
    BY DEF Types, TypeOK, Unspent
<1>2. /\ Unspent' = Unspent /\ cron.pc = "sumUnlocked" /\ lockedBal' = lockedBal
      /\ unlockedBal' = WithSums(unlockedBal, Unspent \ Locked)
    BY UnspentStays DEF SumUnlocked, RowsStay
<1>3. cron'.pc = "sumLocked" /\ AffectedAddresses' = AffectedAddresses
    BY <1>1, SumUnlockedEffect DEF AffectedAddresses
<1>4. CASE a \in AffectedAddresses
  <2>1. unlockedBal[a] <= UnlockedSum(a) /\ lockedBal[a] <= LockedSum(a)
      BY <1>2, <1>4 DEF AddressInv, BalanceIsReset
  <2>2. unlockedBal'[a] = UnlockedSum(a)
    <3> DEFINE S == Unspent \ Locked
    <3>1. S \in SUBSET Output /\ unlockedBal[a] <= SumOf(S, a)
        BY <1>1, <2>1 DEF UnlockedSum
    <3> HIDE DEF S
    <3>2. WithSums(unlockedBal, S)[a] = SumOf(S, a)
        BY <1>1, <1>4, <3>1, SumsAreWritten
    <3> QED
        BY <1>2, <3>2 DEF S, UnlockedSum
  <2>3. UnlockedSum(a)' = UnlockedSum(a) /\ LockedSum(a)' = LockedSum(a)
      BY <1>2 DEF UnlockedSum, LockedSum
  <2>4. ToRebuild(a)'
      BY <1>3, <1>4 DEF ToRebuild, Quiet
  <2> QED
      BY <1>2, <1>3, <2>1, <2>2, <2>3, <2>4 DEF AddressInv, BalanceAgrees, BalanceIsReset, BalanceIsHalfSet
<1>5. CASE a \notin AffectedAddresses
  <2>1. unlockedBal'[a] = unlockedBal[a] /\ ~ToRebuild(a)
      BY <1>2, <1>5 DEF WithSums, ToRebuild
  <2> QED
      BY <1>2, <1>3, <1>5, <2>1, BalanceUntouched
<1> QED
    BY <1>4, <1>5

LEMMA BalanceOfSumLocked ==
    ASSUME Types, NEW a \in Address, AddressInv(a), ~Crossed(a), SumLocked PROVE AddressInv(a)'
<1> USE DEF CronBecomes
<1>1. CronTypes /\ lockedBal[a] \in Nat /\ Unspent \in SUBSET Output
    BY DEF Types, TypeOK, Unspent
<1>2. /\ Unspent' = Unspent /\ cron.pc = "sumLocked" /\ unlockedBal' = unlockedBal
      /\ lockedBal' = WithSums(lockedBal, Unspent \cap Locked)
    BY UnspentStays DEF SumLocked, RowsStay
<1>3. cron'.pc = "readDiffs" /\ AffectedAddresses' = AffectedAddresses
    BY <1>1, SumLockedEffect DEF AffectedAddresses
<1>4. CASE a \in AffectedAddresses
  <2>1. unlockedBal[a] = UnlockedSum(a) /\ lockedBal[a] <= LockedSum(a)
      BY <1>2, <1>4 DEF AddressInv, BalanceIsHalfSet
  <2>2. lockedBal'[a] = LockedSum(a)
    <3> DEFINE S == Unspent \cap Locked
    <3>1. S \in SUBSET Output /\ lockedBal[a] <= SumOf(S, a)
        BY <1>1, <2>1 DEF LockedSum
    <3> HIDE DEF S
    <3>2. WithSums(lockedBal, S)[a] = SumOf(S, a)
        BY <1>1, <1>4, <3>1, SumsAreWritten
    <3> QED
        BY <1>2, <3>2 DEF S, LockedSum
  <2>3. SumOf(Unspent, a)' = SumOf(Unspent, a)
      BY <1>2
  <2> QED
      BY <1>2, <1>3, <2>1, <2>2, <2>3, SumOfHalves DEF AddressInv, BalanceAgrees, BalanceIsReset, BalanceIsHalfSet
<1>5. CASE a \notin AffectedAddresses
  <2>1. lockedBal'[a] = lockedBal[a] /\ ~ToRebuild(a)
      BY <1>2, <1>5 DEF WithSums, ToRebuild
  <2> QED
      BY <1>2, <1>3, <1>5, <2>1, BalanceUntouched
<1> QED
    BY <1>4, <1>5

\* What the void unspends or marks is at addresses it is going to rebuild.
LEMMA UnspentElsewhere ==
    ASSUME Types, Facts, NEW a \in Address, UnspendUtxos \/ MarkUtxosAsVoided
    PROVE  ToRebuild(a)' \/ At(Unspent', a) = At(Unspent, a)
<1> USE DEF CronBecomes
<1>0. CronTypes /\ RowsLocals /\ TypeOK /\ NoTx \notin Tx
    BY CronAssumption DEF Types, Facts
<1>1. Unspent' = {o \in Output : utxo'[o] = "live" /\ spentBy'[o] = NoTx}
    BY DEF Unspent
<1>2. CASE UnspendUtxos
  <2>1. /\ cron'.pc = "markOutputs" /\ cron'.spent = cron.spent
      BY <1>0, <1>2, UnspendEffect
  <2>2. utxo' = utxo /\ \A o \in Output : o \notin cron.spent => spentBy'[o] = spentBy[o]
      BY <1>2 DEF UnspendUtxos
  <2>3. CASE \E o \in cron.spent : AddressOf[o] = a
      BY <2>1, <2>3 DEF ToRebuild, Quiet
  <2>4. CASE ~ \E o \in cron.spent : AddressOf[o] = a
      BY <1>1, <2>2, <2>4 DEF At, Unspent
  <2> QED
      BY <2>3, <2>4
<1>3. CASE MarkUtxosAsVoided
  <2>1. cron'.pc = "getSpenders" /\ cron'.affected = AllAffected
      BY <1>0, <1>3, MarkOutputsEffect
  <2>2. cron.rows = {o \in Output : TxOf[o] \in cron.txs}
      BY <1>0, <1>3 DEF RowsLocals, MarkUtxosAsVoided
  <2>3. spentBy' = spentBy /\ \A o \in Output : o \notin cron.rows => utxo'[o] = utxo[o]
      BY <1>3, <2>2 DEF MarkUtxosAsVoided
  <2>4. CASE \E o \in cron.rows : AddressOf[o] = a
      BY <2>1, <2>4 DEF ToRebuild, Quiet, AffectedAddresses, AllAffected
  <2>5. CASE ~ \E o \in cron.rows : AddressOf[o] = a
      BY <1>1, <2>3, <2>5 DEF At, Unspent
  <2> QED
      BY <2>4, <2>5
<1> QED
    BY <1>2, <1>3

LEMMA BalanceInvKept ==
    ASSUME Types, Facts, RowInv, MarkInv, BalanceInv, NoConflicts, [Next]_vars PROVE BalanceInv'
<1> SUFFICES ASSUME NEW a \in Address, ~Crossed(a)' PROVE AddressInv(a)'
  <2>1. ASSUME NEW a \in Address, Crossed(a)' PROVE AddressInv(a)'
      BY <2>1 DEF AddressInv
  <2> QED
      BY <2>1 DEF BalanceInv
<1>0. CronTypes /\ ~Crossed(a) /\ AddressInv(a)
    BY CrossedStays DEF Types, BalanceInv
<1>1. ASSUME NEW t \in Tx, AddNewTx(t) PROVE AddressInv(a)'
    BY <1>0, <1>1, BalanceOfNewTx
<1>2. CASE ResetBalances \/ SumUnlocked \/ SumLocked
    BY <1>0, <1>2, BalanceOfReset, BalanceOfSumUnlocked, BalanceOfSumLocked
<1>3. CASE ~ResetBalances /\ ~SumUnlocked /\ ~SumLocked /\ unlockedBal' = unlockedBal /\ lockedBal' = lockedBal
  <2>1. cron' = cron \/ cron'.pc \notin {"sumUnlocked", "sumLocked"}
      BY <1>0, <1>3, StageSteps DEF Leads
  <2>2. ToRebuild(a) => ToRebuild(a)'
      BY <1>3, RebuildWaits
  <2>3. CASE At(Unspent', a) = At(Unspent, a)
      BY <1>0, <1>3, <2>1, <2>2, <2>3, BalanceUntouched
  <2>4. CASE cron'.pc \notin {"sumUnlocked", "sumLocked"} /\ ToRebuild(a)'
      BY <2>4 DEF AddressInv, BalanceAgrees, BalanceIsReset, BalanceIsHalfSet
  <2>5. CASE UnspendUtxos \/ MarkUtxosAsVoided
    <3>1. cron'.pc \in {"markOutputs", "getSpenders"}
        BY <1>0, <2>5, UnspendEffect, MarkOutputsEffect DEF CronBecomes
    <3> QED
        BY <2>3, <2>4, <2>5, <3>1, UnspentElsewhere
  <2>6. CASE RowsStay \/ MarkTxsAsVoided \/ MarkAddressTxHistoryAsVoided
      BY <2>3, <2>6, UnspentStays DEF At
  <2> QED
      BY <1>1, <2>5, <2>6, RowSteps
<1> QED
    BY <1>1, <1>2, <1>3, BalanceSteps

LEMMA BalanceInvInit == ASSUME Init PROVE BalanceInv
<1> SUFFICES ASSUME NEW a \in Address PROVE AddressInv(a)
    BY DEF BalanceInv
<1>1. cron.pc = "idle" /\ unlockedBal[a] = 0 /\ lockedBal[a] = 0 /\ At(Unspent, a) = {}
    BY DEF Init, Idle, Unspent, At
<1>2. SumOf(Unspent, a) = 0
    BY <1>1, SumOfNone
<1> QED
    BY <1>1, <1>2 DEF AddressInv, BalanceAgrees, BalanceIsReset, BalanceIsHalfSet

\* However the statements of a void interleave with new transactions, and wherever
\* the cron is stopped, an address that no doubtful transaction touches has the
\* value of its unspent outputs: handleVoided and addNewTx lose nothing to each other.
THEOREM BalancesSurviveVoids == ASSUME NoConflicts, EveryTxHasOutputs PROVE Spec => []OnlyDoubtfulBalances
<1> DEFINE Inv == Types /\ Facts /\ RowInv /\ MarkInv /\ BalanceInv
<1>1. Init => Inv
    BY TypesInit, FactsInit, RowInvInit, MarkInvInit, BalanceInvInit
<1>2. Inv /\ [Next]_vars => Inv'
  <2> SUFFICES ASSUME Inv, [Next]_vars PROVE Inv'
      OBVIOUS
  <2>1. Types'
      BY CronTypesKept, CountTypesKept, TypeOKKept DEF Types
  <2>2. Facts'
      BY FactsKept
  <2>3. RowInv'
      BY DoubtfulRowsKept, HistoryFollowsKept, OutputsFollowKept, SpendersFollowKept DEF RowInv
  <2>4. MarkInv'
      BY MarksAreTakenKept, MarksAreValidKept DEF MarkInv
  <2>5. BalanceInv'
      BY BalanceInvKept
  <2> QED
      BY <2>1, <2>2, <2>3, <2>4, <2>5
<1>3. Inv => OnlyDoubtfulBalances
  <2> SUFFICES ASSUME Inv, NEW a \in Address, \A t \in Doubtful : a \notin AddressesOf(t)
               PROVE  unlockedBal[a] + lockedBal[a] = SumOf(Unspent, a)
      BY DEF OnlyDoubtfulBalances
  <2>1. ~Crossed(a)
      BY DEF Crossed, Doubtful
  <2>2. ~ToRebuild(a)
      BY RebuiltIsVisited DEF Doubtful
  <2> QED
      BY <2>1, <2>2 DEF BalanceInv, AddressInv, BalanceAgrees
<1> QED
    BY <1>1, <1>2, <1>3, PTL DEF Spec

-----------------------------------------------------------------------------
(* Counts: what a void subtracts it finds in the history *)

\* An output that is marked is live, but for those of a void and for voids that met
\* their return.
MarkedIsLive ==
    \A o \in Output : spentBy[o] # NoTx => utxo[o] = "live" \/ TxOf[o] \in Doubtful \/ spentBy[o] \in crossed

\* The list the rebuild works from has every output of the void.
VoidingIsListed ==
    cron.pc \notin Quiet => \A o \in Output : TxOf[o] \in Voiding =>
        o \in cron.affected \/ (cron.pc \in Marking \ {"getSpenders"} /\ TxOf[o] \in cron.txs)

\* Whoever is about to leave the history still marks what it spends, or the list has it.
InputsAreListed ==
    cron.pc = "markHistory" => \A t \in cron.txs \ crossed : history[t] = "valid" =>
        \A o \in Inputs[t] : ~Crossed(AddressOf[o]) => spentBy[o] = t \/ o \in cron.affected

CountFacts == MarkedIsLive /\ VoidingIsListed /\ InputsAreListed

LEMMA MarkedIsLiveKept ==
    ASSUME Types, Facts, RowInv, MarkInv, CountFacts, [Next]_vars PROVE MarkedIsLive'
<1> USE DEF CronBecomes
<1>0. /\ TypeOK /\ CronTypes /\ MarkedIsLive /\ MarksAreValid /\ MarksAreTaken /\ OnlyDoubtfulRows /\ SpendersFollow
      /\ SpentByInput /\ RowsLocals /\ VisitedLocals /\ NoTx \notin Tx /\ crossed \subseteq crossed'
      /\ \A o \in Output : spentBy[o] # NoTx => spentBy[o] \in Tx
      /\ \A u \in Tx : \A o \in Inputs[u] : o \in Output /\ TxOf[o] \in Tx /\ TxOf[o] # u
    BY CronAssumption, CrossedSteps DEF Types, Facts, RowInv, MarkInv, CountFacts, TypeOK
<1>1. CASE VoidEnds
  <2>1. /\ UNCHANGED <<txRow, utxo, spentBy>> /\ crossed' = crossed
        /\ cron.pc = "sumLocked" \/ (cron.pc = "getSpenders" /\ NewTxs = {})
      BY <1>1 DEF VoidEnds, RowsStay, rowVars, SumLocked, GetSpenders
  <2> SUFFICES ASSUME NEW o \in Output, spentBy[o] # NoTx, utxo[o] # "live", TxOf[o] \in Voiding,
                      spentBy[o] \notin crossed
               PROVE  FALSE
      BY <1>0, <2>1 DEF MarkedIsLive, Voiding, Doubtful
  <2>2. spentBy[o] \notin Voiding
      BY <1>0, <2>1 DEF MarksAreTaken
  <2>3. spentBy[o] \in Tx \ Doubtful /\ txRow[spentBy[o]] = "valid" /\ o \in Inputs[spentBy[o]]
      BY <1>0, <2>2 DEF MarksAreValid, SpentByInput, Voiding, Doubtful
  <2>4. IsNext(spentBy[o], o)
      BY <1>0, <2>3 DEF SpendersFollow
  <2> QED
      BY <2>1, <2>3, <2>4 DEF IsNext, NewTxs
<1>2. CASE Doubtful \subseteq Doubtful'
  <2>1. ASSUME NEW t \in Tx, AddNewTx(t) PROVE MarkedIsLive'
    <3> SUFFICES ASSUME NEW o \in Output, spentBy'[o] # NoTx
                 PROVE  utxo'[o] = "live" \/ TxOf[o] \in Doubtful'
                        \/ (spentBy'[o] = spentBy[o] /\ utxo'[o] = utxo[o])
        BY <1>0, <1>2, <2>1 DEF MarkedIsLive
    <3>1. /\ utxo'[o] = IF TxOf[o] = t THEN "live" ELSE utxo[o]
          /\ o \notin Inputs[t] => spentBy'[o] = IF TxOf[o] = t /\ utxo[o] # "live" THEN NoTx ELSE spentBy[o]
        BY <2>1 DEF AddNewTx
    <3>2. CASE o \in Inputs[t] /\ TxOf[o] \notin crossed
      <4>1. TxOf[o] \notin Doubtful /\ txRow[TxOf[o]] = "valid"
          BY <2>1, <3>2, InputsAreSound
      <4>2. o \in OutputsOf(TxOf[o]) /\ TxOf[o] \in Tx \ Doubtful
          BY <1>0, <3>2, <4>1 DEF OutputsOf
      <4>3. utxo[o] = "live"
          BY <1>0, <4>1, <4>2 DEF OnlyDoubtfulRows
      <4> QED
          BY <1>0, <3>1, <3>2, <4>3
    <3>3. CASE TxOf[o] \in crossed
        BY <1>2, <3>3 DEF Doubtful
    <3>4. CASE o \notin Inputs[t]
        BY <3>1, <3>4
    <3> QED
        BY <3>2, <3>3, <3>4
  <2>2. CASE MarkTxsAsVoided \/ MarkAddressTxHistoryAsVoided \/ RowsStay
    <3>1. utxo' = utxo /\ spentBy' = spentBy
        BY <2>2 DEF MarkTxsAsVoided, MarkAddressTxHistoryAsVoided, RowsStay, rowVars
    <3> QED
        BY <1>0, <1>2, <3>1 DEF MarkedIsLive
  <2>3. CASE UnspendUtxos
    <3>1. utxo' = utxo /\ \A o \in Output : spentBy'[o] \in {NoTx, spentBy[o]}
        BY <2>3 DEF UnspendUtxos
    <3> QED
        BY <1>0, <1>2, <3>1 DEF MarkedIsLive
  <2>4. CASE MarkUtxosAsVoided
    <3>1. /\ cron.rows = {o \in Output : TxOf[o] \in cron.txs} /\ cron.txs \subseteq cron.visited
          /\ spentBy' = spentBy
          /\ \A o \in Output : o \notin cron.rows => utxo'[o] = utxo[o]
        BY <1>0, <2>4 DEF MarkUtxosAsVoided, RowsLocals, VisitedLocals, Marking
    <3>2. \A o \in cron.rows : TxOf[o] \in Doubtful'
        BY <1>2, <3>1 DEF Doubtful
    <3> QED
        BY <1>0, <1>2, <3>1, <3>2 DEF MarkedIsLive
  <2> QED
      BY <2>1, <2>2, <2>3, <2>4, RowSteps
<1> QED
    BY <1>1, <1>2, DoubtfulSteps

LEMMA VoidingIsListedKept ==
    ASSUME Types, Facts, CountFacts, [Next]_vars PROVE VoidingIsListed'
<1> USE DEF CronBecomes
<1>0. CronTypes /\ VoidingIsListed /\ VisitedLocals /\ RowsLocals /\ TxOf \in [Output -> Tx]
    BY CronAssumption DEF Types, Facts, CountFacts
<1>1. Voiding' \subseteq Voiding \/ (MarkTxsAsVoided /\ Voiding' \subseteq Voiding \cup cron.txs)
    BY VoidingSteps
<1> SUFFICES ASSUME cron'.pc \notin Quiet, NEW o \in Output, TxOf[o] \in Voiding'
             PROVE  o \in cron'.affected \/ (cron'.pc \in Marking \ {"getSpenders"} /\ TxOf[o] \in cron'.txs)
    BY DEF VoidingIsListed
<1>2. cron'.visited # {}
    BY DEF Voiding
<1>3. CASE MarkTxsAsVoided
  <2>1. cron.pc = "markTxs"
      BY <1>3 DEF MarkTxsAsVoided
  <2>2. o \in cron.affected \/ TxOf[o] \in cron.txs
      BY <1>0, <1>1, <2>1 DEF VoidingIsListed, Quiet, Marking
  <2> QED
      BY <1>0, <1>3, <2>2, MarkTxsEffect DEF Marking
<1>4. CASE TxOf[o] \in Voiding /\ cron.pc \notin Quiet
  <2>1. o \in cron.affected \/ (cron.pc \in Marking \ {"getSpenders"} /\ TxOf[o] \in cron.txs)
      BY <1>0, <1>4 DEF VoidingIsListed
  <2>2. CASE cron' = cron
      BY <2>1, <2>2
  <2>3. CASE cron' = Idle
      BY <1>0, <1>2, <2>3, IdleEffect
  <2>4. CASE MarkAddressTxHistoryAsVoided
      BY <1>0, <2>1, <2>4, MarkHistoryEffect DEF Marking
  <2>5. CASE GetTxOutputs
      BY <1>0, <2>1, <2>5, GetOutputsEffect DEF Marking
  <2>6. CASE GetTxOutputsBySpent
      BY <1>0, <2>1, <2>6, GetSpentEffect DEF Marking
  <2>7. CASE UnspendUtxos
      BY <1>0, <2>1, <2>7, UnspendEffect DEF Marking
  <2>8. CASE MarkUtxosAsVoided
    <3>1. cron.rows = {r \in Output : TxOf[r] \in cron.txs}
        BY <1>0, <2>8 DEF MarkUtxosAsVoided, RowsLocals
    <3>2. o \in AllAffected
        BY <2>1, <3>1 DEF AllAffected
    <3> QED
        BY <1>0, <2>8, <3>2, MarkOutputsEffect
  <2>9. CASE GetSpenders
    <3>1. o \in cron.affected
        BY <2>1, <2>9 DEF GetSpenders
    <3> QED
        BY <1>0, <2>9, <3>1, GetSpendersEffect
  <2>10. CASE ReadCounts \/ ResetBalances \/ SumUnlocked \/ SumLocked
    <3>1. o \in cron.affected
        BY <2>1, <2>10 DEF ReadCounts, ResetBalances, SumUnlocked, SumLocked, Marking
    <3> QED
        BY <1>0, <2>10, <3>1, ReadCountsEffect, ResetEffect, SumUnlockedEffect, SumLockedEffect
  <2> QED
      BY <1>0, <1>3, <1>4, <2>2, <2>3, <2>4, <2>5, <2>6, <2>7, <2>8, <2>9, <2>10, NextStatement
      DEF Follows, CronTypes, Marking, Rebuilding
<1>5. CASE cron.pc \in Quiet /\ ~MarkTxsAsVoided
  <2>1. Voiding = {}
      BY <1>0, <1>5 DEF VisitedLocals, Voiding
  <2> QED
      BY <1>1, <1>5, <2>1
<1> QED
    BY <1>1, <1>3, <1>4, <1>5

LEMMA InputsAreListedKept ==
    ASSUME Types, Facts, RowInv, MarkInv, CountFacts, NoConflicts, [Next]_vars PROVE InputsAreListed'
<1> USE DEF CronBecomes
<1>0. /\ TypeOK /\ CronTypes /\ InputsAreListed /\ VoidingIsListed /\ MarkedIsLive /\ OnlyDoubtfulRows
      /\ VisitedLocals /\ crossed \subseteq crossed' /\ NoTx \notin Tx
      /\ TxOf \in [Output -> Tx] /\ Inputs \in [Tx -> SUBSET Output] /\ AddressOf \in [Output -> Address]
    BY CronAssumption, CrossedSteps DEF Types, Facts, RowInv, CountFacts
<1> SUFFICES ASSUME cron'.pc = "markHistory", NEW t \in cron'.txs, t \notin crossed', history'[t] = "valid",
                    NEW o \in Inputs[t], ~Crossed(AddressOf[o])'
             PROVE  spentBy'[o] = t \/ o \in cron'.affected
    BY DEF InputsAreListed
<1>1. MarkTxsAsVoided \/ cron' = cron
    BY <1>0, StageSteps DEF Leads
<1>2. ~Crossed(AddressOf[o])
    BY CrossedStays
<1>3. t \in cron.txs /\ t \in Tx /\ o \in Output /\ TxOf[o] \in Tx
    BY <1>0, <1>1, MarkTxsEffect DEF CronTypes
<1>4. \A u \in Tx : o \in OutputsOf(u) \cup Inputs[u] => u \notin crossed'
    BY DEF Crossed, AddressesOf, OutputsOf
<1>5. CASE MarkTxsAsVoided
  <2>1. cron.pc = "markTxs" /\ history' = history /\ spentBy' = spentBy
      BY <1>5 DEF MarkTxsAsVoided
  <2>2. t \notin cron.visited /\ t \notin crossed
      BY <1>0, <1>3, <2>1 DEF VisitedLocals
  <2>3. TxOf[o] \in Doubtful \/ (utxo[o] = "live" /\ spentBy[o] = t)
      BY <1>0, <1>3, <2>1, <2>2 DEF OnlyDoubtfulRows, Doubtful
  <2>4. CASE TxOf[o] \in Doubtful
    <3>1. TxOf[o] \in Voiding
        BY <1>0, <1>3, <1>4, <2>4 DEF Doubtful, Voiding, OutputsOf
    <3>2. o \in cron.affected
        BY <1>0, <1>3, <2>1, <3>1 DEF VoidingIsListed, Quiet, Marking
    <3> QED
        BY <1>0, <1>5, <3>2, MarkTxsEffect
  <2> QED
      BY <2>1, <2>3, <2>4
<1>6. CASE cron' = cron
  <2>1. ASSUME NEW u \in Tx, AddNewTx(u) PROVE spentBy'[o] = t \/ o \in cron'.affected
    <3>1. /\ history' = [history EXCEPT ![u] = "valid"]
          /\ spentBy'[o] = IF o \in Inputs[u] THEN u
                           ELSE IF TxOf[o] = u /\ utxo[o] # "live" THEN NoTx ELSE spentBy[o]
          /\ crossed' = crossed \cup ({u} \cap cron.visited)
        BY <1>3, <2>1 DEF AddNewTx
    <3>2. t # u
      <4>1. cron.txs \subseteq cron.visited
          BY <1>0, <1>6 DEF VisitedLocals, Marking
      <4> QED
          BY <1>3, <3>1, <4>1
    <3>3. history[t] = "valid" /\ o \notin Inputs[u] /\ t \notin crossed
        BY <1>0, <1>3, <3>1, <3>2 DEF TypeOK, NoConflicts
    <3>4. spentBy[o] = t \/ o \in cron.affected
        BY <1>0, <1>2, <1>3, <1>6, <3>3 DEF InputsAreListed
    <3>5. ASSUME spentBy[o] = t PROVE ~(TxOf[o] = u /\ utxo[o] # "live")
      <4>1. utxo[o] = "live" \/ TxOf[o] \in Doubtful
          BY <1>0, <1>3, <3>3, <3>5 DEF MarkedIsLive
      <4>2. ASSUME TxOf[o] = u PROVE u \notin Doubtful
          BY <1>3, <1>4, <3>1, <4>2 DEF OutputsOf, Doubtful
      <4> QED
          BY <4>1, <4>2
    <3> QED
        BY <1>6, <3>1, <3>3, <3>4, <3>5
  <2>2. CASE RowsStay
    <3>1. history' = history /\ spentBy' = spentBy
        BY <2>2 DEF RowsStay, rowVars
    <3>2. spentBy[o] = t \/ o \in cron.affected
        BY <1>0, <1>2, <1>3, <1>6, <3>1 DEF InputsAreListed
    <3> QED
        BY <1>6, <3>1, <3>2
  <2>3. ~(MarkTxsAsVoided \/ MarkAddressTxHistoryAsVoided \/ UnspendUtxos \/ MarkUtxosAsVoided)
    <3>1. cron.pc = "markHistory" /\ cron'.pc = "markHistory"
        BY <1>6
    <3> QED
        BY <1>0, <3>1, MarkHistoryEffect DEF MarkTxsAsVoided, UnspendUtxos, MarkUtxosAsVoided
  <2> QED
      BY <2>1, <2>2, <2>3, RowSteps
<1> QED
    BY <1>1, <1>5, <1>6

LEMMA CountFactsInit == ASSUME Init PROVE CountFacts
BY CronAssumption DEF Init, CountFacts, MarkedIsLive, VoidingIsListed, InputsAreListed, Idle, Quiet

\* The transactions an address_tx_history holds as valid, without and with those of S
\* that are voided.
Held(a) == {t \in Tx : history[t] = "valid" /\ a \in AddressesOf(t)}
HeldOrVoided(S, a) ==
    {t \in Tx : a \in AddressesOf(t) /\ (history[t] = "valid" \/ (t \in S /\ history[t] = "voided"))}

\* Before the reset an output of a void, or one it spends, waits for its address to be counted again.
Early == {"markTxs"} \cup Marking \cup {"readCounts", "reset"}
Waits(o) ==
    \/ cron.pc \in Marking \ {"getSpenders"} /\ TxOf[o] \in cron.txs
    \/ cron.pc \in {"markHistory", "getOutputs", "getSpent"} /\ spentBy[o] \in cron.txs
    \/ cron.pc \in {"unspend", "markOutputs"} /\ o \in cron.spent
    \/ cron.pc \in Early /\ o \in cron.affected
AddressWaits(a) == \E o \in Output : AddressOf[o] = a /\ Waits(o)

\* What the count is bounded by, and what the rebuild has read of it, stage by stage.
CountAgrees(a) == ~AddressWaits(a) => txCount[a] <= Cardinality(Held(a))
CountBefore(a) == cron.pc \in Early => txCount[a] <= Cardinality(HeldOrVoided(cron.visited, a))
CountRead(a) ==
    cron.pc \in {"reset", "sumUnlocked", "sumLocked"} /\ a \in AffectedAddresses =>
        cron.counts[a].txs <= Cardinality(HeldOrVoided(cron.visited, a))
CountToReduce(a) ==
    cron.pc = "readDiffs" /\ a \in AffectedAddresses =>
        cron.counts[a].txs <= Cardinality(HeldOrVoided(AffectedTxs, a))
CountToWrite(a) ==
    cron.pc = "writeCounts" /\ a \in cron.left => cron.counts[a].txs <= Cardinality(Held(a))

CountOf(a) ==
    ~Crossed(a) => CountAgrees(a) /\ CountBefore(a) /\ CountRead(a) /\ CountToReduce(a) /\ CountToWrite(a)
CountInv == \A a \in Address : CountOf(a)

LEMMA FewerTxs ==
    ASSUME NEW S \in SUBSET Tx, NEW T \in SUBSET S
    PROVE  Cardinality(S) \in Nat /\ Cardinality(T) \in Nat /\ Cardinality(T) <= Cardinality(S)
<1>1. IsFiniteSet(Tx)
    BY CronAssumption
<1>2. IsFiniteSet(S)
    BY <1>1, FS_Subset
<1> QED
    BY <1>2, FS_Subset, FS_CardinalityType

LEMMA OneMoreTx ==
    ASSUME NEW S \in SUBSET Tx, NEW t \in Tx, t \notin S PROVE Cardinality(S \cup {t}) = Cardinality(S) + 1
<1>1. IsFiniteSet(S)
    BY CronAssumption, FS_Subset
<1> QED
    BY <1>1, FS_AddElement

LEMMA HeldSets ==
    ASSUME NEW a, NEW S
    PROVE  /\ Held(a) \in SUBSET Tx /\ HeldOrVoided(S, a) \in SUBSET Tx
           /\ Held(a) \in SUBSET HeldOrVoided(S, a)
           /\ HeldOrVoided({}, a) = Held(a)
BY DEF Held, HeldOrVoided

LEMMA WaitingIsVisited ==
    ASSUME Types, Facts, NEW o \in Output, Waits(o) PROVE \E t \in cron.visited : AddressOf[o] \in AddressesOf(t)
<1>1. /\ CronTypes /\ VisitedLocals /\ AffectedLocals /\ SpentLocals /\ SpentByInput
      /\ TxOf \in [Output -> Tx] /\ NoTx \notin Tx
    BY CronAssumption DEF Types, Facts
<1>2. Touches(cron.visited, o)
  <2>1. CASE cron.pc \in Early /\ o \in cron.affected
      BY <1>1, <2>1 DEF AffectedLocals, Early, Quiet, Marking
  <2>2. CASE cron.pc \in Marking
    <3>1. cron.txs \subseteq cron.visited
        BY <1>1, <2>2 DEF VisitedLocals
    <3>2. CASE TxOf[o] \in cron.txs
        BY <3>1, <3>2 DEF Touches
    <3>3. CASE spentBy[o] \in cron.txs
        BY <1>1, <3>1, <3>3 DEF Touches, SpentByInput, CronTypes
    <3>4. CASE cron.pc \in {"unspend", "markOutputs"} /\ o \in cron.spent
        BY <1>1, <3>1, <3>4 DEF Touches, SpentLocals
    <3> QED
        BY <2>1, <3>2, <3>3, <3>4 DEF Waits
  <2> QED
      BY <2>1, <2>2 DEF Waits, Marking
<1> QED
    BY <1>1, <1>2 DEF Touches, AddressesOf, OutputsOf

LEMMA WaitingStays ==
    ASSUME Types, Facts, CountFacts, NoConflicts, EveryTxHasOutputs, [Next]_vars,
           NEW o \in Output, ~Crossed(AddressOf[o])', ~ResetBalances, Waits(o)
    PROVE  Waits(o)'
<1> USE DEF CronBecomes
<1>0. /\ CronTypes /\ RowsLocals /\ VisitedLocals /\ SpentByInput /\ MarkedIsLive /\ NoTx \notin Tx
      /\ TxOf \in [Output -> Tx] /\ crossed \subseteq crossed'
    BY CronAssumption, CrossedSteps DEF Types, Facts, CountFacts
<1>1. cron.pc \in {"markTxs"} \cup Marking \cup {"readCounts", "reset"}
    BY DEF Waits, Early, Marking
<1>2. \A u \in Tx : o \in OutputsOf(u) \cup Inputs[u] => u \notin crossed'
    BY DEF Crossed, AddressesOf, OutputsOf
<1>3. CASE cron' = cron
  <2>1. CASE spentBy'[o] = spentBy[o]
      BY <1>3, <2>1 DEF Waits
  <2>2. CASE ~(cron.pc \in {"markHistory", "getOutputs", "getSpent"} /\ spentBy[o] \in cron.txs)
      BY <1>3, <2>2 DEF Waits
  <2>3. ASSUME NEW t \in Tx, AddNewTx(t), cron.pc \in {"markHistory", "getOutputs", "getSpent"}, spentBy[o] \in cron.txs
        PROVE  spentBy'[o] = spentBy[o]
    <3>1. /\ spentBy'[o] = IF o \in Inputs[t] THEN t
                           ELSE IF TxOf[o] = t /\ utxo[o] # "live" THEN NoTx ELSE spentBy[o]
          /\ crossed' = crossed \cup ({t} \cap cron.visited)
        BY <2>3 DEF AddNewTx
    <3>2. spentBy[o] \in Tx /\ spentBy[o] # NoTx /\ o \in Inputs[spentBy[o]] /\ spentBy[o] \in cron.visited
        BY <1>0, <2>3 DEF SpentByInput, CronTypes, VisitedLocals, Marking
    <3>3. o \notin Inputs[t]
        BY <1>2, <3>1, <3>2 DEF NoConflicts
    <3>4. utxo[o] = "live" \/ TxOf[o] \in Doubtful
        BY <1>0, <1>2, <3>2 DEF MarkedIsLive
    <3>5. TxOf[o] = t => t \notin Doubtful
        BY <1>0, <1>2, <3>1 DEF OutputsOf, Doubtful
    <3> QED
        BY <3>1, <3>3, <3>4, <3>5
  <2>4. ~UnspendUtxos
    <3>1. cron'.pc = cron.pc
        BY <1>3
    <3> QED
        BY <1>0, <3>1, UnspendEffect DEF UnspendUtxos
  <2> QED
      BY <2>1, <2>2, <2>3, <2>4, RowSteps DEF MarkTxsAsVoided, MarkAddressTxHistoryAsVoided, MarkUtxosAsVoided,
         RowsStay, rowVars
<1>4. CASE cron' = Idle
  <2>1. CronStops
      BY <1>0, <1>1, <1>4, StopSteps DEF Quiet, Marking
  <2>2. PICK t \in cron.visited : AddressOf[o] \in AddressesOf(t)
      BY WaitingIsVisited
  <2>3. t \in crossed'
      BY <2>1 DEF CronStops
  <2> QED
      BY <2>2, <2>3 DEF Crossed, AddressesOf, OutputsOf
<1>5. CASE MarkTxsAsVoided
  <2>1. o \in cron.affected
      BY <1>5 DEF MarkTxsAsVoided, Waits, Marking
  <2> QED
      BY <1>0, <1>5, <2>1, MarkTxsEffect DEF Waits, Early, Marking
<1>6. CASE MarkAddressTxHistoryAsVoided
  <2>1. cron.pc = "markHistory" /\ spentBy' = spentBy
      BY <1>6 DEF MarkAddressTxHistoryAsVoided
  <2> QED
      BY <1>0, <1>6, <2>1, MarkHistoryEffect DEF Waits, Early, Marking
<1>7. CASE GetTxOutputs
  <2>1. cron.pc = "getOutputs" /\ spentBy' = spentBy
      BY <1>7 DEF GetTxOutputs, rowVars
  <2> QED
      BY <1>0, <1>7, <2>1, GetOutputsEffect DEF Waits, Early, Marking
<1>8. CASE GetTxOutputsBySpent
  <2>1. cron.pc = "getSpent"
      BY <1>8 DEF GetTxOutputsBySpent
  <2>2. cron.rows = {r \in Output : TxOf[r] \in cron.txs}
      BY <1>0, <2>1 DEF RowsLocals
  <2>3. spentBy[o] \in cron.txs => o \in SpentRead
      BY <1>0, <2>2 DEF SpentRead, EveryTxHasOutputs, OutputsOf, CronTypes
  <2> QED
      BY <1>0, <1>8, <2>1, <2>3, GetSpentEffect DEF Waits, Early, Marking
<1>9. CASE UnspendUtxos
  <2>1. cron.pc = "unspend"
      BY <1>9 DEF UnspendUtxos
  <2> QED
      BY <1>0, <1>9, <2>1, UnspendEffect DEF Waits, Early, Marking
<1>10. CASE MarkUtxosAsVoided
  <2>1. cron.pc = "markOutputs"
      BY <1>10 DEF MarkUtxosAsVoided
  <2>2. o \in AllAffected
      BY <1>0, <2>1 DEF Waits, AllAffected, RowsLocals
  <2> QED
      BY <1>0, <1>10, <2>2, MarkOutputsEffect DEF Waits, Early, Marking
<1>11. CASE GetSpenders
  <2>1. o \in cron.affected
      BY <1>11 DEF GetSpenders, Waits
  <2> QED
      BY <1>0, <1>11, <2>1, GetSpendersEffect DEF Waits, Early, Marking
<1>12. CASE ReadCounts
  <2>1. o \in cron.affected
      BY <1>12 DEF ReadCounts, Waits, Marking
  <2> QED
      BY <1>0, <1>12, <2>1, ReadCountsEffect DEF Waits, Early, Marking
<1> QED
    BY <1>1, <1>3, <1>4, <1>5, <1>6, <1>7, <1>8, <1>9, <1>10, <1>11, <1>12, NextStatement DEF Follows, Marking

\* Only addNewTx and the rebuild write counts.
LEMMA CountSteps ==
    ASSUME [Next]_vars
    PROVE  \/ \E t \in Tx : AddNewTx(t)
           \/ ResetBalances
           \/ \E a \in Address : WriteCounts(a)
           \/ txCount' = txCount
<1>1. ASSUME NEW t \in Tx, Around(t) PROVE txCount' = txCount \/ AddNewTx(t)
    BY <1>1 DEF Around, NodeVoids, NodeTakesBack, AlreadyKnown, countVars
<1>2. ASSUME NEW S, Fetch(S) PROVE txCount' = txCount
    BY <1>2 DEF Fetch, countVars
<1>3. ASSUME NEW t, Handle(t) PROVE txCount' = txCount
    BY <1>3 DEF Handle, countVars
<1>4. CASE MarkTxsAsVoided \/ MarkAddressTxHistoryAsVoided \/ UnspendUtxos \/ MarkUtxosAsVoided
           \/ Finish \/ GetTxOutputs \/ GetTxOutputsBySpent \/ GetSpenders
           \/ ReadCounts \/ SumUnlocked \/ SumLocked \/ ReadDiffs \/ WriteTokenCount \/ CronStops
    BY <1>4 DEF MarkTxsAsVoided, MarkAddressTxHistoryAsVoided, UnspendUtxos, MarkUtxosAsVoided,
       Finish, GetTxOutputs, GetTxOutputsBySpent, GetSpenders, ReadCounts, SumUnlocked, SumLocked,
       ReadDiffs, WriteTokenCount, CronStops, countVars
<1>5. CASE UNCHANGED vars
    BY <1>5 DEF vars, countVars
<1> QED
    BY <1>1, <1>2, <1>3, <1>4, <1>5, StepsAreNamed DEF Named

LEMMA HeldStays ==
    ASSUME history' = history, NEW a
    PROVE  /\ Held(a)' = Held(a)
           /\ HeldOrVoided(cron.visited, a)' = HeldOrVoided(cron'.visited, a)
           /\ HeldOrVoided(AffectedTxs, a)' = HeldOrVoided(AffectedTxs', a)
BY DEF Held, HeldOrVoided, AddressesOf, OutputsOf

LEMMA CountAgreesKept ==
    ASSUME Types, Facts, CountFacts, NoConflicts, EveryTxHasOutputs, [Next]_vars, NEW a \in Address,
           ~Crossed(a)', ~ResetBalances, Held(a)' = Held(a), txCount'[a] = txCount[a], CountAgrees(a)
    PROVE  CountAgrees(a)'
<1>1. AddressWaits(a) => AddressWaits(a)'
  <2> SUFFICES ASSUME NEW o \in Output, AddressOf[o] = a, Waits(o) PROVE Waits(o)'
      BY DEF AddressWaits
  <2> QED
      BY WaitingStays
<1> QED
    BY <1>1 DEF CountAgrees

\* The stages before the reset.
LEMMA CountBeforeKept ==
    ASSUME Types, Facts, [Next]_vars, NEW a \in Address, history' = history,
           cron'.pc \in Early => txCount'[a] = txCount[a], CountAgrees(a), CountBefore(a)
    PROVE  CountBefore(a)'
<1> USE DEF CronBecomes
<1>0. CronTypes /\ VisitedLocals
    BY DEF Types, Facts
<1>1. HeldOrVoided(cron.visited, a)' = HeldOrVoided(cron'.visited, a)
    BY HeldStays
<1> SUFFICES ASSUME cron'.pc \in Early PROVE txCount[a] <= Cardinality(HeldOrVoided(cron'.visited, a))
    BY <1>1 DEF CountBefore
<1>2. CASE cron.pc \in Early /\ cron.visited \subseteq cron'.visited
  <2>1. HeldOrVoided(cron.visited, a) \in SUBSET HeldOrVoided(cron'.visited, a)
      BY <1>2 DEF HeldOrVoided
  <2>2. Cardinality(HeldOrVoided(cron.visited, a)) <= Cardinality(HeldOrVoided(cron'.visited, a))
        /\ Cardinality(HeldOrVoided(cron.visited, a)) \in Nat /\ Cardinality(HeldOrVoided(cron'.visited, a)) \in Nat
      BY <2>1, HeldSets, FewerTxs
  <2> QED
      BY <1>2, <2>2 DEF CountBefore, Types, TypeOK
<1>3. CASE cron.pc = "next"
  <2>1. ~AddressWaits(a)
      BY <1>3 DEF AddressWaits, Waits, Early, Marking
  <2>2. Held(a) \in SUBSET HeldOrVoided(cron'.visited, a) /\ HeldOrVoided(cron'.visited, a) \in SUBSET Tx
      BY HeldSets
  <2>3. Cardinality(Held(a)) <= Cardinality(HeldOrVoided(cron'.visited, a))
        /\ Cardinality(Held(a)) \in Nat /\ Cardinality(HeldOrVoided(cron'.visited, a)) \in Nat
      BY <2>2, FewerTxs
  <2> QED
      BY <2>1, <2>3 DEF CountAgrees, Types, TypeOK
<1>4. CASE cron' = cron
    BY <1>2, <1>4
<1>5. CASE \E t \in Tx : Handle(t)
    BY <1>3, <1>5 DEF Handle
<1>6. CASE MarkTxsAsVoided \/ MarkAddressTxHistoryAsVoided \/ GetTxOutputs \/ GetTxOutputsBySpent
           \/ UnspendUtxos \/ MarkUtxosAsVoided \/ ReadCounts
  <2>1. cron.visited \subseteq cron'.visited
      BY <1>0, <1>6, MarkTxsEffect, MarkHistoryEffect, GetOutputsEffect, GetSpentEffect, UnspendEffect,
         MarkOutputsEffect, ReadCountsEffect
  <2>2. cron.pc \in Early
      BY <1>6 DEF MarkTxsAsVoided, MarkAddressTxHistoryAsVoided, GetTxOutputs, GetTxOutputsBySpent,
         UnspendUtxos, MarkUtxosAsVoided, ReadCounts, Early, Marking
  <2> QED
      BY <1>2, <2>1, <2>2
<1>7. CASE GetSpenders
  <2>1. cron.visited \subseteq cron'.visited /\ cron.pc \in Early
      BY <1>0, <1>7, GetSpendersEffect DEF GetSpenders, Early, Marking
  <2> QED
      BY <1>2, <2>1
<1> QED
    BY <1>0, <1>4, <1>5, <1>6, <1>7, StageSteps DEF Leads, Early, Marking

\* What the rebuild has read and goes on to write.
LEMMA CountReadKept ==
    ASSUME Types, Facts, [Next]_vars, NEW a \in Address, history' = history, CountBefore(a), CountRead(a)
    PROVE  CountRead(a)'
<1> USE DEF CronBecomes, CountsBecome
<1>0. CronTypes
    BY DEF Types
<1>1. HeldOrVoided(cron.visited, a)' = HeldOrVoided(cron'.visited, a)
    BY HeldStays
<1> SUFFICES ASSUME cron'.pc \in {"reset", "sumUnlocked", "sumLocked"}, a \in AffectedAddresses'
             PROVE  cron'.counts[a].txs <= Cardinality(HeldOrVoided(cron'.visited, a))
    BY <1>1 DEF CountRead
<1>2. CASE cron' = cron
    BY <1>2 DEF CountRead, AffectedAddresses
<1>3. CASE ReadCounts
  <2>1. cron'.counts = CountsRead /\ cron'.visited = cron.visited /\ cron'.affected = cron.affected /\ cron.pc = "readCounts"
      BY <1>0, <1>3, ReadCountsEffect DEF ReadCounts
  <2>2. cron'.counts[a].txs = txCount[a]
      BY <2>1 DEF CountsRead, AffectedAddresses
  <2> QED
      BY <2>1, <2>2 DEF CountBefore, Early
<1>4. CASE ResetBalances \/ SumUnlocked
  <2>1. cron'.counts = cron.counts /\ cron'.visited = cron.visited /\ cron'.affected = cron.affected
        /\ cron.pc \in {"reset", "sumUnlocked"}
      BY <1>0, <1>4, ResetEffect, SumUnlockedEffect DEF ResetBalances, SumUnlocked
  <2> QED
      BY <2>1 DEF CountRead, AffectedAddresses
<1> QED
    BY <1>0, <1>2, <1>3, <1>4, StageSteps DEF Leads

LEMMA CountToReduceKept ==
    ASSUME Types, Facts, CountFacts, EveryTxHasOutputs, [Next]_vars, NEW a \in Address, history' = history,
           ~Crossed(a), CountRead(a), CountToReduce(a)
    PROVE  CountToReduce(a)'
<1> USE DEF CronBecomes, CountsBecome
<1>0. CronTypes /\ VoidingIsListed
    BY DEF Types, CountFacts
<1>1. HeldOrVoided(AffectedTxs, a)' = HeldOrVoided(AffectedTxs', a)
    BY HeldStays
<1> SUFFICES ASSUME cron'.pc = "readDiffs", a \in AffectedAddresses'
             PROVE  cron'.counts[a].txs <= Cardinality(HeldOrVoided(AffectedTxs', a))
    BY <1>1 DEF CountToReduce
<1>2. CASE cron' = cron
  <2>1. AffectedTxs' = AffectedTxs /\ AffectedAddresses' = AffectedAddresses
      BY <1>2 DEF AffectedTxs, AffectedAddresses
  <2> QED
      BY <1>2, <2>1 DEF CountToReduce
<1>3. CASE SumLocked
  <2>1. cron'.counts = cron.counts /\ cron'.affected = cron.affected /\ cron.pc = "sumLocked"
      BY <1>0, <1>3, SumLockedEffect DEF SumLocked
  <2>2. AffectedTxs' = AffectedTxs /\ AffectedAddresses' = AffectedAddresses
      BY <2>1 DEF AffectedTxs, AffectedAddresses
  <2>3. HeldOrVoided(cron.visited, a) \in SUBSET HeldOrVoided(AffectedTxs, a)
    <3> SUFFICES ASSUME NEW t \in Tx, t \in cron.visited, a \in AddressesOf(t) PROVE t \in AffectedTxs
        BY DEF HeldOrVoided
    <3>1. t \in Voiding
        BY DEF Crossed, Voiding
    <3>2. PICK o \in Output : TxOf[o] = t
        BY DEF EveryTxHasOutputs, OutputsOf
    <3>3. o \in cron.affected
        BY <1>0, <2>1, <3>1, <3>2 DEF VoidingIsListed, Quiet, Marking
    <3> QED
        BY <3>2, <3>3 DEF AffectedTxs
  <2>4. Cardinality(HeldOrVoided(cron.visited, a)) <= Cardinality(HeldOrVoided(AffectedTxs, a))
        /\ Cardinality(HeldOrVoided(cron.visited, a)) \in Nat /\ Cardinality(HeldOrVoided(AffectedTxs, a)) \in Nat
      BY <2>3, HeldSets, FewerTxs
  <2>5. cron.counts[a].txs \in Int /\ cron.counts[a].txs <= Cardinality(HeldOrVoided(cron.visited, a))
      BY <2>1, <2>2 DEF CountRead, Types, CountTypes, Counting
  <2> QED
      BY <2>1, <2>2, <2>4, <2>5
<1> QED
    BY <1>0, <1>2, <1>3, StageSteps DEF Leads

LEMMA CountToWriteKept ==
    ASSUME Types, Facts, [Next]_vars, NEW a \in Address, Held(a)' = Held(a), CountToReduce(a), CountToWrite(a)
    PROVE  CountToWrite(a)'
<1> USE DEF CronBecomes, CountsBecome
<1>0. CronTypes /\ CountTypes
    BY DEF Types
<1> SUFFICES ASSUME cron'.pc = "writeCounts", a \in cron'.left
             PROVE  cron'.counts[a].txs <= Cardinality(Held(a))
    BY DEF CountToWrite
<1>1. CASE cron' = cron
    BY <1>1 DEF CountToWrite
<1>2. ASSUME NEW b \in Address, WriteCounts(b) PROVE cron'.counts[a].txs <= Cardinality(Held(a))
  <2>1. cron.pc = "writeCounts" /\ cron'.counts = cron.counts /\ a \in cron.left
      BY <1>0, <1>2, WriteCountsEffect, IdleEffect DEF WriteCounts
  <2> QED
      BY <2>1 DEF CountToWrite
<1>3. CASE ReadDiffs
  <2>1. cron.pc = "readDiffs" /\ cron'.counts = CountsLeft /\ a \in AffectedAddresses
      BY <1>0, <1>3, ReadDiffsEffect DEF ReadDiffs
  <2> DEFINE gone == {t \in AffectedTxs : a \in AddressesOf(t) /\ history[t] = "voided"}
  <2>2. cron'.counts[a].txs = cron.counts[a].txs - Cardinality(gone)
      BY <2>1 DEF CountsLeft, AffectedAddressTxCount
  <2>3. AffectedTxs \subseteq Tx
      BY <1>0, CronAssumption DEF AffectedTxs, CronTypes
  <2>4. /\ gone \in SUBSET Tx /\ Held(a) \in SUBSET Tx /\ Held(a) \cap gone = {}
        /\ HeldOrVoided(AffectedTxs, a) = Held(a) \cup gone
      BY <2>3 DEF Held, HeldOrVoided
  <2> HIDE DEF gone
  <2>5. /\ Cardinality(Held(a) \cup gone) = Cardinality(Held(a)) + Cardinality(gone)
        /\ Cardinality(Held(a)) \in Nat /\ Cardinality(gone) \in Nat
    <3>1. IsFiniteSet(Held(a)) /\ IsFiniteSet(gone)
        BY <2>4, CronAssumption, FS_Subset
    <3>2. /\ Cardinality(Held(a) \cup gone) = Cardinality(Held(a)) + Cardinality(gone) - Cardinality(Held(a) \cap gone)
          /\ Cardinality(Held(a)) \in Nat /\ Cardinality(gone) \in Nat
        BY <3>1, FS_Union, FS_CardinalityType
    <3>3. Cardinality(Held(a) \cap gone) = 0
        BY <2>4, FS_EmptySet
    <3> QED
        BY <3>2, <3>3
  <2>6. cron.counts[a].txs \in Int /\ cron.counts[a].txs <= Cardinality(HeldOrVoided(AffectedTxs, a))
      BY <1>0, <2>1 DEF CountToReduce, CountTypes, Counting
  <2> QED
      BY <2>2, <2>4, <2>5, <2>6
<1> QED
    BY <1>0, <1>1, <1>2, <1>3, StageSteps DEF Leads

\* The transaction that arrives is counted once, and its history gains it.
LEMMA CountOfNewTx ==
    ASSUME Types, Facts, CountFacts, NoConflicts, EveryTxHasOutputs, [Next]_vars,
           NEW t \in Tx, AddNewTx(t), NEW a \in Address, ~Crossed(a)', ~Crossed(a), CountOf(a)
    PROVE  CountOf(a)'
<1>0. /\ TypeOK /\ CronTypes /\ CountTypes /\ txCount[a] \in Nat
      /\ CountAgrees(a) /\ CountBefore(a) /\ CountRead(a) /\ CountToReduce(a) /\ CountToWrite(a)
    BY DEF Types, TypeOK, CountOf
<1>1. /\ cron' = cron /\ history[t] # "valid" /\ history' = [history EXCEPT ![t] = "valid"]
      /\ txCount'[a] = txCount[a] + IF a \in AddressesOf(t) THEN 1 ELSE 0
      /\ crossed' = crossed \cup ({t} \cap cron.visited)
    BY DEF AddNewTx
<1>2. AffectedAddresses' = AffectedAddresses /\ AffectedTxs' = AffectedTxs
    BY <1>1 DEF AffectedAddresses, AffectedTxs
<1> DEFINE new == IF a \in AddressesOf(t) THEN {t} ELSE {}
           seen == HeldOrVoided(cron.visited, a)
           listed == HeldOrVoided(AffectedTxs, a)
<1>3. /\ Held(a)' = Held(a) \cup new /\ new \cap Held(a) = {}
      /\ seen' = seen \cup new /\ new \cap seen = {}
      /\ listed' = listed \cup new
  <2>1. \A u \in Tx : history'[u] = IF u = t THEN "valid" ELSE history[u]
      BY <1>0, <1>1 DEF TypeOK
  <2>2. a \in AddressesOf(t) => t \notin cron.visited
      BY <1>1 DEF Crossed, AddressesOf, OutputsOf
  <2>3. \A u \in Tx : AddressesOf(u)' = AddressesOf(u)
      BY DEF AddressesOf, OutputsOf
  <2>4. Held(a)' = Held(a) \cup new /\ new \cap Held(a) = {}
      BY <1>1, <2>1, <2>3 DEF Held
  <2>5. seen' = seen \cup new /\ new \cap seen = {}
      BY <1>1, <2>1, <2>2, <2>3 DEF HeldOrVoided
  <2>6. listed' = listed \cup new
      BY <1>1, <1>2, <2>1, <2>3 DEF HeldOrVoided
  <2> QED
      BY <2>4, <2>5, <2>6
<1>4. Held(a) \in SUBSET Tx /\ seen \in SUBSET Tx /\ listed \in SUBSET Tx
    BY HeldSets
<1>5. /\ Cardinality(Held(a))' = Cardinality(Held(a)) + IF a \in AddressesOf(t) THEN 1 ELSE 0
      /\ Cardinality(seen)' = Cardinality(seen) + IF a \in AddressesOf(t) THEN 1 ELSE 0
      /\ Cardinality(listed) <= Cardinality(listed)' /\ Cardinality(listed)' \in Nat
      /\ Cardinality(Held(a)) \in Nat /\ Cardinality(seen) \in Nat /\ Cardinality(listed) \in Nat
  <2> HIDE DEF seen, listed
  <2>1. listed \in SUBSET (listed \cup new) /\ listed \cup new \in SUBSET Tx
      BY <1>4
  <2>2. Cardinality(listed) <= Cardinality(listed \cup new) /\ Cardinality(listed \cup new) \in Nat
        /\ Cardinality(listed) \in Nat
    <3> DEFINE more == listed \cup new
    <3> HIDE DEF more
    <3>1. more \in SUBSET Tx /\ listed \in SUBSET more
        BY <2>1 DEF more
    <3>2. Cardinality(listed) <= Cardinality(more) /\ Cardinality(more) \in Nat /\ Cardinality(listed) \in Nat
        BY <3>1, FewerTxs
    <3> QED
        BY <3>2 DEF more
  <2>3. Cardinality(Held(a)) \in Nat /\ Cardinality(seen) \in Nat
      BY <1>4, FewerTxs
  <2>4. /\ Cardinality(Held(a) \cup new) = Cardinality(Held(a)) + IF a \in AddressesOf(t) THEN 1 ELSE 0
        /\ Cardinality(seen \cup new) = Cardinality(seen) + IF a \in AddressesOf(t) THEN 1 ELSE 0
    <3>1. CASE a \in AddressesOf(t)
        BY <1>3, <1>4, <3>1, OneMoreTx
    <3>2. CASE a \notin AddressesOf(t)
      <4>1. Held(a) \cup new = Held(a) /\ seen \cup new = seen
          BY <3>2
      <4> QED
          BY <2>3, <3>2, <4>1
    <3> QED
        BY <3>1, <3>2
  <2> QED
      BY <1>3, <2>2, <2>3, <2>4
<1> HIDE DEF seen, listed
<1>6. CountAgrees(a)'
  <2>1. ~ResetBalances
    <3>1. cron'.pc = cron.pc
        BY <1>1
    <3> QED
        BY <1>0, <3>1, ResetEffect DEF ResetBalances, CronBecomes
  <2>2. AddressWaits(a) => AddressWaits(a)'
    <3> SUFFICES ASSUME NEW o \in Output, AddressOf[o] = a, Waits(o) PROVE Waits(o)'
        BY DEF AddressWaits
    <3> QED
        BY <2>1, WaitingStays
  <2> QED
      BY <1>0, <1>1, <1>5, <2>2 DEF CountAgrees
<1>7. CountBefore(a)'
    BY <1>0, <1>1, <1>5 DEF CountBefore, seen
<1>8. CountRead(a)'
    BY <1>0, <1>1, <1>2, <1>5 DEF CountRead, CountTypes, Counting, seen
<1>9. CountToReduce(a)'
    BY <1>0, <1>1, <1>2, <1>5 DEF CountToReduce, CountTypes, Counting, listed
<1>10. CountToWrite(a)'
  <2>1. ASSUME cron.pc = "writeCounts", a \in cron.left PROVE cron.counts[a].txs \in Int
      BY <1>0, <2>1 DEF CountTypes, Counting
  <2> QED
      BY <1>0, <1>1, <1>5, <2>1 DEF CountToWrite
<1> QED
    BY <1>6, <1>7, <1>8, <1>9, <1>10 DEF CountOf

\* A void takes transactions out of the history of addresses that wait to be counted again.
LEMMA CountOfMarkedHistory ==
    ASSUME Types, Facts, CountFacts, NoConflicts, EveryTxHasOutputs, [Next]_vars,
           MarkAddressTxHistoryAsVoided, NEW a \in Address, ~Crossed(a)', ~Crossed(a), CountOf(a)
    PROVE  CountOf(a)'
<1> USE DEF CronBecomes
<1>0. /\ TypeOK /\ CronTypes /\ VisitedLocals /\ InputsAreListed /\ CountAgrees(a) /\ CountBefore(a)
      /\ txCount[a] \in Nat /\ AddressOf \in [Output -> Address] /\ Inputs \in [Tx -> SUBSET Output]
    BY CronAssumption DEF Types, TypeOK, Facts, CountFacts, CountOf
<1>1. /\ cron.pc = "markHistory" /\ txCount' = txCount /\ cron.txs \subseteq cron.visited
      /\ \A t \in Tx : history'[t] = IF t \in cron.txs /\ history[t] # "none" THEN "voided" ELSE history[t]
    BY <1>0 DEF MarkAddressTxHistoryAsVoided, countVars, VisitedLocals, Marking
<1>2. cron'.pc = "getOutputs" /\ cron'.visited = cron.visited
    BY <1>0, MarkHistoryEffect
<1>3. CountAgrees(a)'
  <2> SUFFICES ASSUME ~AddressWaits(a)' PROVE txCount'[a] <= Cardinality(Held(a))'
      BY DEF CountAgrees
  <2>1. ~AddressWaits(a)
    <3> SUFFICES ASSUME NEW o \in Output, AddressOf[o] = a, Waits(o) PROVE Waits(o)'
        BY DEF AddressWaits
    <3>1. ~ResetBalances
        BY <1>1 DEF ResetBalances
    <3> QED
        BY <3>1, WaitingStays
  <2>2. ASSUME NEW t \in cron.txs, history[t] = "valid", a \in AddressesOf(t) PROVE FALSE
    <3>1. t \in Tx /\ t \notin crossed
        BY <1>0, <2>2 DEF CronTypes, Crossed
    <3>2. PICK o \in OutputsOf(t) \cup Inputs[t] : AddressOf[o] = a
        BY <2>2 DEF AddressesOf
    <3>3. o \in Output
        BY <1>0, <3>1, <3>2 DEF OutputsOf
    <3>4. CASE o \in OutputsOf(t)
        BY <1>1, <2>1, <3>2, <3>3, <3>4 DEF AddressWaits, Waits, OutputsOf, Marking
    <3>5. CASE o \in Inputs[t]
      <4>1. spentBy[o] = t \/ o \in cron.affected
          BY <1>0, <1>1, <2>2, <3>1, <3>2, <3>5 DEF InputsAreListed
      <4> QED
          BY <1>1, <2>1, <3>2, <3>3, <4>1 DEF AddressWaits, Waits, Early, Marking
    <3> QED
        BY <3>2, <3>4, <3>5
  <2>3. Held(a)' = Held(a)
      BY <1>1, <2>2 DEF Held, AddressesOf, OutputsOf
  <2> QED
      BY <1>0, <1>1, <2>1, <2>3 DEF CountAgrees
<1>4. CountBefore(a)'
  <2> DEFINE seen == HeldOrVoided(cron.visited, a)
             next == seen'
  <2>1. \A u \in Tx : AddressesOf(u)' = AddressesOf(u)
      BY DEF AddressesOf, OutputsOf
  <2>2. seen \in SUBSET next /\ next \in SUBSET Tx
      BY <1>1, <1>2, <2>1 DEF HeldOrVoided
  <2> HIDE DEF next
  <2>3. Cardinality(seen) <= Cardinality(next) /\ Cardinality(seen) \in Nat /\ Cardinality(next) \in Nat
      BY <2>2, FewerTxs
  <2>4. txCount[a] <= Cardinality(seen)
      BY <1>0, <1>1 DEF CountBefore, Early, Marking
  <2>5. txCount'[a] <= Cardinality(seen)'
      BY <1>0, <1>1, <2>3, <2>4 DEF next
  <2> QED
      BY <2>5 DEF CountBefore
<1>5. CountRead(a)' /\ CountToReduce(a)' /\ CountToWrite(a)'
    BY <1>2 DEF CountRead, CountToReduce, CountToWrite
<1> QED
    BY <1>3, <1>4, <1>5 DEF CountOf

LEMMA CountInvKept ==
    ASSUME Types, Facts, RowInv, MarkInv, CountFacts, CountInv, NoConflicts, EveryTxHasOutputs, [Next]_vars
    PROVE  CountInv'
<1> USE DEF CronBecomes
<1> SUFFICES ASSUME NEW a \in Address, ~Crossed(a)' PROVE CountOf(a)'
  <2>1. ASSUME NEW a \in Address, Crossed(a)' PROVE CountOf(a)'
      BY <2>1 DEF CountOf
  <2> QED
      BY <2>1 DEF CountInv
<1>0. /\ CronTypes /\ CountTypes /\ ~Crossed(a) /\ CountOf(a)
      /\ CountAgrees(a) /\ CountBefore(a) /\ CountRead(a) /\ CountToReduce(a) /\ CountToWrite(a)
    BY CrossedStays DEF Types, CountInv, CountOf
<1>1. ASSUME NEW t \in Tx, AddNewTx(t) PROVE CountOf(a)'
    BY <1>0, <1>1, CountOfNewTx
<1>2. CASE MarkAddressTxHistoryAsVoided
    BY <1>0, <1>2, CountOfMarkedHistory
<1>3. CASE history' = history /\ \A t \in Tx : ~AddNewTx(t)
  <2>1. Held(a)' = Held(a)
      BY <1>3, HeldStays
  <2>2. CountRead(a)' /\ CountToReduce(a)' /\ CountToWrite(a)'
      BY <1>0, <1>3, <2>1, CountReadKept, CountToReduceKept, CountToWriteKept
  <2>3. CASE ~ResetBalances /\ txCount'[a] = txCount[a]
    <3>1. CountAgrees(a)'
        BY <1>0, <2>1, <2>3, CountAgreesKept
    <3>2. CountBefore(a)'
        BY <1>0, <1>3, <2>3, CountBeforeKept
    <3> QED
        BY <2>2, <3>1, <3>2 DEF CountOf
  <2>4. CASE ResetBalances
    <3>1. /\ cron.pc = "reset" /\ cron'.pc = "sumUnlocked" /\ cron'.affected = cron.affected
          /\ txCount'[a] = IF a \in AffectedAddresses THEN 0 ELSE txCount[a]
        BY <1>0, <2>4, ResetEffect DEF ResetBalances
    <3>2. CountBefore(a)'
        BY <3>1 DEF CountBefore, Early, Marking
    <3>3. txCount'[a] <= Cardinality(Held(a))
      <4>1. CASE a \in AffectedAddresses
        <5>1. Cardinality(Held(a)) \in Nat
            BY HeldSets, FewerTxs
        <5> QED
            BY <3>1, <4>1, <5>1
      <4>2. CASE a \notin AffectedAddresses
        <5>1. ~AddressWaits(a)
            BY <3>1, <4>2 DEF AddressWaits, Waits, AffectedAddresses, Marking
        <5> QED
            BY <1>0, <3>1, <4>2, <5>1 DEF CountAgrees
      <4> QED
          BY <4>1, <4>2
    <3>4. CountAgrees(a)'
        BY <2>1, <3>3 DEF CountAgrees
    <3> QED
        BY <2>2, <3>2, <3>4 DEF CountOf
  <2>5. ASSUME NEW b \in Address, WriteCounts(b), txCount'[a] # txCount[a] PROVE CountOf(a)'
    <3>1. a = b /\ cron.pc = "writeCounts" /\ a \in cron.left /\ txCount'[a] = cron.counts[a].txs
        BY <2>5 DEF WriteCounts, Types, TypeOK
    <3>2. txCount'[a] <= Cardinality(Held(a))
        BY <1>0, <3>1 DEF CountToWrite
    <3>3. CountAgrees(a)'
        BY <2>1, <3>2 DEF CountAgrees
    <3>4. CountBefore(a)'
      <4>1. cron'.pc \notin Early
          BY <1>0, <2>5, WriteCountsEffect, IdleEffect DEF Early, Marking
      <4> QED
          BY <4>1 DEF CountBefore
    <3> QED
        BY <2>2, <3>3, <3>4 DEF CountOf
  <2> QED
      BY <1>3, <2>3, <2>4, <2>5, CountSteps
<1>4. MarkTxsAsVoided \/ UnspendUtxos \/ MarkUtxosAsVoided \/ RowsStay => history' = history
    BY DEF MarkTxsAsVoided, UnspendUtxos, MarkUtxosAsVoided, RowsStay, rowVars
<1> QED
    BY <1>1, <1>2, <1>3, <1>4, RowSteps DEF Types

LEMMA CountInvInit == ASSUME Init PROVE CountInv
<1> SUFFICES ASSUME NEW a \in Address PROVE CountOf(a)
    BY DEF CountInv
<1>1. cron.pc = "idle" /\ txCount[a] = 0
    BY DEF Init, Idle
<1>2. Cardinality(Held(a)) \in Nat
    BY HeldSets, FewerTxs
<1> QED
    BY <1>1, <1>2 DEF CountOf, CountAgrees, CountBefore, CountRead, CountToReduce, CountToWrite, Early, Marking

\* What a void leaves to count is in the history: an address that no doubtful transaction
\* touches never counts a transaction twice, nor one that was voided.
THEOREM CountsSurviveVoids == ASSUME NoConflicts, EveryTxHasOutputs PROVE Spec => []CountIsAtMostHistory
<1> DEFINE Inv == Types /\ Facts /\ RowInv /\ MarkInv /\ CountFacts /\ CountInv
<1>1. Init => Inv
    BY TypesInit, FactsInit, RowInvInit, MarkInvInit, CountFactsInit, CountInvInit
<1>2. Inv /\ [Next]_vars => Inv'
  <2> SUFFICES ASSUME Inv, [Next]_vars PROVE Inv'
      OBVIOUS
  <2>1. Types'
      BY CronTypesKept, CountTypesKept, TypeOKKept DEF Types
  <2>2. Facts'
      BY FactsKept
  <2>3. RowInv'
      BY DoubtfulRowsKept, HistoryFollowsKept, OutputsFollowKept, SpendersFollowKept DEF RowInv
  <2>4. MarkInv'
      BY MarksAreTakenKept, MarksAreValidKept DEF MarkInv
  <2>5. CountFacts'
      BY MarkedIsLiveKept, VoidingIsListedKept, InputsAreListedKept DEF CountFacts
  <2>6. CountInv'
      BY CountInvKept
  <2> QED
      BY <2>1, <2>2, <2>3, <2>4, <2>5, <2>6
<1>3. Inv => CountIsAtMostHistory
  <2> SUFFICES ASSUME Inv, NEW a \in Address, \A t \in Doubtful : a \notin AddressesOf(t)
               PROVE  txCount[a] <= Cardinality({t \in Tx : history[t] = "valid" /\ a \in AddressesOf(t)})
      BY DEF CountIsAtMostHistory
  <2>1. ~Crossed(a)
      BY DEF Crossed, Doubtful
  <2>2. ~AddressWaits(a)
      BY WaitingIsVisited DEF AddressWaits, Doubtful
  <2> QED
      BY <2>1, <2>2 DEF CountInv, CountOf, CountAgrees, Held
<1> QED
    BY <1>1, <1>2, <1>3, PTL DEF Spec
=============================================================================
