---------------------- MODULE StockTransactionsProofs ----------------------
(***************************************************************************)
(* StockTransactions, for any calls, carts and pools: its deadlocks, its   *)
(* lost restocks, and that its transactions are the steps of StockRows.    *)
(***************************************************************************)
EXTENDS StockTransactions, SequenceTheorems, SumLemmas

-----------------------------------------------------------------------------
(* The inductive invariant.                                                *)

Typed ==
  /\ works \in [Calls -> Works] /\ pool \in Nat
  /\ calls \in [Calls -> [pc : {"new", "running", "upserted", "committed", "failed"},
                          line : Nat \ {0}, transaction : BOOLEAN, other : BOOLEAN]]
  /\ owner \in [Skus -> Calls \cup {Null}]
  /\ late \subseteq Calls

(* Connections belong to calls that are under way.                         *)
Connected ==
  \A c \in Calls :
    /\ Ended(c) \/ calls[c].pc = "new" => ~ Open(c) /\ ~ calls[c].other
    /\ calls[c].other => works[c].restock /\ calls[c].pc = "running"

(* A row is locked for a line that its transaction has been through.       *)
Locked ==
  \A s \in Skus : owner[s] # Null =>
    /\ Open(owner[s]) /\ ~ works[owner[s]].restock /\ s \in DOMAIN rows
    /\ \E i \in DOMAIN Lines(owner[s]) : i < calls[owner[s]].line /\ Lines(owner[s])[i].sku = s

(* A cart shows when it is committed, a restock when it is past its upsert.*)
Shown ==
  \A c \in Calls : c \in applied =>
    IF works[c].restock THEN calls[c].pc \in {"upserted", "committed", "failed"}
    ELSE calls[c].pc = "committed"

IInv == Typed /\ Connected /\ Locked /\ Shown /\ Used <= pool

-----------------------------------------------------------------------------
(* A rolled back or committed transaction frees its rows.                  *)
LEMMA Freed ==
  ASSUME Typed, Locked, NEW c \in Calls, NEW pc, Rollback(c, pc), NEW s \in Skus, owner'[s] # Null
  PROVE  owner'[s] = owner[s] /\ owner[s] # c /\ calls'[owner[s]] = calls[owner[s]]
BY DEF Rollback, Typed

(* Who is in a deadlock is a cart.                                         *)
LEMMA DeadlockedCart ==
  ASSUME NEW c \in Calls, Deadlocked(c)
  PROVE  Open(c) /\ ~ works[c].restock
BY DEF Deadlocked, Circle, AwaitsRow

-----------------------------------------------------------------------------
(* It holds when the service starts.                                       *)
LEMMA IInvInit == Init => IInv
<1> SUFFICES ASSUME Init PROVE IInv
  OBVIOUS
<1>1. Typed /\ Connected /\ Locked /\ Shown
  BY BoundsAssumption DEF Init, Typed, Connected, Ended, Open, Locked, Shown
<1> DEFINE opened == {c \in Calls : Open(c)}
           others == {c \in Calls : calls[c].other}
<1>2. opened = {} /\ others = {}
  BY DEF Init, Open
<1>3. Used <= pool
  <2>1. Used = Cardinality(opened) + Cardinality(others)
    BY DEF Used
  <2> HIDE DEF opened, others
  <2>2. Cardinality(opened) = 0 /\ Cardinality(others) = 0
    BY <1>2, FS_EmptySet
  <2> QED BY <1>1, <2>1, <2>2 DEF Typed
<1> QED BY <1>1, <1>3 DEF IInv

(* A connection is taken only when one is free.                            *)
LEMMA UsedKept ==
  ASSUME IInv, [Next]_vars
  PROVE  Used' <= pool'
<1> DEFINE opened == {c \in Calls : Open(c)}
           others == {c \in Calls : calls[c].other}
<1>1. /\ IsFiniteSet(opened) /\ Cardinality(opened) \in Nat
      /\ IsFiniteSet(others) /\ Cardinality(others) \in Nat
      /\ IsFiniteSet(opened') /\ Cardinality(opened') \in Nat
      /\ IsFiniteSet(others') /\ Cardinality(others') \in Nat
  BY CallsAssumption, FS_Subset, FS_CardinalityType
<1>2. pool \in Nat /\ pool' = pool /\ Cardinality(opened) + Cardinality(others) <= pool
  BY DEF IInv, Typed, Used, Next, CallStep, Begin, BeginFails, CartStep, UpdateRow, UpdateThrows,
     Commit, DeadlockDetected, RestockStep, TakeOther, Upsert, WriteOutbox, OutboxFails, LimitPasses,
     TimeOut, vars
<1>3. ASSUME NEW c \in Calls, Begin(c)
      PROVE  opened' = opened \cup {c} /\ others' = others /\ Free
  BY <1>3 DEF Begin, Open, IInv, Typed
<1>4. ASSUME NEW c \in Calls, TakeOther(c)
      PROVE  opened' = opened /\ others' = others \cup {c} /\ Free
  BY <1>4 DEF TakeOther, Open, IInv, Typed
<1>5. CASE opened' \subseteq opened /\ others' \subseteq others
  <2> HIDE DEF opened, others
  <2>1. Cardinality(opened') <= Cardinality(opened) /\ Cardinality(others') <= Cardinality(others)
    BY <1>1, <1>5, FS_Subset
  <2>2. Cardinality(opened') + Cardinality(others') <= pool'
    BY <1>1, <1>2, <2>1
  <2> QED BY <2>2 DEF Used, opened, others
<1>6. ASSUME NEW c \in Calls,
             \/ BeginFails(c) \/ CartStep(c) \/ Upsert(c) \/ WriteOutbox(c)
             \/ OutboxFails(c) \/ LimitPasses(c) \/ TimeOut(c)
      PROVE  opened' \subseteq opened /\ others' \subseteq others
  BY <1>6
  DEF BeginFails, CartStep, UpdateRow, UpdateThrows, Commit, DeadlockDetected, Upsert, WriteOutbox,
      OutboxFails, LimitPasses, TimeOut, Rollback, Open, IInv, Typed
<1>7. ASSUME NEW c \in Calls, \/ opened' = opened \cup {c} /\ others' = others
                              \/ opened' = opened /\ others' = others \cup {c},
             Free
      PROVE  Used' <= pool'
  <2>1. Cardinality(opened) + Cardinality(others) < pool
    BY <1>7 DEF Free, Used
  <2> HIDE DEF opened, others
  <2>2. /\ Cardinality(opened \cup {c}) <= Cardinality(opened) + 1
        /\ Cardinality(others \cup {c}) <= Cardinality(others) + 1
    <3>1. /\ Cardinality(opened \cup {c}) =
                IF c \in opened THEN Cardinality(opened) ELSE Cardinality(opened) + 1
          /\ Cardinality(others \cup {c}) =
                IF c \in others THEN Cardinality(others) ELSE Cardinality(others) + 1
      BY <1>1, FS_AddElement
    <3> QED BY <1>1, <3>1
  <2>3. Cardinality(opened') + Cardinality(others') <= pool'
    <3>1. CASE opened' = opened \cup {c} /\ others' = others
      BY <1>1, <1>2, <2>1, <2>2, <3>1
    <3>2. CASE opened' = opened /\ others' = others \cup {c}
      BY <1>1, <1>2, <2>1, <2>2, <3>2
    <3> QED BY <1>7, <3>1, <3>2
  <2> QED BY <2>3 DEF Used, opened, others
<1>8. CASE UNCHANGED vars
  BY <1>5, <1>8 DEF vars, Open
<1> QED BY <1>3, <1>4, <1>5, <1>6, <1>7, <1>8 DEF Next, CallStep, RestockStep

(* Lines are numbered.                                                     *)
LEMMA LinesAreNumbered ==
  ASSUME Typed, NEW c \in Calls
  PROVE  DOMAIN Lines(c) \subseteq Nat
<1>1. Lines(c) \in Seq([sku : Skus, change : Int \ {0}])
  BY WorksAssumption DEF Typed, Lines
<1> QED BY <1>1

(* The line a cart has got to.                                             *)
LEMMA LineOfCall ==
  ASSUME Typed, NEW c \in Calls, HasLine(c)
  PROVE  calls[c].line \in DOMAIN Lines(c) /\ Lines(c)[calls[c].line].sku \in Skus
<1>1. Lines(c) \in Seq([sku : Skus, change : Int \ {0}])
  BY WorksAssumption DEF Typed, Lines
<1>2. calls[c].line \in 1 .. Len(Lines(c))
  BY <1>1 DEF Typed, HasLine
<1> HIDE DEF Lines
<1>3. calls[c].line \in DOMAIN Lines(c) /\ Lines(c)[calls[c].line] \in [sku : Skus, change : Int \ {0}]
  BY <1>1, <1>2, LenProperties, ElementOfSeq
<1> QED BY <1>3 DEF Lines

(* What a restock does is no matter to the locks.                          *)
LEMMA RestockLocksNothing ==
  ASSUME IInv, NEW c \in Calls, works[c].restock, UNCHANGED <<works, owner>>,
         DOMAIN rows \subseteq DOMAIN rows', \A q \in Calls \ {c} : calls'[q] = calls[q]
  PROVE  Locked'
<1>1. ASSUME NEW s \in Skus, owner'[s] # Null
      PROVE  owner'[s] = owner[s] /\ owner[s] # Null /\ calls'[owner[s]] = calls[owner[s]]
  <2>1. owner'[s] = owner[s] /\ owner[s] # Null
    BY <1>1
  <2>2. owner[s] \in Calls /\ ~ works[owner[s]].restock
    BY <2>1 DEF IInv, Typed, Locked
  <2>3. owner[s] # c
    BY <2>2
  <2> QED BY <2>1, <2>2, <2>3
<1>2. ASSUME NEW s \in Skus, owner'[s] # Null
      PROVE  /\ Open(owner[s])' /\ ~ works'[owner'[s]].restock /\ s \in DOMAIN rows'
             /\ \E i \in DOMAIN Lines(owner[s])' :
                  i < calls'[owner'[s]].line /\ Lines(owner[s])'[i].sku = s
  <2>1. owner'[s] = owner[s] /\ owner[s] # Null /\ calls'[owner[s]] = calls[owner[s]]
    BY <1>1, <1>2
  <2>2. /\ Open(owner[s]) /\ ~ works[owner[s]].restock /\ s \in DOMAIN rows
        /\ \E i \in DOMAIN Lines(owner[s]) : i < calls[owner[s]].line /\ Lines(owner[s])[i].sku = s
    BY <2>1 DEF IInv, Locked
  <2> QED BY <2>1, <2>2 DEF Open, Lines
<1> QED BY <1>2 DEF Locked

(* A transaction of a cart that is rolled back leaves nothing.             *)
LEMMA RollbackKeeps ==
  ASSUME IInv, NEW c \in Calls, Open(c), ~ works[c].restock,
         Rollback(c, "failed"), UNCHANGED <<works, pool, rows, late, applied>>
  PROVE  Typed' /\ Connected' /\ Locked' /\ Shown'
<1>1. Typed' /\ Connected'
  BY DEF IInv, Rollback, Typed, Connected, Ended, Open
<1>2. Locked'
  <2>1. ASSUME NEW s \in Skus, owner'[s] # Null
        PROVE  /\ owner'[s] = owner[s] /\ owner[s] # Null /\ calls'[owner[s]] = calls[owner[s]]
    BY <2>1, Freed DEF IInv
  <2> QED BY <2>1 DEF IInv, Locked, Open, Lines
<1>3. calls[c].pc \in {"running", "upserted"} /\ c \notin applied
  BY DEF IInv, Typed, Connected, Ended, Shown
<1>4. Shown'
  BY <1>3 DEF IInv, Rollback, Typed, Shown, Open
<1> QED BY <1>1, <1>2, <1>4

(* Begin to OutboxFails, and timeouts: each keeps what the calls, rows and *)
(* locks look like.                                                        *)
LEMMA StepsKeep ==
  ASSUME IInv, [Next]_vars
  PROVE  Typed' /\ Connected' /\ Locked' /\ Shown'
<1> DEFINE Good == Typed' /\ Connected' /\ Locked' /\ Shown'
<1> USE DEF IInv
<1>1. CASE UNCHANGED vars
  BY <1>1 DEF vars, Typed, Connected, Locked, Shown, Ended, Open, Lines
<1>2. ASSUME NEW c \in Calls, Begin(c) PROVE Good
  BY <1>2 DEF Begin, Typed, Connected, Locked, Shown, Ended, Open, Lines
<1>3. ASSUME NEW c \in Calls, BeginFails(c) PROVE Good
  BY <1>3 DEF BeginFails, Typed, Connected, Locked, Shown, Ended, Open, Lines
<1>4. ASSUME NEW c \in Calls, UpdateRow(c) PROVE Good
  <2> DEFINE s == NextSku(c)
  <2>1. /\ Open(c) /\ ~ works[c].restock
        /\ s \in DOMAIN rows /\ owner[s] \in {Null, c}
        /\ owner' = [owner EXCEPT ![s] = c]
        /\ calls' = [calls EXCEPT ![c].line = @ + 1]
        /\ UNCHANGED <<works, pool, rows, late, applied>>
    BY <1>4 DEF UpdateRow
  <2>2. calls[c].line \in DOMAIN Lines(c) /\ Lines(c)[calls[c].line].sku = s /\ s \in Skus
    BY <1>4, LineOfCall DEF UpdateRow, NextSku, NextLine
  <2> HIDE DEF s
  <2>3. Typed' /\ Connected' /\ Shown'
    BY <2>1, <2>2 DEF Typed, Connected, Shown, Ended, Open
  <2>4. ASSUME NEW x \in Skus, owner'[x] # Null
        PROVE  /\ Open(owner[x])' /\ ~ works'[owner'[x]].restock /\ x \in DOMAIN rows'
               /\ \E i \in DOMAIN Lines(owner[x])' :
                    i < calls'[owner'[x]].line /\ Lines(owner[x])'[i].sku = x
    <3>1. CASE x = s
      <4>1. /\ owner'[x] = c /\ calls[c].line \in Nat /\ calls'[c].line = calls[c].line + 1
            /\ calls'[c].transaction = calls[c].transaction /\ Lines(c)' = Lines(c)
        BY <2>1, <2>2, <3>1 DEF Typed, Lines
      <4>2. calls[c].line < calls'[c].line
        BY <4>1
      <4> QED BY <2>1, <2>2, <3>1, <4>1, <4>2 DEF Open, Lines
    <3>2. CASE x # s
      <4>1. /\ owner'[x] = owner[x] /\ owner[x] # Null /\ owner[x] \in Calls
            /\ \A q \in Calls : /\ calls'[q].transaction = calls[q].transaction
                               /\ calls[q].line \in Nat /\ calls[q].line <= calls'[q].line
        BY <2>1, <2>4, <3>2 DEF Typed
      <4>2. PICK i \in DOMAIN Lines(owner[x]) : i < calls[owner[x]].line /\ Lines(owner[x])[i].sku = x
        BY <4>1 DEF Locked
      <4>3. i \in Nat
        BY <4>1, <4>2, LinesAreNumbered
      <4>4. i < calls'[owner'[x]].line /\ Lines(owner[x])' = Lines(owner[x])
        BY <2>1, <4>1, <4>2, <4>3 DEF Lines
      <4> QED BY <2>1, <4>1, <4>2, <4>4 DEF Locked, Open
    <3> QED BY <3>1, <3>2
  <2> QED BY <2>3, <2>4 DEF Locked
<1>5. ASSUME NEW c \in Calls, UpdateThrows(c) PROVE Good
  BY <1>5 DEF UpdateThrows, Rollback, Typed, Connected, Locked, Shown, Ended, Open, Lines
<1>6. ASSUME NEW c \in Calls, Commit(c) PROVE Good
  BY <1>6 DEF Commit, Rollback, Typed, Connected, Locked, Shown, Ended, Open, Lines
<1>7. ASSUME NEW c \in Calls, DeadlockDetected(c) PROVE Good
  <2>1. Open(c) /\ ~ works[c].restock
    BY <1>7, DeadlockedCart DEF DeadlockDetected
  <2>2. Rollback(c, "failed") /\ UNCHANGED <<works, pool, rows, late, applied>>
    BY <1>7 DEF DeadlockDetected
  <2> QED BY <2>1, <2>2, RollbackKeeps
<1>8. ASSUME NEW c \in Calls, TakeOther(c) PROVE Good
  <2>1. /\ works[c].restock /\ calls[c].pc = "running"
        /\ calls' = [calls EXCEPT ![c].other = TRUE]
        /\ UNCHANGED <<works, pool, rows, owner, late, applied>>
    BY <1>8 DEF TakeOther
  <2>2. Typed' /\ Connected' /\ Shown'
    <3>1. Typed' /\ Connected'
      BY <2>1 DEF Typed, Connected, Ended, Open
    <3>2. Shown'
      BY <2>1 DEF Typed, Shown, Open
    <3> QED BY <3>1, <3>2
  <2>3. Locked'
    <3>1. \A q \in Calls \ {c} : calls'[q] = calls[q]
      BY <2>1 DEF Typed
    <3> QED BY <2>1, <3>1, RestockLocksNothing
  <2> QED BY <2>2, <2>3
<1>9. ASSUME NEW c \in Calls, Upsert(c) PROVE Good
  <2>1. /\ works[c].restock /\ calls[c].pc = "running"
        /\ applied' = applied \cup {c}
        /\ calls' = [calls EXCEPT ![c].pc = "upserted", ![c].other = FALSE]
        /\ DOMAIN rows \subseteq DOMAIN rows'
        /\ UNCHANGED <<works, pool, owner, late>>
    BY <1>9 DEF Upsert, Connected
  <2>2. Typed' /\ Connected'
    BY <2>1 DEF Typed, Connected, Ended, Open
  <2>3. Locked'
    <3>1. \A q \in Calls \ {c} : calls'[q] = calls[q]
      BY <2>1 DEF Typed
    <3> QED BY <2>1, <3>1, RestockLocksNothing
  <2>4. Shown'
    BY <2>1 DEF Typed, Shown, Open
  <2> QED BY <2>2, <2>3, <2>4
<1>10. ASSUME NEW c \in Calls, WriteOutbox(c) PROVE Good
  BY <1>10 DEF WriteOutbox, Rollback, Typed, Connected, Locked, Shown, Ended, Open, Lines
<1>11. ASSUME NEW c \in Calls, OutboxFails(c) PROVE Good
  BY <1>11 DEF OutboxFails, Typed, Connected, Locked, Shown, Ended, Open, Lines
<1>12. ASSUME NEW c \in Calls, TimeOut(c) PROVE Good
  BY <1>12
  DEF TimeOut, After, Rollback, Typed, Connected, Locked, Shown, Ended, Open, Lines
<1>13. ASSUME NEW c \in Calls, LimitPasses(c) PROVE Good
  BY <1>13 DEF LimitPasses, Typed, Connected, Locked, Shown, Ended, Open, Lines
<1> QED
  BY <1>1, <1>2, <1>3, <1>4, <1>5, <1>6, <1>7, <1>8, <1>9, <1>10, <1>11, <1>12, <1>13
  DEF Next, CallStep, CartStep, RestockStep

(* Every step keeps it.                                                    *)
LEMMA IInvNext == IInv /\ [Next]_vars => IInv'
BY StepsKeep, UsedKept DEF IInv

(* Connections, row locks and what has been committed fit together at all  *)
(* times.                                                                  *)
THEOREM Invariant == Spec => []IInv
BY IInvInit, IInvNext, PTL DEF Spec

(* Transactions and upserts never hold more connections than the pool has, *)
(* no row is locked without its transaction, and a cart shows only when it *)
(* has committed.                                                          *)
THEOREM TypeCorrect == Spec => []TypeOK
<1>1. IInv => TypeOK
  BY DEF IInv, Typed, Connected, Locked, Shown, TypeOK
<1> QED BY <1>1, Invariant, PTL

-----------------------------------------------------------------------------
(* Natural numbers have a least one.                                       *)
LEMMA Least ==
  ASSUME NEW T \in SUBSET Nat, T # {}
  PROVE  \E x \in T : \A y \in T : x <= y
<1> DEFINE R == OpToRel(<, Nat)
<1>1. IsWellFoundedOn(R, Nat)
  BY NatLessThanWellFounded
<1>2. \A x, y \in Nat : x < y => <<x, y>> \in R
  BY DEF OpToRel
<1> HIDE DEF R
<1>3. PICK x \in T : \A y \in T : ~ (<<y, x>> \in R)
  BY <1>1, WFMin
<1>4. \A y \in T : ~ (y < x)
  BY <1>2, <1>3
<1>5. \A y \in T : y \in Nat /\ x \in Nat
  BY <1>3
<1>6. \A y \in T : x <= y
  BY <1>4, <1>5
<1> QED BY <1>3, <1>6

(* Whom a call in a circle waits for waits for a row of higher rank.       *)
LEMMA RanksRise ==
  ASSUME IInv, NEW D \in SUBSET Calls, Circle(D),
         NEW rank \in [Skus -> 1 .. Cardinality(Skus)], \A c \in D : Follows(c, rank),
         NEW c \in D
  PROVE  \E d \in D : rank[NextSku(c)] < rank[NextSku(d)]
<1>1. \A d \in D : /\ HasLine(d) /\ owner[NextSku(d)] \in D
                    /\ owner[NextSku(d)] # d /\ owner[NextSku(d)] # Null
  BY DEF Circle, AwaitsRow
<1> DEFINE d == owner[NextSku(c)]
<1>2. d \in D /\ d # Null /\ NextSku(c) \in Skus
  BY <1>1, LineOfCall DEF IInv, NextSku, NextLine
<1>3. PICK i \in DOMAIN Lines(d) : i < calls[d].line /\ Lines(d)[i].sku = NextSku(c)
  BY <1>2 DEF IInv, Locked
<1>4. calls[d].line \in DOMAIN Lines(d) /\ Lines(d)[calls[d].line].sku = NextSku(d)
  BY <1>1, <1>2, LineOfCall DEF IInv, NextSku, NextLine
<1>5. NextSku(c) # NextSku(d)
  BY <1>1, <1>2
<1> HIDE DEF d
<1> QED BY <1>2, <1>3, <1>4, <1>5 DEF Follows

(* reserveStockInventory, processOrderCheckoutFailed, processOrderCanceled *)
(* lock their rows in the order of the lines: carts that all list their    *)
(* products in one order never wait for each other in a circle.            *)
THEOREM OrderedCartsNeverDeadlock == Spec => []DeadlockNeedsDisorder
<1>1. IInv => DeadlockNeedsDisorder
  <2> SUFFICES ASSUME IInv, NEW D \in SUBSET Calls, Circle(D),
                      NEW rank \in [Skus -> 1 .. Cardinality(Skus)], \A c \in D : Follows(c, rank)
               PROVE  FALSE
    BY DEF DeadlockNeedsDisorder
  <2> DEFINE n == Cardinality(Skus)
             toGo(c) == n - rank[NextSku(c)]
             T == {toGo(c) : c \in D}
  <2>1. n \in Nat
    BY WorksAssumption, FS_CardinalityType
  <2>2. \A c \in D : rank[NextSku(c)] \in 1 .. n
    <3>1. \A c \in D : HasLine(c)
      BY DEF Circle, AwaitsRow
    <3> QED BY <3>1, LineOfCall DEF IInv, NextSku, NextLine
  <2> HIDE DEF n
  <2>3. T \in SUBSET Nat /\ T # {}
    BY <2>1, <2>2 DEF Circle
  <2>4. PICK c \in D : \A d \in D : toGo(c) <= toGo(d)
    <3>1. \A t \in T : \E c \in D : t = toGo(c)
      OBVIOUS
    <3>2. \A c \in D : toGo(c) \in T
      OBVIOUS
    <3> HIDE DEF T, toGo
    <3>3. PICK t \in T : \A u \in T : t <= u
      BY <2>3, Least
    <3> QED BY <3>1, <3>2, <3>3
  <2>5. PICK d \in D : rank[NextSku(c)] < rank[NextSku(d)]
    BY RanksRise
  <2>6. toGo(c) <= toGo(d)
    BY <2>4
  <2> QED BY <2>1, <2>2, <2>5, <2>6
<1> QED BY <1>1, Invariant, PTL

-----------------------------------------------------------------------------
(* Atomicity.                                                              *)

(* What the first n lines change of a row.                                 *)
Line == [sku : Skus, change : Int \ {0}]
ChangeAt(lines, s) == [i \in DOMAIN lines |-> IF lines[i].sku = s THEN lines[i].change ELSE 0]
Part(lines, s, n) == SumFunctionOnSet(ChangeAt(lines, s), 1 .. n)

(* A cart that is open has locked the rows of the lines it has been        *)
(* through, and drafted what they change; only a restock is upserted.      *)
ThroughLines ==
  \A c \in Calls :
    /\ calls[c].pc = "new" \/ works[c].restock => calls[c].line = 1
    /\ Open(c) /\ ~ works[c].restock =>
         /\ calls[c].line <= Len(Lines(c)) + 1
         /\ \A i \in DOMAIN Lines(c) : i < calls[c].line => owner[Lines(c)[i].sku] = c
    /\ calls[c].pc = "upserted" => works[c].restock /\ c \in applied
RowsTyped ==
  /\ DOMAIN rows \subseteq Skus /\ rows \in [DOMAIN rows -> Int]
  /\ draft \in [Skus -> Int]
Drafted ==
  \A s \in Skus : owner[s] # Null =>
    draft[s] = rows[s] + Part(Lines(owner[s]), s, calls[owner[s]].line - 1)

Drafts == ThroughLines /\ RowsTyped /\ Drafted

(* What is asked for is a sequence of lines.                               *)
LEMMA LinesTyped ==
  ASSUME Typed, NEW c \in Calls
  PROVE  /\ Lines(c) \in Seq(Line) /\ Len(Lines(c)) \in Nat /\ DOMAIN Lines(c) = 1 .. Len(Lines(c))
         /\ works[c].restock => Len(Lines(c)) = 1
<1>1. Lines(c) \in Seq(Line) /\ (works[c].restock => Len(Lines(c)) = 1)
  BY WorksAssumption DEF Typed, Lines, Line
<1> QED BY <1>1, LenProperties

(* Each line adds what it changes.                                         *)
LEMMA PartGrows ==
  ASSUME NEW lines \in Seq(Line), NEW s, NEW n \in 1 .. Len(lines)
  PROVE  /\ Part(lines, s, n - 1) \in Int /\ lines[n].change \in Int
         /\ Part(lines, s, n) = Part(lines, s, n - 1) + IF lines[n].sku = s THEN lines[n].change ELSE 0
<1>1. PICK f : f = ChangeAt(lines, s)
  OBVIOUS
<1>2. ASSUME NEW i \in 1 .. n
      PROVE  /\ f[i] = IF lines[i].sku = s THEN lines[i].change ELSE 0
             /\ f[i] \in Int /\ lines[i].change \in Int
  <2>1. i \in 1 .. Len(lines) /\ i \in DOMAIN lines
    OBVIOUS
  <2>2. lines[i] \in Line
    BY <2>1, ElementOfSeq
  <2> QED BY <1>1, <2>1, <2>2 DEF ChangeAt, Line
<1>3. /\ IsFiniteSet(1 .. n) /\ n \in 1 .. n /\ (1 .. n) \ {n} = 1 .. (n - 1) /\ IsFiniteSet(1 .. (n - 1))
  <2>1. n \in Nat \ {0} /\ n - 1 \in Int
    OBVIOUS
  <2>2. n \in 1 .. n /\ (1 .. n) \ {n} = 1 .. (n - 1)
    BY <2>1
  <2> QED BY <2>1, <2>2, FS_Interval
<1>4. SumFunctionOnSet(f, 1 .. n) = f[n] + SumFunctionOnSet(f, 1 .. (n - 1))
  BY <1>2, <1>3, SumOut
<1>5. SumFunctionOnSet(f, 1 .. (n - 1)) \in Int
  <2>1. \A i \in 1 .. (n - 1) : f[i] \in Int
    BY <1>2
  <2> QED BY <1>3, <2>1, SumType
<1>6. f[n] \in Int /\ f[n] = IF lines[n].sku = s THEN lines[n].change ELSE 0
  BY <1>2, <1>3
<1>7. lines[n].change \in Int
  BY <1>2, <1>3
<1>8. SumFunctionOnSet(f, 1 .. n) = SumFunctionOnSet(f, 1 .. (n - 1)) + f[n]
  BY <1>4, <1>5, <1>6
<1> QED BY <1>1, <1>5, <1>6, <1>7, <1>8 DEF Part

(* Lines of other rows change nothing.                                     *)
LEMMA PartIsNone ==
  ASSUME NEW lines \in Seq(Line), NEW s, NEW n \in 0 .. Len(lines),
         \A i \in 1 .. n : lines[i].sku # s
  PROVE  Part(lines, s, n) = 0
<1>1. \A i \in 1 .. n : i \in DOMAIN lines
  OBVIOUS
<1>2. \A i \in 1 .. n : ChangeAt(lines, s)[i] = 0
  BY <1>1 DEF ChangeAt
<1>3. IsFiniteSet(1 .. n)
  BY FS_Interval
<1> QED BY <1>2, <1>3, SumZero DEF Part

(* All lines together are the change that StockRows speaks of.             *)
LEMMA ChangeIsSum ==
  ASSUME NEW lines \in Seq(Line), NEW s
  PROVE  Rows!Change(lines, s) = Part(lines, s, Len(lines))
<1> DEFINE D == DOMAIN lines
           f == ChangeAt(lines, s)
           Sums(h) == h = [x \in SUBSET D |->
             IF x = {} THEN 0
             ELSE (IF lines[Pick(x)].sku = s THEN lines[Pick(x)].change ELSE 0) + h[x \ {Pick(x)}]]
           g == CHOOSE h : Sums(h)
<1>1. Rows!Change(lines, s) = g[D]
  BY DEF Rows!Change, Rows!MapThenSumSet, Rows!MapThenFoldSet, Pick
<1>2. \A x \in SUBSET D : x # {} =>
        f[Pick(x)] = IF lines[Pick(x)].sku = s THEN lines[Pick(x)].change ELSE 0
  BY PickIn DEF ChangeAt
<1>3. \A h : Sums(h) <=> Adds(h, f, D)
  <2> HIDE DEF f
  <2> QED BY <1>2 DEF Adds
<1>4. D = 1 .. Len(lines) /\ IsFiniteSet(D)
  <2>1. D = 1 .. Len(lines) /\ Len(lines) \in Nat
    BY LenProperties
  <2> QED BY <2>1, FS_Interval
<1>5. \E h : Adds(h, f, D)
  BY <1>4, AddsExists
<1>6. Adds(g, f, D)
  <2> HIDE DEF f, Sums
  <2> QED BY <1>3, <1>5
<1> HIDE DEF g, f
<1>7. SumFunctionOnSet(f, D) = g[D]
  BY <1>4, <1>6, SumByAdds
<1> QED BY <1>1, <1>4, <1>7 DEF f, Part

(* A transaction that ends without its change being shown leaves the       *)
(* drafts of others alone.                                                 *)
LEMMA RollbackKeepsDrafts ==
  ASSUME IInv, Drafts, NEW c \in Calls, Open(c), NEW pc, pc # "upserted", pc # "new", Rollback(c, pc),
         UNCHANGED <<works, draft>>, applied \subseteq applied',
         rows' \in [DOMAIN rows -> Int],
         \A s \in DOMAIN rows : owner[s] # c => rows'[s] = rows[s]
  PROVE  Drafts'
<1>1. /\ \A q \in Calls \ {c} : calls'[q] = calls[q]
      /\ calls'[c].pc = pc /\ calls'[c].line = calls[c].line /\ ~ calls'[c].transaction
  BY DEF Rollback, IInv, Typed
<1>2. ASSUME NEW s \in Skus, owner'[s] # Null
      PROVE  owner'[s] = owner[s] /\ owner[s] # c /\ calls'[owner[s]] = calls[owner[s]]
  BY <1>2, Freed DEF IInv
<1>3. ThroughLines'
  <2> SUFFICES ASSUME NEW q \in Calls
               PROVE  /\ calls'[q].pc = "new" \/ works[q].restock => calls'[q].line = 1
                      /\ Open(q)' /\ ~ works[q].restock =>
                           /\ calls'[q].line <= Len(Lines(q)) + 1
                           /\ \A i \in DOMAIN Lines(q) : i < calls'[q].line => owner'[Lines(q)[i].sku] = q
                      /\ calls'[q].pc = "upserted" => works[q].restock /\ q \in applied'
    BY DEF ThroughLines, Lines
  <2>1. CASE q = c
    BY <1>1, <2>1 DEF Drafts, ThroughLines, Open
  <2>2. CASE q # c
    <3>1. calls'[q] = calls[q]
      BY <1>1, <2>2
    <3>2. ASSUME NEW i \in DOMAIN Lines(q), owner[Lines(q)[i].sku] = q PROVE owner'[Lines(q)[i].sku] = q
      <4>1. Lines(q)[i] \in Line
        BY LinesTyped, ElementOfSeq DEF IInv
      <4> QED BY <2>2, <3>2, <4>1 DEF Rollback, Line
    <3> QED BY <3>1, <3>2 DEF Drafts, ThroughLines, Open
  <2> QED BY <2>1, <2>2
<1>4. RowsTyped'
  BY DEF Drafts, RowsTyped
<1>5. Drafted'
  <2> SUFFICES ASSUME NEW s \in Skus, owner'[s] # Null
               PROVE  draft[s] = rows'[s] + Part(Lines(owner[s]), s, calls[owner[s]].line - 1)
    BY <1>2 DEF Drafted, Part, ChangeAt, Lines
  <2>1. owner[s] # Null /\ owner[s] # c /\ s \in DOMAIN rows
    BY <1>2 DEF IInv, Locked
  <2> QED BY <2>1 DEF Drafts, Drafted
<1> QED BY <1>3, <1>4, <1>5 DEF Drafts

(* Steps that leave rows, locks and drafts alone.                          *)
LEMMA IdleKeepsDrafts ==
  ASSUME IInv, Drafts, NEW c \in Calls, UNCHANGED <<works, rows, owner, draft, applied>>,
         \A q \in Calls \ {c} : calls'[q] = calls[q], calls'[c].line = calls[c].line,
         calls'[c].pc # "new", calls'[c].pc = "upserted" => works[c].restock /\ c \in applied,
         calls'[c].transaction /\ ~ works[c].restock => calls[c].pc = "new"
  PROVE  Drafts'
<1>1. ThroughLines'
  <2> SUFFICES ASSUME NEW q \in Calls
               PROVE  /\ calls'[q].pc = "new" \/ works[q].restock => calls'[q].line = 1
                      /\ Open(q)' /\ ~ works[q].restock =>
                           /\ calls'[q].line <= Len(Lines(q)) + 1
                           /\ \A i \in DOMAIN Lines(q) : i < calls'[q].line => owner[Lines(q)[i].sku] = q
                      /\ calls'[q].pc = "upserted" => works[q].restock /\ q \in applied
    BY DEF ThroughLines, Lines
  <2>1. CASE q # c
    BY <2>1 DEF Drafts, ThroughLines, Open
  <2>2. CASE q = c
    <3>1. /\ works[q].restock => calls'[q].line = 1
          /\ calls'[q].pc = "upserted" => works[q].restock /\ q \in applied
      BY <2>2 DEF Drafts, ThroughLines
    <3>2. ASSUME Open(q)', ~ works[q].restock
          PROVE  /\ calls'[q].line <= Len(Lines(q)) + 1
                 /\ \A i \in DOMAIN Lines(q) : ~ (i < calls'[q].line)
      <4>1. calls'[q].line = 1
        BY <2>2, <3>2 DEF Drafts, ThroughLines, Open
      <4> QED BY <4>1, LinesTyped DEF IInv
    <3> QED BY <2>2, <3>1, <3>2
  <2> QED BY <2>1, <2>2
<1>2. RowsTyped'
  BY DEF Drafts, RowsTyped
<1>3. Drafted'
  <2> SUFFICES ASSUME NEW s \in Skus, owner[s] # Null
               PROVE  draft[s] = rows[s] + Part(Lines(owner[s]), s, calls'[owner[s]].line - 1)
    BY DEF Drafted, Part, ChangeAt, Lines
  <2>1. calls'[owner[s]].line = calls[owner[s]].line
    BY DEF IInv, Typed
  <2> QED BY <2>1 DEF Drafts, Drafted
<1> QED BY <1>1, <1>2, <1>3 DEF Drafts

(* An update drafts one line more, of a row its transaction has or gets.   *)
LEMMA UpdateKeepsDrafts ==
  ASSUME IInv, Drafts, NEW c \in Calls, UpdateRow(c)
  PROVE  Drafts'
<1> DEFINE n == calls[c].line
           lines == Lines(c)
           s == NextSku(c)
           before == IF owner[s] = c THEN draft[s] ELSE rows[s]
<1>1. /\ Open(c) /\ ~ works[c].restock /\ HasLine(c)
      /\ s \in DOMAIN rows /\ owner[s] \in {Null, c}
      /\ owner' = [owner EXCEPT ![s] = c]
      /\ draft' = [draft EXCEPT ![s] = before + NextLine(c).change]
      /\ calls' = [calls EXCEPT ![c].line = @ + 1]
      /\ UNCHANGED <<works, rows, applied>>
  BY DEF UpdateRow
<1>2. /\ lines \in Seq(Line) /\ n \in 1 .. Len(lines) /\ n \in Nat \ {0} /\ n \in DOMAIN lines
      /\ lines[n].sku = s /\ s \in Skus /\ Len(lines) \in Nat /\ DOMAIN lines = 1 .. Len(lines)
  <2>1. n \in DOMAIN lines /\ lines[n].sku = s /\ s \in Skus
    BY <1>1, LineOfCall DEF IInv, NextSku, NextLine
  <2> QED BY <2>1, LinesTyped DEF IInv, Typed
<1>3. /\ \A q \in Calls \ {c} : calls'[q] = calls[q]
      /\ calls'[c].line = n + 1 /\ calls'[c].pc = calls[c].pc /\ calls'[c].transaction
  BY <1>1 DEF IInv, Typed, Open
<1>4. /\ \A x \in Skus \ {s} : owner'[x] = owner[x] /\ draft'[x] = draft[x]
      /\ owner'[s] = c /\ draft'[s] = before + lines[n].change
  BY <1>1, <1>2 DEF IInv, Typed, Drafts, RowsTyped, NextLine
<1>5. Null \notin Calls
  BY CallsAssumption
<1>6. calls[c].pc # "new"
  BY <1>1 DEF IInv, Connected
<1>7. PICK base \in Int, change \in Int, part \in Int :
        base = rows[s] /\ change = lines[n].change /\ part = Part(lines, s, n - 1)
  <2>1. rows[s] \in Int
    BY <1>1 DEF Drafts, RowsTyped
  <2> HIDE DEF lines, n, s
  <2> QED BY <1>2, <2>1, PartGrows
<1>8. before = base + part
  <2>1. CASE owner[s] = c
    BY <1>2, <1>5, <1>7, <2>1 DEF Drafts, Drafted
  <2>2. CASE owner[s] # c
    <3>1. ASSUME NEW i \in 1 .. (n - 1) PROVE lines[i].sku # s
      <4>1. i \in DOMAIN lines /\ i < n
        BY <1>2
      <4>2. owner[lines[i].sku] = c
        BY <1>1, <4>1 DEF Drafts, ThroughLines
      <4> QED BY <2>2, <4>2
    <3>2. n - 1 \in 0 .. Len(lines)
      BY <1>2
    <3>3. part = 0
      <4> HIDE DEF lines, n, s
      <4> QED BY <1>2, <1>7, <3>1, <3>2, PartIsNone
    <3> QED BY <1>7, <2>2, <3>3
  <2> QED BY <2>1, <2>2
<1> HIDE DEF n, lines, s, before
<1>9. draft'[s] = base + (part + change) /\ draft'[s] \in Int
  BY <1>4, <1>7, <1>8
<1>10. ThroughLines'
  <2> SUFFICES ASSUME NEW q \in Calls
               PROVE  /\ calls'[q].pc = "new" \/ works[q].restock => calls'[q].line = 1
                      /\ Open(q)' /\ ~ works[q].restock =>
                           /\ calls'[q].line <= Len(Lines(q)) + 1
                           /\ \A i \in DOMAIN Lines(q) : i < calls'[q].line => owner'[Lines(q)[i].sku] = q
                      /\ calls'[q].pc = "upserted" => works[q].restock /\ q \in applied
    BY <1>1 DEF ThroughLines, Lines
  <2>1. CASE q # c
    <3>1. calls'[q] = calls[q]
      BY <1>3, <2>1
    <3>2. ASSUME NEW i \in DOMAIN Lines(q), owner[Lines(q)[i].sku] = q PROVE owner'[Lines(q)[i].sku] = q
      <4>1. Lines(q)[i] \in Line
        BY LinesTyped, ElementOfSeq DEF IInv
      <4>2. Lines(q)[i].sku # s
        BY <1>1, <1>5, <2>1, <3>2
      <4> QED BY <1>4, <3>2, <4>1, <4>2 DEF Line
    <3> QED BY <3>1, <3>2 DEF Drafts, ThroughLines, Open
  <2>2. CASE q = c
    <3>1. ASSUME NEW i \in DOMAIN lines, i < n + 1 PROVE owner'[lines[i].sku] = c
      <4>1. CASE i = n
        BY <1>2, <1>4, <4>1
      <4>2. CASE i # n
        <5>1. i < n
          BY <1>2, <3>1, <4>2
        <5>2. owner[lines[i].sku] = c
          BY <1>1, <5>1 DEF Drafts, ThroughLines, lines, n
        <5>3. lines[i] \in Line
          BY <1>2, ElementOfSeq
        <5> QED BY <1>4, <5>2, <5>3 DEF Line
      <4> QED BY <4>1, <4>2
    <3>2. n + 1 <= Len(lines) + 1
      BY <1>2
    <3>3. calls[c].pc = "upserted" => FALSE
      BY <1>1 DEF Drafts, ThroughLines
    <3> QED BY <1>1, <1>3, <1>6, <2>2, <3>1, <3>2, <3>3 DEF lines
  <2> QED BY <2>1, <2>2
<1>11. RowsTyped'
  <2>1. draft' \in [Skus -> Int]
    BY <1>1, <1>2, <1>4, <1>9 DEF Drafts, RowsTyped
  <2> QED BY <1>1, <2>1 DEF Drafts, RowsTyped
<1>12. Drafted'
  <2> SUFFICES ASSUME NEW x \in Skus, owner'[x] # Null
               PROVE  draft'[x] = rows[x] + Part(Lines(owner'[x]), x, calls'[owner'[x]].line - 1)
    <3>1. works' = works /\ rows' = rows
      BY <1>1
    <3> QED BY <3>1 DEF Drafted, Part, ChangeAt, Lines
  <2>1. n + 1 - 1 = n
    BY <1>2
  <2>5. ASSUME owner'[x] = c
        PROVE  Part(Lines(owner'[x]), x, calls'[owner'[x]].line - 1) = Part(lines, x, n)
    <3>3. calls'[c].line = n + 1
      BY <1>3
    <3>4. calls'[c].line - 1 = n
      BY <1>2, <3>3
    <3>1. calls'[owner'[x]].line - 1 = n
      BY <2>5, <3>4
    <3>2. Lines(owner'[x]) = lines
      BY <2>5 DEF lines
    <3> QED BY <3>1, <3>2
  <2>2. CASE x = s
    <3>1. Part(lines, s, n) = part + change
      <4>1. Part(lines, s, n) = Part(lines, s, n - 1) + IF lines[n].sku = s THEN lines[n].change ELSE 0
        BY <1>2, PartGrows
      <4> QED BY <1>2, <1>7, <4>1
    <3>2. draft'[x] = rows[x] + Part(lines, x, n)
      BY <1>7, <1>9, <2>2, <3>1
    <3>3. owner'[x] = c
      BY <1>4, <2>2
    <3> QED BY <2>5, <3>2, <3>3
  <2>3. CASE x # s /\ owner[x] = c
    <3>1. Part(lines, x, n) = Part(lines, x, n - 1)
      <4>1. PICK old \in Int : old = Part(lines, x, n - 1)
        BY <1>2, PartGrows
      <4>2. Part(lines, x, n) = old + 0
        <5>1. Part(lines, x, n) = Part(lines, x, n - 1) + IF lines[n].sku = x THEN lines[n].change ELSE 0
          BY <1>2, PartGrows
        <5> QED BY <1>2, <2>3, <4>1, <5>1
      <4> QED BY <4>1, <4>2
    <3>2. draft[x] = rows[x] + Part(lines, x, n - 1)
      BY <1>5, <2>3 DEF Drafts, Drafted, lines, n
    <3>3. draft'[x] = draft[x] /\ owner'[x] = c
      BY <1>4, <2>3
    <3> QED BY <2>5, <3>1, <3>2, <3>3
  <2>4. CASE x # s /\ owner[x] # c
    <3>1. owner'[x] = owner[x] /\ owner[x] # Null /\ owner[x] \in Calls \ {c} /\ draft'[x] = draft[x]
      BY <1>4, <2>4 DEF IInv, Typed
    <3>2. calls'[owner[x]] = calls[owner[x]]
      BY <1>3, <3>1
    <3> QED BY <3>1, <3>2 DEF Drafts, Drafted
  <2> QED BY <2>2, <2>3, <2>4
<1> QED BY <1>10, <1>11, <1>12 DEF Drafts

(* A commit shows what its own transaction has drafted.                    *)
LEMMA CommitKeepsDrafts ==
  ASSUME IInv, Drafts, NEW c \in Calls, Commit(c)
  PROVE  Drafts'
<1>1. /\ Open(c) /\ Rollback(c, "committed") /\ UNCHANGED <<works, draft>> /\ applied \subseteq applied'
      /\ rows' = [s \in DOMAIN rows |-> IF owner[s] = c THEN draft[s] ELSE rows[s]]
  BY DEF Commit
<1>2. rows' \in [DOMAIN rows -> Int] /\ \A s \in DOMAIN rows : owner[s] # c => rows'[s] = rows[s]
  BY <1>1 DEF Drafts, RowsTyped
<1> QED BY <1>1, <1>2, RollbackKeepsDrafts

(* A restock has locked nothing that its end could free.                   *)
LEMMA RestockFreesNothing ==
  ASSUME IInv, NEW c \in Calls, works[c].restock, NEW pc, Rollback(c, pc)
  PROVE  owner' = owner
BY DEF Rollback, IInv, Typed, Locked

(* The line of a restock, which is the first and only one.                 *)
LEMMA LineOfRestock ==
  ASSUME IInv, ThroughLines, NEW c \in Calls, works[c].restock
  PROVE  /\ calls[c].line = 1 /\ Lines(c) \in Seq(Line) /\ Len(Lines(c)) = 1 /\ DOMAIN Lines(c) = {1}
         /\ Lines(c)[1] = NextLine(c) /\ NextSku(c) \in Skus /\ NextLine(c).change \in Int
<1>1. Lines(c) \in Seq(Line) /\ Len(Lines(c)) = 1 /\ DOMAIN Lines(c) = 1 .. 1
  BY LinesTyped DEF IInv
<1>2. calls[c].line = 1
  BY DEF ThroughLines
<1>3. Lines(c)[1] \in Line
  BY <1>1, ElementOfSeq
<1> QED BY <1>1, <1>2, <1>3 DEF NextLine, NextSku, Line

(* An upsert changes a row that nobody has drafted anything for.           *)
LEMMA UpsertKeepsDrafts ==
  ASSUME IInv, Drafts, NEW c \in Calls, Upsert(c)
  PROVE  Drafts'
<1> DEFINE s == NextSku(c)
<1>1. /\ calls[c].other /\ owner[s] = Null
      /\ rows' = [x \in DOMAIN rows \cup {s} |-> IF x = s THEN Current(s) + NextLine(c).change ELSE rows[x]]
      /\ applied' = applied \cup {c}
      /\ calls' = [calls EXCEPT ![c].pc = "upserted", ![c].other = FALSE]
      /\ UNCHANGED <<works, owner, draft>>
  BY DEF Upsert
<1>2. works[c].restock
  BY <1>1 DEF IInv, Connected
<1>3. s \in Skus /\ NextLine(c).change \in Int
  BY <1>2, LineOfRestock DEF Drafts
<1>4. Current(s) + NextLine(c).change \in Int
  <2>1. Current(s) \in Int
    BY DEF Current, Drafts, RowsTyped
  <2> QED BY <1>3, <2>1
<1>5. /\ \A q \in Calls \ {c} : calls'[q] = calls[q]
      /\ calls'[c].line = calls[c].line /\ calls'[c].pc = "upserted"
  BY <1>1 DEF IInv, Typed
<1> HIDE DEF s
<1>6. ThroughLines'
  <2> SUFFICES ASSUME NEW q \in Calls
               PROVE  /\ calls'[q].pc = "new" \/ works[q].restock => calls'[q].line = 1
                      /\ Open(q)' /\ ~ works[q].restock =>
                           /\ calls'[q].line <= Len(Lines(q)) + 1
                           /\ \A i \in DOMAIN Lines(q) : i < calls'[q].line => owner[Lines(q)[i].sku] = q
                      /\ calls'[q].pc = "upserted" => works[q].restock /\ q \in applied'
    <3>1. works' = works /\ owner' = owner
      BY <1>1
    <3> QED BY <3>1 DEF ThroughLines, Lines
  <2>1. CASE q = c
    BY <1>1, <1>2, <1>5, <2>1 DEF Drafts, ThroughLines
  <2>2. CASE q # c
    <3>1. calls'[q] = calls[q] /\ applied \subseteq applied'
      BY <1>1, <1>5, <2>2
    <3> QED BY <3>1 DEF Drafts, ThroughLines, Open
  <2> QED BY <2>1, <2>2
<1>7. RowsTyped'
  <2>1. DOMAIN rows' = DOMAIN rows \cup {s} /\ DOMAIN rows \cup {s} \subseteq Skus
    BY <1>1, <1>3 DEF Drafts, RowsTyped
  <2>2. rows' \in [DOMAIN rows \cup {s} -> Int]
    BY <1>1, <1>4 DEF Drafts, RowsTyped
  <2> QED BY <1>1, <2>1, <2>2 DEF Drafts, RowsTyped
<1>8. Drafted'
  <2> SUFFICES ASSUME NEW x \in Skus, owner[x] # Null
               PROVE  draft[x] = rows'[x] + Part(Lines(owner[x]), x, calls'[owner[x]].line - 1)
    <3>1. works' = works /\ owner' = owner /\ draft' = draft
      BY <1>1
    <3> QED BY <3>1 DEF Drafted, Part, ChangeAt, Lines
  <2>1. /\ x \in DOMAIN rows /\ ~ works[owner[x]].restock /\ owner[x] \in Calls
    BY DEF IInv, Locked, Typed
  <2>2. rows'[x] = rows[x]
    BY <1>1, <2>1
  <2>3. calls'[owner[x]] = calls[owner[x]]
    BY <1>2, <1>5, <2>1
  <2> QED BY <2>2, <2>3 DEF Drafts, Drafted
<1> QED BY <1>6, <1>7, <1>8 DEF Drafts

(* It holds when the service starts, and every step keeps it.              *)
LEMMA DraftsInit == Init => Drafts
<1> SUFFICES ASSUME Init PROVE Drafts
  OBVIOUS
<1>1. ThroughLines
  BY DEF Init, ThroughLines, Open
<1>2. RowsTyped
  BY RowsAssumption DEF Init, RowsTyped, Skus
<1>3. Drafted
  BY DEF Init, Drafted
<1> QED BY <1>1, <1>2, <1>3 DEF Drafts

(* Every step keeps it.                                                    *)
LEMMA DraftsNext ==
  ASSUME IInv, Drafts, [Next]_vars
  PROVE  Drafts'
<1>1. CASE UNCHANGED vars
  BY <1>1 DEF vars, Drafts, ThroughLines, RowsTyped, Drafted, Open, Lines, Part, ChangeAt
<1>2. ASSUME NEW c \in Calls, Begin(c) \/ BeginFails(c) PROVE Drafts'
  <2>1. /\ calls[c].pc = "new" /\ UNCHANGED <<works, rows, owner, draft, applied>>
        /\ \A q \in Calls \ {c} : calls'[q] = calls[q]
        /\ calls'[c].line = calls[c].line /\ calls'[c].pc \in {"running", "failed"}
    BY <1>2 DEF Begin, BeginFails, IInv, Typed
  <2> QED BY <2>1, IdleKeepsDrafts
<1>3. ASSUME NEW c \in Calls, UpdateRow(c) PROVE Drafts'
  BY <1>3, UpdateKeepsDrafts
<1>4. ASSUME NEW c \in Calls, Open(c), ~ works[c].restock, Rollback(c, "failed"),
             UNCHANGED <<works, rows, draft, applied>>
      PROVE  Drafts'
  <2>1. rows' \in [DOMAIN rows -> Int] /\ \A s \in DOMAIN rows : rows'[s] = rows[s]
    BY <1>4 DEF Drafts, RowsTyped
  <2> QED BY <1>4, <2>1, RollbackKeepsDrafts
<1>5. ASSUME NEW c \in Calls, UpdateThrows(c) \/ DeadlockDetected(c) PROVE Drafts'
  <2>1. /\ Open(c) /\ ~ works[c].restock /\ Rollback(c, "failed")
        /\ UNCHANGED <<works, rows, draft, applied>>
    BY <1>5, DeadlockedCart DEF UpdateThrows, DeadlockDetected
  <2> QED BY <1>4, <2>1
<1>6. ASSUME NEW c \in Calls, Commit(c) PROVE Drafts'
  BY <1>6, CommitKeepsDrafts
<1>7. ASSUME NEW c \in Calls, TakeOther(c) PROVE Drafts'
  <2>1. /\ works[c].restock /\ UNCHANGED <<works, rows, owner, draft, applied>>
        /\ \A q \in Calls \ {c} : calls'[q] = calls[q]
        /\ calls'[c].line = calls[c].line /\ calls'[c].pc = "running"
    BY <1>7 DEF TakeOther, IInv, Typed
  <2> QED BY <2>1, IdleKeepsDrafts
<1>8. ASSUME NEW c \in Calls, Upsert(c) PROVE Drafts'
  BY <1>8, UpsertKeepsDrafts
<1>9. ASSUME NEW c \in Calls, WriteOutbox(c) \/ OutboxFails(c) PROVE Drafts'
  <2>1. works[c].restock
    BY <1>9 DEF WriteOutbox, OutboxFails, Drafts, ThroughLines
  <2>2. owner' = owner
    BY <1>9, <2>1, RestockFreesNothing DEF WriteOutbox, OutboxFails
  <2>3. /\ UNCHANGED <<works, rows, owner, draft, applied>>
        /\ \A q \in Calls \ {c} : calls'[q] = calls[q]
        /\ calls'[c].line = calls[c].line /\ calls'[c].pc \in {"committed", "failed"}
    BY <1>9, <2>2 DEF WriteOutbox, OutboxFails, Rollback, IInv, Typed
  <2> QED BY <2>1, <2>3, IdleKeepsDrafts
<1>10. ASSUME NEW c \in Calls, TimeOut(c) PROVE Drafts'
  <2>1. Open(c) /\ Rollback(c, After(c)) /\ UNCHANGED <<works, rows, draft, applied>>
    BY <1>10 DEF TimeOut
  <2>2. CASE works[c].restock
    <3>1. owner' = owner
      BY <2>1, <2>2, RestockFreesNothing
    <3>2. /\ \A q \in Calls \ {c} : calls'[q] = calls[q]
          /\ calls'[c].line = calls[c].line /\ calls'[c].pc = calls[c].pc
      BY <2>1, <2>2 DEF Rollback, After, IInv, Typed
    <3>3. calls[c].pc # "new" /\ (calls[c].pc = "upserted" => c \in applied)
      BY <2>1 DEF IInv, Connected, Drafts, ThroughLines
    <3> QED BY <2>1, <2>2, <3>1, <3>2, <3>3, IdleKeepsDrafts
  <2>3. CASE ~ works[c].restock
    BY <1>4, <2>1, <2>3 DEF After
  <2> QED BY <2>2, <2>3
<1>11. ASSUME NEW c \in Calls, LimitPasses(c) PROVE Drafts'
  BY <1>11 DEF LimitPasses, Drafts, ThroughLines, RowsTyped, Drafted, Open, Lines, Part, ChangeAt
<1> QED BY <1>1, <1>2, <1>3, <1>5, <1>6, <1>7, <1>8, <1>9, <1>10, <1>11 DEF Next, CallStep, CartStep, RestockStep

-----------------------------------------------------------------------------
(* Lost restocks.                                                          *)

(* A restock that no other call gets in the way of.                        *)
Sheltered(c) == works[c].restock /\ ~ Contested(c) /\ ~ PoolTooSmall

(* Without a slow transaction such a restock keeps its own until it is     *)
(* done.                                                                   *)
Keeps(c) ==
  /\ c \notin late
  /\ calls[c].pc \in {"running", "upserted"} => Open(c)
  /\ calls[c].pc = "failed" => c \notin applied
Kept ==
  /\ faults \in Nat
  /\ \A c \in Calls : Sheltered(c) /\ faults = 0 => Keeps(c)

(* It does not have to wait for a connection: the other calls have one     *)
(* each, or two if they are restocks, and it has one.                      *)
LEMMA ShelteredFindsConnection ==
  ASSUME IInv, NEW c \in Calls, Sheltered(c), ~ calls[c].other
  PROVE  Free
<1> DEFINE opened == {d \in Calls : Open(d)}
           others == {d \in Calls : calls[d].other}
           restocks == {d \in Calls : works[d].restock}
<1>1. others \subseteq restocks \ {c}
  BY DEF IInv, Connected
<1>2. /\ IsFiniteSet(restocks) /\ Cardinality(restocks) \in Nat
      /\ IsFiniteSet(Calls) /\ Cardinality(Calls) \in Nat
      /\ IsFiniteSet(opened) /\ Cardinality(opened) \in Nat
      /\ IsFiniteSet(others) /\ Cardinality(others) \in Nat
  BY CallsAssumption, FS_Subset, FS_CardinalityType
<1>3. Cardinality(opened) <= Cardinality(Calls)
  BY <1>2, FS_Subset
<1>4. c \in restocks
  BY DEF Sheltered
<1>5. ~ (pool < Cardinality(Calls) + Cardinality(restocks))
  BY DEF Sheltered, PoolTooSmall
<1>6. Free <=> Cardinality(opened) + Cardinality(others) < pool
  BY DEF Free, Used
<1> HIDE DEF opened, others, restocks
<1>7. /\ Cardinality(restocks \ {c}) = Cardinality(restocks) - 1
      /\ Cardinality(others) <= Cardinality(restocks \ {c})
  BY <1>1, <1>2, <1>4, FS_RemoveElement, FS_Subset
<1> QED BY <1>2, <1>3, <1>5, <1>6, <1>7 DEF IInv, Typed

(* Nor for a row: only carts lock rows, those of their lines.              *)
LEMMA ShelteredFindsRow ==
  ASSUME IInv, Drafts, NEW c \in Calls, Sheltered(c)
  PROVE  ~ UpsertWaits(c)
<1> SUFFICES ASSUME owner[NextSku(c)] # Null PROVE FALSE
  BY DEF UpsertWaits
<1> DEFINE s == NextSku(c)
           d == owner[s]
<1>1. s = Lines(c)[1].sku /\ s \in Skus
  BY LineOfRestock DEF Drafts, Sheltered, NextSku
<1>2. d \in Calls /\ ~ works[d].restock /\ \E i \in DOMAIN Lines(d) : Lines(d)[i].sku = s
  BY <1>1 DEF IInv, Typed, Locked
<1>3. d # c
  BY <1>2 DEF Sheltered
<1>4. Names(d, Lines(c)[1].sku)
  BY <1>1, <1>2 DEF Names
<1> HIDE DEF s, d
<1> QED BY <1>2, <1>3, <1>4 DEF Sheltered, Contested

(* So it does not wait at all, and only a fault makes it late.             *)
LEMMA KeptNext ==
  ASSUME IInv, Drafts, Kept, [Next]_vars
  PROVE  Kept'
<1>1. UNCHANGED <<works, pool>>
  BY DEF Next, CallStep, Begin, BeginFails, CartStep, UpdateRow, UpdateThrows, Commit, DeadlockDetected,
     RestockStep, TakeOther, Upsert, WriteOutbox, OutboxFails, LimitPasses, TimeOut, Rollback, vars
<1>2. \A c \in Calls : Sheltered(c)' <=> Sheltered(c)
  BY <1>1 DEF Sheltered, Contested, Names, Lines, PoolTooSmall
<1>3. faults' \in Nat /\ (faults' = 0 => faults = 0 /\ faults' = faults)
  <2>1. faults' = faults \/ faults' = faults + 1
    BY DEF Next, CallStep, Begin, BeginFails, CartStep, UpdateRow, UpdateThrows, Commit, DeadlockDetected,
       RestockStep, TakeOther, Upsert, WriteOutbox, OutboxFails, LimitPasses, TimeOut, vars
  <2> QED BY <2>1 DEF Kept
<1>4. ASSUME NEW c \in Calls, Sheltered(c), faults' = 0 PROVE Keeps(c)'
  <2>1. Keeps(c) /\ works[c].restock
    BY <1>3, <1>4 DEF Kept, Sheltered
  <2>2. CASE UNCHANGED vars
    BY <2>1, <2>2 DEF vars, Keeps, Open
  <2>3. ASSUME NEW q \in Calls, LimitPasses(q) PROVE Keeps(c)'
    <3>1. CASE q # c
      BY <2>1, <2>3, <3>1 DEF LimitPasses, Keeps, Open
    <3>2. CASE q = c
      <4>1. Waits(c)
        BY <1>3, <1>4, <2>3, <3>2 DEF LimitPasses, Kept
      <4>2. ~ AwaitsRow(c)
        BY <2>1 DEF AwaitsRow
      <4>3. ~ (AwaitsConnection(c) /\ ~ Free)
        BY <1>4, ShelteredFindsConnection DEF AwaitsConnection
      <4>4. ~ UpsertWaits(c)
        BY <1>4, ShelteredFindsRow
      <4> QED BY <4>1, <4>2, <4>3, <4>4 DEF Waits
    <3> QED BY <3>1, <3>2
  <2>4. ASSUME NEW q \in Calls, CallStep(q) \/ TimeOut(q), q # c PROVE Keeps(c)'
    <3>1. calls'[c] = calls[c] /\ late' = late /\ (c \in applied' => c \in applied)
      BY <2>4
      DEF CallStep, Begin, BeginFails, CartStep, UpdateRow, UpdateThrows, Commit, DeadlockDetected,
          RestockStep, TakeOther, Upsert, WriteOutbox, OutboxFails, TimeOut, Rollback, IInv, Typed
    <3> QED BY <2>1, <3>1 DEF Keeps, Open
  <2>5. CASE Begin(c) \/ BeginFails(c)
    <3>1. c \notin applied
      BY <2>1, <2>5 DEF Begin, BeginFails, IInv, Shown
    <3> QED BY <2>1, <2>5, <3>1 DEF Begin, BeginFails, Keeps, Open, IInv, Typed
  <2>6. ~ CartStep(c)
    BY <2>1, DeadlockedCart DEF CartStep, UpdateRow, UpdateThrows, Commit, DeadlockDetected
  <2>7. CASE TakeOther(c) \/ Upsert(c)
    <3>1. calls[c].pc = "running"
      BY <2>7 DEF TakeOther, Upsert, IInv, Connected
    <3> QED BY <2>1, <2>7, <3>1 DEF TakeOther, Upsert, Keeps, Open, IInv, Typed
  <2>8. CASE WriteOutbox(c)
    BY <2>1, <2>8 DEF WriteOutbox, Rollback, Keeps, IInv, Typed
  <2>9. ~ OutboxFails(c) /\ ~ TimeOut(c)
    BY <2>1 DEF OutboxFails, TimeOut, Keeps
  <2> QED
    BY <2>2, <2>3, <2>4, <2>5, <2>6, <2>7, <2>8, <2>9 DEF Next, CallStep, RestockStep
<1> QED BY <1>2, <1>3, <1>4 DEF Kept

(* restockInventory's upsert goes through another connection than its      *)
(* transaction, so that the five seconds can pass between the two.  With a *)
(* connection for every call and one more for every restock, and nobody    *)
(* else at the product, that takes a statement that is slow by itself.     *)
THEOREM RestocksAreLostToContention == Spec => []LostNeedsContention
<1>1. Init => Kept
  BY DEF Init, Kept, Keeps, Open
<1>2. IInv /\ Drafts /\ Kept /\ [Next]_vars => IInv' /\ Drafts' /\ Kept'
  BY IInvNext, DraftsNext, KeptNext
<1>3. Kept => LostNeedsContention
  BY DEF Kept, Keeps, LostNeedsContention, Lost, Sheltered
<1> QED BY <1>1, <1>2, <1>3, IInvInit, DraftsInit, PTL DEF Spec

-----------------------------------------------------------------------------
(* The steps of StockRows.                                                 *)

Outcome == [c \in Calls |-> IF Ended(c) THEN calls[c].pc ELSE "open"]

(* Only an end shows.                                                      *)
LEMMA OutcomeStays ==
  ASSUME NEW c \in Calls, \A q \in Calls \ {c} : calls'[q] = calls[q], ~ Ended(c), ~ Ended(c)'
  PROVE  Outcome' = Outcome
<1>1. ASSUME NEW q \in Calls
      PROVE  (IF Ended(q)' THEN calls'[q].pc ELSE "open") = (IF Ended(q) THEN calls[q].pc ELSE "open")
  <2>1. CASE q = c
    BY <2>1
  <2>2. CASE q # c
    BY <2>2 DEF Ended
  <2> QED BY <2>1, <2>2
<1> QED BY <1>1 DEF Outcome

(* A call that ends answers for itself only.                               *)
LEMMA OutcomeOfEnd ==
  ASSUME NEW c \in Calls, \A q \in Calls \ {c} : calls'[q] = calls[q], ~ Ended(c),
         NEW how \in {"committed", "failed"}, calls'[c].pc = how
  PROVE  Outcome[c] = "open" /\ Outcome' = [Outcome EXCEPT ![c] = how]
<1>1. ASSUME NEW q \in Calls
      PROVE  (IF Ended(q)' THEN calls'[q].pc ELSE "open") = IF q = c THEN how ELSE Outcome[q]
  <2>1. CASE q = c
    BY <2>1 DEF Ended
  <2>2. CASE q # c
    BY <2>2 DEF Ended, Outcome
  <2> QED BY <2>1, <2>2
<1> QED BY <1>1 DEF Outcome

(* A call that gives up, or is rolled back, changes no row.                *)
LEMMA EndFails ==
  ASSUME NEW c \in Calls, \A q \in Calls \ {c} : calls'[q] = calls[q], ~ Ended(c),
         calls'[c].pc = "failed", UNCHANGED <<works, rows, applied>>
  PROVE  Rows!Fail(c)
BY OutcomeOfEnd DEF Outcome, Rows!Fail, Rows!Ends

(* A cart that commits has locked all of its rows, and changes each by     *)
(* what all its lines ask for, no row twice and none of another cart's.    *)
LEMMA CommitIsCart ==
  ASSUME IInv, Drafts, NEW c \in Calls, Commit(c)
  PROVE  Rows!CommitCart(c)
<1> DEFINE lines == Lines(c)
<1>1. /\ Open(c) /\ ~ works[c].restock /\ ~ HasLine(c)
      /\ rows' = [s \in DOMAIN rows |-> IF owner[s] = c THEN draft[s] ELSE rows[s]]
      /\ applied' = applied \cup {c} /\ works' = works
      /\ calls' = [calls EXCEPT ![c].pc = "committed", ![c].transaction = FALSE]
  BY DEF Commit, Rollback
<1>2. ~ Ended(c) /\ c \notin applied
  BY <1>1 DEF IInv, Connected, Shown, Ended
<1>3. Outcome[c] = "open" /\ Outcome' = [Outcome EXCEPT ![c] = "committed"]
  <2>1. (\A q \in Calls \ {c} : calls'[q] = calls[q]) /\ calls'[c].pc = "committed"
    BY <1>1 DEF IInv, Typed
  <2> QED BY <1>2, <2>1, OutcomeOfEnd
<1>4. /\ lines \in Seq(Line) /\ Len(lines) \in Nat /\ DOMAIN lines = 1 .. Len(lines)
      /\ calls[c].line = Len(lines) + 1
  <2>1. lines \in Seq(Line) /\ Len(lines) \in Nat /\ DOMAIN lines = 1 .. Len(lines)
    BY LinesTyped DEF IInv
  <2>2. calls[c].line \in Nat /\ calls[c].line <= Len(lines) + 1 /\ ~ (calls[c].line <= Len(lines))
    BY <1>1 DEF IInv, Typed, Drafts, ThroughLines, HasLine
  <2> HIDE DEF lines
  <2> QED BY <2>1, <2>2
<1>5. ASSUME NEW i \in DOMAIN lines PROVE owner[lines[i].sku] = c
  <2>1. i < calls[c].line
    <3> HIDE DEF lines
    <3> QED BY <1>4
  <2> QED BY <1>1, <2>1 DEF Drafts, ThroughLines
<1>6. Rows!SkusOf(lines) \subseteq DOMAIN rows
  <2>1. ASSUME NEW i \in DOMAIN lines PROVE lines[i].sku \in DOMAIN rows
    <3>1. lines[i].sku \in Skus
      <4> HIDE DEF lines
      <4>1. i \in 1 .. Len(lines)
        BY <1>4
      <4>2. lines[i] \in Line
        BY <1>4, <4>1, ElementOfSeq
      <4> QED BY <4>2 DEF Line
    <3> QED BY <1>5, <3>1, CallsAssumption DEF IInv, Locked
  <2> HIDE DEF lines
  <2> QED BY <2>1 DEF Rows!SkusOf
<1>7. ASSUME NEW s \in DOMAIN rows
      PROVE  (IF owner[s] = c THEN draft[s] ELSE rows[s]) = rows[s] + Rows!Change(lines, s)
  <2>1. s \in Skus /\ rows[s] \in Int
    BY DEF Drafts, RowsTyped
  <2>2. Rows!Change(lines, s) = Part(lines, s, Len(lines))
    <3> HIDE DEF lines
    <3> QED BY <1>4, ChangeIsSum
  <2>3. CASE owner[s] = c
    <3>1. draft[s] = rows[s] + Part(lines, s, calls[c].line - 1)
      BY <2>1, <2>3, CallsAssumption DEF Drafts, Drafted
    <3>2. calls[c].line - 1 = Len(lines)
      <4> HIDE DEF lines
      <4> QED BY <1>4
    <3> HIDE DEF lines
    <3> QED BY <2>2, <2>3, <3>1, <3>2
  <2>4. CASE owner[s] # c
    <3> HIDE DEF lines
    <3>1. \A i \in 1 .. Len(lines) : lines[i].sku # s
      BY <1>4, <1>5, <2>4
    <3>2. Len(lines) \in 0 .. Len(lines)
      BY <1>4
    <3>3. Part(lines, s, Len(lines)) = 0
      BY <1>4, <3>1, <3>2, PartIsNone
    <3>4. rows[s] = rows[s] + 0
      BY <2>1
    <3> QED BY <2>2, <2>4, <3>3, <3>4
  <2> QED BY <2>3, <2>4
<1> HIDE DEF lines
<1>8. rows' = [s \in DOMAIN rows \cup Rows!SkusOf(lines) |->
                (IF s \in DOMAIN rows THEN rows[s] ELSE 0) + Rows!Change(lines, s)]
  BY <1>1, <1>6, <1>7
<1>9. Rows!Apply(c)
  BY <1>1, <1>2, <1>8 DEF Rows!Apply, lines, Lines
<1> QED BY <1>1, <1>3, <1>6, <1>9 DEF Rows!CommitCart, Rows!Ends, Outcome, lines, Lines

(* The upsert of a restock adds its one line, to a row or to none.         *)
LEMMA UpsertIsRestock ==
  ASSUME IInv, Drafts, NEW c \in Calls, Upsert(c)
  PROVE  Rows!Restock(c)
<1> DEFINE lines == Lines(c)
           s == NextSku(c)
<1>1. /\ calls[c].other
      /\ rows' = [x \in DOMAIN rows \cup {s} |-> IF x = s THEN Current(s) + NextLine(c).change ELSE rows[x]]
      /\ applied' = applied \cup {c} /\ works' = works
      /\ calls' = [calls EXCEPT ![c].pc = "upserted", ![c].other = FALSE]
  BY DEF Upsert
<1>2. works[c].restock /\ calls[c].pc = "running" /\ c \notin applied
  BY <1>1 DEF IInv, Connected, Shown
<1>3. Outcome[c] = "open" /\ Outcome' = Outcome
  <2>1. (\A q \in Calls \ {c} : calls'[q] = calls[q]) /\ calls'[c].pc = "upserted"
    BY <1>1 DEF IInv, Typed
  <2>2. ~ Ended(c) /\ ~ Ended(c)'
    BY <1>2, <2>1 DEF Ended
  <2> QED BY <2>1, <2>2, OutcomeStays DEF Outcome
<1>4. /\ lines \in Seq(Line) /\ Len(lines) = 1 /\ DOMAIN lines = {1}
      /\ lines[1] = NextLine(c) /\ lines[1].sku = s
  BY <1>2, LineOfRestock DEF Drafts, NextSku
<1> HIDE DEF lines
<1>5. Rows!SkusOf(lines) = {s}
  BY <1>4 DEF Rows!SkusOf
<1>6. ASSUME NEW x \in DOMAIN rows \cup {s}
      PROVE  (IF x = s THEN Current(s) + NextLine(c).change ELSE rows[x]) =
               (IF x \in DOMAIN rows THEN rows[x] ELSE 0) + Rows!Change(lines, x)
  <2>1. Rows!Change(lines, x) = Part(lines, x, 1)
    BY <1>4, ChangeIsSum
  <2>2. Part(lines, x, 1 - 1) = 0
    <3>1. 1 - 1 \in 0 .. Len(lines) /\ \A i \in 1 .. (1 - 1) : lines[i].sku # x
      BY <1>4
    <3> QED BY <1>4, <3>1, PartIsNone
  <2>3. PICK change \in Int : change = lines[1].change
    <3>1. 1 \in 1 .. Len(lines)
      BY <1>4
    <3> QED BY <1>4, <3>1, PartGrows
  <2>4. Part(lines, x, 1) = IF x = s THEN change ELSE 0
    <3>1. 1 \in 1 .. Len(lines)
      BY <1>4
    <3>2. Part(lines, x, 1) = Part(lines, x, 1 - 1) + IF lines[1].sku = x THEN lines[1].change ELSE 0
      BY <1>4, <3>1, PartGrows
    <3> QED BY <1>4, <2>2, <2>3, <3>2
  <2>5. CASE x = s
    BY <1>4, <2>1, <2>3, <2>4, <2>5 DEF Current
  <2>6. CASE x # s
    <3>1. x \in DOMAIN rows /\ rows[x] \in Int
      BY <2>6 DEF Drafts, RowsTyped
    <3> QED BY <2>1, <2>4, <2>6, <3>1
  <2> QED BY <2>5, <2>6
<1> HIDE DEF s
<1>7. rows' = [x \in DOMAIN rows \cup Rows!SkusOf(lines) |->
                (IF x \in DOMAIN rows THEN rows[x] ELSE 0) + Rows!Change(lines, x)]
  BY <1>1, <1>5, <1>6
<1>8. Rows!Apply(c)
  BY <1>1, <1>2, <1>7 DEF Rows!Apply, lines, Lines
<1> QED BY <1>1, <1>2, <1>3, <1>8 DEF Rows!Restock, Outcome

(* Every step is one of StockRows or shows nothing there.                  *)
LEMMA RowsStep ==
  ASSUME IInv, Drafts, [Next]_vars
  PROVE  [Rows!RowsNext]_(Rows!rowVars)
<1> DEFINE Shows(c) == Rows!CommitCart(c) \/ Rows!Restock(c) \/ Rows!Announce(c) \/ Rows!Fail(c)
           Nothing == UNCHANGED <<works, rows, applied>> /\ Outcome' = Outcome
<1>1. CASE UNCHANGED vars
  <2>1. UNCHANGED <<works, rows, applied>> /\ Outcome' = Outcome
    BY <1>1 DEF vars, Outcome, Ended
  <2> QED BY <2>1 DEF Rows!rowVars, Outcome
<1>0. ASSUME NEW c \in Calls, LimitPasses(c) PROVE Nothing
  BY <1>0 DEF LimitPasses, Outcome, Ended
<1>2. ASSUME NEW c \in Calls, Begin(c) \/ UpdateRow(c) \/ TakeOther(c) PROVE Nothing
  <2>1. /\ UNCHANGED <<works, rows, applied>> /\ \A q \in Calls \ {c} : calls'[q] = calls[q]
        /\ calls'[c].pc \in {"running", calls[c].pc} /\ (calls[c].pc = "new" \/ Open(c) \/ calls[c].pc = "running")
    BY <1>2 DEF Begin, UpdateRow, TakeOther, IInv, Typed
  <2>2. ~ Ended(c) /\ ~ Ended(c)'
    BY <2>1 DEF IInv, Connected, Ended
  <2> QED BY <2>1, <2>2, OutcomeStays
<1>3. ASSUME NEW c \in Calls, BeginFails(c) \/ UpdateThrows(c) \/ DeadlockDetected(c) \/ OutboxFails(c)
      PROVE  Rows!Fail(c)
  <2>1. calls[c].pc \in {"new", "upserted"} \/ Open(c)
    BY <1>3, DeadlockedCart DEF BeginFails, UpdateThrows, DeadlockDetected, OutboxFails
  <2>2. ~ Ended(c)
    BY <2>1 DEF IInv, Connected, Ended
  <2>3. /\ UNCHANGED <<works, rows, applied>> /\ \A q \in Calls \ {c} : calls'[q] = calls[q]
        /\ calls'[c].pc = "failed"
    BY <1>3 DEF BeginFails, UpdateThrows, DeadlockDetected, OutboxFails, Rollback, IInv, Typed
  <2> QED BY <2>2, <2>3, EndFails
<1>4. ASSUME NEW c \in Calls, TimeOut(c) PROVE Shows(c) \/ Nothing
  <2>1. /\ Open(c) /\ UNCHANGED <<works, rows, applied>> /\ \A q \in Calls \ {c} : calls'[q] = calls[q]
        /\ calls'[c].pc = After(c)
    BY <1>4 DEF TimeOut, Rollback, IInv, Typed
  <2>2. ~ Ended(c)
    BY <2>1 DEF IInv, Connected
  <2>3. CASE works[c].restock
    <3>1. ~ Ended(c)'
      BY <2>1, <2>2, <2>3 DEF After, Ended
    <3> QED BY <2>1, <2>2, <3>1, OutcomeStays
  <2>4. CASE ~ works[c].restock
    <3>1. calls'[c].pc = "failed"
      BY <2>1, <2>4 DEF After
    <3> QED BY <2>1, <2>2, <3>1, EndFails
  <2> QED BY <2>3, <2>4
<1>5. ASSUME NEW c \in Calls, WriteOutbox(c) PROVE Rows!Announce(c)
  <2>1. works[c].restock /\ c \in applied /\ calls[c].pc = "upserted"
    BY <1>5 DEF WriteOutbox, Drafts, ThroughLines
  <2>2. /\ UNCHANGED <<works, rows, applied>> /\ \A q \in Calls \ {c} : calls'[q] = calls[q]
        /\ calls'[c].pc = "committed"
    BY <1>5 DEF WriteOutbox, Rollback, IInv, Typed
  <2>3. Outcome[c] = "open" /\ Outcome' = [Outcome EXCEPT ![c] = "committed"]
    BY <2>1, <2>2, OutcomeOfEnd DEF Ended
  <2> QED BY <2>1, <2>2, <2>3 DEF Rows!Announce, Rows!Ends, Outcome
<1>6. ASSUME NEW c \in Calls, CallStep(c) \/ LimitPasses(c) \/ TimeOut(c) PROVE Shows(c) \/ Nothing
  <2> HIDE DEF Nothing
  <2> QED BY <1>0, <1>2, <1>3, <1>4, <1>5, <1>6, CommitIsCart, UpsertIsRestock DEF CallStep, CartStep, RestockStep
<1>7. CASE Next
  <2>1. PICK c \in Calls : CallStep(c) \/ LimitPasses(c) \/ TimeOut(c)
    BY <1>7 DEF Next
  <2>2. CASE Shows(c)
    BY <2>2 DEF Rows!RowsNext
  <2>3. CASE Nothing
    BY <2>3 DEF Rows!rowVars, Outcome
  <2> QED BY <1>6, <2>1, <2>2, <2>3
<1> QED BY <1>1, <1>7

(* Whatever the interleaving of their statements, the timeouts and the     *)
(* deadlocks, reserveStockInventory, processOrderCheckoutFailed and        *)
(* processOrderCanceled change all their rows in one step or none, no      *)
(* update is lost to another transaction, and restockInventory's upsert is *)
(* all that shows before its call has ended: StockRows is what these       *)
(* transactions amount to.                                                 *)
THEOREM CartsAreAtomic == Spec => TransactionsAreAtomic
<1>1. Init => Rows!RowsInit
  BY DEF Init, Rows!RowsInit, Ended
<1>2. IInv /\ Drafts /\ [Next]_vars => [Rows!RowsNext]_(Rows!rowVars)
  BY RowsStep
<1>3. IInv /\ Drafts /\ [Next]_vars => IInv' /\ Drafts'
  BY IInvNext, DraftsNext
<1> QED BY <1>1, <1>2, <1>3, IInvInit, DraftsInit, PTL DEF Spec, TransactionsAreAtomic, Rows!RowsSpec
=============================================================================
