------------------------- MODULE StockTransactions -------------------------
(***************************************************************************)
(* The database transactions of the inventory service, statement by        *)
(* statement: the carts of reservations and releases, which update one row *)
(* after the other in the order of their lines, and restocks, whose upsert *)
(* takes a second connection while the transaction around it keeps the     *)
(* first.  PostgreSQL and Prisma are modelled as far as that needs: row    *)
(* locks until the end of the transaction, deadlock detection, a pool of   *)
(* connections, and the limits of an interactive transaction (two seconds  *)
(* to begin, five to end), which the service leaves as they are.           *)
(***************************************************************************)
EXTENDS Integers, Sequences, FiniteSets

CONSTANTS
  Calls,        \* calls and messages that come to a transaction
  Works,        \* what they may ask for: [lines, restock], a line being [sku, change]
  InitialRows,  \* the stockQuantity of the skus that have a row
  Pools,        \* how many connections the pool may have: two per processor and one
  MaxFaults,    \* bound: transactions that take five seconds though they wait for nobody
  Null          \* nobody

Skus == DOMAIN InitialRows \cup UNION {{work.lines[i].sku : i \in DOMAIN work.lines} : work \in Works}

ASSUME CallsAssumption == IsFiniteSet(Calls) /\ Null \notin Calls
ASSUME WorksAssumption ==
  /\ IsFiniteSet(Skus)
  /\ \A work \in Works :
       /\ work.lines \in Seq([sku : Skus, change : Int \ {0}]) /\ work.lines # <<>>
       /\ work.restock \in BOOLEAN
       /\ work.restock => Len(work.lines) = 1 /\ work.lines[1].change > 0
ASSUME RowsAssumption == InitialRows \in [DOMAIN InitialRows -> Int]
ASSUME BoundsAssumption == Pools \subseteq Nat \ {0} /\ MaxFaults \in Nat

VARIABLES
  works,    \* works[c]: what call c asks for
  pool,     \* the connections of the pool
  calls,    \* calls[c]: how far it is, the lines it has updated, its connections
  rows,     \* rows[s]: the committed stockQuantity
  owner,    \* owner[s]: the call whose transaction has the row locked
  draft,    \* draft[s]: what that transaction has written
  late,     \* the calls whose transaction has lasted five seconds
  applied,  \* history: the calls whose change has been committed
  faults    \* how much of MaxFaults is used up

vars == <<works, pool, calls, rows, owner, draft, late, applied, faults>>

Open(c) == calls[c].transaction
Used == Cardinality({c \in Calls : Open(c)}) + Cardinality({c \in Calls : calls[c].other})
Free == Used < pool
Ended(c) == calls[c].pc \in {"committed", "failed"}
Lines(c) == works[c].lines
HasLine(c) == calls[c].line <= Len(Lines(c))
Current(s) == IF s \in DOMAIN rows THEN rows[s] ELSE 0

(* Mutant: what was taken last is given back first.                        *)
NextLine_Backwards(c) ==
  LET back == Lines(c)[1].change > 0
  IN  Lines(c)[IF back THEN Len(Lines(c)) + 1 - calls[c].line ELSE calls[c].line]

NextLine(c) == Lines(c)[calls[c].line]
NextSku(c) == NextLine(c).sku

(* A statement is waiting for a row; the upsert, for a connection.         *)
AwaitsRow(c) ==
  /\ Open(c) /\ ~ works[c].restock /\ HasLine(c)
  /\ owner[NextSku(c)] \notin {Null, c}
AwaitsConnection(c) == Open(c) /\ works[c].restock /\ calls[c].pc = "running" /\ ~ calls[c].other

TypeOK ==
  /\ calls \in [Calls -> [pc : {"new", "running", "upserted", "committed", "failed"},
                          line : Nat \ {0}, transaction : BOOLEAN, other : BOOLEAN]]
  /\ Used <= pool
  /\ \A c \in Calls : Ended(c) \/ calls[c].pc = "new" => ~ Open(c) /\ ~ calls[c].other
  /\ owner \in [Skus -> Calls \cup {Null}]
  /\ \A s \in Skus : owner[s] # Null => Open(owner[s]) /\ s \in DOMAIN rows
  /\ late \subseteq Calls
  /\ \A c \in Calls : c \in applied /\ ~ works[c].restock => calls[c].pc = "committed"

Init ==
  /\ works \in [Calls -> Works]
  /\ pool \in Pools
  /\ calls = [c \in Calls |-> [pc |-> "new", line |-> 1, transaction |-> FALSE, other |-> FALSE]]
  /\ rows = InitialRows
  /\ owner = [s \in Skus |-> Null]
  /\ draft = [s \in Skus |-> 0]
  /\ late = {}
  /\ applied = {}
  /\ faults = 0

-----------------------------------------------------------------------------
(* $transaction takes a connection, or gives up after two seconds.         *)

(* Mutant: a connection for everybody.                                     *)
Begin_NoPool(c) ==
  /\ calls[c].pc = "new"
  /\ calls' = [calls EXCEPT ![c].pc = "running", ![c].transaction = TRUE]
  /\ UNCHANGED <<works, pool, rows, owner, draft, late, applied, faults>>

Begin(c) ==
  /\ calls[c].pc = "new"
  /\ Free
  /\ calls' = [calls EXCEPT ![c].pc = "running", ![c].transaction = TRUE]
  /\ UNCHANGED <<works, pool, rows, owner, draft, late, applied, faults>>

BeginFails(c) ==
  /\ calls[c].pc = "new"
  /\ ~ Free
  /\ calls' = [calls EXCEPT ![c].pc = "failed"]
  /\ UNCHANGED <<works, pool, rows, owner, draft, late, applied, faults>>

-----------------------------------------------------------------------------
(* reserveStockInventory, processOrderCheckoutFailed, processOrderCanceled *)
(* after their script: one update per line, in the order of the lines.     *)

Rollback(c, pc) ==
  /\ calls' = [calls EXCEPT ![c].pc = pc, ![c].transaction = FALSE]
  /\ owner' = [s \in Skus |-> IF owner[s] = c THEN Null ELSE owner[s]]

(* Mutant: the update goes through another connection than the transaction,*)
(* as the upsert does.                                                     *)
UpdateRow_Outside(c) ==
  /\ Open(c) /\ ~ works[c].restock /\ HasLine(c)
  /\ NextSku(c) \in DOMAIN rows
  /\ rows' = [rows EXCEPT ![NextSku(c)] = @ + NextLine(c).change]
  /\ calls' = [calls EXCEPT ![c].line = @ + 1]
  /\ UNCHANGED <<works, pool, owner, draft, late, applied, faults>>

(* increment and decrement are of the row as it is when the lock is got.   *)
UpdateRow(c) ==
  /\ Open(c) /\ ~ works[c].restock /\ HasLine(c)
  /\ LET s == NextSku(c)
         before == IF owner[s] = c THEN draft[s] ELSE rows[s]
     IN  /\ s \in DOMAIN rows /\ owner[s] \in {Null, c}
         /\ owner' = [owner EXCEPT ![s] = c]
         /\ draft' = [draft EXCEPT ![s] = before + NextLine(c).change]
  /\ calls' = [calls EXCEPT ![c].line = @ + 1]
  /\ UNCHANGED <<works, pool, rows, late, applied, faults>>

(* update throws when there is no such row.                                *)
UpdateThrows(c) ==
  /\ Open(c) /\ ~ works[c].restock /\ HasLine(c)
  /\ NextSku(c) \notin DOMAIN rows
  /\ Rollback(c, "failed")
  /\ UNCHANGED <<works, pool, rows, draft, late, applied, faults>>

Commit(c) ==
  /\ Open(c) /\ ~ works[c].restock /\ ~ HasLine(c)
  /\ rows' = [s \in DOMAIN rows |-> IF owner[s] = c THEN draft[s] ELSE rows[s]]
  /\ applied' = applied \cup {c}
  /\ Rollback(c, "committed")
  /\ UNCHANGED <<works, pool, draft, late, faults>>

(* Who waits in a circle is found out, and one of them loses.              *)
Circle(D) == D # {} /\ {c \in D : AwaitsRow(c)} = D /\ {owner[NextSku(c)] : c \in D} = D
Deadlocked(c) == \E D \in SUBSET Calls : c \in D /\ Circle(D)
DeadlockDetected(c) ==
  /\ Deadlocked(c)
  /\ Rollback(c, "failed")
  /\ UNCHANGED <<works, pool, rows, draft, late, applied, faults>>

-----------------------------------------------------------------------------
(* restockInventory.                                                       *)

TakeOther(c) ==
  /\ works[c].restock /\ calls[c].pc = "running" /\ ~ calls[c].other
  /\ Free
  /\ calls' = [calls EXCEPT ![c].other = TRUE]
  /\ UNCHANGED <<works, pool, rows, owner, draft, late, applied, faults>>

(* The upsert, which creates the row if there is none.                     *)
Upsert(c) ==
  /\ calls[c].other
  /\ LET s == NextSku(c)
     IN  /\ owner[s] = Null
         /\ rows' = [x \in DOMAIN rows \cup {s} |->
                      IF x = s THEN Current(s) + NextLine(c).change ELSE rows[x]]
  /\ applied' = applied \cup {c}
  /\ calls' = [calls EXCEPT ![c].pc = "upserted", ![c].other = FALSE]
  /\ UNCHANGED <<works, pool, owner, draft, late, faults>>

(* The outbox row, by which Redis will hear of the units, and the commit.  *)
WriteOutbox(c) ==
  /\ Open(c) /\ calls[c].pc = "upserted"
  /\ Rollback(c, "committed")
  /\ UNCHANGED <<works, pool, rows, draft, late, applied, faults>>

(* The transaction is over before the outbox row is written.               *)
OutboxFails(c) ==
  /\ ~ Open(c) /\ calls[c].pc = "upserted"
  /\ calls' = [calls EXCEPT ![c].pc = "failed"]
  /\ UNCHANGED <<works, pool, rows, owner, draft, late, applied, faults>>

-----------------------------------------------------------------------------
(* A transaction may last five seconds, from its beginning, when it has to *)
(* wait for another call: for a row of its cart, for the connection of its *)
(* upsert, or for the row the upsert needs.  Else that takes a fault.      *)
UpsertWaits(c) == calls[c].other /\ owner[NextSku(c)] # Null
Waits(c) == AwaitsRow(c) \/ (AwaitsConnection(c) /\ ~ Free) \/ UpsertWaits(c)

(* Mutant: the limit is shorter than the statements take.                  *)
LimitPasses_Short(c) ==
  /\ Open(c) /\ c \notin late
  /\ late' = late \cup {c}
  /\ UNCHANGED <<works, pool, calls, rows, owner, draft, applied, faults>>

LimitPasses(c) ==
  /\ Open(c) /\ c \notin late
  /\ \/ Waits(c) /\ UNCHANGED faults
     \/ faults < MaxFaults /\ faults' = faults + 1
  /\ late' = late \cup {c}
  /\ UNCHANGED <<works, pool, calls, rows, owner, draft, applied>>

(* Mutant: no limit.                                                       *)
TimeOut_Never(c) == FALSE /\ UNCHANGED vars

(* The transaction is rolled back, unless a statement of its own is being  *)
(* executed.  An upsert is not one of them, and comes later.               *)
After(c) == IF works[c].restock THEN calls[c].pc ELSE "failed"
TimeOut(c) ==
  /\ Open(c) /\ c \in late /\ ~ AwaitsRow(c)
  /\ Rollback(c, After(c))
  /\ UNCHANGED <<works, pool, rows, draft, late, applied, faults>>

CartStep(c) == UpdateRow(c) \/ UpdateThrows(c) \/ Commit(c) \/ DeadlockDetected(c)
RestockStep(c) == TakeOther(c) \/ Upsert(c) \/ WriteOutbox(c) \/ OutboxFails(c)
CallStep(c) == Begin(c) \/ BeginFails(c) \/ CartStep(c) \/ RestockStep(c)

Next == \E c \in Calls : CallStep(c) \/ LimitPasses(c) \/ TimeOut(c)
Spec == Init /\ [][Next]_vars

(* Statements come back, PostgreSQL looks for deadlocks, and the limit of  *)
(* a transaction is a timer.                                               *)
FairSpec ==
  /\ Spec
  /\ \A c \in Calls : /\ WF_vars(CallStep(c))
                     /\ WF_vars(LimitPasses(c) /\ Waits(c)) /\ WF_vars(TimeOut(c))

-----------------------------------------------------------------------------
(* Whatever the interleaving, timeouts and deadlocks, a cart changes its   *)
(* rows in one step or not at all, no change is lost to another, and only  *)
(* the upsert of a restock shows before its call has ended.                *)
Rows == INSTANCE StockRows
  WITH outcome <- [c \in Calls |-> IF Ended(c) THEN calls[c].pc ELSE "open"]
TransactionsAreAtomic == Rows!RowsSpec

(* Carts wait in a circle only if their lines cannot be put in one order:  *)
(* clients that all sort their lines never deadlock, restocks or not.      *)
Follows(c, rank) ==
  \A i, j \in DOMAIN Lines(c) :
    i < j => Lines(c)[i].sku = Lines(c)[j].sku \/ rank[Lines(c)[i].sku] < rank[Lines(c)[j].sku]
DeadlockNeedsDisorder ==
  \A D \in SUBSET Calls : Circle(D) =>
    ~ \E rank \in [Skus -> 1 .. Cardinality(Skus)] : \A c \in D : Follows(c, rank)

(* A restock whose units never reach Redis, since its call failed when the *)
(* row was changed already.  Without a slow transaction that takes another *)
(* call that names the product, or a pool that is too small: one with a    *)
(* connection for every call, and one more for every restock, is enough.   *)
Lost(c) == works[c].restock /\ c \in applied /\ calls[c].pc = "failed"
Names(c, s) == \E i \in DOMAIN Lines(c) : Lines(c)[i].sku = s
Contested(c) == \E d \in Calls \ {c} : Names(d, Lines(c)[1].sku)
PoolTooSmall == pool < Cardinality(Calls) + Cardinality({c \in Calls : works[c].restock})
LostNeedsContention ==
  \A c \in Calls : Lost(c) => faults > 0 \/ Contested(c) \/ PoolTooSmall

(* Every call is answered, although restocks can take all the connections  *)
(* and then wait for one: the limit of their transactions frees them.      *)
EveryCallEnds == \A c \in Calls : <>Ended(c)
=============================================================================
