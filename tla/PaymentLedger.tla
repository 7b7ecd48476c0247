--------------------------- MODULE PaymentLedger ---------------------------
(***************************************************************************)
(* What the payment service promises the rest of the shop, with the Kafka  *)
(* consumer, the timeout queue and the gRPC calls left out: a payment row  *)
(* per order and the ordered list of outcomes it publishes.  A status and  *)
(* the outcome that announces it change in one step; a payment expires     *)
(* only out of PENDING; nothing is announced for an order without payment. *)
(***************************************************************************)
EXTENDS Sequences

CONSTANT Orders

VARIABLES
  status,  \* status[o]: "none" (no row) or a PaymentStatus of the schema
  ledger   \* the announced outcomes, oldest first

ledgerVars == <<status, ledger>>

Announcement(outcome, o) ==
  [topic |-> IF outcome = "SUCCESS" THEN "payment.successed" ELSE "payment.canceled",
   order |-> o]

LedgerInit ==
  /\ status = [o \in Orders |-> "none"]
  /\ ledger = <<>>

Open(o) ==
  /\ status[o] = "none"
  /\ status' = [status EXCEPT ![o] = "PENDING"]
  /\ UNCHANGED ledger

(* A success or a cancellation; the ledger lets a later one overrule.      *)
Settle(o, outcome) ==
  /\ status[o] # "none"
  /\ status' = [status EXCEPT ![o] = outcome]
  /\ ledger' = Append(ledger, Announcement(outcome, o))

Lapse(o) ==
  /\ status[o] = "PENDING"
  /\ status' = [status EXCEPT ![o] = "EXPIRED"]
  /\ ledger' = Append(ledger, Announcement("EXPIRED", o))

LedgerNext ==
  \E o \in Orders :
    \/ Open(o)
    \/ \E outcome \in {"SUCCESS", "FAILED"} : Settle(o, outcome)
    \/ Lapse(o)

LedgerSpec == LedgerInit /\ [][LedgerNext]_ledgerVars
=============================================================================
