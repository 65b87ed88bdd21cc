----------------------------- MODULE DebtLedger -----------------------------
(***************************************************************************)
(* What the payments of one debt promise, whoever races on them: a ledger  *)
(* of rows.  A row is opened, and then either credited or retired, once    *)
(* and for good; only a credited row is refunded; the client is thanked    *)
(* for a row at most once, and only for money that came in.  At most one   *)
(* row at a time waits for its money.                                      *)
(***************************************************************************)
EXTENDS Naturals

CONSTANT Rows

VARIABLES
  status,   \* of each row
  thanked   \* how often the client was told that a row is paid

ledger == <<status, thanked>>

Unwritten == "ABSENT"
Retired   == {"FAILED", "EXPIRED"}
Credited  == {"PAID", "REFUNDED"}
Status    == {Unwritten, "PENDING"} \cup Retired \cup Credited

LedgerTypeOK ==
  /\ status \in [Rows -> Status]
  /\ thanked \in [Rows -> Nat]

Becomes(i, s) == status' = [status EXCEPT ![i] = s] /\ UNCHANGED thanked

Open(i) ==
  /\ status[i] = Unwritten
  /\ \A j \in Rows : status[j] # "PENDING"
  /\ Becomes(i, "PENDING")

Retire(i) == status[i] = "PENDING" /\ \E s \in Retired : Becomes(i, s)

Credit(i) == status[i] = "PENDING" /\ Becomes(i, "PAID")

Refund(i) == status[i] = "PAID" /\ Becomes(i, "REFUNDED")

Thank(i) ==
  /\ status[i] \in Credited
  /\ thanked[i] = 0
  /\ thanked' = [thanked EXCEPT ![i] = 1]
  /\ UNCHANGED status

LedgerInit == status = [i \in Rows |-> Unwritten] /\ thanked = [i \in Rows |-> 0]

LedgerNext ==
  \E i \in Rows : Open(i) \/ Retire(i) \/ Credit(i) \/ Refund(i) \/ Thank(i)

LedgerSpec == LedgerInit /\ [][LedgerNext]_ledger
=============================================================================
