--------------------------- MODULE DeliveryLedger ---------------------------
(***************************************************************************)
(* What the sender of a message is promised about the delivery it reads,   *)
(* with no queue, worker, session or network: one ledger per message, an   *)
(* entry per recipient and relay, and a coarse status.  It is the contract *)
(* of docs/implementation/relay-message-delivery.md: "ok is terminal; any  *)
(* other durable relay state may enter pending when a job starts, and      *)
(* pending settles to ok or failed", and "all delivered is sent".          *)
(***************************************************************************)
EXTENDS DeliveryStatus

CONSTANTS Message, Person, Relay, Durable

VARIABLES status, copies

ledger == <<status, copies>>

Entries(m, p) == copies[m][p].relays

Rows(m) == {p \in Person : copies[m][p].row}

AllDelivered(m) ==
    /\ Rows(m) # {}
    /\ \A p \in Rows(m) : DeliveryCopyVerdict(Entries(m, p)) = "delivered"

Init ==
    /\ \A m \in Message : status[m] = "absent" /\ Rows(m) = {}
    /\ \A m \in Message, p \in Person, r \in Relay : Entries(m, p)[r] = "none"

(* The moves an entry may make while its message exists. *)
EntryMove(old, new) ==
    \/ old = new
    \/ old \in {"none", "failed"} /\ new = "pending"
    \/ old = "pending" /\ new \in {"ok", "failed", "none"}

(* The moves of the status: it is never taken back once it is sent, and    *)
(* becomes sent only when every copy is delivered.                         *)
StatusMove(m) ==
    \/ status'[m] = status[m]
    \/ /\ status[m] = "absent" /\ status'[m] \in {"none", "queued"}
    \/ /\ status[m] \notin {"absent", "sent"} /\ m \in Durable
       /\ status'[m] \in {"queued", "partial", "failed"}
    \/ /\ status[m] \notin {"absent", "sent"} /\ m \in Durable
       /\ status'[m] = "sent" /\ AllDelivered(m)'

(* One transaction of the implementation concerns one message. *)
Record(m) ==
    /\ \A p \in Person, r \in Relay : EntryMove(Entries(m, p)[r], Entries(m, p)[r]')
    /\ StatusMove(m)
    /\ \A n \in Message \ {m} : status'[n] = status[n] /\ copies'[n] = copies[n]

(* An account is removed: messages first, the ledgers afterwards. *)
ForgetMessages ==
    /\ \A m \in Message : status'[m] \in {status[m], "absent"}
    /\ UNCHANGED copies

ForgetLedgers ==
    /\ \A m \in Message :
           copies'[m] = copies[m] \/ (status[m] = "absent" /\ Rows(m)' = {})
    /\ UNCHANGED status

Next == (\E m \in Message : Record(m)) \/ ForgetMessages \/ ForgetLedgers

Spec == Init /\ [][Next]_ledger
=============================================================================
