--------------------------- MODULE DeliveryStatus ---------------------------
(***************************************************************************)
(* The pure rules of services/dm/delivery-status.ts: how the outcomes of   *)
(* the relays of one recipient copy, and the copies of one message, are    *)
(* folded into what the user reads.  A copy's relay list is a function     *)
(* from relays to entries; "none" is a relay the list does not mention, so *)
(* that the list's order and the error strings are abstracted.             *)
(***************************************************************************)
EXTENDS Integers, FiniteSets

Entry == {"none", "pending", "ok", "failed"}

Listed(relays) == {r \in DOMAIN relays : relays[r] # "none"}

WithEntry(relays, entry) == {r \in DOMAIN relays : relays[r] = entry}

(* At least one acknowledgement, and at least half of the listed targets.  *)
RelayThreshold(ok, total) == ok > 0 /\ ok * 2 >= total

DeliveryCopyVerdict(relays) ==
    IF RelayThreshold(Cardinality(WithEntry(relays, "ok")),
                      Cardinality(Listed(relays))) THEN "delivered"
    ELSE IF WithEntry(relays, "pending") # {} THEN "pending"
    ELSE "failed"

(* rows is the set of the message's copy rows; only whether some row or    *)
(* every row has a verdict matters, so equal rows may coincide.            *)
MessageDeliveryVerdict(rows, hasUnfinishedJob) ==
    LET verdict(row) == DeliveryCopyVerdict(row.relays)
        unfinished   == IF hasUnfinishedJob THEN "queued" ELSE "failed"
    IN  IF rows = {} THEN unfinished
        ELSE IF \E row \in rows : verdict(row) = "pending" THEN "queued"
        ELSE IF \A row \in rows : verdict(row) = "delivered" THEN "sent"
        ELSE IF \E row \in rows : verdict(row) = "delivered" THEN "partial"
        ELSE unfinished

(* Mutation: a relay that is not in the list yet is not added to it.       *)
BeginKnownTargets(relays, targets) ==
    [r \in DOMAIN relays |->
        IF r \in targets /\ relays[r] \in {"pending", "failed"} THEN "pending" ELSE relays[r]]

(* beginRelayTargets: targets become pending, an acknowledgement stays.    *)
BeginRelayTargets(relays, targets) ==
    [r \in DOMAIN relays |->
        IF r \in targets /\ relays[r] # "ok" THEN "pending" ELSE relays[r]]

(* Mutation: a late failure overwrites an acknowledgement.                 *)
SettleOverwriting(relays, relay, ok) ==
    [r \in DOMAIN relays |->
        IF r # relay THEN relays[r] ELSE IF ok THEN "ok" ELSE "failed"]

(* settleRelayTarget: an "ok" never regresses.                             *)
SettleRelayTarget(relays, relay, ok) ==
    [r \in DOMAIN relays |->
        IF r # relay \/ relays[r] = "ok" THEN relays[r]
        ELSE IF ok THEN "ok" ELSE "failed"]

(* Mutation: giving up leaves the pending entries behind.                  *)
DropNothing(relays, attempted) == relays

(* The relay filter of the two paths that give up before publishing.       *)
DropPending(relays, attempted) ==
    [r \in DOMAIN relays |->
        IF r \in attempted /\ relays[r] = "pending" THEN "none" ELSE relays[r]]
=============================================================================
