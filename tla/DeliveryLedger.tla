--------------------------- MODULE DeliveryLedger ---------------------------
(***************************************************************************)
(* What dawatch promises about a deviation, without runs, pages or faults. *)
(* It may be delivered any number of times once it is announced. It is     *)
(* recorded as notified only when a delivery has happened: at least once.  *)
(* It may be recorded silently, as part of the baseline, but a record of a *)
(* notification is final.                                                  *)
(***************************************************************************)
EXTENDS Integers

CONSTANT MaxPosts

VARIABLES announced, delivered, ledger

ledgerVars == <<announced, delivered, ledger>>

Init ==
    /\ announced \in 0..MaxPosts
    /\ delivered = {}
    /\ ledger = [d \in 1..MaxPosts |-> "none"]

Announce ==
    /\ announced < MaxPosts
    /\ announced' = announced + 1
    /\ UNCHANGED <<delivered, ledger>>

Deliver(d) ==
    /\ delivered' = delivered \cup {d}
    /\ UNCHANGED <<announced, ledger>>

RecordNotified(d) ==
    /\ d \in delivered
    /\ ledger' = [ledger EXCEPT ![d] = "notified"]
    /\ UNCHANGED <<announced, delivered>>

RecordBaseline(d) ==
    /\ ledger[d] # "notified"
    /\ ledger' = [ledger EXCEPT ![d] = "seeded"]
    /\ UNCHANGED <<announced, delivered>>

Next ==
    \/ Announce
    \/ \E d \in 1..announced :
        Deliver(d) \/ RecordNotified(d) \/ RecordBaseline(d)

Spec == Init /\ [][Next]_ledgerVars
=============================================================================
