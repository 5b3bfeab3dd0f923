---------------------------- MODULE AuditPromise ----------------------------
(***************************************************************************)
(* What the audit log promises of the events it is given: the table holds  *)
(* each event at most once and in the order in which they were given to    *)
(* AuditService::log.  Events may be missing (a full buffer, a failed      *)
(* insert, a stop), and a row, once written, stays: the log is append-only *)
(* (docs/security.md, "Audit tampering").                                  *)
(***************************************************************************)
EXTENDS Naturals, Sequences, SequencesExt

VARIABLES offered, rows     \* how many events were given; the table

PromiseInit == offered = 0 /\ rows = <<>>

Offer == offered' = offered + 1 /\ UNCHANGED rows

Increasing(s) == \A i \in 1..Len(s) - 1 : s[i] < s[i + 1]

Record ==
    /\ IsStrictPrefix(rows, rows')
    /\ Increasing(rows')
    /\ rows'[Len(rows')] <= offered
    /\ UNCHANGED offered

PromiseSpec == PromiseInit /\ [][Offer \/ Record]_<<offered, rows>>
=============================================================================
