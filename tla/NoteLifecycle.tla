--------------------------- MODULE NoteLifecycle ----------------------------
(***************************************************************************)
(* What the service promises about a note, a transaction or a gift: it is  *)
(* issued once, stays pending until it is settled, and is settled once, as *)
(* recalled or as consumed (common/enums/note.ts), for good.               *)
(***************************************************************************)
CONSTANT NoteIds
VARIABLE status

NoteStatus == {"pending", "recalled", "consumed"}

TypeOK == status \in [NoteIds -> NoteStatus \cup {"none"}]

Init == status = [n \in NoteIds |-> "none"]

(* A send stores several notes at once. *)
Issue(S) ==
    /\ \A n \in S : status[n] = "none"
    /\ status' = [n \in NoteIds |-> IF n \in S THEN "pending" ELSE status[n]]

(* A request settles several notes at once, all the same way. *)
Settle(S, outcome) ==
    /\ \A n \in S : status[n] = "pending"
    /\ status' = [n \in NoteIds |-> IF n \in S THEN outcome ELSE status[n]]

Next ==
    \E S \in SUBSET NoteIds :
        Issue(S) \/ Settle(S, "recalled") \/ Settle(S, "consumed")

Spec == Init /\ [][Next]_status
=============================================================================
