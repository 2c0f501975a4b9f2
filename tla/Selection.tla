----------------------------- MODULE Selection -----------------------------
(***************************************************************************)
(* Selecting the events of some kinds from a sequence: SelectSeq written as  *)
(* a recursive function, about which its lemmas can be proved.               *)
(***************************************************************************)
EXTENDS Naturals, Sequences

(* The events whose kind is one of kinds, in order. *)
OfKinds(events, kinds) ==
    LET kept[i \in 0..Len(events)] ==
            IF i = 0 THEN <<>>
            ELSE IF events[i].kind \in kinds THEN Append(kept[i - 1], events[i])
            ELSE kept[i - 1]
    IN  kept[Len(events)]
=============================================================================
