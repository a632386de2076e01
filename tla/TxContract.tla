----------------------------- MODULE TxContract -----------------------------
(***************************************************************************)
(* What the service promises a host about TX frames (docs/protocol.md,     *)
(* sections 1 and 4): a frame is taken only while a slot is free, and      *)
(* every taken frame is answered by exactly one terminal, in the order the *)
(* frames were taken.  One step may answer several frames: the thermal     *)
(* cutoff drains the queue in one go.                                      *)
(***************************************************************************)
EXTENDS Naturals, Sequences

CONSTANT Slots      \* frames that may wait for their terminal: the document
                    \* says two, the code has 16 (RadioWorker's TwoSlots)

VARIABLES accepted, \* frames taken so far
          settled   \* the terminals sent so far, oldest first

Results == {"ok", "dropped"}

Outstanding == accepted - Len(settled)

Init == accepted = 0 /\ settled = <<>>

Accept == /\ Outstanding < Slots
          /\ accepted' = accepted + 1
          /\ UNCHANGED settled

Answer == /\ \E n \in 1..Outstanding : \E rs \in [1..n -> Results] : settled' = settled \o rs
          /\ UNCHANGED accepted

Next == Accept \/ Answer

Spec == Init /\ [][Next]_<<accepted, settled>>
=============================================================================
