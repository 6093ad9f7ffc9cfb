--------------------------- MODULE PhaseDelivery ---------------------------
(***************************************************************************)
(* What the full-roadmap executor promises: the phases of a roadmap are    *)
(* accepted one after the other, an accepted phase stays accepted, and the *)
(* whole is handed over only when no phase is left.  Module Roadmap        *)
(* implements it on files that survive crashes.                            *)
(***************************************************************************)
EXTENDS Naturals

CONSTANT Phases

VARIABLES accepted, delivered

Init == accepted = {} /\ delivered = FALSE

\* The next phase of the roadmap is accepted.
Accept ==
  /\ \E p \in 1 .. Phases : 1 .. p - 1 = accepted /\ accepted' = accepted \cup {p}
  /\ UNCHANGED delivered

Deliver ==
  /\ accepted = 1 .. Phases
  /\ delivered' = TRUE /\ UNCHANGED accepted

\* The delivered roadmap is started again.
Reopen == delivered /\ delivered' = FALSE /\ UNCHANGED accepted

Spec == Init /\ [][Accept \/ Deliver \/ Reopen]_<<accepted, delivered>>
=============================================================================
