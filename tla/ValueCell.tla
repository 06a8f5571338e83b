------------------------------ MODULE ValueCell ------------------------------
(***************************************************************************)
(* What VTubeStudioClient promises of the detect parameter                 *)
(* (VTubeStudioClient.h:46-48): a cell that holds the latest value, sent   *)
(* while the link is up, one write at a time; values in between coalesce.  *)
(* A value is sent when it is handed to a write: fire and forget, a write  *)
(* that fails is not repeated.  The same link also carries other requests. *)
(***************************************************************************)
EXTENDS Integers

CONSTANT Values

VARIABLES value, dirty,  \* the cell; it holds a value not yet sent
          sent,          \* the value handed to a write last, -1 if none
          busy,          \* a write has not completed
          up             \* the client is connected

cellVars == <<value, dirty, sent, busy, up>>

Init == value = 0 /\ dirty = FALSE /\ sent = -1 /\ busy = FALSE /\ up = FALSE

Put(v) ==
  /\ value' = v /\ dirty' = TRUE
  /\ UNCHANGED <<sent, busy, up>>

Send ==
  /\ up /\ ~busy /\ dirty
  /\ sent' = value /\ dirty' = FALSE /\ busy' = TRUE
  /\ UNCHANGED <<value, up>>

SendOther ==
  /\ up /\ ~busy
  /\ busy' = TRUE
  /\ UNCHANGED <<value, dirty, sent, up>>

Done ==
  /\ busy' = FALSE
  /\ UNCHANGED <<value, dirty, sent, up>>

(* A link that is closed, rather than lost, may leave the cell busy. *)
LinkUp   == up' = TRUE /\ UNCHANGED <<value, dirty, sent, busy>>
LinkDown == up' = FALSE /\ busy' \in {busy, FALSE} /\ UNCHANGED <<value, dirty, sent>>

(* The process ends and starts again. *)
Reset == value' = 0 /\ dirty' = FALSE /\ sent' = -1 /\ busy' = FALSE /\ up' = FALSE

Next ==
  \/ \E v \in Values : Put(v)
  \/ Send \/ SendOther \/ Done \/ LinkUp \/ LinkDown \/ Reset

Spec == Init /\ [][Next]_cellVars

(* With the cell clean, the last value set is the one that was sent last.   *)
LatestSent == ~dirty /\ sent # -1 => sent = value
=============================================================================
