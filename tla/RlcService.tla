----------------------------- MODULE RlcService -----------------------------
(***************************************************************************)
(* What an acknowledged-mode radio bearer promises PDCP: the SDUs that it  *)
(* accepts are delivered once, whole and in order, unless PDCP discards    *)
(* them first, and an SDU is confirmed once and only after all of it has   *)
(* arrived at the peer.  How SDUs are cut, numbered, retransmitted and     *)
(* acknowledged is of no concern here; RlcAm implements this module.       *)
(* Nothing is promised any more once the sender has run ahead of its       *)
(* window.                                                                 *)
(***************************************************************************)
EXTENDS Naturals, Sequences, SequencesExt

CONSTANT NofSdus  \* SDUs, numbered from 1 as PDCP writes them

VARIABLES
  written,    \* how many SDUs PDCP has written
  discarded,  \* SDUs the sender has dropped untransmitted
  arrived,    \* SDUs that are whole at the receiver, delivered or not
  delivered,  \* SDUs delivered to the peer's PDCP, in order
  acked,      \* SDUs whose arrival was confirmed
  ahead       \* has the sender run ahead of its window?

vars == <<written, discarded, arrived, delivered, acked, ahead>>

Init ==
  /\ written = 0 /\ discarded = {} /\ arrived = {}
  /\ delivered = <<>> /\ acked = {} /\ ahead = FALSE

Accepted    == (1 .. written) \ discarded
Outstanding == Accepted \ ToSet(delivered)

(* The sender's queue may be full.                                         *)
Write ==
  /\ written < NofSdus
  /\ written' = written + 1
  /\ discarded' \in {discarded, discarded \cup {written'}}
  /\ UNCHANGED <<arrived, delivered, acked>>

Discard(s) ==
  /\ s \in Accepted \ arrived
  /\ discarded' = discarded \cup {s}
  /\ UNCHANGED <<written, arrived, delivered, acked>>

(* SDUs become whole, and those up to the last are delivered at once if no *)
(* accepted SDU is overtaken.                                              *)
Receive(new, last) ==
  /\ arrived' = arrived \cup new
  /\ LET now == {s \in Outstanding : s <= last}
     IN /\ now \subseteq arrived'
        /\ delivered' = delivered \o SetToSortSeq(now, <)
  /\ UNCHANGED <<written, discarded, acked>>

Confirm(S) ==
  /\ acked' = acked \cup S
  /\ UNCHANGED <<written, discarded, arrived, delivered>>

Kept ==
  \/ Write
  \/ \E s \in Accepted : Discard(s)
  \/ \E new \in SUBSET (Accepted \ arrived), last \in 0 .. NofSdus : Receive(new, last)
  \/ \E S \in SUBSET (arrived \ acked) : Confirm(S)

Next == ahead' \/ (~ahead /\ ~ahead' /\ Kept)

Spec == Init /\ [][Next]_vars

=============================================================================
