-------------------------- MODULE FrerElimination --------------------------
(***************************************************************************)
(* What replication and elimination together promise for the datagrams of  *)
(* every stream, stated without slots, wrapping numbers, tags or timers:   *)
(* datagrams are numbered 0, 1, 2, ... and the window is a range of them.  *)
(*                                                                         *)
(*   - all frames handed on for a datagram come from one member stream;    *)
(*   - a copy is eliminated only if the datagram was already handed on;    *)
(*   - it is refused as late only if it lies a whole window behind the     *)
(*     newest datagram of its stream;                                      *)
(*   - the window is forgotten only when no datagram handed on can still   *)
(*     arrive a second time.                                               *)
(***************************************************************************)
EXTENDS Integers

CONSTANTS Streams,    \* the compound streams
          Copies,     \* names of the member streams
          Datagrams,  \* records with a stream and a number n
          Window      \* datagrams behind the newest one that are still taken

VARIABLES
  open,       \* datagrams of which a copy may still arrive
  forwarded,  \* [dgram, copy]: who handed on the open datagrams
  newest,     \* per stream: number of the newest datagram seen, or Nothing
  verdict     \* what the last step decided about an arriving copy

eliminationVars == <<open, forwarded, newest, verdict>>

Nothing == -1

ElimInit ==
  /\ open = {}
  /\ forwarded = {}
  /\ newest = [s \in Streams |-> Nothing]
  /\ verdict = "NONE"

(* Copies of a datagram that has left the network need not be remembered. *)
StillOpen(F) == {f \in F : f.dgram \in open}

Offer(d) ==
  /\ open' = open \cup {d}
  /\ verdict' = "NONE"
  /\ UNCHANGED <<forwarded, newest>>

(* The copy may have been the last one in the network: d may be closed. *)
Close(d) == open' \in {open, open \ {d}}

LoseCopy(d) ==
  /\ Close(d)
  /\ verdict' = "NONE"
  /\ UNCHANGED <<forwarded, newest>>

ForwardFrom(d, c) ==
  /\ d \in open
  /\ \A f \in forwarded : f.dgram = d => f.copy = c
  /\ newest[d.stream] < d.n + Window
  /\ forwarded' = StillOpen(forwarded) \cup {[dgram |-> d, copy |-> c]}
  /\ newest' = [newest EXCEPT ![d.stream] = IF d.n > @ THEN d.n ELSE @]
  /\ verdict' = "ACCEPT"
  /\ Close(d)

Eliminate(d, c) ==
  /\ d \in open
  /\ \E f \in forwarded : f.dgram = d /\ f.copy # c
  /\ verdict' = "DUPLICATE"
  /\ Close(d)
  /\ UNCHANGED <<forwarded, newest>>

RefuseLate(d) ==
  /\ d \in open
  /\ d.n + Window <= newest[d.stream]
  /\ verdict' = "WINDOW_OVERRUN"
  /\ Close(d)
  /\ UNCHANGED <<forwarded, newest>>

Forget(s) ==
  /\ \A f \in forwarded : f.dgram.stream = s => f.dgram \notin open
  /\ newest' = [newest EXCEPT ![s] = Nothing]
  /\ verdict' = "NONE"
  /\ UNCHANGED <<open, forwarded>>

Pause == verdict' = "NONE" /\ UNCHANGED <<open, forwarded, newest>>

ElimNext ==
  \/ \E d \in Datagrams : Offer(d) \/ LoseCopy(d) \/ RefuseLate(d)
  \/ \E d \in Datagrams, c \in Copies : ForwardFrom(d, c) \/ Eliminate(d, c)
  \/ \E s \in Streams : Forget(s)
  \/ Pause

ElimSpec == ElimInit /\ [][ElimNext]_eliminationVars
=============================================================================
