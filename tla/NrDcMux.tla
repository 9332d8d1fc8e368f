------------------------------ MODULE NrDcMux ------------------------------
(***************************************************************************)
(* NrDcMux: joins the two NR stacks of a dual-connectivity UE below one    *)
(* ip2nic.  It keeps no state: a message leaves, at once and in order,     *)
(* through the gate that its arrival gate decides.                         *)
(***************************************************************************)

DcGates == {"upper", "primary", "secondary"}

(* handleMessage; what came through no known gate is deleted. *)
OutGate(arrival) ==
  CASE arrival \in {"primary", "secondary"} -> "upper"
    [] arrival = "upper"                    -> "primary"
    [] arrival \notin DcGates               -> "deleted"
=============================================================================
