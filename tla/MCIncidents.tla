---------------------------- MODULE MCIncidents ----------------------------
(* Two alerts, one of them outside the profile in a third notification.    *)
EXTENDS Incidents

CONSTANTS k1, k2, k3, t1, t2, p1, p2, s2

Firing(k)      == [key |-> k, status |-> "firing", ends |-> None, wellFormed |-> TRUE]
Resolved(k, t) == [key |-> k, status |-> "resolved", ends |-> t, wellFormed |-> TRUE]

MCNotifications ==
    { <<Firing(k1), Firing(k2)>>,
      <<Resolved(k1, t1), Firing(k2)>>,
      <<Resolved(k2, t2), Resolved(k1, t2)>>,
      <<Firing(k2), Firing(k3)>>,
      <<Resolved(k1, t1), Resolved(k2, None)>>,
      <<Firing(k1), [Firing(k2) EXCEPT !.wellFormed = FALSE]>> }

(* A request that starts its own trace, and one that continues a caller's. *)
MCContexts ==
    { [parent |-> p1, state |-> None], [parent |-> p2, state |-> s2] }
MCOneContext == { [parent |-> p1, state |-> None] }
=============================================================================
