----------------------- MODULE MCBackgroundLifecycle -----------------------
(* A small instance of the lifecycle.  (MCAdministration has another one,  *)
(* with two copies.)                                                       *)
EXTENDS BackgroundLifecycle

Versions == [a \in Copies |-> 2]
=============================================================================
