---------------------------- MODULE Publication -----------------------------
(***************************************************************************)
(* What the generation service promises, without gateway, retries or       *)
(* workers: an artifact is produced only after release, version rows are   *)
(* published only for a produced artifact, and the request is reported     *)
(* complete only when a version is there.  Rows may be published more than *)
(* once, and an aborted request may still publish: the service promises    *)
(* neither exactly-once nor clean abort.                                   *)
(***************************************************************************)
CONSTANT Versions

VARIABLES outcome,    \* "none", "open", or how the request ended
          released,   \* the human gate was passed or waived
          produced,   \* a complete artifact exists
          published   \* the version rows

pubVars == <<outcome, released, produced, published>>

PubInit ==
  /\ outcome = "none"
  /\ released = FALSE
  /\ produced = FALSE
  /\ published = {}

Submit ==
  /\ outcome = "none"
  /\ outcome' = "open"
  /\ released' \in BOOLEAN
  /\ UNCHANGED <<produced, published>>

Release ==
  /\ outcome = "open"
  /\ released' = TRUE
  /\ UNCHANGED <<outcome, produced, published>>

Produce ==
  /\ released
  /\ produced' = TRUE
  /\ UNCHANGED <<outcome, released, published>>

PublishVersion(v) ==
  /\ produced
  /\ published' = published \cup {v}
  /\ UNCHANGED <<outcome, released, produced>>

Complete ==
  /\ outcome = "open"
  /\ published # {}
  /\ outcome' = "completed"
  /\ UNCHANGED <<released, produced, published>>

Abort ==
  /\ outcome = "open"
  /\ outcome' \in {"failed", "cancelled"}
  /\ UNCHANGED <<released, produced, published>>

PubNext ==
  \/ Submit
  \/ Release
  \/ Produce
  \/ \E v \in Versions : PublishVersion(v)
  \/ Complete
  \/ Abort

PubSpec == PubInit /\ [][PubNext]_pubVars
=============================================================================
