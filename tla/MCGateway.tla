------------------------------ MODULE MCGateway ------------------------------
(* Two tenants; a token whose tenant is in the org claim, one with unknown   *)
(* roles only, one without a tenant, and callers of three roles.             *)
EXTENDS Gateway

MCTokens == {[org |-> "t1", tenant |-> "none", roles |-> {"viewer"}],
             [org |-> "t1", tenant |-> "t2", roles |-> {"member", "offline"}],
             [org |-> "none", tenant |-> "t2", roles |-> {"owner"}],
             [org |-> "none", tenant |-> "t2", roles |-> {"offline"}],
             [org |-> "none", tenant |-> "none", roles |-> {"owner"}]}

MCEdits == {{"name"}, {"fields", "directives"}, {"target_rows"}}

=============================================================================
