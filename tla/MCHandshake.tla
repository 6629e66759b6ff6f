----------------------------- MODULE MCHandshake -----------------------------
(***************************************************************************)
(* ProxyHandshake and KeepAlive for TLC.  A behaviour exercises one of     *)
(* them; the other rests.                                                  *)
(***************************************************************************)
EXTENDS ProxyHandshake, KeepAlive

CONSTANT Parts

VARIABLE part

AtRest ==
  /\ cfg = [method |-> "ss", front |-> "redir", dest |-> "ipv4", eager |-> FALSE,
            credentials |-> "none", auth_required |-> FALSE, first |-> 1]
  /\ app = [sent |-> 0, back |-> 0, got |-> << >>, next |-> "wait"]
  /\ c = Ended(InitialClient, "connect") /\ s = Ended(InitialServer, "connect")
  /\ wire = [d \in {"a2c", "c2a", "c2s", "s2c", "s2r", "r2s"} |-> << >>]

MCInit ==
  /\ part \in Parts /\ KaInit
  /\ IF part = "proxy" THEN Init ELSE AtRest

MCNext ==
  /\ UNCHANGED part
  /\ \/ part = "proxy" /\ Next /\ UNCHANGED ka
     \/ part = "keepalive" /\ KaNext /\ UNCHANGED vars

MCSpec == MCInit /\ [][MCNext]_<<vars, part, ka>> /\ Fairness
==============================================================================
