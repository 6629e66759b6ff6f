------------------------------ MODULE MCStream ------------------------------
(***************************************************************************)
(* The stream for TLC, and its rate limiter.  Stream takes a delay of any  *)
(* length, so the two share no state and a behaviour exercises one of      *)
(* them.  Lookups give one to three endpoints of either kind; the limiter  *)
(* works in half seconds, with a small INT64_MAX that a few bursts pass.   *)
(***************************************************************************)
EXTENDS Stream, RateLimit

VARIABLE part  \* the one exercised

MCLists == UNION {[1 .. n -> EndpointKinds] : n \in 1 .. 3}

MCInit == part \in {"stream", "limiter"} /\ Init /\ LimitInit
          /\ (part = "limiter" => tls /\ connect_timeout /\ limit_rate)

MCNext ==
  \/ part = "stream" /\ Next /\ UNCHANGED <<part, limitVars>>
  \/ part = "limiter" /\ LimitNext /\ UNCHANGED <<part, vars>>

MCSpec == MCInit /\ [][MCNext]_<<part, vars, limitVars>> /\ Fairness
=============================================================================
