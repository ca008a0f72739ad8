----------------------------- MODULE MCPipeline -----------------------------
(***************************************************************************)
(* Pipeline with a key of each rank, and environments that Load accepts    *)
(* and refuses for each reason.                                            *)
(***************************************************************************)
EXTENDS Pipeline, FiniteSets, TLC

MCRow ==
  "m" :> [rank |-> "member",  scopes |-> {"tw", "admin"}, active |-> TRUE] @@
  "p" :> [rank |-> "partner", scopes |-> {},              active |-> TRUE] @@
  "a" :> [rank |-> "admin",   scopes |-> {"tw"},          active |-> TRUE] @@
  "x" :> [rank |-> "member",  scopes |-> {"admin"},       active |-> FALSE]

Default ==
  [ipOn |-> TRUE, ipMax |-> 2, ipWindow |-> 1, trustProxy |-> FALSE,
   keyOn |-> TRUE, memberMax |-> 1, partnerMax |-> 2, window |-> 1,
   redis |-> FALSE, production |-> FALSE, seed |-> FALSE]

Accepted ==
  {[Default EXCEPT !.production = TRUE, !.seed = TRUE],
   [Default EXCEPT !.trustProxy = TRUE],
   [Default EXCEPT !.redis = TRUE, !.partnerMax = 1, !.ipOn = FALSE, !.ipMax = 0, !.ipWindow = 0],
   [Default EXCEPT !.redis = TRUE, !.ipMax = 1, !.keyOn = FALSE, !.memberMax = 0, !.window = 0]}

Refused ==
  {[Default EXCEPT !.ipMax = 0], [Default EXCEPT !.ipWindow = 0],
   [Default EXCEPT !.memberMax = 0], [Default EXCEPT !.partnerMax = 0],
   [Default EXCEPT !.window = 0], [Default EXCEPT !.production = TRUE]}

MCConfigs == Accepted \cup Refused

Symmetry == Permutations(Slots) \cup Permutations(Clients)
=============================================================================
