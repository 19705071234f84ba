-------------------------------- MODULE Gateway --------------------------------
(***************************************************************************)
(* What api-gateway decides, as operators: which configurations start      *)
(* (internal/config, and New of internal/gateway and internal/proxy), and  *)
(* what becomes of a request (ServeHTTP, Match, Forward).                  *)
(*                                                                         *)
(* A configuration is a record of an address, routes and pools, the last   *)
(* two sequences.  A path is the sequence of its segments; the empty       *)
(* sequence is the empty string, which stands for a missing one.           *)
(***************************************************************************)
EXTENDS Naturals, Sequences, SequencesExt

CONSTANTS
    ValidTarget \* targets that parse as URLs with a scheme and a host

\* The names of a configuration's pools; an empty name is "".
PoolNames(cfg) == {cfg.pools[i].name : i \in DOMAIN cfg.pools}

\* The upstream pool of a route is taken on trust.
ValidateWithoutPools(cfg) ==
    /\ cfg.address # ""
    /\ \A i \in DOMAIN cfg.pools :
         /\ cfg.pools[i].name # "" /\ cfg.pools[i].targets # <<>>
         /\ \A j \in DOMAIN cfg.pools[i].targets : cfg.pools[i].targets[j] \in ValidTarget
    /\ \A i \in DOMAIN cfg.routes :
         /\ cfg.routes[i].name # ""
         /\ cfg.routes[i].path # <<>> \/ cfg.routes[i].prefix # <<>>

\* Config.Validate.
Validate(cfg) ==
    /\ cfg.address # ""
    /\ \A i \in DOMAIN cfg.pools :
         /\ cfg.pools[i].name # "" /\ cfg.pools[i].targets # <<>>
         /\ \A j \in DOMAIN cfg.pools[i].targets : cfg.pools[i].targets[j] \in ValidTarget
    /\ \A i \in DOMAIN cfg.routes :
         /\ cfg.routes[i].name # ""
         /\ cfg.routes[i].path # <<>> \/ cfg.routes[i].prefix # <<>>
         /\ cfg.routes[i].pool \in PoolNames(cfg)

\* proxy.New: every pool has one target.
NewSucceeds(cfg) ==
    cfg.pools # <<>> /\ \A i \in DOMAIN cfg.pools : Len(cfg.pools[i].targets) = 1

MatchesMethod(route, method) == \E i \in DOMAIN route.methods : route.methods[i] = method

\* path == prefix, or it starts with prefix + "/".
MatchesPrefix(path, prefix) == IsPrefix(prefix, path)

First(S) == CHOOSE i \in S : \A j \in S : i <= j

\* Router.Match: the first route with this path, or else the first with a prefix of it; 0 if
\* there is none.
Match(cfg, method, path) ==
    LET allowed == {i \in DOMAIN cfg.routes : MatchesMethod(cfg.routes[i], method)}
        exact == {i \in allowed : cfg.routes[i].path = path}
        under == {i \in allowed : /\ cfg.routes[i].prefix # <<>>
                                  /\ MatchesPrefix(path, cfg.routes[i].prefix)}
    IN  CASE exact # {} -> First(exact)
          [] exact = {} /\ under # {} -> First(under)
          [] OTHER -> 0

\* Gateway.ServeHTTP and Proxy.Forward: what may be answered to a request for which the
\* backend, if it is asked and can be reached, answers with status.
Responses(cfg, method, path, status) ==
    LET i == Match(cfg, method, path) IN
    CASE i = 0 -> {"404"}
      [] i # 0 /\ cfg.routes[i].pool \notin PoolNames(cfg) -> {"upstream pool not found"}
      [] OTHER -> {status, "502"}
================================================================================
