------------------------------- MODULE MCTraffic -------------------------------
(* Model checking of Traffic: configurations that start and configurations that do not. *)
EXTENDS Traffic

Route(name, methods, prefix, pool) ==
    [name |-> name, methods |-> methods, path |-> <<>>, prefix |-> prefix, pool |-> pool]
Pool(name, targets) == [name |-> name, targets |-> targets]
Config(routes, pools) == [address |-> ":8080", routes |-> routes, pools |-> pools]

Users == Route("users-read", <<"GET">>, <<"users">>, "users-service")
Orders == Route("orders-write", <<"POST">>, <<"orders">>, "orders-service")
UsersPool == Pool("users-service", <<"http://127.0.0.1:8081">>)
OrdersPool == Pool("orders-service", <<"http://127.0.0.1:8082">>)

\* Of config/cfg.yaml the users can be read and the orders written; the other two do not
\* start, for want of a pool and for a target too many.
TestConfigs ==
    { Config(<<Users, Orders>>, <<UsersPool, OrdersPool>>),
      Config(<<Users, Orders>>, <<OrdersPool>>),
      Config(<<Users>>, <<Pool("users-service", <<"http://127.0.0.1:8081", "http://127.0.0.1:8082">>)>>) }

Targets == {"http://127.0.0.1:8081", "http://127.0.0.1:8082"}
================================================================================
