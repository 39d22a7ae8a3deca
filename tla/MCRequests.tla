----------------------------- MODULE MCRequests -----------------------------
(* Two requests of two tenants, one behind OrmLayer alone and one with a   *)
(* replica, on a runtime with one thread; main has a single connection.    *)
EXTENDS Requests

CONSTANTS r1, r2, th1, main, replica, other, n1, t1, t2, none

MCLayers == [r \in {r1, r2} |->
  IF r = r1 THEN {[pool |-> main, replica |-> none, tenant |-> t1]}
  ELSE {[pool |-> main, replica |-> replica, tenant |-> t2]}]

MCSize == [p \in {main, replica, other} |-> IF p = main THEN 1 ELSE 2]

Call(call, on, rep, scoped, run) ==
  [call |-> call, on |-> on, replica |-> rep, scoped |-> scoped, run |-> run]

MCPlans == [r \in {r1, r2} |->
  IF r = r1
  THEN {Call("stream", none, FALSE, TRUE, "here"),
        Call("get", none, FALSE, TRUE, "here"),
        Call("get", n1, FALSE, TRUE, "spawned")}
  ELSE {Call("get", n1, TRUE, TRUE, "here"),
        Call("value", n1, TRUE, FALSE, "lazy"),
        Call("restore", none, TRUE, TRUE, "here"),
        Call("warm", none, FALSE, FALSE, "here")}]
=============================================================================
