------------------------------ MODULE MCVmEnv -------------------------------
(* Two user pages that share the one TLB entry with each other and with the *)
(* kernel's pages.                                                          *)
EXTENDS VmEnv

Trigger(types, select, tdata2, after) ==
    [types |-> types, modes |-> {"U"}, select |-> select, tdata2 |-> tdata2, after |-> after]
MCTriggers == {Trigger({"LOAD"}, FALSE, 1, FALSE), Trigger({"STORE"}, TRUE, 1, FALSE),
               Trigger({"LOAD", "STORE"}, FALSE, 1, TRUE)}
MCMachines == {[xlen |-> 32, tracer |-> {}], [xlen |-> 64, tracer |-> {"LOAD", "STORE"}],
               [xlen |-> 32, tracer |-> {"FETCH"}]}
====
