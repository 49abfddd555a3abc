----------------------------- MODULE MCOpEngine -----------------------------
(* Model-checking instances of OpEngine: the plans of the operations and   *)
(* the faults that go with them.                                           *)
EXTENDS OpEngine

\* Two operations of a tablet's task and a task of the name server.
TabletThenAgain ==
    [plan |-> <<"tablet", "again">>, childPlan |-> <<"again">>, ops |-> 2, done |-> 1,
     faults |-> {"ns", "tablet", "timeout", "zk", "fail"}]

\* One such operation, which may also be canceled.
Canceled ==
    [TabletThenAgain EXCEPT !.ops = 1, !.done = 0, !.faults = @ \cup {"cancel"}]

\* Three operations, of which one may be the child of another.
Children ==
    [plan |-> <<"recover">>, childPlan |-> <<"again">>, ops |-> 3, done |-> 0,
     faults |-> {"ns", "zk", "cancel", "fail", "create", "delete"}]

\* A task that runs in the name server and that SkipDoneTask does not start again.
Local ==
    [plan |-> <<"again", "local">>, childPlan |-> <<"again">>, ops |-> 2, done |-> 1,
     faults |-> {"ns", "zk", "cancel", "fail"}]

\* An operation that ends with kCreateProcedure and is not recovered.
Deploy == [Local EXCEPT !.plan = <<"local", "normal">>]

All == {TabletThenAgain, Canceled, Children, Local, Deploy}

\* The workloads of liveness: every fault of one operation, then what a second one
\* has to wait for, then the operations that a new leader cannot finish.
OneOp == [Canceled EXCEPT !.faults = @ \cup {"create"}]
TwoOps ==
    [TabletThenAgain EXCEPT !.plan = <<"tablet">>, !.faults = {"ns", "timeout", "create"}]
Live == {OneOp, TwoOps, [Local EXCEPT !.ops = 1], [Deploy EXCEPT !.ops = 1]}
=============================================================================
