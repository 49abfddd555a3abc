------------------------------ MODULE MCPreAgg ------------------------------
(* Model-checking instances of PreAgg: rows in any order with Puts that    *)
(* overlap and a flush of the open block; rows of one time; restarts at    *)
(* any step; a delete of any range; blocks of a number of rows; restarts   *)
(* with late rows, gaps and a shortened binlog; deletes with restarts;     *)
(* flushes and deletes at the same time as Puts.                           *)
EXTENDS PreAgg

W(type, happens, times, rows, n) ==
    [type |-> type, happens |-> happens, times |-> times, rows |-> rows, runs |-> n]

AnyOrder == W("kRowsRange", {"late", "gap", "overlap", "flush"}, {0, 2, 3, 4}, 4, 1)
Ties == W("kRowsRange", {"late", "tie", "flush"}, {0, 2, 3}, 4, 1)
Restarts == W("kRowsRange", {"tie", "restart"}, {2, 3, 4, 6, 7}, 4, 2)
Deletes == W("kRowsRange", {"delete"}, {2, 3, 4, 6, 7, 8}, 5, 1)
ByRows == W("kRowsNum", {"gap", "flush", "restart"}, 1 .. 5, 5, 2)
ShortLog == W("kRowsRange", {"late", "gap", "flush", "restart"}, {2, 3, 4, 6}, 3, 2)
Undone == W("kRowsRange", {"delete", "restart"}, {2, 3, 4}, 3, 2)
Races == W("kRowsRange", {"flush", "delete", "race"}, {2, 3, 4}, 3, 1)
Copies == W("kRowsRange", {"flush", "delete", "race"}, {2, 4}, 2, 2)

All == {AnyOrder, Ties, Restarts, Deletes, ByRows, ShortLog, Undone, Races, Copies}
=============================================================================
