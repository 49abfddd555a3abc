----------------------------- MODULE MCMemTable -----------------------------
(* Instances of MemTable for TLC.                                            *)
EXTENDS MemTable

\* An inner index with one column, one with two, and two with one column each.
OneColumn == 1 :> {0} @@ 2 :> {}
TwoColumns == 1 :> {0, 1} @@ 2 :> {}
TwoIndexes == 1 :> {0} @@ 2 :> {1}
All == [ts |-> 2, end |-> NoEnd]
Part == [ts |-> 2, end |-> 1]
Mix == {[schema |-> OneColumn, ops |-> {"read"}, ranges |-> {Part}],
        [schema |-> OneColumn, ops |-> {"key"}, ranges |-> {All, Part}],
        [schema |-> TwoColumns, ops |-> {"key", "drop"}, ranges |-> {}],
        [schema |-> TwoColumns, ops |-> {}, ranges |-> {All, Part}],
        [schema |-> TwoColumns, ops |-> {"read"}, ranges |-> {}],
        [schema |-> TwoIndexes, ops |-> {"drop"}, ranges |-> {}],
        [schema |-> TwoIndexes, ops |-> {"absent"}, ranges |-> {}]}
Abs == [type |-> "abs", lat |-> 1]
AbsOrLat == [type |-> "absorlat", lat |-> 1]
MixedTtl == 0 :> Abs @@ 1 :> AbsOrLat
Even == {[c \in Columns |-> t] : t \in 1..2}
=============================================================================
