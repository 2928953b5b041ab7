----------------------------- MODULE MCAdminApi -----------------------------
EXTENDS AdminApi

A == <<"a">>
BA == <<"b", "a">>
C == <<"c">>
Interchangeable == Permutations(Clients)
Rec(n, v) == [name |-> n, val |-> v]
Empty == [op |-> "put", key |-> "none", zone |-> NoZone, to |-> NoZone, add |-> {}, del |-> {},
          serial |-> -1, opts |-> 0, replace |-> FALSE]

MCConf == [zones |-> (A :> [serial |-> 0, opts |-> 0]), recs |-> {Rec(BA, 0)}]

MCRequests == {
  [Empty EXCEPT !.op = "create", !.key = "k1", !.zone = BA],
  [Empty EXCEPT !.op = "create", !.key = "k1", !.zone = C],
  [Empty EXCEPT !.op = "create", !.zone = C, !.add = {Rec(C, 0)}, !.serial = 3],
  [Empty EXCEPT !.op = "delete", !.zone = BA],
  [Empty EXCEPT !.op = "update", !.zone = A, !.to = C, !.opts = 1],
  [Empty EXCEPT !.op = "import", !.zone = A, !.add = {Rec(A, 1)}, !.serial = 6, !.replace = TRUE],
  [Empty EXCEPT !.op = "batch", !.zone = A, !.add = {Rec(A, 0)}, !.del = {Rec(BA, 0)}],
  [Empty EXCEPT !.add = {Rec(C, 1)}] }
=============================================================================
