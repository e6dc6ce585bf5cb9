----------------------------- MODULE MCLineage -----------------------------
(* Recipes over two tables: every operator the walk has a case for, and two  *)
(* it has none for.                                                          *)
EXTENDS Lineage

MCTables == [orders    |-> [scan |-> "fin.orders", columns |-> <<"id", "amount">>],
             customers |-> [scan |-> "fin.customers", columns |-> <<"id">>]]

\* Plans by what they stand over.
Alone(op, of, width) == <<[Operator(op, of, <<>>, <<>>) EXCEPT !.width = width]>>
On(op, of, exprs, plan) == Append(plan, Operator(op, of, exprs, <<Len(plan)>>))
Across(op, of, left, right) ==
  LET n == Len(left) IN
  left \o [x \in DOMAIN right |-> [right[x] EXCEPT !.kids = [k \in DOMAIN @ |-> @[k] + n]]]
       \o <<Operator(op, of, <<>>, <<n, n + Len(right)>>)>>

Node(class, word, args) == [class |-> class, word |-> word, args |-> args]
Computed(class, word, i) == Append(Ref(i), Node(class, word, <<1>>))
Orders == Alone("get", "orders", 0)
Customers == Alone("get", "customers", 0)
Twice == Ref(2) \o <<Node("constant", "2", <<>>), Node("function", "*", <<1, 2>>)>>
Plain == On("project", "", <<Ref(1), Twice>>, Orders)
Cte == Alone("cteref", 100, 2)

MCSeeds ==
  {Plain,
   On("project", "", <<Ref(2), Ref(1), Ref(2)>>, On("project", "", <<Ref(2), Ref(1)>>, Orders)),
   On("project", "", Refs(2), On("aggregate", "", <<Ref(1), Computed("aggregate", "sum", 2)>>, Orders)),
   On("project", "", <<Ref(2), Ref(3)>>, On("window", "", <<Computed("window", "rank", 1)>>, Orders)),
   On("project", "", <<Ref(1), Ref(3)>>, On("unnest", "", <<Computed("unnest", "", 2)>>, Orders)),
   On("project", "", <<Ref(1), Ref(3)>>, Across("join", "inner", Orders, Customers)),
   On("project", "", <<Ref(1), Ref(3)>>, Across("join", "mark", Orders, Customers)),
   Across("setop", "union", On("project", "", Refs(2), Orders), Alone("values", "", 2)),
   Across("setop", "except", On("project", "", Refs(1), Orders), Customers),
   On("project", "", Refs(2), [On("recursive", "", <<>>, Orders) EXCEPT ![2].width = 2]),
   On("project", "", <<Ref(2), <<Node("subquery", "", <<>>)>>>>, On("unfollowed", "", <<>>, Orders)),
   Across("cte", 100, Plain, On("project", "", <<Ref(1), Ref(4)>>, Across("join", "inner", Cte, Cte)))}

MCOthers ==
  {Node("function", "abs", <<>>), Node("cast", "text", <<>>), Node("subquery", "", <<>>),
   Node("operator", "is null", <<>>), Node("operator", "is not null", <<>>)}
=============================================================================
