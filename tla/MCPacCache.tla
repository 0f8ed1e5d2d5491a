----------------------------- MODULE MCPacCache -----------------------------
(* Six pipelines of three components over two by two versions, which       *)
(* differ in one number, in both, and not at all.                          *)
EXTENDS PacCache

Of(a, b, c) == [f \in Components |-> IF f = 0 THEN a ELSE IF f = 1 THEN b ELSE c]

MCPipelines ==
  {Of(<<0, 0>>, <<0, 0>>, <<0, 0>>), Of(<<0, 0>>, <<1, 0>>, <<0, 1>>),
   Of(<<0, 1>>, <<1, 0>>, <<1, 1>>), Of(<<1, 1>>, <<0, 1>>, <<0, 1>>),
   Of(<<0, 0>>, <<1, 1>>, <<1, 0>>), Of(<<1, 0>>, <<0, 0>>, <<0, 0>>)}
=============================================================================
