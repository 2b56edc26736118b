-------------------------------- MODULE JsonTree --------------------------------
(***************************************************************************)
(* The JSON writer of src/shared/jsontree.c into the buffer of jsonh.c.    *)
(* A tree is a document of JsonDoc, and a context is the path to the       *)
(* element that is printed next, with the index at each level, and what the*)
(* buffer holds.                                                           *)
(***************************************************************************)
EXTENDS JsonDoc

\* _json_putchar: what does not fit is dropped.
putchar(out, symbols, max_size) == SubSeq(out \o symbols, 1, Min({Len(out \o symbols), max_size}))

RECURSIVE jsontree_write_uint(_)
jsontree_write_uint(n) ==
  (IF n > 9 THEN jsontree_write_uint(n \div 10) ELSE <<>>) \o <<Digit[(n % 10) + 1]>>

jsontree_write_int(n) ==
  IF n < 0 THEN <<"-">> \o jsontree_write_uint(-n) ELSE jsontree_write_uint(n)

\* Only quotes are escaped; a backslash is written as it is.
jsontree_write_string(symbols) ==
  LET Escaped(s) == IF s = "\"" THEN <<"\\", s>> ELSE <<s>>
  IN  <<"\"">> \o FlattenSeq([i \in DOMAIN symbols |-> Escaped(symbols[i])]) \o <<"\"">>

jsontree_setup(root) == [values |-> <<root>>, index |-> <<0>>, out |-> <<>>, more |-> TRUE]

\* An element is done: back up one level, if there is one.
Backed(ctx, out) ==
  LET up == Front(ctx.index)
      more == up # <<>>
  IN  [values |-> Front(ctx.values),
       index  |-> IF more THEN [up EXCEPT ![Len(up)] = @ + 1] ELSE up,
       out    |-> out,
       more   |-> more]

jsontree_print_next(ctx, max_size) ==
  LET v == Last(ctx.values)
      index == Last(ctx.index)
      open == IF v.kind = "object" THEN "{" ELSE "["
      close == IF v.kind = "object" THEN "}" ELSE "]"
      opened == IF index = 0 THEN <<open>> ELSE <<>>
      Put(symbols) == putchar(ctx.out, symbols, max_size)
  IN
  CASE v.kind = "string" -> Backed(ctx, Put(jsontree_write_string(v.of)))
    [] v.kind = "number" -> Backed(ctx, Put(jsontree_write_int(v.of)))
    [] v.kind \in {"object", "array"} /\ index >= Len(v.of) ->
         Backed(ctx, Put(opened \o <<close>>))
    [] OTHER ->
         LET comma == IF index > 0 THEN <<",">> ELSE <<>>
             item == v.of[index + 1]
             named == v.kind = "object"
             name == IF named THEN jsontree_write_string(item[1]) \o <<":">> ELSE <<>>
         IN  [values |-> Append(ctx.values, IF named THEN item[2] ELSE item),
              index  |-> Append(ctx.index, 0),
              out    |-> Put(opened \o comma \o name),
              more   |-> TRUE]

\* while(jsontree_print_next(&context)) {}, and the buffer's content.
RECURSIVE Printed(_, _)
Printed(ctx, max_size) ==
  LET next == jsontree_print_next(ctx, max_size)
  IN  IF next.more THEN Printed(next, max_size) ELSE next.out
=============================================================================
