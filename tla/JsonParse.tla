------------------------------- MODULE JsonParse -------------------------------
(***************************************************************************)
(* The JSON reader of src/shared/jsonparse.c and the searches over it of   *)
(* src/shared/jsonh.c, as operators on a text (see JsonDoc) and a parser.  *)
(*                                                                         *)
(* The texts are those of objects nested less deep than                    *)
(* JSONPARSE_MAX_DEPTH, so no scan runs past the text and the stack holds. *)
(***************************************************************************)
EXTENDS JsonDoc

None == "0"            \* the type of nothing, and JSON_TYPE_ERROR
PairName == "N"        \* JSON_TYPE_PAIR_NAME

Digits == Range(Digit)
Words == {"null", "true", "false"}

\* A parser: where it goes on, the brackets and colons that are open, and of
\* the last element its type and, if it is atomic, where it is in the text.
jsonparse_setup == [pos |-> 1, stack |-> <<>>, vtype |-> None, vstart |-> 1, vlen |-> 0]

jsonparse_has_next(text, st) == st.pos <= Len(text)
jsonparse_get_type(st) == IF st.stack = <<>> THEN None ELSE Last(st.stack)

\* The first place from "from" on with a symbol of "set", or past the end.
Seek(text, from, set) == Min({i \in from .. Len(text) : text[i] \in set} \cup {Len(text) + 1})
Skip(text, from, set) == Min({i \in from .. Len(text) : text[i] \notin set} \cup {Len(text) + 1})

\* Where a string ends: at a quote that no backslash stands before.
RECURSIVE ClosingQuote(_, _)
ClosingQuote(text, from) ==
  IF from > Len(text) \/ text[from] = "\"" THEN from
  ELSE ClosingQuote(text, IF text[from] = "\\" THEN from + 2 ELSE from + 1)

\* What jsonparse_next returns, and the parser it leaves.
Give(type, st) == [type |-> type, st |-> st]
Error(st) == Give(None, st)

push(st, c) == Give(c, [st EXCEPT !.stack = Append(@, c), !.vtype = None])
pop(st, c) == Give(c, [st EXCEPT !.vtype = Last(st.stack), !.stack = Front(@)])
modify(st, c) == [st EXCEPT !.stack = Append(Front(@), c)]

\* The element from "start" up to, but without, "end".
Element(st, type, start, end, pos) ==
  Give(type, [st EXCEPT !.vtype = type, !.vstart = start, !.vlen = end - start, !.pos = pos])

\* Its first symbol is behind the parser already.
atomic(text, st, type) ==
  CASE type \in {"\"", PairName} ->
         LET end == ClosingQuote(text, st.pos)
         IN  IF end > Len(text) THEN Error([st EXCEPT !.pos = end])
             ELSE Element(st, type, st.pos, end, end + 1)
    [] type = "0..9" ->
         LET end == Skip(text, st.pos, Digits \cup {"."})
         IN  Element(st, type, st.pos - 1, end, end)
    [] OTHER ->                               \* null, true or false
         LET end == Seek(text, st.pos, {" ", ",", "]", "}"})
         IN  IF end > st.pos THEN Error([st EXCEPT !.pos = end])
             ELSE Element(st, type, st.pos - 1, end, end)

\* The switch of jsonparse_next: what the symbol "c" is where the parser, which
\* stands behind it, has the brackets it has.
RECURSIVE jsonparse_next(_, _)
Symbol(text, st, c) ==
  LET s == jsonparse_get_type(st)
      v == st.vtype
      begins == (s = None /\ v = None) \/ s \in {"[", ":"}
  IN
  CASE c \in {"{", "["} -> IF begins THEN push(st, c) ELSE Error(st)
    [] c = "}" -> IF \/ s = ":" /\ v \notin {",", None}
                     \/ s = "{" /\ v = None
                  THEN pop(st, c) ELSE Error(st)
    [] c = "]" -> IF s = "[" /\ v # "," THEN pop(st, c) ELSE Error(st)
    [] c = ":" -> IF s = "{" /\ v = PairName
                  THEN jsonparse_next(text, [modify(st, ":") EXCEPT !.vtype = None])
                  ELSE Error(st)
    [] c = "," -> IF s = ":" /\ v # None
                  THEN Give(c, [modify(st, "{") EXCEPT !.vtype = c])
                  ELSE IF s = "[" THEN Give(c, [st EXCEPT !.vtype = c])
                  ELSE Error(st)
    [] c = "\"" -> IF s = "{" THEN atomic(text, st, PairName)
                   ELSE IF begins THEN atomic(text, st, c) ELSE Error(st)
    [] OTHER -> IF s = "{" \/ v \notin {None, ","} THEN Error(st)
                ELSE IF c \in Digits \cup {"-"} THEN atomic(text, st, "0..9")
                ELSE IF c \in Words THEN atomic(text, st, c)
                ELSE Error(st)

jsonparse_next(text, before) ==
  LET p == Skip(text, before.pos, {" ", "\n"})
      st == [before EXCEPT !.pos = p + 1]
  IN  IF p > Len(text) THEN Error(st) ELSE Symbol(text, st, text[p])

\* The symbols of the last element.
Raw(text, st) == SubSeq(text, st.vstart, st.vstart + st.vlen - 1)

Unescape == [b |-> "BS", f |-> "FF", n |-> "LF", r |-> "CR", t |-> "TAB"]
              @@ [s \in {"\"", "\\", "/"} |-> s]

\* An escape that is not known is left out.
RECURSIVE Unescaped(_)
Unescaped(symbols) ==
  IF symbols = <<>> THEN <<>>
  ELSE IF Head(symbols) = "\\"
       THEN (IF symbols[2] \in DOMAIN Unescape THEN <<Unescape[symbols[2]]>> ELSE <<>>)
              \o Unescaped(SubSeq(symbols, 3, Len(symbols)))
       ELSE <<Head(symbols)>> \o Unescaped(Tail(symbols))

\* Into a buffer of "size" bytes, of which the last is for the NUL.
jsonparse_copy_value(text, st, size) ==
  LET all == Unescaped(Raw(text, st))
  IN  SubSeq(all, 1, Min({Len(all), size - 1}))

\* atoi: a sign, if there is one, and the digits up to another symbol.
atoi(symbols) ==
  LET negative == symbols # <<>> /\ symbols[1] = "-"
      first == IF negative THEN 2 ELSE 1
      digits == SubSeq(symbols, first, Skip(symbols, first, Digits) - 1)
      Value(d) == CHOOSE n \in 0..9 : Digit[n + 1] = d
      n == FoldLeft(LAMBDA sum, d : 10 * sum + Value(d), 0, digits)
  IN  IF negative THEN -n ELSE n

jsonparse_get_value_as_int(text, st) == atoi(Raw(text, st))

\* strncmp up to the length of the element: all of a name or its beginning.
jsonparse_strcmp_value(text, st, name) == IsPrefix(Raw(text, st), name)

-----------------------------------------------------------------------------
(* jsonh.c.  A search begins at a parser and leaves it where it is; what it *)
(* finds is a parser of its own.                                           *)

NotFound == [pos |-> 0]

\* Mutant: names at any depth count.
MatchesAtAnyDepth(text, next, name, depth) ==
  next.type = PairName /\ jsonparse_strcmp_value(text, next.st, name)

Matches(text, next, name, depth) ==
  /\ next.type = PairName
  /\ Len(next.st.stack) = depth
  /\ jsonparse_strcmp_value(text, next.st, name)

RECURSIVE Find(_, _, _, _)
Find(text, st, name, depth) ==
  LET next == jsonparse_next(text, st)
  IN  IF ~jsonparse_has_next(text, st) THEN NotFound
      ELSE IF Matches(text, next, name, depth) THEN next.st
      ELSE Find(text, next.st, name, depth)

json_find_next_sibling(text, st, name) == Find(text, st, name, Len(st.stack))

\* The element after a name, if it has the type: json_find_next_sibling_string
\* and json_find_next_sibling_int.
FindTyped(text, st, name, type) ==
  LET found == json_find_next_sibling(text, st, name)
      next == jsonparse_next(text, found)
  IN  IF found = NotFound \/ next.type # type THEN NotFound ELSE next.st
=============================================================================
