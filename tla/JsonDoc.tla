-------------------------------- MODULE JsonDoc --------------------------------
(***************************************************************************)
(* JSON documents, and the texts that stand for them.  A text is a sequence*)
(* of symbols: a bracket, a quote, a backslash, a digit or a letter is one,*)
(* and so is a whole word that the firmware compares with, such as "set".  *)
(* Names are sequences of symbols too.                                     *)
(*                                                                         *)
(* Text is what the browser's JSON.stringify makes of a document (the page *)
(* calls it in share.js), and the reference that jsontree.c is compared    *)
(* with.                                                                   *)
(***************************************************************************)
EXTENDS Integers, Sequences, FiniteSetsExt, SequencesExt

\* A document, and in an object a sequence of pairs <<name, document>>.
Str(symbols) == [kind |-> "string", of |-> symbols]
Num(n)       == [kind |-> "number", of |-> n]
Null         == [kind |-> "null"]
Arr(docs)    == [kind |-> "array", of |-> docs]
Obj(pairs)   == [kind |-> "object", of |-> pairs]

\* The names that the firmware looks for, cut where a shorter one may end.
Names == [type |-> <<"t", "ype">>, setup |-> <<"set", "up">>,
          ssid |-> <<"ss", "id">>, password |-> <<"pass", "word">>,
          mqttHost |-> <<"mqtt", "Host">>, mqttPort |-> <<"mqtt", "Port">>,
          current |-> <<"c", "urrent">>, icon |-> <<"i", "con">>, temp |-> <<"t", "emp">>]

\* What an object holds under a name: the device takes a name for every longer
\* one that begins with it, and the first such member counts.
Under(doc, name) == {i \in DOMAIN doc.of : IsPrefix(doc.of[i][1], name)}
Has(doc, name) == doc.kind = "object" /\ Under(doc, name) # {}
Member(doc, name) == doc.of[Min(Under(doc, name))][2]

\* A number in decimal notation.
Digit == <<"0", "1", "2", "3", "4", "5", "6", "7", "8", "9">>
Decimal(n) ==
  LET abs == IF n < 0 THEN -n ELSE n
      size == Min({k \in 1..9 : abs < 10^k})
      Place(i) == (abs \div 10^(size - i)) % 10
  IN  (IF n < 0 THEN <<"-">> ELSE <<>>) \o [i \in 1..size |-> Digit[Place(i) + 1]]

\* A name or string between quotes.
Quoted(symbols) ==
  LET Escaped(s) == IF s \in {"\"", "\\"} THEN <<"\\", s>> ELSE <<s>>
  IN  <<"\"">> \o FlattenSeq([i \in DOMAIN symbols |-> Escaped(symbols[i])]) \o <<"\"">>

\* The texts of "parts" with "gap" and a comma between them.
Listed(parts, gap) ==
  FlattenSeq([i \in DOMAIN parts |->
                IF i = 1 THEN parts[i] ELSE <<",">> \o gap \o parts[i]])

\* The text of a document, with "gap" after every comma and colon.
RECURSIVE Text(_, _)
Text(doc, gap) ==
  CASE doc.kind = "string" -> Quoted(doc.of)
    [] doc.kind = "number" -> Decimal(doc.of)
    [] doc.kind = "null" -> <<"null">>
    [] doc.kind = "array" ->
         <<"[">> \o Listed([i \in DOMAIN doc.of |-> Text(doc.of[i], gap)], gap) \o <<"]">>
    [] doc.kind = "object" ->
         <<"{">> \o Listed([i \in DOMAIN doc.of |->
                              Quoted(doc.of[i][1]) \o <<":">> \o gap
                                \o Text(doc.of[i][2], gap)], gap) \o <<"}">>
=============================================================================
