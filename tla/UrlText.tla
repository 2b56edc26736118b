-------------------------------- MODULE UrlText --------------------------------
(***************************************************************************)
(* Hosts and URLs as the firmware reads them: UTILS_StrToIP of             *)
(* src/mqtt/utils.c, and the host and port of src/http/http.c.  A text is a*)
(* sequence of symbols, see JsonDoc; "://" is one symbol.                  *)
(***************************************************************************)
EXTENDS JsonParse

\* The text of a URL, which may name no port and no path.
NoPort == 0
url_text(url) == <<"http", "://">> \o url.host
                 \o (IF url.port = NoPort THEN <<>> ELSE <<":">> \o Decimal(url.port)) \o url.path

Nothing == <<>>        \* no text: the caller's buffer is left as it was

\* strstr for one symbol.
Holds(text, from, symbol) == Seek(text, from, {symbol}) <= Len(text)
After(text, symbol) == Seek(text, 1, {symbol}) + 1

\* http_get_host_from_url: up to the first colon, in the path too, or else up
\* to the path, which there must be.
http_get_host_from_url(url) ==
  LET from == After(url, "://")
      end == IF Holds(url, from, ":") THEN Seek(url, from, {":"}) ELSE Seek(url, from, {"/"})
  IN  IF Holds(url, 1, "://") /\ end <= Len(url) THEN SubSeq(url, from, end - 1) ELSE Nothing

\* Mutant: the path is part of the port.
PortToEnd(url) ==
  LET colon == Seek(url, After(url, "://"), {":"})
  IN  IF ~Holds(url, 1, "://") THEN 0
      ELSE IF colon > Len(url) THEN 80
      ELSE IF Len(url) - colon > 5 THEN 0
      ELSE atoi(SubSeq(url, colon + 1, Len(url)))

\* http_get_port_from_url, for a port that is 0 before: a port of more than 5
\* digits is none.
http_get_port_from_url(url) ==
  LET colon == Seek(url, After(url, "://"), {":"})
      end == Seek(url, colon, {"/"})
      digits == SubSeq(url, colon + 1, end - 1)
  IN  IF ~Holds(url, 1, "://") THEN 0
      ELSE IF colon > Len(url) THEN 80
      ELSE IF Len(digits) > 5 THEN 0
      ELSE atoi(digits) % 65536

\* UTILS_StrToIP: four numbers below 256, dots between them, and anything
\* behind.  The text ends in a NUL.
RECURSIVE Octets(_, _, _)
Octets(text, from, i) ==
  LET end == Skip(text, from, Digits)
      n == atoi(SubSeq(text, from, end - 1))
      stop == IF end > Len(text) THEN "NUL" ELSE text[end]
  IN  IF n >= 256 \/ (i < 3 /\ stop # ".") THEN Nothing
      ELSE IF i = 3 THEN <<n>>
      ELSE LET rest == Octets(text, end + 1, i + 1)
           IN  IF rest = Nothing THEN Nothing ELSE <<n>> \o rest

UTILS_StrToIP(text) == Octets(text, 1, 0)
=============================================================================
