-------------------------------- MODULE Texts --------------------------------
(***************************************************************************)
(* The conversions behind an HTTP request: URL decoding and the parameters *)
(* of a query, cookies from and to their headers, and the numeric casts    *)
(* that guard ports, ages and lengths.  Each is applied to every input of  *)
(* a bounded set.                                                          *)
(***************************************************************************)
EXTENDS Integers, Sequences, FiniteSets, SequencesExt, Functions

CONSTANTS Queries,     \* the query strings
          CookieLists, \* the cookies written to a header and read back: sequences of cookies
          Headers,     \* Cookie headers: sequences of parts
          Words,       \* the integral types of a cast: [signed, bits]
          MaxAge       \* 2^32 - 1: no age

VARIABLE work   \* what is converted

(***************************************************************************)
(* decode: a text is a sequence of characters, and a character given by    *)
(* its number is the two digits of it, or the separator they stand for.    *)
(* The two characters go through a stream, so one digit is enough, and a   *)
(* sign may stand before it.                                               *)
(***************************************************************************)
Digit(c) == c \in {"2", "3", "6", "D"}

Number(a, b) == Digit(a) \/ (a = "+" /\ Digit(b))

HexChar(a, b) ==
  CASE a = "+" -> "0" \o b
    [] a = "2" /\ b = "6" -> "&"
    [] a = "3" /\ b = "D" -> "="
    [] OTHER -> IF Digit(b) THEN a \o b ELSE "0" \o a

decode(in) ==
  LET Step(s, i) ==
        IF ~s.ok \/ i < s.next THEN s
        ELSE IF in[i] = "%"
               THEN IF i + 2 <= Len(in) /\ Number(in[i + 1], in[i + 2])
                      THEN [s EXCEPT !.out = Append(@, HexChar(in[i + 1], in[i + 2])), !.next = i + 3]
                      ELSE [s EXCEPT !.ok = FALSE]
               ELSE [s EXCEPT !.out = Append(@, IF in[i] = "+" THEN " " ELSE in[i])]
  IN FoldLeft(Step, [ok |-> TRUE, out |-> <<>>, next |-> 0], [i \in 1..Len(in) |-> i])

(* split: no element after the last separator when nothing follows it.     *)
split(text, delim) ==
  LET ends == {i \in DOMAIN text : text[i] = delim}
      Element(i) == LET from == {j \in ends : j < i} IN
                      SubSeq(text, IF from = {} THEN 1 ELSE 1 + CHOOSE j \in from : \A k \in from : k <= j, i - 1)
      all == SetToSortSeq(ends \cup (IF text # <<>> /\ text[Len(text)] # delim THEN {Len(text) + 1} ELSE {}), <)
  IN [n \in DOMAIN all |-> Element(all[n])]

(* HttpQueryParameter: name and value are split at the first "=", the      *)
(* last parameter of a name stays.                                         *)
Equals(s) == {i \in DOMAIN s : s[i] = "=" /\ \A j \in 1..(i - 1) : s[j] # "="}

Pair(s) == {<<SubSeq(s, 1, i - 1), SubSeq(s, i + 1, Len(s))>> : i \in Equals(s)}

Parameters_first(list) ==  \* the first parameter of a name stays
  {p \in UNION {Pair(list[i]) : i \in DOMAIN list} :
     \E i \in DOMAIN list : p \in Pair(list[i]) /\ \A j \in 1..(i - 1) : \A q \in Pair(list[j]) : q[1] # p[1]}

Parameters(list) ==
  {p \in UNION {Pair(list[i]) : i \in DOMAIN list} :
     \E i \in DOMAIN list : p \in Pair(list[i]) /\ \A j \in (i + 1)..Len(list) : \A q \in Pair(list[j]) : q[1] # p[1]}

HttpQueryParameter(query) == Parameters(split(decode(query).out, "&"))

(***************************************************************************)
(* HttpCookie.  A header is a sequence of parts, `eq' says whether a part  *)
(* has an equals sign; "" is an empty text.  A name that starts with "$"   *)
(* is refused.                                                             *)
(***************************************************************************)
Reserved == {"$version", "$domain", "$path", "$other"}

HttpCookie(name, value) ==
  [name |-> name, value |-> value, domain |-> "", path |-> "", maxAge |-> MaxAge,
   secure |-> TRUE, httpOnly |-> TRUE]

Part(a, v) == [attr |-> a, val |-> v, eq |-> TRUE]
Word(a) == [attr |-> a, val |-> "", eq |-> FALSE]

(* operator<<                                                              *)
Stream(c) ==
  <<Part(c.name, c.value), Part("version", "1")>>
  \o (IF c.domain # "" THEN <<Part("domain", c.domain)>> ELSE <<>>)
  \o (IF c.path # "" THEN <<Part("path", c.path)>> ELSE <<>>)
  \o (IF c.maxAge < MaxAge THEN <<[attr |-> "max-age", val |-> c.maxAge, eq |-> TRUE]>> ELSE <<>>)
  \o (IF c.secure THEN <<Word("secure")>> ELSE <<>>)
  \o (IF c.httpOnly THEN <<Word("httponly")>> ELSE <<>>)

Failed == [ok |-> FALSE, cookies |-> <<>>]

Set(s, k, field, val) == [s EXCEPT !.cookies[k][field] = val]

(* parseServerCookies, one attribute: whichever cookie it stands behind,   *)
(* it goes to cookies.front().                                             *)
ServerPart(s, part) ==
  CASE ~s.ok -> s
    [] part.attr \in {"domain", "path"} -> Set(s, 1, part.attr, part.val)
    [] part.attr = "max-age" -> Set(s, 1, "maxAge", part.val)
    [] part.attr = "version" -> IF part.val = "1" THEN s ELSE Failed
    [] part.attr = "secure" -> Set(s, 1, "secure", TRUE)
    [] OTHER -> Failed

parseServerCookies(header) ==
  FoldLeft(LAMBDA s, parts :
             IF ~s.ok \/ ~parts[1].eq \/ parts[1].attr \in Reserved THEN Failed
             ELSE FoldLeft(ServerPart,
                           [s EXCEPT !.cookies = Append(@, HttpCookie(parts[1].attr, parts[1].val))],
                           Tail(parts)),
           [ok |-> TRUE, cookies |-> <<>>], header)

(* parseClientCookies, one part: $Domain and $Path go to cookies.back().   *)
ClientPart(s, part) ==
  CASE ~s.ok -> s
    [] part.val = "" -> Failed
    [] part.attr = "$version" -> IF s.cookies = <<>> /\ part.val = "1" THEN s ELSE Failed
    [] part.attr = "$domain" -> IF s.cookies = <<>> THEN Failed ELSE Set(s, Len(s.cookies), "domain", part.val)
    [] part.attr = "$path" -> IF s.cookies = <<>> THEN Failed ELSE Set(s, Len(s.cookies), "path", part.val)
    [] part.attr \in Reserved -> Failed
    [] OTHER -> [s EXCEPT !.cookies = Append(@, HttpCookie(part.attr, part.val))]

parseClientCookies(header) == FoldLeft(ClientPart, [ok |-> TRUE, cookies |-> <<>>], header)

(***************************************************************************)
(* numeric_cast between integral types, one disjunct per overload.         *)
(***************************************************************************)
MaxOf(t) == IF t.signed THEN 2^(t.bits - 1) - 1 ELSE 2^t.bits - 1

MinOf(t) == IF t.signed THEN -(2^(t.bits - 1)) ELSE 0

TooLarge(to, from, v) == MaxOf(to) < MaxOf(from) /\ v > MaxOf(to)

Fits(to, from, v) ==
  \/ to = from
  \/ /\ to.signed = from.signed
     /\ ~TooLarge(to, from, v)
     /\ ~(MinOf(to) > MinOf(from) /\ v < MinOf(to))
  \/ from.signed /\ ~to.signed /\ ~TooLarge(to, from, v) /\ v >= 0
  \/ ~from.signed /\ to.signed /\ ~TooLarge(to, from, v)

TextsInit ==
  \/ \E q \in Queries : work = [kind |-> "query", query |-> q]
  \/ \E c \in CookieLists : work = [kind |-> "cookies", cookies |-> c]
  \/ \E h \in Headers : work = [kind |-> "header", header |-> h]
  \/ \E to, from \in Words : work = [kind |-> "cast", to |-> to, from |-> from]

(***************************************************************************)
(* Properties                                                              *)
(***************************************************************************)

(* A parameter is served with its name and its value decoded, and of those *)
(* with one name the last, as long as its name has no encoded separator    *)
(* and its value no encoded "&"; an encoded "=" in a value does no harm.   *)
(* An encoded separator elsewhere separates, because the query is decoded  *)
(* before it is split (http_query_parameter.cpp:46-57): it ends the name   *)
(* or the value it is in, and each piece behind it that has an equals sign *)
(* is a parameter as well, which may stand in for one that was written.    *)
(* It disturbs no other part of the query.  (A part that ends within an    *)
(* escape takes the "&" behind it along; nothing is said of those.)        *)
QueryParameters ==
  work.kind = "query" =>
    LET parts == split(work.query, "&")
        Decodes(s) == decode(s).ok /\ \A p \in Pair(s) : decode(p[1]).ok /\ decode(p[2]).ok
        Has(s, separators) == \E i \in DOMAIN s : s[i] \in separators
        Written(s) == {<<decode(p[1]).out, decode(p[2]).out>> : p \in Pair(s)}
        Whole(s) == IF Pair(s) = {} THEN ~Has(decode(s).out, {"&", "="})
                    ELSE \A p \in Written(s) : ~Has(p[1], {"&", "="}) /\ ~Has(p[2], {"&"})
        Pieces(s) == LET all == split(decode(s).out, "&") IN [k \in DOMAIN all |-> Pair(all[k])]
        taken == FlattenSeq([i \in DOMAIN parts |->
                               IF Whole(parts[i]) THEN <<Written(parts[i])>> ELSE Pieces(parts[i])])
    IN (\A i \in DOMAIN parts : Decodes(parts[i])) =>
         HttpQueryParameter(work.query) =
           {p \in UNION Range(taken) :
              \E i \in DOMAIN taken : p \in taken[i]
                /\ \A j \in (i + 1)..Len(taken) : \A r \in taken[j] : r[1] # p[1]}

(* Cookies that are written one behind the other, none of them HttpOnly,   *)
(* are read; every one that is read has the name and the value it was      *)
(* written with, and none is added or lost.  A cookie by itself comes back *)
(* with the attributes it had, but always as secure.  Of several, the      *)
(* first has for each attribute what was written last, whichever cookie it *)
(* belongs to, and the others have none: the reader gives all attributes   *)
(* to cookies.front() (http_cookie.cpp:81-138, http_cookie.h:135-156).     *)
CookiesReadBack ==
  work.kind = "cookies" =>
    LET c == work.cookies
        read == parseServerCookies([i \in DOMAIN c |-> Stream(c[i])])
        unset == HttpCookie("", "")
        Given(field) == LET set == {i \in DOMAIN c : c[i][field] # unset[field]} IN
                         IF set = {} THEN unset[field] ELSE c[CHOOSE i \in set : \A j \in set : j <= i][field]
        plain == [i \in DOMAIN c |-> HttpCookie(c[i].name, c[i].value)]
    IN /\ (\A i \in DOMAIN c : ~c[i].httpOnly) => read.ok
       /\ read.ok =>
            read.cookies = [plain EXCEPT ![1].domain = Given("domain"), ![1].path = Given("path"),
                                         ![1].maxAge = Given("maxAge")]

(* In a Cookie header the attributes of a cookie are those between it and  *)
(* the next one, and none of them is lost (http_cookie.cpp:126-170).       *)
AttributesStay ==
  work.kind = "header" =>
    LET h == work.header
        read == parseClientCookies(h)
        plain == SetToSortSeq({i \in DOMAIN h : h[i].attr \notin Reserved}, <)
        last(n) == IF n < Len(plain) THEN plain[n + 1] - 1 ELSE Len(h)
        given(n, attr) == {i \in plain[n]..last(n) : h[i].attr = attr}
        text(n, attr) == IF given(n, attr) = {} THEN ""
                         ELSE h[CHOOSE i \in given(n, attr) : \A j \in given(n, attr) : j <= i].val
    IN read.ok =>
         /\ Len(read.cookies) = Len(plain)
         /\ \A n \in DOMAIN plain :
              /\ read.cookies[n].domain = text(n, "$domain")
              /\ read.cookies[n].path = text(n, "$path")

(* A cast goes through exactly when the value is one of the target type:   *)
(* no overload lets a value wrap, none refuses one that fits               *)
(* (numeric_cast.h:85-152).                                                *)
CastsAreExact ==
  work.kind = "cast" =>
    \A v \in MinOf(work.from)..MaxOf(work.from) :
      Fits(work.to, work.from, v) <=> v \in MinOf(work.to)..MaxOf(work.to)

(* The conversions give what their inverses, or the plain definitions of   *)
(* what they compute, say.                                                 *)
ConversionsAreRight == QueryParameters /\ CookiesReadBack /\ AttributesStay /\ CastsAreExact
=============================================================================
