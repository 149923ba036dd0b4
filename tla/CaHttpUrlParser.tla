--------------------------- MODULE CaHttpUrlParser ---------------------------
(* URLs (src/cahttp/CaHttpUrlParser.cpp): their parts, the pairs of a query, *)
(* the folders of a path, and the encoding of what they are made of.         *)
(*                                                                           *)
(* A text is a string of printable ASCII.  The first character of a string   *)
(* is at 1; what is read at its end is the NUL that closes it, "".           *)
EXTENDS Integers, Sequences, SequencesExt, FiniteSetsExt

At(s, i) == IF i \in 1 .. Len(s) THEN SubSeq(s, i, i) ELSE ""
Part(s, i, j) == IF i < j THEN SubSeq(s, i, j - 1) ELSE ""    \* from i up to j, without j
CharSet(s) == {SubSeq(s, i, i) : i \in 1 .. Len(s)}
Joined(ss) == FoldLeft(LAMBDA a, b : a \o b, "", ss)

(* WALK_UNTIL(): the next place of one of some characters, or the end.       *)
WalkUntil(s, i, stops) == Min({j \in i .. Len(s) : At(s, j) \in stops} \cup {Len(s) + 1})

(* WALK_SP()                                                                 *)
WalkSp(s) == Min({j \in 1 .. Len(s) : At(s, j) # " "} \cup {Len(s) + 1})

-----------------------------------------------------------------------------
(* parse(), one operator per label it goes to.  u is the parser, whose parts *)
(* stay as they are when the URL lacks them.                                 *)
NoUrl == [scheme |-> "", userName |-> "", hostName |-> "", port |-> "", path |-> "", query |-> "", fragment |-> ""]

ParseParam(u, s, i) ==
  LET j == WalkUntil(s, i + 1, {"#"})
      v == [u EXCEPT !.query = Part(s, i + 1, j)]
  IN IF At(s, i) # "?" THEN u
     ELSE IF j > Len(s) THEN v
     ELSE [v EXCEPT !.fragment = Part(s, j + 1, Len(s) + 1)]

ParsePath(u, s, i) ==
  LET j == WalkUntil(s, i, {"?"}) IN ParseParam([u EXCEPT !.path = Part(s, i, j)], s, j)

ParsePort(u, s, i) ==
  LET j == WalkUntil(s, i + 1, {"/", "?"})
      v == [u EXCEPT !.port = Part(s, i + 1, j)]
  IN IF At(s, i) # ":" THEN u
     ELSE IF j > Len(s) THEN v
     ELSE IF At(s, j) = "?" THEN ParseParam(v, s, j) ELSE ParsePath(v, s, j)

ParseHostFirstStop(u, s, i) ==         \* mutant: the host ends at the first delimiter, '@' or not
  LET j == WalkUntil(s, i, {":", "/", "?", "@"})
      v == [u EXCEPT !.hostName = Part(s, i, j)]
  IN CASE At(s, j) = "/" -> ParsePath(v, s, j)
       [] At(s, j) = "?" -> ParseParam(v, s, j)
       [] OTHER          -> ParsePort(v, s, j)

ParseHost(u, s, i) ==
  LET at == WalkUntil(s, i, {":", "/", "?", "@"})
      user == At(s, at) = "@"
      h == IF user THEN at + 1 ELSE i
      j == WalkUntil(s, h, {":", "/", "?"})
      v == [u EXCEPT !.userName = IF user THEN Part(s, i, at) ELSE @, !.hostName = Part(s, h, j)]
  IN CASE At(s, j) = "/" -> ParsePath(v, s, j)
       [] At(s, j) = "?" -> ParseParam(v, s, j)
       [] OTHER          -> ParsePort(v, s, j)

UrlParse(u, s) ==
  LET i == WalkSp(s)
      j == WalkUntil(s, i, {":"})
      v == [u EXCEPT !.scheme = Part(s, i, j)]
  IN IF At(s, i) = "/" THEN ParsePath(u, s, i)
     ELSE IF j > Len(s) THEN u
     ELSE IF Part(s, j, j + 3) # "://" THEN v
     ELSE ParseHost(v, s, j + 3)

(* parsePath(): what is behind each slash; nothing behind the last one is no *)
(* folder.                                                                   *)
Folders(s) ==
  LET slashes == {i \in 1 .. Len(s) : At(s, i) = "/" /\ i < Len(s)} IN
  IF At(s, 1) # "/" THEN << >>
  ELSE [k \in 1 .. Cardinality(slashes) |->
          LET i == CHOOSE i \in slashes : Cardinality({x \in slashes : x <= i}) = k
          IN Part(s, i + 1, WalkUntil(s, i + 1, {"/"}))]

-----------------------------------------------------------------------------
(* urlEncode() and urlDecode().                                              *)
Printable == " !\"#$%&'()*+,-./0123456789:;<=>?@ABCDEFGHIJKLMNOPQRSTUVWXYZ[\\]^_"
             \o At("`'", 1) \o "abcdefghijklmnopqrstuvwxyz{|}~"
Code(c) == 31 + CHOOSE i \in 1 .. Len(Printable) : At(Printable, i) = c
Chr(n) == At(Printable, n - 31)

HexTable == "0123456789ABCDEF"
Digits == CharSet("0123456789")
Kept == Digits \cup CharSet("abcdefghijklmnopqrstuvwxyzABCDEFGHIJKLMNOPQRSTUVWXYZ_-*.")

(* toHex()                                                                   *)
ToHex(n) == At(HexTable, n \div 16 + 1) \o At(HexTable, (n % 16) + 1)

UrlEncode(s) ==
  Joined([i \in 1 .. Len(s) |-> LET c == At(s, i) IN
            IF c \in Kept THEN c ELSE IF c = " " THEN "+" ELSE "%" \o ToHex(Code(c))])

(* toChar(); -1 is its exception.                                            *)
Nibble(c) == IF c \in Digits THEN Code(c) - Code("0")
             ELSE IF c \in CharSet("ABCDEF") THEN Code(c) - Code("A") + 10
             ELSE IF c \in CharSet("abcdef") THEN Code(c) - Code("a") + 10
             ELSE -1
ToChar(s, i) == LET a == Nibble(At(s, i)) b == Nibble(At(s, i + 1)) IN IF a < 0 \/ b < 0 THEN -1 ELSE 16 * a + b

UrlDecodeKeepsPlus(s) ==               \* mutant: + is left as it is
  LET from[i \in 1 .. Len(s) + 3] ==
        IF i > Len(s) THEN "" ELSE IF At(s, i) = "%" THEN Chr(ToChar(s, i + 1)) \o from[i + 3]
        ELSE At(s, i) \o from[i + 1]
  IN from[1]

(* A '%' without two hex digits behind it makes the whole text empty.        *)
UrlDecode(s) ==
  LET escapes == {i \in 1 .. Len(s) : At(s, i) = "%"}
      from[i \in 1 .. Len(s) + 3] ==
        IF i > Len(s) THEN ""
        ELSE CASE At(s, i) = "%" -> Chr(ToChar(s, i + 1)) \o from[i + 3]
               [] At(s, i) = "+" -> " " \o from[i + 1]
               [] OTHER          -> At(s, i) \o from[i + 1]
  IN IF \E i \in escapes : i + 2 > Len(s) \/ ToChar(s, i + 1) < 0 THEN "" ELSE from[1]

-----------------------------------------------------------------------------
(* parseKeyValue(): the text between delimiters; '=' makes it the key of     *)
(* what follows.  A strict reading drops a pair with an empty side, another  *)
(* one drops an empty pair.                                                  *)
Taken(key, val, strict) == IF strict THEN key # "" /\ val # "" ELSE key # "" \/ val # ""

PairStep(s, strict, a, i) ==
  CASE At(s, i) = "=" -> [a EXCEPT !.key = Part(s, a.from, i), !.from = i + 1]
    [] At(s, i) \in {"&", ""} ->
         LET val == Part(s, a.from, i) IN
         [key |-> "", from |-> i + 1, list |-> IF Taken(a.key, val, strict) THEN Append(a.list, <<a.key, val>>) ELSE a.list]
    [] OTHER -> a

ParseKeyValueList(s, strict) ==
  LET i == WalkSp(s) IN
  IF i > Len(s) THEN << >>
  ELSE FoldLeft(LAMBDA a, j : PairStep(s, strict, a, j), [key |-> "", from |-> i, list |-> << >>],
                [n \in 1 .. Len(s) + 2 - i |-> i + n - 1]).list

(* parseKeyValueMap(): a key given again has its last value.                 *)
ParseKeyValueMap(s, strict) ==
  LET l == ParseKeyValueList(s, strict) IN
  [k \in {l[i][1] : i \in DOMAIN l} |-> l[Max({i \in DOMAIN l : l[i][1] = k})][2]]
=============================================================================
