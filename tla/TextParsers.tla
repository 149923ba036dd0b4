----------------------------- MODULE TextParsers -----------------------------
(* What the text parsers of src/cahttp make of texts composed the way their  *)
(* standards say: URLs and queries (CaHttpUrlParser), Range and              *)
(* Content-Range values (CaRangeParser), session descriptions (SDPParser).   *)
(* One text at a time; a query and a description grow by a pair and a line.  *)
EXTENDS CaRangeParser, SDPParser

CONSTANTS
  UrlParts,    \* URLs by their parts
  Pairs,       \* <<key, value>> of a query
  Offsets,     \* positions in a file
  SdpLines,    \* lines of a description: [type, text, means]
  MaxPairs, MaxLines,
  BareEnds,    \* ranges with a second offset at the very end of the text
  WideStarts   \* Content-Ranges that start with more than one digit or not with 0

VARIABLES
  job,     \* what is being parsed: "none", "url", "query", "range", "content" or "sdp"
  given,   \* what the text is composed of
  read     \* the parser

tvars == <<job, given, read>>

TInit == job = "none" /\ given = << >> /\ read = << >>

-----------------------------------------------------------------------------
(* Composition.                                                              *)
Behind(mark, s) == IF s = "" THEN "" ELSE mark \o s
UrlText(u) ==
  (IF u.scheme = "" THEN ""
   ELSE u.scheme \o "://" \o (IF u.userName = "" THEN "" ELSE u.userName \o "@") \o u.hostName \o Behind(":", u.port))
  \o u.path \o Behind("?", u.query) \o Behind("#", u.fragment)

PairText(p) == UrlEncode(p[1]) \o "=" \o UrlEncode(p[2])
QueryText(ps) == FoldLeft(LAMBDA s, p : s \o "&" \o PairText(p), PairText(ps[1]), Tail(ps))

RangeText(g) ==
  CASE g.form = "from" -> "bytes=" \o ToString(g.a) \o "-"
    [] g.form = "last" -> "bytes=-" \o ToString(g.a)
    [] OTHER -> "bytes=" \o ToString(g.a) \o "-" \o ToString(g.b) \o g.behind

-----------------------------------------------------------------------------
(* Every URL has a parser of its own.                                        *)
ParseUrl(u) ==
  /\ job = "none" /\ job' = "url"
  /\ given' = u /\ read' = UrlParse(NoUrl, UrlText(u))

(* parseKeyValueList(), strict or not, on a query with one more pair.        *)
ParseQuery(p) ==
  /\ job \in {"none", "query"} /\ job' = "query"
  /\ Len(given) < MaxPairs
  /\ given' = Append(given, p)
  /\ read' = [strict \in BOOLEAN |-> ParseKeyValueList(QueryText(given'), strict)]

ParseRangeValue(g) ==
  /\ job = "none" /\ job' = "range"
  /\ g.form = "last" => g.a \in 1 .. g.total
  /\ g.form = "both" /\ ~BareEnds => g.behind # ""
  /\ given' = g /\ read' = ParseRange(RangeText(g))

ParseContentRangeValue(a, b, total) ==
  /\ job = "none" /\ job' = "content"
  /\ ~WideStarts => a = 0
  /\ given' = [a |-> a, b |-> b, total |-> total]
  /\ read' = ParseContentRange("bytes " \o ToString(a) \o "-" \o ToString(b) \o "/" \o ToString(total))

(* parse() begins, or reads on; a line that is there once, or a media name,  *)
(* is not given again.                                                       *)
Lone == {"v", "o", "s", "c", "t"}
MediaName(l) == IF l.type = "m" THEN l.means.media ELSE ""
ParseLine(l, end) ==
  LET lines == IF job = "none" THEN << >> ELSE given.lines IN
  /\ job \in {"none", "sdp"} /\ job' = "sdp"
  /\ job = "sdp" => end = given.end
  /\ Len(lines) < MaxLines
  /\ \A i \in DOMAIN lines : lines[i].type = l.type => l.type \notin Lone /\ (l.type = "m" => MediaName(lines[i]) # MediaName(l))
  /\ given' = [end |-> end, lines |-> Append(lines, l)]
  /\ read' = ReadOn(IF job = "none" THEN BeginParse(NewSdp) ELSE read, l.type \o "=" \o l.text \o end)

TNext ==
  \/ \E u \in UrlParts : ParseUrl(u)
  \/ \E p \in Pairs : ParseQuery(p)
  \/ \E form \in {"from", "last", "both"}, a, b \in Offsets, total \in Offsets, behind \in {"", " ", ","} :
       ParseRangeValue([form |-> form, a |-> a, b |-> b, total |-> total, behind |-> behind])
  \/ \E a, b, total \in Offsets : ParseContentRangeValue(a, b, total)
  \/ \E l \in SdpLines, end \in {"\n", "\r\n"} : ParseLine(l, end)

TSpec == TInit /\ [][TNext]_tvars

-----------------------------------------------------------------------------
(* A URL is taken apart into the parts it is made of, whatever delimiters    *)
(* the later ones hold, and the folders of its path are that path.           *)
UrlRead ==
  job = "url" =>
    /\ read = given
    /\ LET path == Joined([i \in DOMAIN Folders(given.path) |-> "/" \o Folders(given.path)[i]])
       IN given.path \in {path, path \o "/"}

(* Keys and values that were encoded are read back in order, except the      *)
(* pairs a strict reading drops, and a map has the last value of a key.      *)
PairsReadBack ==
  job = "query" =>
    \A strict \in BOOLEAN :
      LET decoded == [i \in DOMAIN read[strict] |-> <<UrlDecode(read[strict][i][1]), UrlDecode(read[strict][i][2])>>]
          kept == SelectSeq(given, LAMBDA p : IF strict THEN p[1] # "" /\ p[2] # "" ELSE p # <<"", "">>)
          map == ParseKeyValueMap(QueryText(given), strict)
      IN /\ decoded = kept
         /\ DOMAIN map = {UrlEncode(kept[i][1]) : i \in DOMAIN kept}
         /\ \A i \in DOMAIN kept : (\A j \in i + 1 .. Len(kept) : kept[j][1] # kept[i][1]) =>
              map[UrlEncode(kept[i][1])] = UrlEncode(kept[i][2])

(* A range names the bytes it asks for: from an offset on, the last ones, or *)
(* from one offset to another; a content range names those it holds.         *)
RangesRight ==
  /\ job = "range" =>
       ~read.failed /\ GetOffset(read, given.total) =
         CASE given.form = "from" -> <<given.a, given.total - 1>>
           [] given.form = "last" -> <<given.total - given.a, given.total - 1>>
           [] OTHER -> <<given.a, given.b>>
  /\ job = "content" =>
       ~read.failed /\ <<read.mStart, read.mEnd, read.mTotalSize>> = <<given.a, given.b, given.total>>

(* A description is read as its lines say: those of the session, the medias  *)
(* in order, and each attribute with the media it stands behind or, before   *)
(* the first, with the session.                                              *)
Having(type) == {i \in DOMAIN given.lines : given.lines[i].type = type}
Meaning(type, none) == IF Having(type) = {} THEN none ELSE given.lines[Max(Having(type))].means
AttrsBetween(i, j) ==
  LET attrs == SelectSeq(SubSeq(given.lines, i + 1, j - 1), LAMBDA l : l.type = "a")
  IN [k \in DOMAIN attrs |-> attrs[k].means]
NextMedia(i) == Min({j \in Having("m") : j > i} \cup {Len(given.lines) + 1})

SdpReads ==
  job = "sdp" =>
    LET medias == SelectSeq(given.lines, LAMBDA l : l.type = "m")
        place(k) == CHOOSE i \in Having("m") : Cardinality({j \in Having("m") : j <= i}) = k
        media(k) == [medias[k].means EXCEPT !.attrs = AttrsBetween(place(k), NextMedia(place(k)))]
    IN /\ ~read.failed
       /\ read.mMedias = [k \in DOMAIN medias |-> media(k)]
       /\ read.mAttrs = AttrsBetween(0, NextMedia(0))
       /\ read.origin = Meaning("o", NoOrigin)
       /\ read.sessionName = Meaning("s", "") /\ read.mSessInfo = Meaning("i", "")
       /\ <<read.nettype, read.addrtype, read.ipstr>> = Meaning("c", <<"", "", "">>)
       /\ <<read.startTime, read.endTime>> = Meaning("t", <<0, 0>>)
       /\ read.mVer = Meaning("v", 0)
       /\ \A k \in DOMAIN medias :
            /\ GetMedia(read, medias[k].means.media) = media(k)
            /\ \A name \in {"rtpmap", "ptime", "none"} :
                 GetMediaAttr(read, medias[k].means.media, name, "def") = AttrOf(media(k).attrs, name, "def")
=============================================================================
