------------------------------ MODULE CurlImport ------------------------------
(***************************************************************************)
(* A pasted curl command becomes a request, and a request becomes what goes*)
(* over the wire (src/src/apiservice.cpp: splitCommand, importCurl,        *)
(* applyCurlValue, resolveRequest).  Pure functions of what was pasted: a  *)
(* behaviour types a command, character by character or word by word.      *)
(***************************************************************************)
EXTENDS Naturals, SequencesExt, Ordered

CONSTANTS
  Chars,       \* letters of the words that are quoted, line ends excepted
  MaxChars,    \* bound on a word
  MaxOptions   \* bound on a command

ASSUME CurlAssumption == MaxChars \in Nat /\ MaxOptions \in Nat

VARIABLES
  quoted,   \* two words, to be quoted for a shell
  options   \* a curl command: a sequence of options with their values

curlVars == <<quoted, options>>

-----------------------------------------------------------------------------
(* splitCommand over the characters that matter to it.  A backslash waits  *)
(* for the character it escapes.                                           *)

SQ == "'"  DQ == "dquote"  BS == "backslash"  SP == "space"
None == "none"
Splitting == [words |-> <<>>, word |-> <<>>, started |-> FALSE, quote |-> None, escape |-> FALSE]

Into(s, cs) ==
  [words |-> s.words, word |-> s.word \o cs, started |-> TRUE, quote |-> s.quote, escape |-> FALSE]

SplitStep(s, c) ==
  IF s.escape THEN Into(s, IF s.quote = None \/ c \in {DQ, BS} THEN <<c>> ELSE <<BS, c>>)
  ELSE IF c = BS /\ s.quote # SQ THEN [s EXCEPT !.escape = TRUE]
  ELSE IF s.quote = None /\ c = SP
         THEN IF s.started THEN [Splitting EXCEPT !.words = Append(s.words, s.word)] ELSE s
  ELSE IF s.quote = None /\ c \in {SQ, DQ}
         THEN [words |-> s.words, word |-> s.word, started |-> TRUE, quote |-> c, escape |-> FALSE]
  ELSE IF c = s.quote THEN [s EXCEPT !.quote = None]
  ELSE Into(s, <<c>>)

splitCommand(text) ==
  LET upTo[n \in 0..Len(text)] == IF n = 0 THEN Splitting ELSE SplitStep(upTo[n - 1], text[n])
      all  == upTo[Len(text)]
      last == IF all.escape THEN Into(all, <<BS>>) ELSE all  \* a backslash at the end
  IN  IF last.started THEN Append(last.words, last.word) ELSE last.words

(* The two ways to quote a word for a shell.                               *)
InSingle(w) == <<SQ>> \o w \o <<SQ>>
Escaped(w) == [i \in DOMAIN w |-> IF w[i] \in {DQ, BS} THEN <<BS, w[i]>> ELSE <<w[i]>>]
InDouble(w) == <<DQ>> \o Flat(Escaped(w)) \o <<DQ>>

-----------------------------------------------------------------------------
(* importCurl.  A word is a record: "long" --name or --name=inline,        *)
(* "short" -f or -frest, or "bare".  A fold over the words keeps which     *)
(* option waits for its value.                                             *)

NoText == ""
Long(name, inline) == [kind |-> "long", name |-> name, rest |-> inline, k |-> FALSE]
Short(flag, rest, k) == [kind |-> "short", name |-> flag, rest |-> rest, k |-> k]
Bare(text) == [kind |-> "bare", name |-> text, rest |-> NoText, k |-> FALSE]
Dash(word) == word.kind # "bare" \/ word.name = "-"

kLongValueFlags == {"url", "request", "header", "data", "user", "output"}
kLongBoolFlags == {"compressed", "location"}
kShortValueFlags == {"X", "H", "d", "u", "o"}

Nothing == [method |-> NoText, url |-> NoText, body |-> <<>>, user |-> NoText, headers |-> <<>>,
            head |-> FALSE, get |-> FALSE, insecure |-> FALSE, waits |-> None]

applyCurlValue(r, flag, value) ==
  CASE flag \in {"X", "request"} -> [r EXCEPT !.method = value]
    [] flag \in {"H", "header"}  -> [r EXCEPT !.headers = Append(@, value)]
    [] flag \in {"d", "data"}    -> [r EXCEPT !.body = Append(@, value)]
    [] flag \in {"u", "user"}    -> [r EXCEPT !.user = value]
    [] flag = "url"              -> [r EXCEPT !.url = IF @ = NoText THEN value ELSE @]
    [] OTHER -> r

LongFlag(r, w) ==
  CASE w.name = "head"     -> [r EXCEPT !.head = TRUE]
    [] w.name = "get"      -> [r EXCEPT !.get = TRUE]
    [] w.name = "insecure" -> [r EXCEPT !.insecure = TRUE]
    [] w.name \in kLongBoolFlags -> r
    [] w.name \in kLongValueFlags ->
         IF w.rest = NoText THEN [r EXCEPT !.waits = w.name] ELSE applyCurlValue(r, w.name, w.rest)
    [] OTHER -> IF w.rest = NoText THEN [r EXCEPT !.waits = "unknown"] ELSE r

ShortFlag(r, w) ==
  CASE w.name = "I" -> [r EXCEPT !.head = TRUE]
    [] w.name = "G" -> [r EXCEPT !.get = TRUE]
    [] w.name \in kShortValueFlags ->
         IF w.rest = NoText THEN [r EXCEPT !.waits = w.name] ELSE applyCurlValue(r, w.name, w.rest)
    [] OTHER -> [r EXCEPT !.insecure = @ \/ w.k]

(* Bug: an option that is not known takes the next word, whatever it is.   *)
ImportWordGreedy(r, w) ==
  LET go == [r EXCEPT !.waits = None] IN
  CASE r.waits = "unknown" -> go
    [] r.waits # None -> applyCurlValue(go, r.waits, w.name)
    [] w.kind = "bare" /\ w.name = "-" -> go
    [] w.kind = "long" -> LongFlag(go, w)
    [] w.kind = "short" -> ShortFlag(go, w)
    [] OTHER -> [go EXCEPT !.url = IF @ = NoText THEN w.name ELSE @]

ImportWord(r, w) ==
  LET go == [r EXCEPT !.waits = None] IN
  IF r.waits = "unknown" /\ ~Dash(w) THEN go
  ELSE IF r.waits \notin {None, "unknown"} THEN applyCurlValue(go, r.waits, w.name)
  ELSE IF w.kind = "bare" /\ w.name = "-" THEN go
  ELSE IF w.kind = "long" THEN LongFlag(go, w)
  ELSE IF w.kind = "short" THEN ShortFlag(go, w)
  ELSE [go EXCEPT !.url = IF @ = NoText THEN w.name ELSE @]

FinalMethod(r) ==
  IF r.method # NoText THEN r.method
  ELSE IF r.get THEN "GET"
  ELSE IF r.head THEN "HEAD"
  ELSE IF r.body # <<>> THEN "POST" ELSE "GET"

Refused == [url |-> NoText]
importCurl(words) ==
  LET upTo[n \in 0..Len(words)] == IF n = 0 THEN Nothing ELSE ImportWord(upTo[n - 1], words[n])
      r == upTo[Len(words)]
  IN  IF r.waits \notin {None, "unknown"} \/ r.url = NoText THEN Refused
      ELSE [method |-> FinalMethod(r), url |-> r.url, body |-> r.body,
            headers |-> [i \in DOMAIN r.headers |-> [name |-> r.headers[i], enabled |-> TRUE]],
            auth |-> IF r.user = NoText THEN "none" ELSE "basic",
            insecure |-> r.insecure]

(* resolveRequest: the headers that go over the wire.  A request that was  *)
(* imported opens with its body, if it has one, as JSON.                   *)
HasHeader(request, name) ==
  \E i \in DOMAIN request.headers : request.headers[i].enabled /\ request.headers[i].name = name
WireHeaders(request) ==
  LET given == Picked(request.headers, {i \in DOMAIN request.headers : request.headers[i].enabled})
  IN  [i \in DOMAIN given |-> given[i].name]
      \o (IF HasHeader(request, "authorization") \/ request.auth = "none"
            THEN <<>> ELSE <<"authorization">>)
      \o (IF HasHeader(request, "content-type") \/ request.body = <<>>
            THEN <<>> ELSE <<"content-type">>)

-----------------------------------------------------------------------------
(* What people paste: each option as one or two words.                     *)
Options == {
  <<Bare("http://a")>>, <<Long("url", NoText), Bare("http://a")>>, <<Bare("-")>>,
  <<Short("X", NoText, FALSE), Bare("PUT")>>, <<Long("request", "PATCH")>>,
  <<Short("d", NoText, FALSE), Bare("1")>>, <<Long("data", "2")>>,
  <<Short("H", "authorization", FALSE)>>, <<Long("header", NoText), Bare("content-type")>>,
  <<Short("u", NoText, FALSE), Bare("me")>>, <<Short("o", NoText, FALSE), Bare("file")>>,
  <<Short("s", "kS", TRUE)>>, <<Long("insecure", NoText)>>, <<Long("compressed", NoText)>>,
  <<Short("I", NoText, FALSE)>>, <<Long("get", NoText)>>, <<Long("http2", NoText)>>}

CurlInit == quoted = <<<<>>, <<>>>> /\ options = <<>>

TypeChar ==
  /\ options = <<>>
  /\ \E i \in {1, 2}, c \in Chars :
       Len(quoted[i]) < MaxChars /\ quoted' = [quoted EXCEPT ![i] = Append(@, c)]
  /\ UNCHANGED options

TypeOption ==
  /\ quoted = <<<<>>, <<>>>>
  /\ Len(options) < MaxOptions
  /\ \E o \in Options : options' = Append(options, o)
  /\ UNCHANGED quoted

CurlNext == TypeChar \/ TypeOption

CurlSpec == CurlInit /\ [][CurlNext]_curlVars

-----------------------------------------------------------------------------
(* The splitter undoes both ways a shell word is quoted, whatever is in it:*)
(* quotes of the other kind, backslashes, blanks, nothing at all.          *)
QuotingRoundTrips ==
  LET Quotings(w) == {InDouble(w)} \cup (IF SQ \in ToSet(w) THEN {} ELSE {InSingle(w)})
  IN  \A a \in Quotings(quoted[1]), b \in Quotings(quoted[2]) :
        splitCommand(a \o <<SP, SP>> \o b) = quoted

Kind(o) == CASE o[1].name \in {"X", "request"} -> "method"
             [] o[1].name \in {"d", "data"} -> "body"
             [] o[1].name \in {"H", "header"} -> "header"
             [] OTHER -> "other"
Import(os) == importCurl(Flat(os))
Unknown(o) == o[1].name = "http2"
Swapped(os, i) == [k \in DOMAIN os |-> IF k = i THEN os[i + 1] ELSE IF k = i + 1 THEN os[i] ELSE os[k]]

(* Options of a command may come in any order: exchanging two neighbours   *)
(* changes the request only if both say the same kind of thing, and an     *)
(* option that is not known never takes a following option with it.        *)
OptionsCommute ==
  \A i \in 1..(Len(options) - 1) :
    LET a == options[i]  b == options[i + 1] IN
    /\ (Kind(a) # Kind(b) \/ Kind(a) = "other") /\ (\A k \in DOMAIN options : ~Unknown(options[k])) =>
         Import(options) = Import(Swapped(options, i))
    /\ Unknown(a) /\ Dash(b[1]) => Import(options) = Import(RemoveAt(options, i))

(* What each option says arrives: the last method wins, data is joined in  *)
(* order, and TLS verification is off exactly if it was asked for.         *)
Saying(kind) == Picked(options, {i \in DOMAIN options : Kind(options[i]) = kind})
Value(o) == IF Len(o) = 2 THEN o[2].name ELSE o[1].rest
ImportSaysTheSame ==
  LET r == Import(options) IN
  r # Refused /\ (\A i \in DOMAIN options : ~Unknown(options[i])) =>
    /\ Saying("method") # <<>> => r.method = Value(Last(Saying("method")))
    /\ r.body = [i \in DOMAIN Saying("body") |-> Value(Saying("body")[i])]
    /\ r.insecure <=> \E i \in DOMAIN options : options[i][1].k \/ options[i][1].name = "insecure"

(* The comment on resolveRequest: "an explicit header wins".  The client   *)
(* adds no second Authorization or Content-Type, and adds the one that is  *)
(* missing.                                                                *)
ExplicitHeaderWins ==
  LET r == Import(options) IN
  r # Refused =>
    \A h \in {"authorization", "content-type"} :
      LET sent == Cardinality({i \in DOMAIN WireHeaders(r) : WireHeaders(r)[i] = h})
          said == Cardinality({i \in DOMAIN r.headers : r.headers[i].name = h})
          due  == IF h = "authorization" THEN r.auth # "none" ELSE r.body # <<>>
      IN  sent = IF said > 0 THEN said ELSE IF due THEN 1 ELSE 0

(* A pasted command is read as the shell and curl would read it.           *)
ImportIsFaithful ==
  /\ QuotingRoundTrips
  /\ OptionsCommute
  /\ ImportSaysTheSame
  /\ ExplicitHeaderWins
=============================================================================
