------------------------------- MODULE McpProofs -------------------------------
(***************************************************************************)
(* Theorems about the agents' side: what an agent is served over MCP       *)
(* belongs to what is so at that moment, for any commands and runs, any    *)
(* lines logged and any bound on their number; and what becomes of the     *)
(* configuration files in which trun enters itself for the agents.         *)
(***************************************************************************)
EXTENDS McpServer, McpAgents, OrderedProofs, FiniteSetTheorems, Integers, TLAPS


-----------------------------------------------------------------------------
(* The levels of lines: reading a level that was read changes nothing.     *)
Named8 == {"WARN", "ERROR", "INFO", "DEBUG", "HTTP", "SILLY", "FATAL", "READY"}

(* Reading a level that was read changes nothing (logparser.cpp,           *)
(* normalizeLevel).                                                        *)
LEMMA LevelIsNormal ==
  ASSUME NEW w
  PROVE  normalizeLevel(normalizeLevel(w)) = normalizeLevel(w)
<1> DEFINE D == {"warn", "error", "info", "debug", "http", "silly", "fatal", "ready"}
           S == {"WARN", "DEBU", "ERRO", "FATA", "FATAL", "PANI"}
           T == {"WARNING", "DEBUG", "ERROR", "CRITICAL"}
<1>1. DOMAIN Upper = D /\ \A x \in D : Upper[x] \in Named8
  BY DEF Upper, Named8
<1>2. DOMAIN Short = S /\ \A x \in S : Short[x] \in T
  BY DEF Short
<1>3. (T \cup Named8) \cap D = {} /\ T \cap S = {}
  BY DEF Named8
<1> DEFINE u == IF w \in D THEN Upper[w] ELSE w
           r == IF u \in S THEN Short[u] ELSE u
<1>4. normalizeLevel(w) = r
  BY <1>1, <1>2 DEF normalizeLevel
<1>5. r \notin D /\ r \notin S
  <2>1. u \notin D
    BY <1>1, <1>3
  <2>2. QED
    BY <1>2, <1>3, <2>1
<1> HIDE DEF r
<1>6. normalizeLevel(r) = r
  BY <1>1, <1>2, <1>5 DEF normalizeLevel
<1>7. QED
  BY <1>4, <1>6

Sound(p) == p = Unread \/ \E w, c : p = Read(normalizeLevel(w), c)

(* The words for a channel's levels are normal.                            *)
LEMMA NormalWords ==
  \A w \in {"WARNING", "INFO", "ERROR"} : normalizeLevel(w) = w
BY DEF normalizeLevel, Upper, Short

(* What a format reads is no level, or a normal one.                       *)
LEMMA ReadIsSound == ASSUME NEW w, NEW c PROVE Sound(ReadIfLevel(w, c))
BY DEF Sound, ReadIfLevel

(* So is what parse() makes of any line.                                   *)
LEMMA ParseIsSound ==
  ASSUME NEW l
  PROVE  Sound(parse(l))
<1>1. ASSUME NEW body PROVE Sound(consoleFormats(body))
  <2>1. consoleFormats(body) \in {ReadIfLevel(body.word, Channel), ReadIfLevel(body.word, NoChannel), Unread}
    BY DEF consoleFormats
  <2>2. QED
    BY <2>1, ReadIsSound DEF Sound
<1>2. ASSUME NEW body PROVE Sound(serverFormats(body))
  <2>1. ASSUME NEW w \in {"WARNING", "INFO", "ERROR"}, NEW c PROVE Sound(Read(w, c))
    BY NormalWords DEF Sound
  <2>2. severityToLevel(body.word) \in {"WARNING", "INFO", "ERROR"}
        /\ levelFromHttpStatus(body.word) \in {"WARNING", "INFO", "ERROR"}
    BY DEF severityToLevel, levelFromHttpStatus
  <2>3. \/ body.word \in {"WARNING", "INFO", "ERROR"} /\ serverFormats(body) = Read(body.word, Channel)
        \/ serverFormats(body) = Read(severityToLevel(body.word), Channel)
        \/ serverFormats(body) = Read(levelFromHttpStatus(body.word), NoChannel)
        \/ serverFormats(body) = ReadIfLevel(body.word, Channel)
        \/ serverFormats(body) = Unread
    BY DEF serverFormats
  <2>4. Sound(ReadIfLevel(body.word, Channel)) /\ Sound(Unread)
    BY ReadIsSound DEF Sound
  <2>5. QED
    BY <2>1, <2>2, <2>3, <2>4
<1>3. ASSUME NEW k PROVE Sound(npm(k)) /\ Sound(tryJson(k)) /\ Sound(monolog(k))
  <2>1. Sound(npm(k))
    BY DEF npm, Sound
  <2>2. QED
    BY <2>1, ReadIsSound DEF tryJson, monolog
<1> DEFINE k == Unwrapped(l)
           body == layer1(k)
           found == {r \in {consoleFormats(body), serverFormats(body), npm(k)} : r.ok}
<1>4. \A r \in found : Sound(r)
  BY <1>1, <1>2, <1>3
<1>5. parse(l) = IF k.format = "json" /\ ~k.labelled THEN tryJson(k)
      ELSE IF k.format = "monolog" /\ ~k.labelled THEN monolog(k)
      ELSE IF found = {} THEN Unread ELSE CHOOSE r \in found : TRUE
  BY DEF parse
<1> HIDE DEF found, k
<1>6. found # {} => (CHOOSE r \in found : TRUE) \in found
  OBVIOUS
<1>7. Sound(tryJson(k)) /\ Sound(monolog(k)) /\ Sound(Unread)
  BY <1>3 DEF Sound
<1>8. QED
  BY <1>4, <1>5, <1>6, <1>7

(* The chip of a level that a line has selects the line (LogParser), the   *)
(* line whatever it is.                                                    *)
LEMMA ChipsSelect == ASSUME NEW l PROVE ChipSelectsItsLine(l)
<1>1. SUFFICES ASSUME parse(l).ok, parse(l).level # NoLevel
               PROVE  applyFilter(parse(l), TRUE, [NoFilter EXCEPT !.levels = {parse(l).level}]) = "Shown"
  BY DEF ChipSelectsItsLine
<1>2. normalizeLevel(parse(l).level) = parse(l).level
  <2>1. PICK w, c : parse(l) = Read(normalizeLevel(w), c)
    BY <1>1, ParseIsSound DEF Sound, Unread
  <2>2. QED
    BY <2>1, LevelIsNormal DEF Read
<1> DEFINE f == [NoFilter EXCEPT !.levels = {parse(l).level}]
<1>3. f.query = FALSE /\ f.levels = {parse(l).level} /\ f.channels = {}
  BY DEF NoFilter
<1> HIDE DEF f
<1>4. applyFilter(parse(l), TRUE, f) = "Shown"
  BY <1>1, <1>2, <1>3 DEF applyFilter
<1>5. QED
  BY <1>4 DEF f

-----------------------------------------------------------------------------
(* The last lines of a list.                                               *)
LEMMA LastLinesFacts ==
  ASSUME NEW S, NEW s \in Seq(S), NEW n \in Nat, NEW last, last = LastLines(s, n)
  PROVE  /\ last \in Seq(S) /\ Len(last) \in Nat /\ Len(last) <= n /\ Len(last) <= Len(s)
         /\ Len(last) = (IF Len(s) > n THEN n ELSE Len(s))
         /\ \A i \in 1..Len(last) : last[i] = s[(Len(s) - Len(last)) + i]
<1>1. CASE Len(s) > n
  <2> DEFINE a == Len(s) - n + 1
  <2>1. a \in 1..(Len(s) + 1) /\ Len(s) \in Nat /\ Len(s) - a + 1 = n
    BY <1>1
  <2>2. LastLines(s, n) = SubSeq(s, a, Len(s))
    BY <1>1 DEF LastLines
  <2>3. /\ SubSeq(s, a, Len(s)) \in Seq(S) /\ Len(SubSeq(s, a, Len(s))) = n
        /\ \A i \in 1..n : SubSeq(s, a, Len(s))[i] = s[a + i - 1]
    BY <2>1
  <2>4. \A i \in 1..n : a + i - 1 = (Len(s) - n) + i
    BY <2>1
  <2>5. QED
    BY <1>1, <2>1, <2>2, <2>3, <2>4
<1>2. CASE ~(Len(s) > n)
  <2>1. LastLines(s, n) = s /\ Len(s) \in Nat
    BY <1>2 DEF LastLines
  <2>2. \A i \in 1..Len(s) : (Len(s) - Len(s)) + i = i
    BY <2>1
  <2>3. QED
    BY <1>2, <2>1, <2>2
<1>3. QED
  BY <1>1, <1>2

(* The same in a word.                                                     *)
LastOf(last, s, n, S) ==
  /\ last \in Seq(S) /\ Len(last) \in Nat /\ Len(last) <= n /\ Len(last) <= Len(s)
  /\ Len(last) = (IF Len(s) > n THEN n ELSE Len(s))
  /\ \A i \in 1..Len(last) : last[i] = s[(Len(s) - Len(last)) + i]

(* What the last lines are.                                                *)
LEMMA LastLinesAre ==
  ASSUME NEW S, NEW s \in Seq(S), NEW n \in Nat
  PROVE  LastOf(LastLines(s, n), s, n, S)
<1> DEFINE last == LastLines(s, n)
<1>1. last = LastLines(s, n)
  OBVIOUS
<1> HIDE DEF last
<1>2. QED
  BY <1>1, LastLinesFacts DEF LastOf

(* What is cut off before lines are added would have been cut off after.   *)
LEMMA LastOfMore ==
  ASSUME NEW S, NEW s \in Seq(S), NEW t \in Seq(S), NEW n \in Nat
  PROVE  LastLines(LastLines(s, n) \o t, n) = LastLines(s \o t, n)
<1> DEFINE a == LastLines(s, n) b == a \o t c == s \o t
           p == LastLines(b, n) q == LastLines(c, n)
<1>1. /\ a \in Seq(S) /\ Len(a) \in Nat /\ Len(a) <= n /\ Len(a) <= Len(s)
      /\ Len(a) = (IF Len(s) > n THEN n ELSE Len(s))
      /\ \A i \in 1..Len(a) : a[i] = s[(Len(s) - Len(a)) + i]
  <2>1. LastOf(a, s, n, S)
    BY LastLinesAre
  <2> HIDE DEF a
  <2>2. QED
    BY <2>1 DEF LastOf
<1> HIDE DEF a
<1>2. /\ b \in Seq(S) /\ Len(b) = Len(a) + Len(t)
      /\ \A i \in 1..Len(b) : b[i] = IF i <= Len(a) THEN a[i] ELSE t[i - Len(a)]
  <2>1. a \in Seq(S)
    BY <1>1
  <2>2. QED
    BY <2>1, ConcatProperties
<1>3. /\ c \in Seq(S) /\ Len(c) = Len(s) + Len(t)
      /\ \A i \in 1..Len(c) : c[i] = IF i <= Len(s) THEN s[i] ELSE t[i - Len(s)]
  BY ConcatProperties
<1>0. Len(s) \in Nat /\ Len(t) \in Nat
  OBVIOUS
<1> HIDE DEF b, c
<1>4. /\ p \in Seq(S) /\ Len(p) \in Nat
      /\ Len(p) = (IF Len(b) > n THEN n ELSE Len(b))
      /\ \A i \in 1..Len(p) : p[i] = b[(Len(b) - Len(p)) + i]
  <2>1. LastOf(p, b, n, S)
    BY <1>2, LastLinesAre
  <2> HIDE DEF p
  <2>2. QED
    BY <2>1 DEF LastOf
<1>5. /\ q \in Seq(S) /\ Len(q) \in Nat
      /\ Len(q) = (IF Len(c) > n THEN n ELSE Len(c))
      /\ \A i \in 1..Len(q) : q[i] = c[(Len(c) - Len(q)) + i]
  <2>1. LastOf(q, c, n, S)
    BY <1>3, LastLinesAre
  <2> HIDE DEF q
  <2>2. QED
    BY <2>1 DEF LastOf
<1> HIDE DEF p, q
<1>6. Len(p) = Len(q)
  <2>1. /\ Len(a) \in Nat /\ Len(a) = (IF Len(s) > n THEN n ELSE Len(s))
        /\ Len(b) = Len(a) + Len(t) /\ Len(c) = Len(s) + Len(t)
        /\ Len(p) = (IF Len(b) > n THEN n ELSE Len(b))
        /\ Len(q) = (IF Len(c) > n THEN n ELSE Len(c))
    BY <1>1, <1>2, <1>3, <1>4, <1>5
  <2>2. QED
    BY <1>0, <2>1
<1>7. ASSUME NEW i \in 1..Len(p) PROVE p[i] = q[i]
  <2> DEFINE j == (Len(b) - Len(p)) + i k == (Len(c) - Len(q)) + i
  <2>1. j \in 1..Len(b) /\ k \in 1..Len(c) /\ k - j = Len(s) - Len(a)
    <3>1. Len(a) \in Nat /\ Len(b) = Len(a) + Len(t) /\ Len(c) = Len(s) + Len(t) /\ Len(a) <= Len(s)
      BY <1>1, <1>2, <1>3
    <3>2. Len(p) \in Nat /\ Len(p) <= Len(b) /\ Len(q) = Len(p) /\ i \in 1..Len(p)
      BY <1>0, <1>4, <1>6, <3>1
    <3>3. QED
      BY <1>0, <3>1, <3>2
  <2>2. p[i] = b[j] /\ q[i] = c[k]
    BY <1>4, <1>5, <1>6
  <2> HIDE DEF j, k
  <2>3. CASE j <= Len(a)
    <3>1. k <= Len(s) /\ (Len(s) - Len(a)) + j = k /\ j \in 1..Len(a)
      <4>1. Len(a) \in Nat /\ Len(s) \in Nat /\ Len(b) \in Nat /\ Len(c) \in Nat
        BY <1>1, <1>2, <1>3
      <4>2. j \in Int /\ k \in Int
        BY <2>1, <4>1
      <4>3. QED
        BY <2>1, <2>3, <4>1, <4>2
    <3>2. b[j] = a[j] /\ c[k] = s[k]
      BY <1>2, <1>3, <2>1, <2>3, <3>1
    <3>3. QED
      BY <1>1, <2>2, <3>1, <3>2
  <2>4. CASE ~(j <= Len(a))
    <3>1. ~(k <= Len(s)) /\ k - Len(s) = j - Len(a)
      <4>1. Len(a) \in Nat /\ Len(s) \in Nat /\ Len(b) \in Nat /\ Len(c) \in Nat
        BY <1>1, <1>2, <1>3
      <4>2. j \in Int /\ k \in Int
        BY <2>1, <4>1
      <4>3. QED
        BY <2>1, <2>4, <4>1, <4>2
    <3>2. b[j] = t[j - Len(a)] /\ c[k] = t[k - Len(s)]
      BY <1>2, <1>3, <2>1, <2>4, <3>1
    <3>3. QED
      BY <2>2, <3>1, <3>2
  <2>5. QED
    BY <2>3, <2>4
<1>8. p = q
  BY <1>4, <1>5, <1>6, <1>7, SameSeq
<1>9. QED
  BY <1>8 DEF p, q, b, c, a

(* The last lines are a suffix.                                            *)
LEMMA LastIsSuffix ==
  ASSUME NEW S, NEW s \in Seq(S), NEW n \in Nat
  PROVE  IsSuffix(LastLines(s, n), s)
<1> DEFINE a == LastLines(s, n) p == Reverse(a) q == Reverse(s)
<1>1. /\ a \in Seq(S) /\ Len(a) \in Nat /\ Len(a) <= Len(s) /\ Len(s) \in Nat
      /\ \A i \in 1..Len(a) : a[i] = s[(Len(s) - Len(a)) + i]
  BY LastLinesFacts
<1> HIDE DEF a
<1>2. p \in Seq(S) /\ Len(p) = Len(a) /\ \A i \in 1..Len(a) : p[i] = a[(Len(a) - i) + 1]
  BY <1>1 DEF Reverse
<1>3. q \in Seq(S) /\ Len(q) = Len(s) /\ \A i \in 1..Len(s) : q[i] = s[(Len(s) - i) + 1]
  BY <1>1 DEF Reverse
<1> HIDE DEF p, q
<1>4. ASSUME NEW i \in 1..Len(p) PROVE p[i] = q[i]
  <2>1. (Len(a) - i) + 1 \in 1..Len(a) /\ i \in 1..Len(s)
        /\ (Len(s) - Len(a)) + ((Len(a) - i) + 1) = (Len(s) - i) + 1
    BY <1>1, <1>2
  <2>2. a[(Len(a) - i) + 1] = s[(Len(s) - Len(a)) + ((Len(a) - i) + 1)]
    BY <1>1, <2>1
  <2>3. QED
    BY <1>2, <1>3, <2>1, <2>2
<1>5. /\ SubSeq(p, 1, Len(p)) \in Seq(S) /\ SubSeq(q, 1, Len(p)) \in Seq(S)
      /\ Len(SubSeq(p, 1, Len(p))) = Len(p) /\ Len(SubSeq(q, 1, Len(p))) = Len(p)
      /\ \A i \in 1..Len(p) : SubSeq(p, 1, Len(p))[i] = p[i] /\ SubSeq(q, 1, Len(p))[i] = q[i]
  BY <1>1, <1>2, <1>3
<1>6. SubSeq(p, 1, Len(p)) = SubSeq(q, 1, Len(p))
  BY <1>4, <1>5, SameSeq
<1>7. IsPrefix(p, q)
  BY <1>1, <1>2, <1>3, <1>6 DEF IsPrefix
<1>8. QED
  BY <1>7 DEF IsSuffix, p, q, a

-----------------------------------------------------------------------------
(* What matches is lines of the list.                                      *)
LEMMA MatchingIn ==
  ASSUME NEW S, NEW s \in Seq(S), NEW f
  PROVE  Matching(s, f) \in Seq(S)
<1> DEFINE I == {i \in DOMAIN s : Passes(s[i], f)}
<1>1. I \in SUBSET (1..Len(s))
  OBVIOUS
<1> HIDE DEF I
<1>2. Picked(s, I) \in Seq(S)
  BY <1>1, PickedFacts
<1>3. QED
  BY <1>2 DEF Matching, I

(* Where a line passes, the matching lines are some.                       *)
LEMMA SomethingMatches ==
  ASSUME NEW S, NEW s \in Seq(S), NEW f, NEW j \in 1..Len(s), Passes(s[j], f)
  PROVE  Matching(s, f) # <<>>
<1> DEFINE I == {i \in DOMAIN s : Passes(s[i], f)}
<1>1. I \in SUBSET (1..Len(s)) /\ j \in I
  OBVIOUS
<1> HIDE DEF I
<1>2. {Picked(s, I)[k] : k \in DOMAIN Picked(s, I)} = {s[i] : i \in I}
  <2>1. I \in SUBSET (1..Len(s))
    BY <1>1
  <2>2. QED
    BY <2>1, PickedFacts, ZenonT(60)
<1>3. DOMAIN Picked(s, I) # {}
  BY <1>1, <1>2
<1>4. Picked(s, I) # <<>>
  BY <1>3
<1>5. QED
  BY <1>4 DEF Matching, I

(* The beginning of a list, element by element.                            *)
Begins(h, a) == Len(h) <= Len(a) /\ \A i \in 1..Len(h) : h[i] = a[i]

(* To be the beginning of a list is to be a prefix of it.                  *)
LEMMA BeginsPrefix ==
  ASSUME NEW S, NEW h \in Seq(S), NEW a \in Seq(S), Begins(h, a)
  PROVE  IsPrefix(h, a)
<1>1. Len(h) \in Nat /\ Len(a) \in Nat /\ Len(h) <= Len(a) /\ \A i \in 1..Len(h) : h[i] = a[i]
  BY DEF Begins
<1>2. /\ SubSeq(h, 1, Len(h)) \in Seq(S) /\ SubSeq(a, 1, Len(h)) \in Seq(S)
      /\ Len(SubSeq(h, 1, Len(h))) = Len(h) /\ Len(SubSeq(a, 1, Len(h))) = Len(h)
      /\ \A i \in 1..Len(h) : SubSeq(h, 1, Len(h))[i] = h[i] /\ SubSeq(a, 1, Len(h))[i] = a[i]
  BY <1>1
<1>3. SubSeq(h, 1, Len(h)) = SubSeq(a, 1, Len(h))
  BY <1>1, <1>2, SameSeq
<1>4. QED
  BY <1>1, <1>3 DEF IsPrefix

(* It stays one when the list grows.                                       *)
LEMMA BeginsMore ==
  ASSUME NEW S, NEW h \in Seq(S), NEW a \in Seq(S), NEW b \in Seq(S), Begins(h, a)
  PROVE  Begins(h, a \o b)
<1>1. Len(h) \in Nat /\ Len(a) \in Nat /\ Len(b) \in Nat /\ Len(h) <= Len(a)
  BY DEF Begins
<1>2. Len(a \o b) = Len(a) + Len(b) /\ \A i \in 1..Len(a) : (a \o b)[i] = a[i]
  BY <1>1
<1>3. QED
  BY <1>1, <1>2 DEF Begins

(* The first lines of a list begin it, and are all of a short one.         *)
LEMMA FirstLinesFacts ==
  ASSUME NEW S, NEW s \in Seq(S), NEW n \in Nat, NEW first, first = FirstLines(s, n)
  PROVE  /\ first \in Seq(S) /\ Begins(first, s)
         /\ Len(s) >= n => Len(first) = n
         /\ Len(s) < n => first = s
<1>1. Len(s) \in Nat
  OBVIOUS
<1>2. CASE Len(s) > n
  <2>1. first = SubSeq(s, 1, n)
    BY <1>2 DEF FirstLines
  <2>2. first \in Seq(S) /\ Len(first) = n /\ \A i \in 1..n : first[i] = s[i]
    BY <1>2, <2>1
  <2>3. QED
    BY <1>1, <1>2, <2>2 DEF Begins
<1>3. CASE ~(Len(s) > n)
  <2>1. first = s
    BY <1>3 DEF FirstLines
  <2>2. QED
    BY <1>1, <1>3, <2>1 DEF Begins
<1>4. QED
  BY <1>2, <1>3

(* How far a search is when it has found these of all hits so far.         *)
Progress(found, all, max) ==
  /\ found.hits \in Seq(McpLines) /\ Len(found.hits) <= max
  /\ found.truncated => Len(found.hits) = max /\ Begins(found.hits, all)
  /\ ~found.truncated => found.hits = all /\ Len(all) < max

Founds == [hits : Seq(McpLines), truncated : BOOLEAN]

(* One more file keeps the hits a beginning of all that matches, all of it *)
(* while nothing is cut off.                                               *)
LEMMA SearchedFacts ==
  ASSUME NEW found \in Founds, NEW file \in Seq(McpLines), NEW f, NEW max \in Nat \ {0}
  PROVE  /\ Searched(found, file, f, max) \in Founds
         /\ \A all \in Seq(McpLines) :
              Progress(found, all, max) =>
                Progress(Searched(found, file, f, max), all \o Matching(file, f), max)
<1> DEFINE new == Matching(file, f)
<1>1. new \in Seq(McpLines)
  BY MatchingIn
<1> HIDE DEF new
<1>2. CASE found.truncated
  <2>1. Searched(found, file, f, max) = found
    BY <1>2 DEF Searched
  <2>2. ASSUME NEW all \in Seq(McpLines), Progress(found, all, max)
        PROVE  Progress(found, all \o new, max)
    <3>1. Begins(found.hits, all) /\ found.hits \in Seq(McpLines)
      BY <1>2, <2>2 DEF Progress
    <3>2. Begins(found.hits, all \o new)
      BY <1>1, <3>1, BeginsMore
    <3>3. QED
      BY <1>2, <2>2, <3>2 DEF Progress
  <2>3. QED
    BY <2>1, <2>2 DEF new
<1>3. CASE ~found.truncated
  <2> DEFINE hits == found.hits \o new first == FirstLines(hits, max) b == Len(hits) >= max
             next == Searched(found, file, f, max)
  <2>1. next = [hits |-> first, truncated |-> b]
    BY <1>3 DEF Searched, new
  <2>2. hits \in Seq(McpLines) /\ Len(hits) \in Nat /\ max \in Nat
    BY <1>1 DEF Founds
  <2>3. b \in BOOLEAN
    OBVIOUS
  <2>4. /\ first \in Seq(McpLines) /\ Begins(first, hits)
        /\ b => Len(first) = max
        /\ ~b => first = hits /\ Len(hits) < max
    <3>1. first = FirstLines(hits, max)
      OBVIOUS
    <3>2. hits \in Seq(McpLines) /\ Len(hits) \in Nat
      BY <2>2
    <3> HIDE DEF first, hits
    <3>3. /\ first \in Seq(McpLines) /\ Begins(first, hits)
          /\ Len(hits) >= max => Len(first) = max
          /\ Len(hits) < max => first = hits
      BY <3>1, <3>2, FirstLinesFacts
    <3>4. ~(Len(hits) >= max) => Len(hits) < max
      BY <3>2
    <3>5. QED
      BY <3>3, <3>4
  <2> HIDE DEF first, b
  <2>5. next \in Founds
    BY <2>1, <2>3, <2>4 DEF Founds
  <2>6. ASSUME NEW all \in Seq(McpLines), Progress(found, all, max)
        PROVE  Progress(next, all \o new, max)
    <3>1. all \o new = hits
      BY <1>3, <2>6 DEF Progress
    <3> HIDE DEF next, hits
    <3>2. next.hits = first /\ next.truncated = b
      BY <2>1
    <3>3. QED
      BY <2>2, <2>3, <2>4, <3>1, <3>2 DEF Progress
  <2>7. QED
    BY <2>5, <2>6 DEF new
<1>4. QED
  BY <1>2, <1>3 DEF Founds

(* A search goes on from file to file.                                     *)
Steps(g, files, m, f, max) ==
  /\ g \in [0..m -> Founds]
  /\ g[0] = [hits |-> <<>>, truncated |-> FALSE]
  /\ \A n \in 1..m : g[n] = Searched(g[n - 1], files[n], f, max)

(* A search of any number of files has its steps.                          *)
LEMMA StepsExist ==
  ASSUME NEW files \in Seq(Seq(McpLines)), NEW f, NEW max \in Nat \ {0}
  PROVE  \E g : Steps(g, files, Len(files), f, max)
<1> DEFINE I == {m \in Nat : m <= Len(files) => \E g : Steps(g, files, m, f, max)}
           start == [hits |-> <<>>, truncated |-> FALSE]
<1>1. 0 \in I
  <2> DEFINE g == [n \in 0..0 |-> start]
  <2>1. start \in Founds
    BY DEF Founds
  <2>2. g \in [0..0 -> Founds] /\ g[0] = start /\ 1..0 = {}
    BY <2>1
  <2>3. Steps(g, files, 0, f, max)
    BY <2>2 DEF Steps
  <2>4. QED
    BY <2>3
<1>2. ASSUME NEW m \in Nat, m \in I PROVE m + 1 \in I
  <2> SUFFICES ASSUME m + 1 <= Len(files) PROVE \E g : Steps(g, files, m + 1, f, max)
    OBVIOUS
  <2>1. PICK g : Steps(g, files, m, f, max)
    BY <1>2
  <2> DEFINE next == Searched(g[m], files[m + 1], f, max)
             h == [n \in 0..(m + 1) |-> IF n = m + 1 THEN next ELSE g[n]]
  <2>2. files[m + 1] \in Seq(McpLines)
    OBVIOUS
  <2>3. g[m] \in Founds
    BY <2>1 DEF Steps
  <2>4. next \in Founds
    BY <2>2, <2>3, SearchedFacts
  <2> HIDE DEF next
  <2>5. \A n \in 0..m : h[n] = g[n]
    OBVIOUS
  <2>6. h[m + 1] = next
    OBVIOUS
  <2>7. h \in [0..(m + 1) -> Founds]
    BY <2>1, <2>4 DEF Steps
  <2> HIDE DEF h
  <2>8. ASSUME NEW n \in 1..(m + 1) PROVE h[n] = Searched(h[n - 1], files[n], f, max)
    <3>1. CASE n = m + 1
      BY <2>5, <2>6, <3>1 DEF next
    <3>2. CASE n \in 1..m
      <4>1. n - 1 \in 0..m /\ n \in 0..m
        BY <3>2
      <4>2. g[n] = Searched(g[n - 1], files[n], f, max)
        BY <2>1, <3>2 DEF Steps
      <4>3. QED
        BY <2>5, <4>1, <4>2
    <3>3. QED
      BY <3>1, <3>2
  <2>9. h[0] = [hits |-> <<>>, truncated |-> FALSE]
    <3>1. 0 \in 0..m
      OBVIOUS
    <3>2. QED
      BY <2>1, <2>5, <3>1 DEF Steps
  <2>10. Steps(h, files, m + 1, f, max)
    BY <2>7, <2>8, <2>9 DEF Steps
  <2>11. QED
    BY <2>10
<1> HIDE DEF I
<1>3. Nat \subseteq I
  BY <1>1, <1>2, NatSet
<1>4. Len(files) \in Nat
  OBVIOUS
<1>5. QED
  BY <1>3, <1>4 DEF I

(* The function that search_logs computes is that.                         *)
LEMMA SearchIsSteps ==
  ASSUME NEW files \in Seq(Seq(McpLines)), NEW f, NEW max \in Nat \ {0}
  PROVE  \E g : Steps(g, files, Len(files), f, max) /\ SearchOf(files, f, max) = g[Len(files)]
<1> DEFINE N == Len(files)
           start == [hits |-> <<>>, truncated |-> FALSE]
           Rec(g) == [n \in 0..N |-> IF n = 0 THEN start ELSE Searched(g[n - 1], files[n], f, max)]
           u == CHOOSE g : g = Rec(g)
<1>0. N \in Nat
  OBVIOUS
<1>1. PICK h : Steps(h, files, N, f, max)
  BY StepsExist
<1>2. h = Rec(h)
  <2>1. h = [n \in 0..N |-> h[n]]
    BY <1>1 DEF Steps
  <2>2. ASSUME NEW n \in 0..N PROVE h[n] = Rec(h)[n]
    <3>1. CASE n = 0
      BY <1>1, <3>1 DEF Steps
    <3>2. CASE n \in 1..N
      <4>1. h[n] = Searched(h[n - 1], files[n], f, max)
        BY <1>1, <3>2 DEF Steps
      <4>2. QED
        BY <3>2, <4>1
    <3>3. QED
      BY <1>0, <3>1, <3>2
  <2>3. QED
    BY <2>1, <2>2
<1>3. u = Rec(u)
  BY <1>2
<1>4. SearchOf(files, f, max) = u[N]
  BY DEF SearchOf
<1> HIDE DEF u
<1>5. u[0] = start
  BY <1>0, <1>3
<1>6. \A n \in 1..N : u[n] = Searched(u[n - 1], files[n], f, max)
  <2> SUFFICES ASSUME NEW n \in 1..N PROVE u[n] = Searched(u[n - 1], files[n], f, max)
    OBVIOUS
  <2>1. n \in 0..N /\ n # 0
    BY <1>0
  <2>2. Rec(u)[n] = Searched(u[n - 1], files[n], f, max)
    BY <2>1
  <2> HIDE DEF Rec
  <2>3. QED
    BY <1>3, <2>2
<1>7. u \in [0..N -> Founds]
  <2> DEFINE I == {n \in Nat : n <= N => u[n] \in Founds}
  <2>1. 0 \in I
    <3>1. start \in Founds
      BY DEF Founds
    <3>2. QED
      BY <1>5, <3>1
  <2>2. ASSUME NEW n \in Nat, n \in I PROVE n + 1 \in I
    <3> SUFFICES ASSUME n + 1 <= N PROVE u[n + 1] \in Founds
      OBVIOUS
    <3>1. n + 1 \in 1..N /\ (n + 1) - 1 = n /\ u[n] \in Founds
      BY <1>0, <2>2
    <3>2. files[n + 1] \in Seq(McpLines)
      BY <3>1
    <3>3. u[n + 1] = Searched(u[n], files[n + 1], f, max)
      BY <1>6, <3>1
    <3>4. QED
      BY <3>1, <3>2, <3>3, SearchedFacts
  <2> HIDE DEF I
  <2>3. Nat \subseteq I
    BY <2>1, <2>2, NatSet
  <2>4. \A n \in 0..N : u[n] \in Founds
    BY <1>0, <2>3 DEF I
  <2>5. u = [n \in 0..N |-> u[n]]
    BY <1>3
  <2>6. QED
    BY <2>4, <2>5
<1>8. Steps(u, files, N, f, max)
  BY <1>5, <1>6, <1>7 DEF Steps
<1>9. QED
  BY <1>4, <1>8

-----------------------------------------------------------------------------
(* Lists put one behind the other, one by one.                             *)
Chained(g, ms, m, S) ==
  /\ g \in [0..m -> Seq(S)]
  /\ g[0] = <<>>
  /\ \A n \in 1..m : g[n] = g[n - 1] \o ms[n]

(* Lists put behind each other have their partial results.                 *)
LEMMA ChainExists ==
  ASSUME NEW S, NEW ms \in Seq(Seq(S))
  PROVE  \E g : Chained(g, ms, Len(ms), S)
<1> DEFINE I == {m \in Nat : m <= Len(ms) => \E g : Chained(g, ms, m, S)}
<1>1. 0 \in I
  <2> DEFINE g == [n \in 0..0 |-> <<>>]
  <2>1. g \in [0..0 -> Seq(S)] /\ g[0] = <<>> /\ 1..0 = {}
    OBVIOUS
  <2>2. Chained(g, ms, 0, S)
    BY <2>1 DEF Chained
  <2>3. QED
    BY <2>2
<1>2. ASSUME NEW m \in Nat, m \in I PROVE m + 1 \in I
  <2> SUFFICES ASSUME m + 1 <= Len(ms) PROVE \E g : Chained(g, ms, m + 1, S)
    OBVIOUS
  <2>1. PICK g : Chained(g, ms, m, S)
    BY <1>2
  <2> DEFINE next == g[m] \o ms[m + 1]
             h == [n \in 0..(m + 1) |-> IF n = m + 1 THEN next ELSE g[n]]
  <2>2. ms[m + 1] \in Seq(S)
    OBVIOUS
  <2>3. g[m] \in Seq(S)
    BY <2>1 DEF Chained
  <2>4. next \in Seq(S)
    BY <2>2, <2>3
  <2> HIDE DEF next
  <2>5. (\A n \in 0..m : h[n] = g[n]) /\ 0 \in 0..m
    OBVIOUS
  <2>6. h[m + 1] = next
    OBVIOUS
  <2>7. h \in [0..(m + 1) -> Seq(S)]
    BY <2>1, <2>4 DEF Chained
  <2> HIDE DEF h
  <2>8. ASSUME NEW n \in 1..(m + 1) PROVE h[n] = h[n - 1] \o ms[n]
    <3>1. CASE n = m + 1
      <4>1. n - 1 = m /\ m \in 0..m
        BY <3>1
      <4>2. h[n - 1] = g[m]
        BY <2>5, <4>1
      <4>3. QED
        BY <2>6, <3>1, <4>2 DEF next
    <3>2. CASE n \in 1..m
      <4>1. n - 1 \in 0..m /\ n \in 0..m
        BY <3>2
      <4>2. g[n] = g[n - 1] \o ms[n]
        BY <2>1, <3>2 DEF Chained
      <4>3. QED
        BY <2>5, <4>1, <4>2
    <3>3. n = m + 1 \/ n \in 1..m
      OBVIOUS
    <3>4. QED
      BY <3>1, <3>2, <3>3
  <2>9. h[0] = <<>>
    BY <2>1, <2>5 DEF Chained
  <2>10. Chained(h, ms, m + 1, S)
    BY <2>7, <2>8, <2>9 DEF Chained
  <2>11. QED
    BY <2>10
<1> HIDE DEF I
<1>3. Nat \subseteq I
  BY <1>1, <1>2, NatSet
<1>4. Len(ms) \in Nat
  OBVIOUS
<1>5. QED
  BY <1>3, <1>4 DEF I

(* FlattenSeq is the last of these.                                        *)
LEMMA FlattenIsChain ==
  ASSUME NEW S, NEW ms \in Seq(Seq(S)), NEW g, Chained(g, ms, Len(ms), S)
  PROVE  FlattenSeq(ms) = g[Len(ms)]
<1> DEFINE N == Len(ms)
           Rec(v) == [i \in 1..N |-> IF i = 1 THEN ms[i] ELSE v[i - 1] \o ms[i]]
           u == CHOOSE v : v = Rec(v)
<1>0. N \in Nat
  OBVIOUS
<1>1. CASE N = 0
  <2>1. FlattenSeq(ms) = ms /\ ms = <<>>
    BY <1>1 DEF FlattenSeq
  <2>2. QED
    BY <1>1, <2>1 DEF Chained
<1>2. CASE N # 0
  <2>1. FlattenSeq(ms) = u[N]
    BY <1>2 DEF FlattenSeq
  <2> DEFINE h == [i \in 1..N |-> g[i]]
  <2>2. ASSUME NEW i \in 1..N PROVE h[i] = Rec(h)[i]
    <3>1. CASE i = 1
      <4>1. g[1] = g[0] \o ms[1] /\ g[0] = <<>>
        <5>1. 1 \in 1..N /\ 1 - 1 = 0
          BY <3>1
        <5>2. QED
          BY <5>1 DEF Chained
      <4>2. ms[1] \in Seq(S)
        BY <3>1
      <4>3. <<>> \o ms[1] = ms[1]
        BY <4>2
      <4>4. h[i] = ms[i]
        BY <3>1, <4>1, <4>3
      <4>5. Rec(h)[i] = ms[i]
        BY <3>1
      <4>6. QED
        BY <4>4, <4>5
    <3>2. CASE i # 1
      <4>1. i - 1 \in 1..N
        BY <1>0, <3>2
      <4>2. g[i] = g[i - 1] \o ms[i]
        BY DEF Chained
      <4>3. QED
        BY <3>2, <4>1, <4>2
    <3>3. QED
      BY <3>1, <3>2
  <2>3. h = Rec(h)
    BY <2>2
  <2>4. u = Rec(u)
    BY <2>3
  <2> HIDE DEF u
  <2> DEFINE I == {n \in Nat : n + 1 <= N => u[n + 1] = g[n + 1]}
  <2>5. 0 \in I
    <3>1. 1 \in 1..N
      BY <1>0, <1>2
    <3>2. Rec(u)[1] = ms[1]
      BY <3>1
    <3>3. h[1] = Rec(h)[1] /\ Rec(h)[1] = ms[1] /\ h[1] = g[1]
      BY <2>2, <3>1
    <3> HIDE DEF Rec, h
    <3>4. u[1] = g[1] /\ 0 + 1 = 1
      BY <2>4, <3>2, <3>3
    <3>5. QED
      BY <3>4
  <2>6. ASSUME NEW n \in Nat, n \in I PROVE n + 1 \in I
    <3> SUFFICES ASSUME (n + 1) + 1 <= N PROVE u[(n + 1) + 1] = g[(n + 1) + 1]
      OBVIOUS
    <3> DEFINE i == (n + 1) + 1
    <3>1. i \in 1..N /\ i # 1 /\ i - 1 = n + 1 /\ n + 1 <= N
      BY <1>0
    <3>2. u[n + 1] = g[n + 1]
      BY <2>6, <3>1
    <3> HIDE DEF i
    <3>3. Rec(u)[i] = u[i - 1] \o ms[i]
      BY <3>1
    <3>4. g[i] = g[i - 1] \o ms[i]
      BY <3>1 DEF Chained
    <3> HIDE DEF Rec
    <3>5. u[i] = g[i]
      BY <2>4, <3>1, <3>2, <3>3, <3>4
    <3>6. QED
      BY <3>5 DEF i
  <2> HIDE DEF I
  <2>7. Nat \subseteq I
    BY <2>5, <2>6, NatSet
  <2>8. N - 1 \in Nat /\ (N - 1) + 1 = N
    BY <1>0, <1>2
  <2>9. u[N] = g[N]
    <3>1. N - 1 \in I
      BY <2>7, <2>8
    <3>2. u[(N - 1) + 1] = g[(N - 1) + 1]
      BY <1>0, <2>8, <3>1 DEF I
    <3>3. QED
      BY <2>8, <3>2
  <2>10. QED
    BY <2>1, <2>9
<1>3. QED
  BY <1>1, <1>2

(* A search shows no more than asked for, in order, and misses nothing     *)
(* unless it says so (callTool: search_logs).                              *)
LEMMA SearchFacts ==
  ASSUME NEW files \in Seq(Seq(McpLines)), NEW f, NEW max \in Nat \ {0},
         NEW found, found = SearchOf(files, f, max),
         NEW all, all = FlattenSeq([i \in DOMAIN files |-> Matching(files[i], f)])
  PROVE  /\ Len(found.hits) <= max /\ IsPrefix(found.hits, all)
         /\ ~found.truncated => found.hits = all
<1> DEFINE N == Len(files) ms == [i \in DOMAIN files |-> Matching(files[i], f)]
<1>0. N \in Nat /\ DOMAIN files = 1..N
  OBVIOUS
<1>1. ms \in Seq(Seq(McpLines)) /\ Len(ms) = N /\ \A i \in 1..N : ms[i] = Matching(files[i], f)
  <2>1. \A i \in 1..N : Matching(files[i], f) \in Seq(McpLines)
    BY MatchingIn
  <2>2. ms \in [1..N -> Seq(McpLines)]
    BY <1>0, <2>1
  <2>3. \A i \in 1..N : ms[i] = Matching(files[i], f)
    BY <1>0
  <2> HIDE DEF ms
  <2>4. QED
    BY <1>0, <2>2, <2>3, IsSeq
<1>2. PICK u : Steps(u, files, N, f, max) /\ found = u[N]
  BY SearchIsSteps
<1>a. all = FlattenSeq(ms)
  OBVIOUS
<1> HIDE DEF ms
<1>3. PICK g : Chained(g, ms, N, McpLines)
  BY <1>1, ChainExists
<1>4. all = g[N]
  BY <1>1, <1>3, <1>a, FlattenIsChain
<1> DEFINE I == {n \in Nat : n <= N => Progress(u[n], g[n], max)}
<1>5. 0 \in I
  <2>1. u[0] = [hits |-> <<>>, truncated |-> FALSE] /\ g[0] = <<>>
    BY <1>2, <1>3 DEF Steps, Chained
  <2>2. <<>> \in Seq(McpLines) /\ Len(<<>>) = 0 /\ 0 <= max /\ 0 < max
    OBVIOUS
  <2>3. Progress([hits |-> <<>>, truncated |-> FALSE], <<>>, max)
    BY <2>2 DEF Progress
  <2>4. QED
    BY <2>1, <2>3
<1>6. ASSUME NEW n \in Nat, n \in I PROVE n + 1 \in I
  <2> SUFFICES ASSUME n + 1 <= N PROVE Progress(u[n + 1], g[n + 1], max)
    OBVIOUS
  <2>1. n + 1 \in 1..N /\ (n + 1) - 1 = n /\ n \in 0..N /\ n <= N
    BY <1>0
  <2>2. u[n + 1] = Searched(u[n], files[n + 1], f, max) /\ u[n] \in Founds
    BY <1>2, <2>1 DEF Steps
  <2>3. g[n + 1] = g[n] \o Matching(files[n + 1], f) /\ g[n] \in Seq(McpLines)
    BY <1>1, <1>3, <2>1 DEF Chained
  <2>4. files[n + 1] \in Seq(McpLines)
    BY <2>1
  <2>5. Progress(u[n], g[n], max)
    BY <1>6, <2>1
  <2>6. QED
    BY <2>2, <2>3, <2>4, <2>5, SearchedFacts
<1> HIDE DEF I
<1>7. Nat \subseteq I
  BY <1>5, <1>6, NatSet
<1>8. Progress(found, all, max)
  BY <1>0, <1>2, <1>4, <1>7 DEF I
<1>9. all \in Seq(McpLines)
  BY <1>0, <1>3, <1>4 DEF Chained
<1>10. IsPrefix(found.hits, all)
  <2>1. CASE found.truncated
    BY <1>8, <1>9, <2>1, BeginsPrefix DEF Progress
  <2>2. CASE ~found.truncated
    <3>1. found.hits = all
      BY <1>8, <2>2 DEF Progress
    <3>2. Begins(all, all)
      BY <1>9 DEF Begins
    <3>3. QED
      BY <1>9, <3>1, <3>2, BeginsPrefix
  <2>3. QED
    BY <2>1, <2>2
<1>11. QED
  BY <1>8, <1>10 DEF Progress

-----------------------------------------------------------------------------
(* The runs of a command are no more than its bound.                       *)
RunsFit ==
  /\ up \in [RunKeys -> Nat] /\ dying \in [RunKeys -> Nat]
  /\ \A k \in RunKeys : up[k] + dying[k] <= MaxLive

(* A log holds the last lines of all that was told, and is none if empty.  *)
LineSet == McpLines \cup {Hint}
LogsFit ==
  /\ DOMAIN mcpLogs \subseteq RunKeys
  /\ logged \in [RunKeys -> Seq(LineSet)]
  /\ \A k \in RunKeys : LogOf(k) = LastLines(logged[k], MaxLogLines)
  /\ \A k \in DOMAIN mcpLogs : mcpLogs[k] # <<>>

McpState == RunsFit /\ LogsFit /\ blocked \in Ids \cup {""}

AnswersAreTrue == ReadsTheNewest /\ SearchMissesNothing /\ RunRepliesAreTrue /\ RequestsAreAnswered

McpIInv == McpState /\ AnswersAreTrue

(* No answer is a true one.                                                *)
LEMMA BoundsAre == MaxLive \in Nat /\ MaxLogLines \in Nat \ {0} /\ Tails \subseteq Int
BY McpAssumption, Zenon

(* Before the first request nothing false was said.                        *)
LEMMA NoAnswerIsTrue == ASSUME answer = NoAnswer PROVE AnswersAreTrue
BY DEF NoAnswer, AnswersAreTrue, ReadsTheNewest, SearchMissesNothing, RunRepliesAreTrue, RequestsAreAnswered

(* The server starts with no runs, no logs and no answer.                  *)
LEMMA McpStarts == McpInit => McpIInv
<1> SUFFICES ASSUME McpInit PROVE McpIInv
  OBVIOUS
<1>1. RunsFit
  <2>1. up = [k \in RunKeys |-> 0] /\ dying = up
    BY DEF McpInit
  <2>2. (\A k \in RunKeys : up[k] = 0 /\ dying[k] = 0) /\ 0 + 0 <= MaxLive
    BY <2>1, BoundsAre
  <2>3. QED
    BY <2>1, <2>2 DEF RunsFit
<1>2. LogsFit
  <2>1. <<>> \in Seq(LineSet)
    OBVIOUS
  <2>2. DOMAIN mcpLogs = {} /\ logged \in [RunKeys -> Seq(LineSet)] /\ \A k \in RunKeys : logged[k] = <<>>
    BY <2>1 DEF McpInit
  <2>3. LastLines(<<>>, MaxLogLines) = <<>>
    BY BoundsAre DEF LastLines
  <2>4. QED
    BY <2>2, <2>3 DEF LogsFit, LogOf
<1>3. QED
  BY <1>1, <1>2, NoAnswerIsTrue DEF McpInit, McpState, McpIInv

(* A line that is told is put behind the log, whose beginning may be lost. *)
LEMMA AppendKeeps ==
  ASSUME LogsFit, NEW k \in RunKeys, NEW lines \in Seq(LineSet), lines # <<>>, appendLog(k, lines)
  PROVE  LogsFit'
<1>1. MaxLogLines \in Nat /\ MaxLogLines > 0
  BY BoundsAre
<1> DEFINE new == LastLines(LogOf(k) \o lines, MaxLogLines) all == logged[k] \o lines
<1>2. mcpLogs' = [q \in DOMAIN mcpLogs \cup {k} |-> IF q = k THEN new ELSE mcpLogs[q]]
      /\ logged' = [logged EXCEPT ![k] = all]
  BY DEF appendLog
<1>3. logged[k] \in Seq(LineSet) /\ LogOf(k) = LastLines(logged[k], MaxLogLines)
  BY DEF LogsFit
<1>4. all \in Seq(LineSet) /\ Len(all) \in Nat /\ Len(all) > 0
  <2>1. Len(lines) > 0 /\ Len(lines) \in Nat /\ Len(logged[k]) \in Nat
    BY <1>3
  <2>2. all \in Seq(LineSet) /\ Len(all) = Len(logged[k]) + Len(lines)
    BY <1>3
  <2> HIDE DEF all
  <2>3. QED
    BY <2>1, <2>2
<1>5. new = LastLines(all, MaxLogLines)
  BY <1>1, <1>3, LastOfMore
<1> HIDE DEF new, all
<1>6. new # <<>>
  <2>1. Len(new) = (IF Len(all) > MaxLogLines THEN MaxLogLines ELSE Len(all))
    BY <1>1, <1>4, <1>5, LastLinesFacts
  <2>2. Len(new) # 0
    BY <1>1, <1>4, <2>1
  <2>3. QED
    BY <2>2
<1>7. DOMAIN mcpLogs' = DOMAIN mcpLogs \cup {k} /\ DOMAIN mcpLogs' \subseteq RunKeys
  BY <1>2 DEF LogsFit
<1>8. logged' \in [RunKeys -> Seq(LineSet)]
  BY <1>2, <1>4 DEF LogsFit
<1>9. ASSUME NEW q \in RunKeys PROVE LogOf(q)' = LastLines(logged'[q], MaxLogLines)
  <2>1. CASE q = k
    <3>1. LogOf(q)' = new /\ logged'[q] = all
      BY <1>2, <2>1 DEF LogOf, LogsFit
    <3>2. QED
      BY <1>5, <3>1
  <2>2. CASE q # k
    <3>1. LogOf(q)' = LogOf(q) /\ logged'[q] = logged[q]
      BY <1>2, <1>7, <2>2 DEF LogOf, LogsFit
    <3>2. QED
      BY <3>1 DEF LogsFit
  <2>3. QED
    BY <2>1, <2>2
<1>10. \A q \in DOMAIN mcpLogs' : mcpLogs'[q] # <<>>
  BY <1>2, <1>6, <1>7 DEF LogsFit
<1>11. QED
  BY <1>7, <1>8, <1>9, <1>10 DEF LogsFit

(* What is untouched has not grown.                                        *)
LEMMA NothingGrows ==
  ASSUME RunsFit, UNCHANGED dying
  PROVE  \A k \in RunKeys : ~(dying'[k] > dying[k])
<1>1. ASSUME NEW n \in Nat PROVE ~(n > n)
  OBVIOUS
<1>2. \A k \in RunKeys : dying[k] \in Nat /\ dying'[k] = dying[k]
  BY DEF RunsFit
<1>3. QED
  BY <1>1, <1>2

(* What the executor tells.                                                *)
LEMMA WorldKeeps ==
  ASSUME McpState, World
  PROVE  McpState' /\ UNCHANGED answer /\ \A k \in RunKeys : ~(dying'[k] > dying[k])
<1>0. UNCHANGED answer
  BY DEF World
<1>1. PICK k \in RunKeys : OutputLogged(k) \/ EndLogged(k)
  BY DEF World
<1>2. CASE OutputLogged(k)
  <2>1. UNCHANGED <<up, dying, blocked>>
    BY <1>2 DEF OutputLogged
  <2>2. PICK l \in McpLines, hinted \in BOOLEAN : appendLog(k, IF hinted THEN <<l, Hint>> ELSE <<l>>)
    BY <1>2 DEF OutputLogged
  <2> DEFINE lines == IF hinted THEN <<l, Hint>> ELSE <<l>>
  <2>3. lines \in Seq(LineSet) /\ lines # <<>>
    <3>1. l \in LineSet /\ Hint \in LineSet
      BY DEF LineSet
    <3> HIDE DEF LineSet
    <3>2. QED
      BY <3>1
  <2> HIDE DEF lines
  <2>4. LogsFit'
    BY <2>2, <2>3, AppendKeeps DEF McpState, lines
  <2>5. \A q \in RunKeys : ~(dying'[q] > dying[q])
    BY <2>1, NothingGrows DEF McpState
  <2>6. QED
    BY <1>0, <2>1, <2>4, <2>5 DEF McpState, RunsFit
<1>3. CASE EndLogged(k)
  <2>1. UNCHANGED blocked
    BY <1>3 DEF EndLogged
  <2>2. PICK l \in McpLines : appendLog(k, <<l>>)
    BY <1>3 DEF EndLogged
  <2>3. LogsFit'
    <3>1. <<l>> \in Seq(LineSet) /\ <<l>> # <<>>
      BY DEF LineSet
    <3>2. QED
      BY <2>2, <3>1, AppendKeeps DEF McpState
  <2>4. RunsFit' /\ \A q \in RunKeys : ~(dying'[q] > dying[q])
    <3>1. up[k] \in Nat /\ dying[k] \in Nat /\ MaxLive \in Nat /\ RunsFit
      BY BoundsAre DEF McpState, RunsFit
    <3>2. CASE up[k] > 0 /\ up' = [up EXCEPT ![k] = @ - 1] /\ dying' = dying
      <4>1. up[k] - 1 \in Nat
        BY <3>1, <3>2
      <4>2. \A q \in RunKeys : up'[q] <= up[q] /\ up'[q] \in Nat
        BY <3>1, <3>2, <4>1 DEF RunsFit
      <4>3. up' \in [RunKeys -> Nat]
        BY <3>1, <3>2, <4>1 DEF RunsFit
      <4>4. QED
        BY <3>1, <3>2, <4>2, <4>3 DEF RunsFit
    <3>3. CASE dying[k] > 0 /\ dying' = [dying EXCEPT ![k] = @ - 1] /\ up' = up
      <4>1. dying[k] - 1 \in Nat
        BY <3>1, <3>3
      <4>2. \A q \in RunKeys : dying'[q] <= dying[q] /\ dying'[q] \in Nat
        BY <3>1, <3>3, <4>1 DEF RunsFit
      <4>3. dying' \in [RunKeys -> Nat]
        BY <3>1, <3>3, <4>1 DEF RunsFit
      <4>4. QED
        BY <3>1, <3>3, <4>2, <4>3 DEF RunsFit
    <3>4. QED
      BY <1>3, <3>2, <3>3 DEF EndLogged
  <2>5. QED
    BY <1>0, <2>1, <2>3, <2>4 DEF McpState
<1>4. QED
  BY <1>1, <1>2, <1>3

-----------------------------------------------------------------------------
(* A run stops runs of its own command alone, and makes one at most.       *)
LEMMA RunResolvedKeeps ==
  ASSUME RunsFit, NEW k \in RunKeys, CanRun(k), NEW starts \in BOOLEAN, runResolved(k, starts)
  PROVE  /\ RunsFit'
         /\ \A q \in RunKeys : dying'[q] > dying[q] => q = k /\ k \notin Joining
<1>1. up[k] \in Nat /\ dying[k] \in Nat /\ MaxLive \in Nat
      /\ up \in [RunKeys -> Nat] /\ dying \in [RunKeys -> Nat]
  BY BoundsAre DEF RunsFit
<1> DEFINE stopped == IF k \in Joining THEN 0 ELSE up[k]
           one == IF starts THEN 1 ELSE 0
<1>2. stopped \in Nat /\ stopped <= up[k] /\ one \in {0, 1}
  BY <1>1
<1>3. up' = [up EXCEPT ![k] = up[k] - stopped + one] /\ dying' = [dying EXCEPT ![k] = dying[k] + stopped]
  BY DEF runResolved
<1>4. k \in Joining => stopped = 0
  OBVIOUS
<1> HIDE DEF stopped, one
<1>5. up[k] - stopped + one \in Nat /\ dying[k] + stopped \in Nat
      /\ (up[k] - stopped + one) + (dying[k] + stopped) <= MaxLive
  BY <1>1, <1>2 DEF CanRun
<1>6. up' \in [RunKeys -> Nat] /\ dying' \in [RunKeys -> Nat]
  BY <1>1, <1>3, <1>5
<1>7. \A q \in RunKeys : q # k => up'[q] = up[q] /\ dying'[q] = dying[q]
  BY <1>1, <1>3
<1>8. up'[k] = up[k] - stopped + one /\ dying'[k] = dying[k] + stopped
  BY <1>1, <1>3
<1>9. RunsFit'
  BY <1>5, <1>6, <1>7, <1>8 DEF RunsFit
<1>10. ASSUME NEW q \in RunKeys, dying'[q] > dying[q] PROVE q = k /\ k \notin Joining
  <2>1. dying[q] \in Nat
    BY <1>1
  <2>2. q = k
    BY <1>7, <1>10, <2>1
  <2>3. stopped # 0
    BY <1>1, <1>8, <1>10, <2>2
  <2>4. QED
    BY <1>4, <2>2, <2>3
<1>11. QED
  BY <1>9, <1>10

(* A reply to a run is true, and the run has hit its own command.          *)
HitsTheNamed ==
  \A k \in RunKeys : dying'[k] > dying[k] =>
    \/ answer'.to = "run" /\ answer'.key = k /\ k \notin Joining
    \/ answer'.to = "stop" /\ answer'.ref = k
    \/ /\ answer'.to = "stop" /\ answer'.ref = <<"", Id(k)>>
       /\ \A q \in runningCommandIds : Id(q) = Id(k) => q = k

(* A request that stops nothing stops nothing it should not.               *)
LEMMA NothingStops == ASSUME RunsFit, UNCHANGED dying PROVE HitsTheNamed
BY NothingGrows DEF HitsTheNamed

(* What makes a reply to run_command true.                                 *)
LEMMA RunReply ==
  ASSUME NEW k, NEW says, NEW run, says = "blocked" <=> run = "lacks", answer' = Replied(k, says, run)
  PROVE  AnswersAreTrue' /\ answer'.to = "run" /\ answer'.key = k
<1>1. answer'.to = "run" /\ answer'.key = k /\ answer'.says = says /\ answer'.run = run
  BY DEF Replied
<1>2. QED
  BY <1>1 DEF AnswersAreTrue, ReadsTheNewest, SearchMissesNothing, RunRepliesAreTrue, RequestsAreAnswered

(* A run_command keeps the invariant and stops no more than it names.      *)
LEMMA AgentRunKeeps ==
  ASSUME McpState, NEW k \in RunKeys, AgentRuns(k) \/ AgentRunsOverridden(k)
  PROVE  McpState' /\ AnswersAreTrue' /\ HitsTheNamed
<1>0. CanRun(k) /\ UNCHANGED <<mcpLogs, logged>> /\ RunsFit /\ LogsFit /\ blocked \in Ids \cup {""}
  BY DEF AgentRuns, AgentRunsOverridden, McpState
<1>1. LogsFit'
  BY <1>0 DEF LogsFit, LogOf
<1>2. ASSUME NEW starts \in BOOLEAN, runResolved(k, starts), answer'.to = "run", answer'.key = k
      PROVE  RunsFit' /\ HitsTheNamed
  BY <1>0, <1>2, RunResolvedKeeps DEF HitsTheNamed
<1>3. CASE AgentRunsOverridden(k)
  <2>1. PICK starts \in BOOLEAN, says \in {"started", "failed"}, run \in {"starts", "fails"} :
          runResolved(k, starts) /\ answer' = Replied(k, says, run)
    BY <1>3 DEF AgentRunsOverridden
  <2>2. AnswersAreTrue' /\ answer'.to = "run" /\ answer'.key = k
    BY <2>1, RunReply
  <2>3. UNCHANGED blocked
    BY <1>3 DEF AgentRunsOverridden
  <2>4. QED
    BY <1>0, <1>1, <1>2, <2>1, <2>2, <2>3 DEF McpState
<1>4. CASE AgentRuns(k)
  <2>1. PICK run \in {"starts", "lacks", "fails"} :
          /\ IF run = "lacks" THEN UNCHANGED <<up, dying>> ELSE runResolved(k, run = "starts")
          /\ blocked' = (IF run = "lacks" THEN Id(k) ELSE "")
          /\ answer' = Replied(k, SaidOf(run, IF run = "lacks" THEN Id(k) ELSE "", k), run)
    BY <1>4 DEF AgentRuns
  <2>2. Id(k) # "" /\ Id(k) \in Ids
    BY McpAssumption DEF Id, Ids
  <2> DEFINE says == SaidOf(run, IF run = "lacks" THEN Id(k) ELSE "", k)
  <2>3. says = "blocked" <=> run = "lacks"
    <3>1. CASE run = "lacks"
      BY <3>1 DEF SaidOf
    <3>2. CASE run = "starts"
      <4>1. says = "started"
        BY <2>2, <3>2 DEF SaidOf
      <4>2. QED
        BY <3>2, <4>1
    <3>3. CASE run = "fails"
      BY <2>2, <3>3 DEF SaidOf
    <3>4. QED
      BY <3>1, <3>2, <3>3
  <2> HIDE DEF says
  <2>4. AnswersAreTrue' /\ answer'.to = "run" /\ answer'.key = k
    BY <2>1, <2>3, RunReply DEF says
  <2>5. RunsFit' /\ HitsTheNamed
    <3>1. CASE run = "lacks"
      BY <1>0, <2>1, <3>1, NothingStops DEF RunsFit
    <3>2. CASE run = "starts"
      <4>1. runResolved(k, TRUE)
        <5>1. (run = "starts") = TRUE
          BY <3>2
        <5>2. QED
          BY <2>1, <3>2, <5>1
      <4>2. QED
        BY <1>2, <2>4, <4>1
    <3>3. CASE run = "fails"
      <4>1. runResolved(k, FALSE)
        <5>1. (run = "starts") = FALSE
          BY <3>3
        <5>2. QED
          BY <2>1, <3>3, <5>1
      <4>2. QED
        BY <1>2, <2>4, <4>1
    <3>4. QED
      BY <3>1, <3>2, <3>3
  <2>6. QED
    BY <1>1, <2>1, <2>2, <2>4, <2>5 DEF McpState
<1>5. QED
  BY <1>3, <1>4

-----------------------------------------------------------------------------
(* A stop that is not ambiguous hits the command that was named, or the    *)
(* only running one of that name.                                          *)
LEMMA HitsFacts ==
  ASSUME NEW known \in SUBSET RunKeys, NEW ref, ~ambiguous(ref, known),
         NEW key, key = resolveCommandKey(ref, known), key \in known
  PROVE  \/ key = ref
         \/ ref = <<"", Id(key)>> /\ \A q \in known : Id(q) = Id(key) => q = key
<1> DEFINE H == Hits(ref, known)
<1>1. IsFiniteSet(H)
  <2>1. H \subseteq RunKeys
    BY DEF Hits
  <2>2. IsFiniteSet(RunKeys)
    BY McpAssumption, Zenon
  <2>3. QED
    BY <2>1, <2>2, FS_Subset
<1>2. CASE ref \in known \/ Cardinality(H) # 1
  BY <1>2 DEF resolveCommandKey
<1>3. CASE ref \notin known /\ Cardinality(H) = 1
  <2>1. PICK x : H = {x}
    BY <1>1, <1>3, FS_Singleton
  <2>2. key = (CHOOSE k \in H : TRUE)
    BY <1>3 DEF resolveCommandKey
  <2>3. key \in H
    BY <2>1, <2>2
  <2>4. ref = <<"", Id(key)>>
    BY <2>3 DEF Hits
  <2>5. \A q \in known : Id(q) = Id(key) => q \in H
    BY <2>4 DEF Hits
  <2>6. QED
    BY <2>1, <2>3, <2>4, <2>5
<1>4. QED
  BY <1>2, <1>3

(* A stop_command keeps it, and stops what it names.                       *)
LEMMA AgentStopKeeps ==
  ASSUME McpState, NEW ref, AgentStops(ref)
  PROVE  McpState' /\ AnswersAreTrue' /\ HitsTheNamed
<1>0. RunsFit /\ LogsFit /\ UNCHANGED <<mcpLogs, logged, blocked>>
      /\ up \in [RunKeys -> Nat] /\ dying \in [RunKeys -> Nat]
  BY DEF McpState, AgentStops, RunsFit
<1>1. LogsFit'
  BY <1>0 DEF LogsFit, LogOf
<1>2. answer'.to = "stop" /\ answer'.ref = ref
  <2>1. PICK says : answer' = [to |-> "stop", says |-> says, ref |-> ref]
    BY DEF AgentStops
  <2>2. QED
    BY <2>1
<1>3. AnswersAreTrue'
  BY <1>2 DEF AnswersAreTrue, ReadsTheNewest, SearchMissesNothing, RunRepliesAreTrue, RequestsAreAnswered
<1>4. RunsFit' /\ HitsTheNamed
  <2>1. CASE ambiguous(ref, runningCommandIds)
    <3>1. UNCHANGED <<up, dying>>
      BY <2>1 DEF AgentStops
    <3>2. QED
      BY <1>0, <3>1, NothingStops DEF RunsFit
  <2>2. CASE ~ambiguous(ref, runningCommandIds)
    <3> DEFINE key == resolveCommandKey(ref, runningCommandIds)
    <3>1. stopCommand(key)
      BY <2>2 DEF AgentStops
    <3>2. runningCommandIds \in SUBSET RunKeys
      BY DEF runningCommandIds
    <3>3. key \in runningCommandIds =>
            \/ key = ref
            \/ ref = <<"", Id(key)>> /\ \A q \in runningCommandIds : Id(q) = Id(key) => q = key
      <4>1. key = resolveCommandKey(ref, runningCommandIds)
        OBVIOUS
      <4> HIDE DEF key
      <4> SUFFICES ASSUME key \in runningCommandIds
                   PROVE  \/ key = ref
                          \/ /\ ref = <<"", Id(key)>>
                             /\ \A q \in runningCommandIds : Id(q) = Id(key) => q = key
        OBVIOUS
      <4>2. QED
        BY <2>2, <3>2, <4>1, HitsFacts
    <3> HIDE DEF key
    <3>4. /\ \A q \in RunKeys : q # key => up'[q] = up[q] /\ dying'[q] = dying[q]
          /\ \A q \in RunKeys : q = key => up'[q] = 0 /\ dying'[q] = dying[q] + up[q]
      BY <3>1 DEF stopCommand
    <3>5. up' \in [RunKeys -> Nat] /\ dying' \in [RunKeys -> Nat]
      <4>1. up' = [q \in RunKeys |-> IF q = key THEN 0 ELSE up[q]]
            /\ dying' = [q \in RunKeys |-> IF q = key THEN dying[q] + up[q] ELSE dying[q]]
        BY <3>1 DEF stopCommand
      <4>2. \A q \in RunKeys : dying[q] \in Nat /\ up[q] \in Nat /\ dying[q] + up[q] \in Nat
        BY <1>0
      <4>3. QED
        BY <4>1, <4>2
    <3>6. \A q \in RunKeys : up'[q] + dying'[q] <= MaxLive
      <4> SUFFICES ASSUME NEW q \in RunKeys PROVE up'[q] + dying'[q] <= MaxLive
        OBVIOUS
      <4>1. up[q] \in Nat /\ dying[q] \in Nat /\ up[q] + dying[q] <= MaxLive
        BY <1>0 DEF RunsFit
      <4>2. 0 + (dying[q] + up[q]) = up[q] + dying[q]
        BY <4>1
      <4>3. QED
        BY <3>4, <4>1, <4>2
    <3>7. ASSUME NEW q \in RunKeys, dying'[q] > dying[q]
          PROVE  q = key /\ q \in runningCommandIds
      <4>1. up[q] \in Nat /\ dying[q] \in Nat /\ ~(dying[q] > dying[q])
        BY <1>0
      <4>2. q = key
        BY <3>4, <3>7, <4>1
      <4>3. dying[q] + up[q] > dying[q]
        BY <3>4, <3>7, <4>2
      <4>4. up[q] + dying[q] > 0
        BY <4>1, <4>3
      <4>5. QED
        BY <4>2, <4>4 DEF runningCommandIds
    <3>8. HitsTheNamed
      BY <1>2, <3>3, <3>7 DEF HitsTheNamed
    <3>9. QED
      BY <3>5, <3>6, <3>8 DEF RunsFit
  <2>3. QED
    BY <2>1, <2>2
<1>5. QED
  BY <1>0, <1>1, <1>3, <1>4 DEF McpState

(* What is only looked at stays as it is.                                  *)
LEMMA LookingKeeps ==
  ASSUME McpState, UNCHANGED <<up, dying, mcpLogs, logged, blocked>>
  PROVE  McpState' /\ HitsTheNamed
<1>1. RunsFit /\ LogsFit /\ blocked \in Ids \cup {""}
  BY DEF McpState
<1>2. HitsTheNamed
  BY <1>1, NothingStops
<1>3. RunsFit' /\ LogsFit' /\ blocked' \in Ids \cup {""}
  BY <1>1 DEF RunsFit, LogsFit, LogOf
<1>4. QED
  BY <1>2, <1>3 DEF McpState

(* A get_status keeps it.                                                  *)
LEMMA AgentAsksStatusKeeps ==
  ASSUME McpState, NEW ref, AgentAsksStatus(ref)
  PROVE  McpState' /\ AnswersAreTrue' /\ HitsTheNamed
<1>1. answer'.to = "status"
  BY DEF AgentAsksStatus
<1>2. AnswersAreTrue'
  BY <1>1 DEF AnswersAreTrue, ReadsTheNewest, SearchMissesNothing, RunRepliesAreTrue, RequestsAreAnswered
<1>3. QED
  BY <1>2, LookingKeeps DEF AgentAsksStatus

(* The bound of what is shown.                                             *)
LEMMA BoundedIn ==
  ASSUME NEW n \in Int, NEW high \in Nat \ {0}
  PROVE  Bounded(1, n, high) \in 1..high
BY DEF Bounded

(* What an agent reads.                                                    *)
LEMMA ReadIsTrue ==
  ASSUME LogsFit, NEW ref, NEW tail \in Tails, NEW f, answer' = ReadLog(ref, tail, f),
         UNCHANGED logged
  PROVE  ReadsTheNewest' /\ answer'.to = "read_log"
<1> DEFINE key == resolveCommandKey(ref, DOMAIN mcpLogs)
           buf == LogOf(key)
           matched == Matching(buf, f)
           n == Bounded(1, tail, MaxLogLines)
           a == [to |-> "read_log", says |-> "lines", ref |-> ref, key |-> key, filter |-> f, tail |-> n,
                 lines |-> LastLines(matched, n), matched |-> Len(matched), total |-> Len(buf),
                 truncated |-> Len(matched) > n, levels |-> observe(buf)]
<1>1. CASE ambiguous(ref, DOMAIN mcpLogs)
  BY <1>1 DEF ReadLog, ReadsTheNewest
<1>2. CASE ~ambiguous(ref, DOMAIN mcpLogs) /\ buf = <<>>
  <2>1. answer' = [to |-> "read_log", says |-> "nothing", ref |-> ref]
    BY <1>2 DEF ReadLog
  <2>2. QED
    BY <2>1 DEF ReadsTheNewest
<1>3. CASE ~ambiguous(ref, DOMAIN mcpLogs) /\ buf # <<>>
  <2>1. answer' = a
    BY <1>3 DEF ReadLog
  <2>2. key \in DOMAIN mcpLogs /\ key \in RunKeys
    BY <1>3 DEF LogOf, LogsFit
  <2>3. logged[key] \in Seq(LineSet) /\ buf = LastLines(logged[key], MaxLogLines) /\ logged' = logged
    BY <2>2 DEF LogsFit
  <2>4. n \in 1..MaxLogLines /\ n \in Nat
    <3>1. tail \in Int /\ MaxLogLines \in Nat \ {0}
      BY BoundsAre
    <3>2. n \in 1..MaxLogLines
      BY <3>1, BoundedIn
    <3>3. QED
      BY <3>1, <3>2
  <2> HIDE DEF n, key, buf
  <2>5. buf \in Seq(LineSet)
    <3>1. MaxLogLines \in Nat
      BY BoundsAre
    <3>2. QED
      BY <2>3, <3>1, LastLinesFacts
  <2>6. matched \in Seq(LineSet)
    BY <2>5, MatchingIn
  <2> DEFINE lines == LastLines(matched, n)
  <2>7. answer'.to = "read_log" /\ answer'.says = "lines" /\ answer'.key = key /\ answer'.filter = f
        /\ answer'.lines = lines /\ answer'.tail = n /\ answer'.truncated = (Len(matched) > n)
        /\ answer'.levels = observe(buf)
    BY <2>1
  <2> HIDE DEF a
  <2>8. IsSuffix(lines, matched)
    BY <2>4, <2>6, LastIsSuffix
  <2>9. Len(lines) = (IF Len(matched) > n THEN n ELSE Len(matched)) /\ Len(lines) <= n
    BY <2>4, <2>6, LastLinesFacts
  <2>10. ~(Len(matched) > n) => lines = matched
    BY DEF LastLines
  <2>11. lines = <<>> => matched = <<>>
    <3>1. Len(matched) \in Nat /\ (Len(matched) = 0 => matched = <<>>)
      BY <2>6
    <3>2. lines = <<>> => Len(lines) = 0
      OBVIOUS
    <3> HIDE DEF matched, lines
    <3>3. QED
      BY <2>4, <2>9, <3>1, <3>2
  <2>12. ASSUME NEW lv \in observe(buf)
         PROVE  Matching(buf, [NoFilter EXCEPT !.levels = {lv}]) # <<>>
    <3> DEFINE g == [NoFilter EXCEPT !.levels = {lv}]
    <3>1. PICK i \in DOMAIN buf : lv = parse(buf[i]).level /\ lv # NoLevel
      BY DEF observe
    <3>2. parse(buf[i]).ok
      <4>1. parse(buf[i]) # Unread
        BY <3>1 DEF Unread
      <4>2. PICK w, c : parse(buf[i]) = Read(w, c)
        BY <4>1, ParseIsSound DEF Sound
      <4>3. QED
        BY <4>2 DEF Read
    <3>3. applyFilter(parse(buf[i]), TRUE, g) = "Shown"
      BY <3>1, <3>2, ChipsSelect DEF ChipSelectsItsLine
    <3>4. g.query = FALSE
      BY DEF NoFilter
    <3> HIDE DEF g
    <3>5. Passes(buf[i], g)
      BY <3>3, <3>4 DEF applyFilter, Passes
    <3>6. i \in 1..Len(buf)
      BY <2>5
    <3>7. Matching(buf, g) # <<>>
      BY <2>5, <3>5, <3>6, SomethingMatches
    <3>8. QED
      BY <3>7 DEF g
  <2> HIDE DEF lines, matched
  <2>13. LastLines(logged[key], MaxLogLines) = buf /\ Matching(buf, f) = matched
    BY <2>3 DEF matched
  <2>14. QED
    BY <2>3, <2>7, <2>8, <2>9, <2>10, <2>11, <2>12, <2>13 DEF ReadsTheNewest
<1>4. QED
  BY <1>1, <1>2, <1>3

(* A read_log keeps it.                                                    *)
LEMMA AgentReadsKeeps ==
  ASSUME McpState, NEW ref, AgentReads(ref)
  PROVE  McpState' /\ AnswersAreTrue' /\ HitsTheNamed
<1>1. PICK tail \in Tails, f \in McpFilters : answer' = ReadLog(ref, tail, f)
  BY DEF AgentReads
<1>2. UNCHANGED <<up, dying, mcpLogs, logged, blocked>>
  BY DEF AgentReads
<1>3. ReadsTheNewest' /\ answer'.to = "read_log"
  BY <1>1, <1>2, ReadIsTrue DEF McpState
<1>4. AnswersAreTrue'
  BY <1>3 DEF AnswersAreTrue, SearchMissesNothing, RunRepliesAreTrue, RequestsAreAnswered
<1>5. QED
  BY <1>2, <1>4, LookingKeeps

(* A search_logs keeps it.                                                 *)
LEMMA AgentSearchesKeeps ==
  ASSUME McpState, AgentSearches
  PROVE  McpState' /\ AnswersAreTrue' /\ HitsTheNamed
<1>1. PICK files \in LogFiles, f \in McpFilters, most \in Tails :
        LET max == Bounded(1, most, 500)
            found == SearchOf(files, f, max)
        IN  answer' = [to |-> "search", says |-> "lines", files |-> files, filter |-> f, max |-> max,
                       lines |-> found.hits, truncated |-> found.truncated]
  BY DEF AgentSearches
<1> DEFINE max == Bounded(1, most, 500)
           found == SearchOf(files, f, max)
           all == FlattenSeq([i \in DOMAIN files |-> Matching(files[i], f)])
<1>2. answer'.to = "search" /\ answer'.files = files /\ answer'.filter = f /\ answer'.max = max
      /\ answer'.lines = found.hits /\ answer'.truncated = found.truncated
  BY <1>1
<1>3. max \in Nat \ {0}
  <2>1. most \in Int /\ 500 \in Nat \ {0}
    BY BoundsAre
  <2>2. max \in 1..500
    BY <2>1 DEF Bounded
  <2>3. QED
    BY <2>2
<1>4. files \in Seq(Seq(McpLines))
  BY McpAssumption, Zenon
<1>5. found = SearchOf(files, f, max) /\ all = FlattenSeq([i \in DOMAIN files |-> Matching(files[i], f)])
  OBVIOUS
<1> HIDE DEF max, found, all
<1>6. /\ Len(found.hits) <= max /\ IsPrefix(found.hits, all)
      /\ ~found.truncated => found.hits = all
  BY <1>3, <1>4, <1>5, SearchFacts
<1>7. SearchMissesNothing'
  BY <1>2, <1>5, <1>6 DEF SearchMissesNothing
<1>8. AnswersAreTrue'
  BY <1>2, <1>7 DEF AnswersAreTrue, ReadsTheNewest, RunRepliesAreTrue, RequestsAreAnswered
<1>9. QED
  BY <1>8, LookingKeeps DEF AgentSearches

(* A send_input keeps it.                                                  *)
LEMMA AgentWritesKeeps ==
  ASSUME McpState, AgentWrites
  PROVE  McpState' /\ AnswersAreTrue' /\ HitsTheNamed
<1>1. PICK version \in {"1.0", "2.0"}, id \in BOOLEAN,
           method \in {"initialize", "ping", "tools/list", "tools/call", "notifications/initialized", "other"} :
        answer' = [to |-> "message", says |-> handleMessage(version, method, id),
                   id |-> id, notifies |-> version = "2.0" /\ method = "notifications/initialized"]
  BY DEF AgentWrites
<1> DEFINE says == handleMessage(version, method, id)
           notifies == version = "2.0" /\ method = "notifications/initialized"
<1>2. answer'.to = "message" /\ answer'.says = says /\ answer'.id = id /\ answer'.notifies = notifies
  BY <1>1
<1>3. /\ id /\ ~notifies => says # "none"
      /\ notifies => says = "none"
  BY DEF handleMessage, protocolError
<1> HIDE DEF says, notifies
<1>4. RequestsAreAnswered'
  BY <1>2, <1>3 DEF RequestsAreAnswered
<1>5. AnswersAreTrue'
  BY <1>2, <1>4 DEF AnswersAreTrue, ReadsTheNewest, SearchMissesNothing, RunRepliesAreTrue
<1>6. QED
  BY <1>5, LookingKeeps DEF AgentWrites

(* Every request keeps it.                                                 *)
LEMMA RequestKeeps ==
  ASSUME McpState, Request
  PROVE  McpState' /\ AnswersAreTrue' /\ HitsTheNamed
BY AgentRunKeeps, AgentStopKeeps, AgentAsksStatusKeeps, AgentReadsKeeps, AgentSearchesKeeps, AgentWritesKeeps
DEF Request

(* Every step keeps it and stops what was named.                           *)
LEMMA McpStepKeeps ==
  ASSUME McpIInv, [McpNext]_mcpVars
  PROVE  McpIInv' /\ (mcpVars' = mcpVars \/ HitsTheNamed)
<1>1. McpState /\ AnswersAreTrue
  BY DEF McpIInv
<1>2. CASE answer = NoAnswer /\ World
  <2>1. McpState' /\ answer' = NoAnswer
    BY <1>1, <1>2, WorldKeeps
  <2>2. HitsTheNamed
    BY <1>1, <1>2, WorldKeeps DEF HitsTheNamed
  <2>3. AnswersAreTrue'
    BY <2>1 DEF NoAnswer, AnswersAreTrue, ReadsTheNewest, SearchMissesNothing, RunRepliesAreTrue,
                RequestsAreAnswered
  <2>4. QED
    BY <2>1, <2>2, <2>3 DEF McpIInv
<1>3. CASE Request
  BY <1>1, <1>3, RequestKeeps DEF McpIInv
<1>4. CASE ReplySent
  <2>1. McpState' /\ HitsTheNamed
    BY <1>1, <1>4, LookingKeeps DEF ReplySent
  <2>2. answer' = NoAnswer
    BY <1>4 DEF ReplySent
  <2>3. AnswersAreTrue'
    BY <2>2 DEF NoAnswer, AnswersAreTrue, ReadsTheNewest, SearchMissesNothing, RunRepliesAreTrue,
                RequestsAreAnswered
  <2>4. QED
    BY <2>1, <2>3 DEF McpIInv
<1>5. CASE UNCHANGED mcpVars
  <2>1. UNCHANGED <<up, dying, mcpLogs, logged, blocked>> /\ UNCHANGED answer
    BY <1>5 DEF mcpVars
  <2>2. McpState'
    BY <1>1, <2>1, LookingKeeps
  <2>3. AnswersAreTrue'
    BY <1>1, <2>1 DEF AnswersAreTrue, ReadsTheNewest, SearchMissesNothing, RunRepliesAreTrue,
                      RequestsAreAnswered
  <2>4. QED
    BY <1>5, <2>2, <2>3 DEF McpIInv
<1>6. QED
  BY <1>2, <1>3, <1>4, <1>5 DEF McpNext

(* The invariant holds the types.                                          *)
LEMMA McpTypes == ASSUME McpIInv PROVE McpTypeOK
<1>1. RunsFit /\ LogsFit /\ blocked \in Ids \cup {""}
  BY DEF McpIInv, McpState
<1>2. up \in [RunKeys -> 0..MaxLive] /\ dying \in [RunKeys -> 0..MaxLive]
  <2>1. up \in [RunKeys -> Nat] /\ dying \in [RunKeys -> Nat] /\ MaxLive \in Nat
    BY <1>1, BoundsAre DEF RunsFit
  <2>2. ASSUME NEW k \in RunKeys PROVE up[k] \in 0..MaxLive /\ dying[k] \in 0..MaxLive
    <3>1. up[k] \in Nat /\ dying[k] \in Nat /\ up[k] + dying[k] <= MaxLive
      BY <1>1, <2>1 DEF RunsFit
    <3>2. QED
      BY <2>1, <3>1
  <2>3. QED
    BY <2>1, <2>2
<1>3. ASSUME NEW k \in DOMAIN mcpLogs PROVE mcpLogs[k] # <<>> /\ Len(mcpLogs[k]) <= MaxLogLines
  <2>1. k \in RunKeys /\ mcpLogs[k] # <<>>
    BY <1>1 DEF LogsFit
  <2>2. mcpLogs[k] = LastLines(logged[k], MaxLogLines) /\ logged[k] \in Seq(LineSet)
    BY <1>1, <2>1 DEF LogsFit, LogOf
  <2>3. MaxLogLines \in Nat
    BY BoundsAre
  <2>4. QED
    BY <2>1, <2>2, <2>3, LastLinesFacts
<1>4. DOMAIN mcpLogs \subseteq RunKeys
  BY <1>1 DEF LogsFit
<1>5. QED
  BY <1>1, <1>2, <1>3, <1>4 DEF McpTypeOK

(* What an agent is told is so and what it stops is what it named          *)
(* (mcpserver.cpp, handleMessage and callTool), for any commands, logs,    *)
(* filters and bounds, in whatever order runs print, end and are asked of. *)
THEOREM AgentsAreServedRight == McpSpec => AgentsAreServed
<1>1. McpInit => McpIInv
  BY McpStarts
<1>2. McpIInv /\ [McpNext]_mcpVars => McpIInv'
  BY McpStepKeeps
<1>3. McpSpec => []McpIInv
  BY <1>1, <1>2, PTL DEF McpSpec
<1>4. McpIInv => McpTypeOK
  BY McpTypes
<1>5. McpIInv => ReadsTheNewest /\ SearchMissesNothing /\ RunRepliesAreTrue /\ RequestsAreAnswered
  BY DEF McpIInv, AnswersAreTrue
<1>6. McpIInv /\ [McpNext]_mcpVars =>
        [\A k \in RunKeys : dying'[k] > dying[k] =>
           \/ answer'.to = "run" /\ answer'.key = k /\ k \notin Joining
           \/ answer'.to = "stop" /\ answer'.ref = k
           \/ /\ answer'.to = "stop" /\ answer'.ref = <<"", Id(k)>>
              /\ \A q \in runningCommandIds : Id(q) = Id(k) => q = k]_mcpVars
  BY McpStepKeeps DEF HitsTheNamed
<1>7. McpSpec => StopHitsTheNamed
  BY <1>3, <1>6, PTL DEF McpSpec, StopHitsTheNamed
<1>8. McpSpec => []McpTypeOK /\ []ReadsTheNewest /\ []SearchMissesNothing
                 /\ []RunRepliesAreTrue /\ []RequestsAreAnswered
  BY <1>3, <1>4, <1>5, PTL
<1>9. QED
  BY <1>7, <1>8 DEF AgentsAreServed

-----------------------------------------------------------------------------
(* A list whose last header is trun's: its table is open.                  *)
Open(lines) ==
  \E h \in DOMAIN lines : IsTrun(lines[h]) /\ \A j \in (h + 1)..Len(lines) : lines[j] \notin Headers

HasTrun(lines) == \E i \in DOMAIN lines : IsTrun(lines[i])

(* What one more line is of a list.                                        *)
LEMMA AppendFacts ==
  ASSUME NEW S, NEW s \in Seq(S), NEW e \in S, NEW p, p = Append(s, e)
  PROVE  /\ p \in Seq(S) /\ Len(p) = Len(s) + 1 /\ Len(s) \in Nat
         /\ DOMAIN p = (1..Len(s)) \cup {Len(s) + 1} /\ DOMAIN s = 1..Len(s)
         /\ p[Len(s) + 1] = e /\ \A i \in 1..Len(s) : p[i] = s[i]
OBVIOUS

(* A header opens or closes a table, any other line leaves it as it is.    *)
LEMMA OpenAppend ==
  ASSUME NEW o \in Seq(TomlLines), NEW e \in TomlLines
  PROVE  /\ e \in Headers => (Open(Append(o, e)) <=> IsTrun(e))
         /\ e \notin Headers => (Open(Append(o, e)) <=> Open(o))
         /\ HasTrun(Append(o, e)) <=> HasTrun(o) \/ IsTrun(e)
<1> DEFINE p == Append(o, e) n == Len(o)
<1>1. /\ Len(p) = n + 1 /\ n \in Nat /\ DOMAIN p = (1..n) \cup {n + 1} /\ DOMAIN o = 1..n
      /\ p[n + 1] = e /\ \A i \in 1..n : p[i] = o[i]
  <2>1. p = Append(o, e)
    OBVIOUS
  <2> HIDE DEF p
  <2>2. QED
    BY <2>1, AppendFacts
<1>0. IsTrun(e) => e \in Headers
  BY DEF IsTrun, Headers
<1> HIDE DEF p
<1>2. ASSUME NEW h \in 1..n
      PROVE  (\A j \in (h + 1)..(n + 1) : p[j] \notin Headers)
               <=> e \notin Headers /\ \A j \in (h + 1)..n : o[j] \notin Headers
  <2>1. (h + 1)..(n + 1) = ((h + 1)..n) \cup {n + 1} /\ (h + 1)..n \subseteq 1..n
    BY <1>1
  <2>2. QED
    BY <1>1, <2>1
<1>3. (n + 2)..(n + 1) = {} /\ (n + 1) + 1 = n + 2
  BY <1>1
<1>4. Open(p) <=> IsTrun(e) \/ (e \notin Headers /\ Open(o))
  <2>1. Open(p) <=> \/ \E h \in 1..n : IsTrun(o[h]) /\ \A j \in (h + 1)..(n + 1) : p[j] \notin Headers
                    \/ IsTrun(e)
    BY <1>1, <1>3 DEF Open
  <2>2. Open(o) <=> \E h \in 1..n : IsTrun(o[h]) /\ \A j \in (h + 1)..n : o[j] \notin Headers
    BY <1>1 DEF Open
  <2>3. QED
    BY <1>2, <2>1, <2>2
<1>5. HasTrun(p) <=> HasTrun(o) \/ IsTrun(e)
  BY <1>1 DEF HasTrun
<1>6. QED
  BY <1>0, <1>4, <1>5 DEF p

(* It is a line of trun's table if that is open and it is no header.       *)
LEMMA BlockAppend ==
  ASSUME NEW o \in Seq(TomlLines), NEW e \in TomlLines
  PROVE  /\ Block(o) \subseteq 1..Len(o)
         /\ Block(Append(o, e)) =
              IF e \notin Headers /\ Open(o) THEN Block(o) \cup {Len(o) + 1} ELSE Block(o)
<1> DEFINE p == Append(o, e) n == Len(o)
<1>1. /\ Len(p) = n + 1 /\ n \in Nat /\ DOMAIN p = (1..n) \cup {n + 1} /\ DOMAIN o = 1..n
      /\ p[n + 1] = e /\ \A i \in 1..n : p[i] = o[i]
  <2>1. p = Append(o, e)
    OBVIOUS
  <2> HIDE DEF p
  <2>2. QED
    BY <2>1, AppendFacts
<1> HIDE DEF p
<1>2. ASSUME NEW i \in 1..n PROVE InBlock(p, i) <=> InBlock(o, i)
  <2>1. 1..i \subseteq 1..n
    BY <1>1
  <2>2. ASSUME NEW h \in 1..i PROVE (h + 1)..i \subseteq 1..n
    BY <1>1
  <2>3. QED
    BY <1>1, <2>1, <2>2 DEF InBlock
<1>3. e \notin Headers => (InBlock(p, n + 1) <=> Open(o))
  <2> SUFFICES ASSUME e \notin Headers PROVE InBlock(p, n + 1) <=> Open(o)
    OBVIOUS
  <2>1. ~IsTrun(e)
    BY DEF IsTrun, Headers
  <2>2. 1..(n + 1) = (1..n) \cup {n + 1}
    BY <1>1
  <2>3. InBlock(p, n + 1)
          <=> \E h \in 1..n : IsTrun(o[h]) /\ \A j \in (h + 1)..(n + 1) : p[j] \notin Headers
    BY <1>1, <2>1, <2>2 DEF InBlock
  <2>4. ASSUME NEW h \in 1..n
        PROVE  (\A j \in (h + 1)..(n + 1) : p[j] \notin Headers)
                 <=> \A j \in (h + 1)..n : o[j] \notin Headers
    <3>1. (h + 1)..(n + 1) = ((h + 1)..n) \cup {n + 1} /\ (h + 1)..n \subseteq 1..n
      BY <1>1
    <3>2. QED
      BY <1>1, <3>1
  <2>5. QED
    BY <1>1, <2>3, <2>4 DEF Open
<1>4. Block(o) = {i \in 1..n : InBlock(o, i) /\ o[i] \notin Headers}
  BY <1>1 DEF Block
<1>5. Block(p) = {i \in (1..n) \cup {n + 1} : InBlock(p, i) /\ p[i] \notin Headers}
  BY <1>1 DEF Block
<1>6. Block(p) = IF e \notin Headers /\ Open(o) THEN Block(o) \cup {n + 1} ELSE Block(o)
  <2>1. \A i \in 1..n : i \in Block(p) <=> i \in Block(o)
    BY <1>1, <1>2, <1>4, <1>5
  <2>2. n + 1 \in Block(p) <=> e \notin Headers /\ Open(o)
    BY <1>1, <1>3, <1>5
  <2>3. QED
    BY <1>4, <1>5, <2>1, <2>2
<1>7. QED
  BY <1>4, <1>6 DEF p

(* What is outside is the lines that are not in the table, nor its header. *)
LEMMA OutsideAppend ==
  ASSUME NEW o \in Seq(TomlLines), NEW e \in TomlLines
  PROVE  /\ Outside(o) \in Seq(TomlLines)
         /\ Outside(Append(o, e)) =
              IF IsTrun(e) \/ (e \notin Headers /\ Open(o)) THEN Outside(o) ELSE Append(Outside(o), e)
<1> DEFINE p == Append(o, e) n == Len(o)
           I == {i \in DOMAIN o : i \notin Block(o) /\ ~IsTrun(o[i])}
           J == {i \in DOMAIN p : i \notin Block(p) /\ ~IsTrun(p[i])}
<1>1. /\ Len(p) = n + 1 /\ n \in Nat /\ DOMAIN p = (1..n) \cup {n + 1} /\ DOMAIN o = 1..n
      /\ p[n + 1] = e /\ \A i \in 1..n : p[i] = o[i]
  <2>1. p = Append(o, e)
    OBVIOUS
  <2> HIDE DEF p
  <2>2. QED
    BY <2>1, AppendFacts
<1>2. /\ Block(o) \subseteq 1..n
      /\ Block(p) = IF e \notin Headers /\ Open(o) THEN Block(o) \cup {n + 1} ELSE Block(o)
  BY BlockAppend
<1>3. Outside(o) = Picked(o, I) /\ Outside(p) = Picked(p, J)
  BY DEF Outside
<1>0. p = Append(o, e)
  OBVIOUS
<1> HIDE DEF p
<1>4. I \in SUBSET (1..n)
  BY <1>1
<1>5. \A i \in 1..n : i \in J <=> i \in I
  BY <1>1, <1>2
<1>6. n + 1 \in J <=> ~(IsTrun(e) \/ (e \notin Headers /\ Open(o)))
  <2>1. n + 1 \notin 1..n /\ n + 1 \in DOMAIN p /\ p[n + 1] = e
    BY <1>1
  <2>2. n + 1 \in Block(p) <=> e \notin Headers /\ Open(o)
    BY <1>2, <2>1
  <2>3. n + 1 \in J <=> n + 1 \notin Block(p) /\ ~IsTrun(p[n + 1])
    BY <2>1
  <2>4. QED
    BY <2>1, <2>2, <2>3
<1>7. J = IF IsTrun(e) \/ (e \notin Headers /\ Open(o)) THEN I ELSE I \cup {n + 1}
  <2>1. J \subseteq (1..n) \cup {n + 1} /\ I \subseteq 1..n
    BY <1>1
  <2>2. n + 1 \notin 1..n
    BY <1>1
  <2> HIDE DEF I, J
  <2>3. CASE IsTrun(e) \/ (e \notin Headers /\ Open(o))
    <3>1. n + 1 \notin J
      BY <1>6, <2>3
    <3>2. J \subseteq 1..n
      BY <2>1, <3>1
    <3>3. J \subseteq I /\ I \subseteq J
      BY <1>5, <2>1, <3>2
    <3>4. QED
      BY <2>3, <3>3
  <2>4. CASE ~(IsTrun(e) \/ (e \notin Headers /\ Open(o)))
    BY <1>5, <1>6, <2>1, <2>2, <2>4
  <2>5. QED
    BY <2>3, <2>4
<1> HIDE DEF I, J
<1>8. Picked(o, I) \in Seq(TomlLines)
  BY <1>4, PickedFacts
<1>9. Picked(p, I) = Picked(o, I) /\ Picked(p, I \cup {n + 1}) = Append(Picked(o, I), e)
  <2>1. Picked(Append(o, e), I) = Picked(o, I) /\ Picked(Append(o, e), I \cup {Len(o) + 1}) = Append(Picked(o, I), e)
    BY <1>4, PickedAppend
  <2>2. QED
    BY <1>0, <2>1
<1>10. QED
  BY <1>0, <1>3, <1>7, <1>8, <1>9

-----------------------------------------------------------------------------
(* The edit of a Codex file, line by line.                                 *)
EditStates == [out : Seq(TomlLines), inBlock : BOOLEAN, enabledWritten : BOOLEAN]
EditStart == [out |-> <<>>, inBlock |-> FALSE, enabledWritten |-> FALSE]

(* What was edited so far stands for the lines that were read.             *)
EditFits(s, read, on) ==
  /\ s.inBlock <=> Open(read)
  /\ Open(s.out) <=> Open(read)
  /\ Outside(s.out) = Outside(read)
  /\ HasTrun(read) => HasTrun(s.out)
  /\ on => \A i \in Block(s.out) : s.out[i] \notin EnabledLines
  /\ ~on /\ s.enabledWritten => \E i \in Block(s.out) : s.out[i] = Off
  /\ ~on /\ ~s.enabledWritten /\ HasTrun(read) => s.inBlock

(* Two lines are one line and another.                                     *)
LEMMA TwoMore ==
  ASSUME NEW S, NEW s \in Seq(S), NEW a \in S, NEW b \in S
  PROVE  s \o <<a, b>> = Append(Append(s, a), b)
<1>1. <<a>> \in Seq(S) /\ <<a, b>> \in Seq(S)
  OBVIOUS
<1>2. Append(<<a>>, b) = <<a, b>>
  <2>1. Append(<<a>>, b) \in Seq(S) /\ Len(Append(<<a>>, b)) = 2 /\ Len(<<a, b>>) = 2
    BY <1>1
  <2>2. \A k \in 1..2 : Append(<<a>>, b)[k] = <<a, b>>[k]
    BY <1>1
  <2>3. QED
    BY <1>1, <2>1, <2>2, SameSeq
<1>3. s \o <<a>> = Append(s, a)
  OBVIOUS
<1>4. s \o Append(<<a>>, b) = Append(s \o <<a>>, b)
  BY <1>1, ConcatRules
<1>5. QED
  BY <1>2, <1>3, <1>4

(* The line that disables is one of them, and belongs to an open table.    *)
LEMMA OffFacts ==
  ASSUME NEW o \in Seq(TomlLines), Open(o)
  PROVE  /\ Append(o, Off) \in Seq(TomlLines) /\ Open(Append(o, Off))
         /\ Outside(Append(o, Off)) = Outside(o)
         /\ HasTrun(Append(o, Off)) <=> HasTrun(o)
         /\ Block(Append(o, Off)) = Block(o) \cup {Len(o) + 1}
         /\ Append(o, Off)[Len(o) + 1] = Off
<1>1. Off \in TomlLines /\ Off \notin Headers /\ ~IsTrun(Off)
  BY DEF Off, TomlLines, EnabledLines, Headers, IsTrun
<1>2. Append(o, Off) \in Seq(TomlLines) /\ Append(o, Off)[Len(o) + 1] = Off
  BY <1>1, AppendFacts
<1>3. QED
  BY <1>1, <1>2, OpenAppend, BlockAppend, OutsideAppend

(* What is in the table stays in it when a line is added.                  *)
LEMMA BlockStays ==
  ASSUME NEW o \in Seq(TomlLines), NEW e \in TomlLines
  PROVE  /\ Append(o, e) \in Seq(TomlLines) /\ Append(o, e)[Len(o) + 1] = e
         /\ \A i \in Block(o) : i \in Block(Append(o, e)) /\ Append(o, e)[i] = o[i]
<1>1. Block(o) \subseteq 1..Len(o) /\ Block(o) \subseteq Block(Append(o, e))
  BY BlockAppend
<1>2. \A i \in 1..Len(o) : Append(o, e)[i] = o[i]
  BY AppendFacts
<1>3. Append(o, e) \in Seq(TomlLines) /\ Append(o, e)[Len(o) + 1] = e
  BY AppendFacts
<1>4. QED
  BY <1>1, <1>2, <1>3

(* One line more keeps them fitting.                                       *)
LEMMA EditLineFits ==
  ASSUME NEW s \in EditStates, NEW read \in Seq(TomlLines), NEW e \in TomlLines, NEW on \in BOOLEAN,
         EditFits(s, read, on)
  PROVE  EditLine(s, e, on) \in EditStates /\ EditFits(EditLine(s, e, on), Append(read, e), on)
<1> DEFINE t == EditLine(s, e, on) o == s.out r == Append(read, e)
<1>0. o \in Seq(TomlLines) /\ s.inBlock \in BOOLEAN /\ s.enabledWritten \in BOOLEAN
  BY DEF EditStates
<1>1. s = [out |-> o, inBlock |-> s.inBlock, enabledWritten |-> s.enabledWritten]
  BY DEF EditStates
<1>2. /\ e \in Headers => (Open(r) <=> IsTrun(e))
      /\ e \notin Headers => (Open(r) <=> Open(read))
      /\ HasTrun(r) <=> HasTrun(read) \/ IsTrun(e)
  BY OpenAppend
<1>3. Outside(r) = IF IsTrun(e) \/ (e \notin Headers /\ Open(read)) THEN Outside(read)
                   ELSE Append(Outside(read), e)
  BY OutsideAppend
<1>4. IsTrun(e) => e \in Headers
  BY DEF IsTrun, Headers
<1>5. IsTrun(e) \in BOOLEAN
  BY DEF IsTrun
<1> HIDE DEF o, r
<1>6. CASE e \in Headers
  <2> DEFINE closes == s.inBlock /\ ~on /\ ~s.enabledWritten
             q == IF closes THEN Append(o, Off) ELSE o
  <2>1. t = [out |-> Append(q, e), inBlock |-> IsTrun(e), enabledWritten |-> s.enabledWritten \/ closes]
    <3>1. o \o <<Off, e>> = Append(Append(o, Off), e)
      <4>1. Off \in TomlLines
        BY DEF Off, TomlLines, EnabledLines
      <4>2. QED
        BY <1>0, <4>1, TwoMore
    <3>2. o \o <<e>> = Append(o, e)
      BY <1>0
    <3>3. QED
      BY <1>6, <3>1, <3>2 DEF EditLine, o
  <2>2. q \in Seq(TomlLines) /\ (Open(q) <=> Open(o)) /\ Outside(q) = Outside(o) /\ (HasTrun(q) <=> HasTrun(o))
    <3>1. CASE closes
      <4>1. Open(o)
        BY <3>1 DEF EditFits, o
      <4>2. QED
        BY <1>0, <3>1, <4>1, OffFacts
    <3>2. CASE ~closes
      BY <1>0, <3>2
    <3>3. QED
      BY <3>1, <3>2
  <2>3. ~on /\ (s.enabledWritten \/ closes) => \E i \in Block(q) : q[i] = Off
    <3>1. CASE closes
      <4>1. Open(o)
        BY <3>1 DEF EditFits, o
      <4>2. QED
        BY <1>0, <3>1, <4>1, OffFacts
    <3>2. CASE ~closes
      BY <3>2 DEF EditFits, o
    <3>3. QED
      BY <3>1, <3>2
  <2>4. on => q = o /\ \A i \in Block(q) : q[i] \notin EnabledLines
    BY DEF EditFits, o
  <2> HIDE DEF q
  <2>5. t \in EditStates
    <3>1. Append(q, e) \in Seq(TomlLines)
      BY <2>2
    <3>2. (s.enabledWritten \/ closes) \in BOOLEAN
      BY <1>0
    <3> HIDE DEF t, closes
    <3>3. QED
      BY <1>5, <2>1, <3>1, <3>2 DEF EditStates
  <2>6. /\ Open(Append(q, e)) <=> IsTrun(e)
        /\ HasTrun(Append(q, e)) <=> HasTrun(q) \/ IsTrun(e)
        /\ Block(Append(q, e)) = Block(q)
        /\ Outside(Append(q, e)) = IF IsTrun(e) THEN Outside(q) ELSE Append(Outside(q), e)
    BY <1>6, <2>2, OpenAppend, BlockAppend, OutsideAppend
  <2>7. \A i \in Block(q) : Append(q, e)[i] = q[i]
    BY <2>2, BlockStays
  <2>8. EditFits(t, r, on)
    <3>1. t.out = Append(q, e) /\ t.inBlock = IsTrun(e) /\ t.enabledWritten = (s.enabledWritten \/ closes)
      BY <2>1
    <3> HIDE DEF t
    <3>2. t.inBlock <=> Open(r)
      BY <1>2, <1>6, <3>1
    <3>3. Open(t.out) <=> Open(r)
      BY <1>2, <1>6, <2>6, <3>1
    <3>4. Outside(t.out) = Outside(r)
      BY <1>3, <1>6, <2>2, <2>6, <3>1 DEF EditFits, o
    <3>5. HasTrun(r) => HasTrun(t.out)
      BY <1>2, <2>2, <2>6, <3>1 DEF EditFits, o
    <3>6. on => \A i \in Block(t.out) : t.out[i] \notin EnabledLines
      BY <2>4, <2>6, <2>7, <3>1
    <3>7. ~on /\ t.enabledWritten => \E i \in Block(t.out) : t.out[i] = Off
      BY <2>3, <2>6, <2>7, <3>1
    <3>8. ~on /\ ~t.enabledWritten /\ HasTrun(r) => t.inBlock
      BY <1>2, <3>1 DEF EditFits
    <3>9. QED
      BY <3>2, <3>3, <3>4, <3>5, <3>6, <3>7, <3>8 DEF EditFits
  <2>9. QED
    BY <2>5, <2>8 DEF r
<1>7. CASE e \notin Headers /\ s.inBlock /\ e \in EnabledLines /\ on
  <2>1. t = s
    BY <1>7 DEF EditLine
  <2>2. Open(read) /\ ~IsTrun(e)
    BY <1>4, <1>7 DEF EditFits
  <2> HIDE DEF t
  <2>3. EditFits(t, r, on)
    BY <1>2, <1>3, <1>7, <2>1, <2>2 DEF EditFits
  <2>4. QED
    BY <2>1, <2>3 DEF r, t
<1>8. CASE e \notin Headers /\ s.inBlock /\ e \in EnabledLines /\ ~on
  <2>1. t = [out |-> Append(o, Off), inBlock |-> s.inBlock, enabledWritten |-> TRUE]
    BY <1>1, <1>8 DEF EditLine, o
  <2>2. Open(read) /\ ~IsTrun(e) /\ Open(o)
    BY <1>4, <1>8 DEF EditFits, o
  <2>3. /\ Append(o, Off) \in Seq(TomlLines) /\ Open(Append(o, Off))
        /\ Outside(Append(o, Off)) = Outside(o)
        /\ HasTrun(Append(o, Off)) <=> HasTrun(o)
        /\ \E i \in Block(Append(o, Off)) : Append(o, Off)[i] = Off
    BY <1>0, <2>2, OffFacts
  <2>4. t \in EditStates
    BY <1>0, <2>1, <2>3 DEF EditStates
  <2>5. t.out = Append(o, Off) /\ t.inBlock = s.inBlock /\ t.enabledWritten = TRUE
    BY <2>1
  <2> HIDE DEF t
  <2>6. EditFits(t, r, on)
    BY <1>2, <1>3, <1>8, <2>2, <2>3, <2>5 DEF EditFits, o
  <2>7. QED
    BY <2>4, <2>6 DEF r, t
<1>9. CASE e \notin Headers /\ ~(s.inBlock /\ e \in EnabledLines)
  <2>1. t = [out |-> Append(o, e), inBlock |-> s.inBlock, enabledWritten |-> s.enabledWritten]
    BY <1>1, <1>9 DEF EditLine, o
  <2>2. ~IsTrun(e)
    BY <1>4, <1>9
  <2>3. /\ Append(o, e) \in Seq(TomlLines)
        /\ Open(Append(o, e)) <=> Open(o)
        /\ HasTrun(Append(o, e)) <=> HasTrun(o)
        /\ Outside(Append(o, e)) = IF Open(o) THEN Outside(o) ELSE Append(Outside(o), e)
        /\ Block(Append(o, e)) = IF Open(o) THEN Block(o) \cup {Len(o) + 1} ELSE Block(o)
    BY <1>0, <1>9, <2>2, BlockStays, OpenAppend, OutsideAppend, BlockAppend
  <2>4. /\ Append(o, e)[Len(o) + 1] = e
        /\ \A i \in Block(o) : i \in Block(Append(o, e)) /\ Append(o, e)[i] = o[i]
    BY <1>0, BlockStays
  <2>5. t \in EditStates
    BY <1>0, <2>1, <2>3 DEF EditStates
  <2>6. t.out = Append(o, e) /\ t.inBlock = s.inBlock /\ t.enabledWritten = s.enabledWritten
    BY <2>1
  <2> HIDE DEF t
  <2>7. EditFits(t, r, on)
    <3>1. (s.inBlock <=> Open(read)) /\ (Open(o) <=> Open(read)) /\ Outside(o) = Outside(read)
      BY DEF EditFits, o
    <3>2. on => \A i \in Block(t.out) : t.out[i] \notin EnabledLines
      BY <1>9, <2>3, <2>4, <2>6, <3>1 DEF EditFits, o
    <3>3. ~on /\ t.enabledWritten => \E i \in Block(t.out) : t.out[i] = Off
      BY <2>4, <2>6 DEF EditFits, o
    <3>4. (t.inBlock <=> Open(r)) /\ (Open(t.out) <=> Open(r)) /\ Outside(t.out) = Outside(r)
      BY <1>2, <1>3, <1>9, <2>2, <2>3, <2>6, <3>1
    <3>5. (HasTrun(r) => HasTrun(t.out)) /\ (~on /\ ~t.enabledWritten /\ HasTrun(r) => t.inBlock)
      BY <1>2, <2>2, <2>3, <2>6 DEF EditFits, o
    <3>6. QED
      BY <3>2, <3>3, <3>4, <3>5 DEF EditFits
  <2>8. QED
    BY <2>5, <2>7 DEF r, t
<1>10. QED
  BY <1>6, <1>7, <1>8, <1>9

-----------------------------------------------------------------------------
(* The whole edit: what is not trun's stays, and the table says what it    *)
(* was told.                                                               *)
LEMMA EditedFacts ==
  ASSUME NEW lines \in Seq(TomlLines), NEW on \in BOOLEAN, HasTrun(lines),
         NEW e, e = Edited(lines, on)
  PROVE  /\ e \in Seq(TomlLines) /\ Outside(e) = Outside(lines) /\ HasTrun(e)
         /\ on => \A i \in Block(e) : e[i] \notin EnabledLines
         /\ ~on => \E i \in Block(e) : e[i] = Off
<1> DEFINE N == Len(lines)
           Rec(g) == [n \in 0..N |-> IF n = 0 THEN EditStart ELSE EditLine(g[n - 1], lines[n], on)]
           u == CHOOSE g : g = Rec(g)
           pre(n) == SubSeq(lines, 1, n)
<1>0. N \in Nat
  OBVIOUS
<1>1. EditStart \in EditStates
  BY DEF EditStart, EditStates
<1>2. ASSUME NEW n \in 0..(N - 1)
      PROVE  /\ pre(n) \in Seq(TomlLines) /\ lines[n + 1] \in TomlLines
             /\ pre(n + 1) = Append(pre(n), lines[n + 1])
  <2>1. n \in 0..N /\ n + 1 \in 1..N
    BY <1>0
  <2>2. pre(n) \in Seq(TomlLines) /\ lines[n + 1] \in TomlLines
    BY <2>1
  <2>3. pre(n + 1) = Append(pre(n), lines[n + 1])
    BY <2>1
  <2>4. QED
    BY <2>2, <2>3
<1>3. ASSUME NEW s \in EditStates, NEW line \in TomlLines PROVE EditLine(s, line, on) \in EditStates
  <2>1. s.out \in Seq(TomlLines) /\ s.inBlock \in BOOLEAN /\ s.enabledWritten \in BOOLEAN
        /\ s = [out |-> s.out, inBlock |-> s.inBlock, enabledWritten |-> s.enabledWritten]
    BY DEF EditStates
  <2>2. Off \in TomlLines /\ IsTrun(line) \in BOOLEAN
    <3>1. Off \in TomlLines
      BY DEF Off, TomlLines, EnabledLines
    <3>2. IsTrun(line) \in BOOLEAN
      BY DEF IsTrun
    <3>3. QED
      BY <3>1, <3>2
  <2>3. /\ s.out \o <<Off, line>> \in Seq(TomlLines) /\ s.out \o <<line>> \in Seq(TomlLines)
        /\ Append(s.out, Off) \in Seq(TomlLines) /\ Append(s.out, line) \in Seq(TomlLines)
    BY <2>1, <2>2
  <2>4. CASE line \in Headers
    BY <2>1, <2>2, <2>3, <2>4 DEF EditLine, EditStates
  <2>5. CASE line \notin Headers /\ s.inBlock /\ line \in EnabledLines
    <3>1. EditLine(s, line, on) \in
            {s, [out |-> Append(s.out, Off), inBlock |-> s.inBlock, enabledWritten |-> TRUE]}
      <4>1. CASE on
        BY <2>5, <4>1 DEF EditLine
      <4>2. CASE ~on
        BY <2>1, <2>5, <4>2 DEF EditLine
      <4>3. QED
        BY <4>1, <4>2
    <3>2. [out |-> Append(s.out, Off), inBlock |-> s.inBlock, enabledWritten |-> TRUE] \in EditStates
      BY <2>1, <2>3 DEF EditStates
    <3>3. QED
      BY <3>1, <3>2
  <2>6. CASE line \notin Headers /\ ~(s.inBlock /\ line \in EnabledLines)
    <3>1. EditLine(s, line, on) =
            [out |-> Append(s.out, line), inBlock |-> s.inBlock, enabledWritten |-> s.enabledWritten]
      BY <2>1, <2>6 DEF EditLine
    <3>2. QED
      BY <2>1, <2>3, <3>1 DEF EditStates
  <2>7. QED
    BY <2>4, <2>5, <2>6
<1>4. u = Rec(u)
  <2> DEFINE step == [n \in 1..N |-> [s \in EditStates |-> EditLine(s, lines[n], on)]]
  <2>1. \A n \in 1..N : lines[n] \in TomlLines
    BY <1>0
  <2>2. step \in [1..N -> [EditStates -> EditStates]]
    BY <1>3, <2>1
  <2>0. \E g : Results(g, N, EditStates, EditStart, step)
    <3> HIDE DEF step, N
    <3>1. QED
      BY <1>0, <1>1, <2>2, StepsFrom
  <2>3. PICK h : /\ h \in [0..N -> EditStates] /\ h[0] = EditStart
                 /\ \A n \in 1..N : h[n] = step[n][h[n - 1]]
    BY <2>0 DEF Results
  <2>4. ASSUME NEW n \in 1..N PROVE h[n] = EditLine(h[n - 1], lines[n], on)
    <3>1. h[n - 1] \in EditStates
      BY <1>0, <2>3
    <3>2. QED
      BY <2>3, <3>1
  <2>5. h = Rec(h)
    <3>1. h = [n \in 0..N |-> h[n]]
      BY <2>3
    <3>2. ASSUME NEW n \in 0..N PROVE h[n] = Rec(h)[n]
      <4>1. CASE n = 0
        BY <2>3, <4>1
      <4>2. CASE n \in 1..N
        BY <2>4, <4>2
      <4>3. QED
        BY <1>0, <4>1, <4>2
    <3>3. QED
      BY <3>1, <3>2
  <2>6. QED
    BY <2>5
<1> DEFINE end == u[N]
<1>5. e = IF end.inBlock /\ ~on /\ ~end.enabledWritten THEN Append(end.out, Off) ELSE end.out
  BY DEF Edited, EditStart
<1> HIDE DEF u
<1>6. u[0] = EditStart
  BY <1>0, <1>4
<1>7. \A n \in 1..N : u[n] = EditLine(u[n - 1], lines[n], on)
  <2> SUFFICES ASSUME NEW n \in 1..N PROVE u[n] = EditLine(u[n - 1], lines[n], on)
    OBVIOUS
  <2>1. n \in 0..N /\ n # 0
    BY <1>0
  <2>2. Rec(u)[n] = EditLine(u[n - 1], lines[n], on)
    BY <2>1
  <2> HIDE DEF Rec
  <2>3. QED
    BY <1>4, <2>2
<1> DEFINE I == {n \in Nat : n <= N => u[n] \in EditStates /\ EditFits(u[n], pre(n), on)}
<1>8. 0 \in I
  <2>1. pre(0) = <<>> /\ EditStart.out = <<>> /\ EditStart.inBlock = FALSE /\ EditStart.enabledWritten = FALSE
    BY DEF EditStart
  <2>2. ~Open(<<>>) /\ ~HasTrun(<<>>) /\ Block(<<>>) = {}
    BY DEF Open, HasTrun, Block
  <2>3. EditFits(EditStart, pre(0), on)
    BY <2>1, <2>2 DEF EditFits
  <2>4. QED
    BY <1>1, <1>6, <2>3
<1>9. ASSUME NEW n \in Nat, n \in I PROVE n + 1 \in I
  <2> SUFFICES ASSUME n + 1 <= N PROVE u[n + 1] \in EditStates /\ EditFits(u[n + 1], pre(n + 1), on)
    OBVIOUS
  <2>1. n \in 0..(N - 1) /\ n + 1 \in 1..N /\ (n + 1) - 1 = n
    BY <1>0
  <2>2. u[n] \in EditStates /\ EditFits(u[n], pre(n), on)
    BY <1>0, <1>9, <2>1
  <2>3. u[n + 1] = EditLine(u[n], lines[n + 1], on)
    BY <1>7, <2>1
  <2>4. /\ pre(n) \in Seq(TomlLines) /\ lines[n + 1] \in TomlLines
        /\ pre(n + 1) = Append(pre(n), lines[n + 1])
    BY <1>2, <2>1
  <2> HIDE DEF pre
  <2>5. QED
    BY <2>2, <2>3, <2>4, EditLineFits
<1> HIDE DEF I
<1>10. Nat \subseteq I
  BY <1>8, <1>9, NatSet
<1>11. end \in EditStates /\ EditFits(end, lines, on)
  <2>1. pre(N) = lines
    BY <1>0
  <2>2. end \in EditStates /\ EditFits(end, pre(N), on)
    BY <1>0, <1>10 DEF I
  <2>3. QED
    BY <2>1, <2>2
<1> HIDE DEF end
<1>12. end.out \in Seq(TomlLines)
  BY <1>11 DEF EditStates
<1>13. CASE end.inBlock /\ ~on /\ ~end.enabledWritten
  <2>1. e = Append(end.out, Off) /\ Open(end.out)
    BY <1>5, <1>11, <1>13 DEF EditFits
  <2>2. /\ e \in Seq(TomlLines) /\ Outside(e) = Outside(end.out) /\ (HasTrun(e) <=> HasTrun(end.out))
        /\ \E i \in Block(e) : e[i] = Off
    BY <1>12, <2>1, OffFacts
  <2>3. QED
    BY <1>11, <1>13, <2>2 DEF EditFits
<1>14. CASE ~(end.inBlock /\ ~on /\ ~end.enabledWritten)
  <2>1. e = end.out
    BY <1>5, <1>14
  <2>2. QED
    BY <1>11, <1>12, <1>14, <2>1 DEF EditFits
<1>15. QED
  BY <1>13, <1>14

-----------------------------------------------------------------------------
(* The files an agent can have.                                            *)
TomlFile == {<<"toml", lines>> : lines \in Seq(TomlLines)}
AgentFiles == IF agent = "codex" THEN {Missing} \cup TomlFile ELSE {Missing, Damaged} \cup JsonFiles
AgentsFit == agent \in {"claude", "junie", "opencode", "codex"} /\ content \in AgentFiles

(* A request is served by a file: what AskedIsDone says of it.             *)
Serves(asked, f) ==
  ToSet(LinesOf(f)) \cap Headers \subseteq {"[other]"} \/ Installed(f) =>
    /\ asked \in {"install", "enable"} /\ f # Damaged => Installed(f)
    /\ asked = "enable" => Enabled(f)
    /\ asked = "disable" => ~Enabled(f)

(* What is not trun's in one file is in another.                           *)
Respects(f, g) ==
  /\ f[1] = "json" => g[1] = "json" /\ g[4] = f[4]
  /\ f[1] = "toml" => LET was == Outside(f[2]) IN was = Outside(g[2])

(* A JSON file is told by its parts.                                       *)
LEMMA JsonIs ==
  ASSUME NEW e, NEW n, NEW o
  PROVE  /\ Json(e, n, o)[1] = "json" /\ Json(e, n, o)[2] = e /\ Json(e, n, o)[3] = n
         /\ Json(e, n, o)[4] = o /\ Json(e, n, o) # Damaged /\ Json(e, n, o) # Missing
BY DEF Json, Damaged, Missing

(* A Codex file is told by its lines.                                      *)
LEMMA TomlIs ==
  ASSUME NEW l, NEW f, f = <<"toml", l>>
  PROVE  f[1] = "toml" /\ f[2] = l /\ f # Damaged /\ f # Missing /\ LinesOf(f) = l
BY DEF Damaged, Missing, LinesOf

(* The parts of a JSON file; without an entry nothing is said of           *)
(* "enabled".                                                              *)
LEMMA JsonFilesAre ==
  ASSUME NEW f \in JsonFiles
  PROVE  /\ f[1] = "json" /\ f[2] \in BOOLEAN /\ f[3] \in {"unsaid", "true", "false"} /\ f[4] \in BOOLEAN
         /\ f = Json(f[2], f[3], f[4])
         /\ ~f[2] => f[3] = "unsaid"
<1>1. PICK t \in TrunEntries, o \in BOOLEAN : f = Json(t[1], t[2], o)
  BY DEF JsonFiles
<1>2. t[1] \in BOOLEAN /\ t[2] \in {"unsaid", "true", "false"} /\ (~t[1] => t[2] = "unsaid")
  <2>1. CASE t = <<FALSE, "unsaid">>
    <3>1. t[1] = FALSE /\ t[2] = "unsaid"
      BY <2>1
    <3>2. QED
      BY <3>1
  <2>2. CASE t \in {TRUE} \X {"unsaid", "true", "false"}
    <3>1. t[1] = TRUE /\ t[2] \in {"unsaid", "true", "false"}
      BY <2>2
    <3>2. QED
      BY <3>1
  <2>3. QED
    BY <2>1, <2>2 DEF TrunEntries
<1>3. f[1] = "json" /\ f[2] = t[1] /\ f[3] = t[2] /\ f[4] = o
  BY <1>1, JsonIs
<1>4. QED
  BY <1>1, <1>2, <1>3

(* What is put together of such parts is one.                              *)
LEMMA JsonIn ==
  ASSUME NEW e \in BOOLEAN, NEW n \in {"unsaid", "true", "false"}, NEW o \in BOOLEAN, ~e => n = "unsaid"
  PROVE  Json(e, n, o) \in JsonFiles
<1>1. <<e, n>> \in TrunEntries
  BY DEF TrunEntries
<1>2. <<e, n>>[1] = e /\ <<e, n>>[2] = n
  OBVIOUS
<1>3. QED
  BY <1>1, <1>2 DEF JsonFiles

(* A reply that tells of no change.                                        *)
LEMMA UnchangedKeeps ==
  ASSUME AgentsFit, agent' = agent, NEW asked, NEW ok \in BOOLEAN,
         Unchanged(asked, ok), ok => Serves(asked, content)
  PROVE  AgentsFit' /\ AgentFilesKept'
<1>1. reply' = Returned(asked, ok) /\ content' = content
  BY DEF Unchanged
<1>2. reply'.asked = asked /\ reply'.ok = ok /\ reply'.before = content /\ ~reply'.fault
  BY <1>1 DEF Returned
<1>3. OthersAreKept'
  BY <1>1, <1>2 DEF OthersAreKept
<1>4. AskedIsDone'
  <2> SUFFICES ASSUME ok PROVE Serves(asked, content)'
    BY <1>2 DEF AskedIsDone, Serves
  <2>1. QED
    BY <1>1 DEF Serves, Installed, Enabled, HasEntry
<1>5. NothingIsLost'
  BY <1>1, <1>2 DEF NothingIsLost
<1>6. AgentsFit'
  BY <1>1 DEF AgentsFit, AgentFiles
<1>7. QED
  BY <1>3, <1>4, <1>5, <1>6 DEF AgentFilesKept

(* Nor one of a file that cannot be read.                                  *)
LEMMA UnreadableKeeps ==
  ASSUME AgentsFit, agent' = agent, NEW asked, NEW ok \in BOOLEAN, Unreadable(asked, ok)
  PROVE  AgentsFit' /\ AgentFilesKept'
<1>1. reply' = [Returned(asked, ok) EXCEPT !.fault = TRUE] /\ content' = content
  BY DEF Unreadable
<1>2. reply'.before = content /\ reply'.fault
  BY <1>1 DEF Returned
<1>3. OthersAreKept' /\ AskedIsDone'
  BY <1>2 DEF OthersAreKept, AskedIsDone
<1>4. NothingIsLost'
  BY <1>1, <1>2 DEF NothingIsLost
<1>5. AgentsFit'
  BY <1>1 DEF AgentsFit, AgentFiles
<1>6. QED
  BY <1>3, <1>4, <1>5 DEF AgentFilesKept

(* What is left of a file is one.                                          *)
LEMMA TornIn ==
  ASSUME NEW new \in AgentFiles, new # Missing, new # Damaged, NEW f \in Torn(new)
  PROVE  f \in AgentFiles
<1>1. CASE agent = "codex"
  <2>1. new \in TomlFile
    BY <1>1 DEF AgentFiles
  <2>2. PICK lines \in Seq(TomlLines) : new = <<"toml", lines>>
    BY <2>1 DEF TomlFile
  <2>3. new[1] = "toml" /\ new[2] = lines
    BY <2>2
  <2>4. PICK n \in 0..(Len(lines) - 1) : f = <<"toml", SubSeq(lines, 1, n)>>
    BY <2>3 DEF Torn
  <2>5. SubSeq(lines, 1, n) \in Seq(TomlLines)
    <3>1. n \in 0..Len(lines)
      OBVIOUS
    <3>2. QED
      BY <3>1
  <2>6. f \in TomlFile
    BY <2>4, <2>5 DEF TomlFile
  <2>7. QED
    BY <1>1, <2>6 DEF AgentFiles
<1>2. CASE agent # "codex"
  <2>1. new \in JsonFiles
    BY <1>2 DEF AgentFiles
  <2>2. f = Damaged
    BY <2>1, JsonFilesAre DEF Torn
  <2>3. QED
    BY <1>2, <2>2 DEF AgentFiles
<1>3. QED
  BY <1>1, <1>2

(* A write, whole, cut short or refused.                                   *)
LEMMA WrittenKeeps ==
  ASSUME AgentsFit, agent' = agent, NEW asked, NEW new \in AgentFiles, new # Missing, new # Damaged,
         content # Damaged, Respects(content, new), Serves(asked, new), Written(asked, new)
  PROVE  AgentsFit' /\ AgentFilesKept'
<1>1. CASE backupFile /\ content' = new /\ reply' = Returned(asked, TRUE)
  <2>1. reply'.asked = asked /\ reply'.before = content /\ ~reply'.fault
    BY <1>1 DEF Returned
  <2>2. OthersAreKept'
    BY <1>1, <2>1 DEF OthersAreKept, Respects
  <2>3. AskedIsDone'
    <3>1. Serves(asked, content)'
      BY <1>1 DEF Serves, Installed, Enabled, HasEntry
    <3>2. QED
      BY <2>1, <3>1 DEF AskedIsDone, Serves
  <2>4. NothingIsLost'
    BY <1>1, <2>1 DEF NothingIsLost, backupFile
  <2>5. AgentsFit'
    BY <1>1 DEF AgentsFit, AgentFiles
  <2>6. QED
    BY <2>2, <2>3, <2>4, <2>5 DEF AgentFilesKept
<1>2. CASE /\ backupFile /\ content' \in Torn(new)
           /\ reply' = [Returned(asked, TRUE) EXCEPT !.fault = TRUE]
  <2>1. reply'.before = content /\ reply'.fault
    BY <1>2 DEF Returned
  <2>2. OthersAreKept' /\ AskedIsDone'
    BY <2>1 DEF OthersAreKept, AskedIsDone
  <2>3. NothingIsLost'
    BY <1>2, <2>1 DEF NothingIsLost, backupFile
  <2>4. content' \in AgentFiles
    BY <1>2, TornIn
  <2>5. AgentsFit'
    BY <2>4 DEF AgentsFit, AgentFiles
  <2>6. QED
    BY <2>2, <2>3, <2>5 DEF AgentFilesKept
<1>3. CASE content' = content /\ reply' = Returned(asked, FALSE)
  <2>1. reply'.before = content /\ ~reply'.fault /\ ~reply'.ok
    BY <1>3 DEF Returned
  <2>2. OthersAreKept' /\ AskedIsDone'
    BY <1>3, <2>1 DEF OthersAreKept, AskedIsDone
  <2>3. NothingIsLost'
    BY <1>3, <2>1 DEF NothingIsLost
  <2>4. AgentsFit'
    BY <1>3 DEF AgentsFit, AgentFiles
  <2>5. QED
    BY <2>2, <2>3, <2>4 DEF AgentFilesKept
<1>4. QED
  BY <1>1, <1>2, <1>3 DEF Written, Unchanged

-----------------------------------------------------------------------------
(* The agents with a JSON file.                                            *)
JsonAgent == agent \in {"claude", "junie", "opencode"}

(* An entry that serves what was asked.                                    *)
LEMMA EntryKeeps ==
  ASSUME AgentsFit, JsonAgent, agent' = agent, NEW asked \in {"install", "enable"},
         NEW n \in {"unsaid", "true", "false"}, NEW o \in BOOLEAN,
         content = Missing \/ (content \in JsonFiles /\ content[4] = o),
         asked = "enable" /\ agent = "opencode" => n # "false",
         Written(asked, Json(TRUE, n, o))
  PROVE  AgentsFit' /\ AgentFilesKept'
<1> DEFINE new == Json(TRUE, n, o)
<1>1. new[1] = "json" /\ new[2] = TRUE /\ new[3] = n /\ new[4] = o /\ new # Damaged /\ new # Missing
  BY DEF Json, Damaged, Missing
<1>2. new \in AgentFiles
  BY JsonIn DEF AgentFiles, JsonAgent
<1> HIDE DEF new
<1>3. content # Damaged /\ Respects(content, new)
  <2>1. CASE content = Missing
    BY <2>1 DEF Missing, Damaged, Respects
  <2>2. CASE content \in JsonFiles /\ content[4] = o
    <3>1. content[1] = "json"
      BY <2>2, JsonFilesAre
    <3>2. QED
      BY <1>1, <2>2, <3>1 DEF Damaged, Respects
  <2>3. QED
    BY <2>1, <2>2
<1>4. Installed(new)
  BY <1>1 DEF Installed, HasEntry
<1>5. asked = "enable" => Enabled(new)
  BY <1>1, <1>4 DEF Enabled
<1>6. Serves(asked, new)
  BY <1>4, <1>5 DEF Serves
<1>7. QED
  BY <1>1, <1>2, <1>3, <1>6, WrittenKeeps DEF new

(* An entry made in a JSON file (installJson).                             *)
LEMMA InstallJsonKeeps ==
  ASSUME AgentsFit, JsonAgent, agent' = agent, NEW asked \in {"install", "enable"},
         asked = "enable" /\ agent = "opencode" => content[1] = "json" /\ ~HasEntry(content),
         installJson(asked)
  PROVE  AgentsFit' /\ AgentFilesKept'
<1> DEFINE doc == JsonOf(content)
           enabled == IF agent # "opencode" THEN "unsaid"
                      ELSE IF doc[3] = "unsaid" THEN "true" ELSE doc[3]
<1>1. content \in {Missing, Damaged} \cup JsonFiles
  BY DEF AgentsFit, AgentFiles, JsonAgent
<1>2. CASE Parses(content) /\ Written(asked, Json(TRUE, enabled, doc[4]))
  <2>1. content # Damaged
    BY <1>2 DEF Parses, Damaged
  <2>2. CASE content = Missing
    <3>1. doc = Json(FALSE, "unsaid", FALSE)
      BY <2>2 DEF JsonOf
    <3>2. doc[3] = "unsaid" /\ doc[4] = FALSE
      BY <3>1 DEF Json
    <3>3. enabled \in {"unsaid", "true"}
      BY <3>2
    <3> HIDE DEF enabled, doc
    <3>4. QED
      BY <1>2, <2>2, <3>2, <3>3, EntryKeeps
  <2>3. CASE content \in JsonFiles
    <3>1. doc = content
      BY <2>1, <2>3, JsonFilesAre DEF JsonOf, Missing
    <3>2. /\ doc[3] \in {"unsaid", "true", "false"} /\ doc[4] \in BOOLEAN /\ content[4] = doc[4]
          /\ content[1] = "json" /\ (~content[2] => doc[3] = "unsaid")
      BY <2>3, <3>1, JsonFilesAre
    <3>3. enabled \in {"unsaid", "true", "false"}
      BY <3>2
    <3>4. asked = "enable" /\ agent = "opencode" => enabled # "false"
      BY <3>2 DEF HasEntry
    <3> HIDE DEF enabled, doc
    <3>5. QED
      BY <1>2, <2>3, <3>2, <3>3, <3>4, EntryKeeps
  <2>4. QED
    BY <1>1, <2>1, <2>2, <2>3
<1>3. CASE Unchanged(asked, FALSE)
  BY <1>3, UnchangedKeeps
<1>4. CASE Unreadable(asked, FALSE)
  BY <1>4, UnreadableKeeps
<1>5. QED
  BY <1>2, <1>3, <1>4 DEF installJson

(* What has no entry is not enabled.                                       *)
LEMMA NoEntryServes ==
  ASSUME NEW f, f[1] = "json", ~f[2]
  PROVE  Serves("disable", f)
BY DEF Serves, Enabled, Installed, HasEntry

(* An entry taken out of one (removeJsonEntry).                            *)
LEMMA RemoveKeeps ==
  ASSUME AgentsFit, JsonAgent, agent' = agent, removeJsonEntry("disable")
  PROVE  AgentsFit' /\ AgentFilesKept'
<1>1. content \in {Missing, Damaged} \cup JsonFiles
  BY DEF AgentsFit, AgentFiles, JsonAgent
<1>2. CASE /\ content[1] = "json" /\ HasEntry(content)
           /\ Written("disable", Json(FALSE, "unsaid", content[4]))
  <2>1. content \in JsonFiles /\ content # Damaged
    BY <1>1, <1>2 DEF Missing, Damaged
  <2>2. content[4] \in BOOLEAN
    BY <2>1, JsonFilesAre
  <2> DEFINE new == Json(FALSE, "unsaid", content[4])
  <2>3. new[1] = "json" /\ new[2] = FALSE /\ new[4] = content[4] /\ new # Damaged /\ new # Missing
    BY DEF Json, Damaged, Missing
  <2>4. new \in AgentFiles
    BY <2>2, JsonIn DEF AgentFiles, JsonAgent
  <2> HIDE DEF new
  <2>5. Respects(content, new)
    BY <1>2, <2>3 DEF Respects
  <2>6. Serves("disable", new)
    BY <2>3, NoEntryServes
  <2>7. QED
    BY <1>2, <2>1, <2>3, <2>4, <2>5, <2>6, WrittenKeeps DEF new
<1>3. CASE content[1] = "json" /\ ~HasEntry(content) /\ Unchanged("disable", TRUE)
  <2>1. ~content[2]
    BY <1>3 DEF HasEntry
  <2>2. QED
    BY <1>3, <2>1, NoEntryServes, UnchangedKeeps
<1>4. CASE Unchanged("disable", FALSE)
  BY <1>4, UnchangedKeeps
<1>5. QED
  BY <1>2, <1>3, <1>4 DEF removeJsonEntry

(* An entry of opencode's switched on or off (setOpencodeEnabled).         *)
LEMMA OpencodeKeeps ==
  ASSUME AgentsFit, agent = "opencode", agent' = agent, NEW asked \in {"enable", "disable"},
         setOpencodeEnabled(asked)
  PROVE  AgentsFit' /\ AgentFilesKept'
<1> DEFINE on == asked = "enable"
           n == IF on THEN "true" ELSE "false"
<1>0. JsonAgent
  BY DEF JsonAgent
<1>1. content \in {Missing, Damaged} \cup JsonFiles
  BY DEF AgentsFit, AgentFiles
<1>2. CASE content[1] = "json" /\ HasEntry(content) /\ Written(asked, Json(TRUE, n, content[4]))
  <2>1. content \in JsonFiles /\ content # Damaged
    BY <1>1, <1>2 DEF Missing, Damaged
  <2>2. content[4] \in BOOLEAN
    BY <2>1, JsonFilesAre
  <2> DEFINE new == Json(TRUE, n, content[4])
  <2>3. new[1] = "json" /\ new[2] = TRUE /\ new[3] = n /\ new[4] = content[4] /\ new # Damaged /\ new # Missing
    BY DEF Json, Damaged, Missing
  <2>4. new \in AgentFiles
    <3>1. n \in {"unsaid", "true", "false"}
      OBVIOUS
    <3> HIDE DEF n
    <3>2. QED
      BY <2>2, <3>1, JsonIn DEF AgentFiles
  <2> HIDE DEF new
  <2>5. Respects(content, new)
    BY <1>2, <2>3 DEF Respects
  <2>6. Serves(asked, new)
    <3>1. Installed(new)
      BY <2>3 DEF Installed, HasEntry
    <3>2. Enabled(new) <=> on
      BY <2>3, <3>1 DEF Enabled
    <3>3. QED
      BY <3>1, <3>2 DEF Serves
  <2>7. QED
    BY <1>2, <2>1, <2>3, <2>4, <2>5, <2>6, WrittenKeeps DEF new
<1>3. CASE content[1] = "json" /\ ~HasEntry(content) /\ on /\ installJson(asked)
  BY <1>0, <1>3, InstallJsonKeeps
<1>4. CASE content[1] = "json" /\ ~HasEntry(content) /\ ~on /\ Unchanged(asked, TRUE)
  <2>1. asked = "disable" /\ ~content[2]
    BY <1>4 DEF HasEntry
  <2>2. QED
    BY <1>4, <2>1, NoEntryServes, UnchangedKeeps
<1>5. CASE Unchanged(asked, FALSE)
  BY <1>5, UnchangedKeeps
<1>6. QED
  BY <1>2, <1>3, <1>4, <1>5 DEF setOpencodeEnabled

-----------------------------------------------------------------------------
(* Codex.                                                                  *)
LEMMA CodexFile ==
  ASSUME AgentsFit, agent = "codex"
  PROVE  /\ LinesOf(content) \in Seq(TomlLines) /\ content # Damaged
         /\ content # Missing => content = <<"toml", LinesOf(content)>>
         /\ content = Missing => LinesOf(content) = <<>>
<1>1. CASE content = Missing
  BY <1>1 DEF Missing, Damaged, LinesOf
<1>2. CASE content # Missing
  <2>1. PICK l \in Seq(TomlLines) : content = <<"toml", l>>
    BY <1>2 DEF AgentsFit, AgentFiles, TomlFile
  <2>2. LinesOf(content) = l /\ content # Damaged
    BY <2>1, TomlIs
  <2>3. QED
    BY <1>2, <2>1, <2>2
<1>3. QED
  BY <1>1, <1>2

(* Without trun's header there is no table of trun's.                      *)
LEMMA NoTable ==
  ASSUME NEW l \in Seq(TomlLines), ~HasTrun(l)
  PROVE  Block(l) = {} /\ ~Open(l)
<1>1. \A i \in DOMAIN l : 1..i \subseteq DOMAIN l
  OBVIOUS
<1>2. QED
  BY <1>1 DEF Block, InBlock, HasTrun, Open

(* Lines with a header of trun's in them serve when their table does.      *)
LEMMA CodexServes ==
  ASSUME agent = "codex", NEW asked, NEW l \in Seq(TomlLines), NEW f, f = <<"toml", l>>, HasTrun(l),
         asked = "enable" => \A i \in Block(l) : l[i] # "enabled = false",
         asked = "disable" => \E i \in Block(l) : l[i] = "enabled = false"
  PROVE  Serves(asked, f)
<1>1. f[1] = "toml" /\ f[2] = l /\ LinesOf(f) = l
  BY TomlIs
<1>2. ~(ToSet(l) \cap Headers \subseteq {"[other]"})
  <2>1. PICK i \in DOMAIN l : IsTrun(l[i])
    BY DEF HasTrun
  <2>2. l[i] \in ToSet(l)
    BY DEF ToSet
  <2>3. l[i] \in Headers /\ l[i] # "[other]"
    BY <2>1 DEF IsTrun, Headers
  <2>4. QED
    BY <2>2, <2>3
<1>3. Installed(f) <=> Block(l) # {}
  BY <1>1 DEF Installed
<1>4. Enabled(f) <=> Block(l) # {} /\ \A i \in Block(l) : l[i] # "enabled = false"
  BY <1>1, <1>3 DEF Enabled
<1>5. QED
  BY <1>1, <1>2, <1>3, <1>4 DEF Serves

(* A table put at the end of a Codex file (installCodex).                  *)
LEMMA InstallCodexKeeps ==
  ASSUME AgentsFit, agent = "codex", agent' = agent, NEW asked \in {"install", "enable"},
         asked = "enable" => ~HasTrun(LinesOf(content)),
         installCodex(asked)
  PROVE  AgentsFit' /\ AgentFilesKept'
<1> DEFINE l == LinesOf(content)
           e == l \o <<"[mcp_servers.trun]", "text">>
           new == <<"toml", e>>
<1>0. l \in Seq(TomlLines) /\ content # Damaged
  BY CodexFile
<1>1. CASE Alike(l) /\ Unchanged(asked, TRUE)
  <2>1. content # Missing
    BY <1>1, CodexFile DEF Alike
  <2>2. content[1] = "toml" /\ content[2] = l
    BY <2>1, CodexFile, TomlIs
  <2>3. ~(ToSet(l) \cap Headers \subseteq {"[other]"})
    <3>1. PICK i \in DOMAIN l : l[i] \in {"[mcp_servers.trun]", "[mcp_servers.trun.env]"}
      BY <1>1 DEF Alike
    <3>2. l[i] \in ToSet(l) /\ l[i] \in Headers /\ l[i] # "[other]"
      BY <3>1 DEF ToSet, Headers
    <3>3. QED
      BY <3>2
  <2>4. Installed(content) <=> Block(l) # {}
    BY <2>2 DEF Installed
  <2>5. asked = "enable" => ~Installed(content)
    BY <1>0, <2>4, NoTable
  <2>6. Serves(asked, content)
    BY <2>3, <2>5 DEF Serves
  <2>7. QED
    BY <1>1, <2>6, UnchangedKeeps
<1>2. CASE Written(asked, new)
  <2>1. "[mcp_servers.trun]" \in TomlLines /\ "text" \in TomlLines /\ "[mcp_servers.trun]" \in Headers
        /\ "text" \notin Headers /\ IsTrun("[mcp_servers.trun]") /\ ~IsTrun("text")
    BY DEF TomlLines, Headers, IsTrun
  <2> DEFINE h == Append(l, "[mcp_servers.trun]")
  <2>2. e = Append(h, "text")
    BY <1>0, <2>1, TwoMore
  <2>3. h \in Seq(TomlLines) /\ Open(h) /\ HasTrun(h) /\ Block(h) = Block(l) /\ Outside(h) = Outside(l)
    BY <1>0, <2>1, BlockStays, OpenAppend, BlockAppend, OutsideAppend
  <2> HIDE DEF h, e
  <2>4. /\ e \in Seq(TomlLines) /\ HasTrun(e) /\ Block(e) = Block(h) \cup {Len(h) + 1}
        /\ Outside(e) = Outside(h) /\ e[Len(h) + 1] = "text"
    BY <2>1, <2>2, <2>3, BlockStays, OpenAppend, BlockAppend, OutsideAppend
  <2>5. asked = "enable" => \A i \in Block(e) : e[i] # "enabled = false"
    <3>1. asked = "enable" => Block(l) = {}
      BY <1>0, NoTable
    <3>2. QED
      BY <2>3, <2>4, <3>1
  <2>6. new \in AgentFiles
    BY <2>4 DEF AgentFiles, TomlFile
  <2>7. new[1] = "toml" /\ new[2] = e /\ new # Damaged /\ new # Missing
    BY TomlIs
  <2>8. Serves(asked, new)
    BY <2>4, <2>5, CodexServes
  <2>9. Respects(content, new)
    <3>1. CASE content = Missing
      BY <3>1 DEF Missing, Respects
    <3>2. CASE content # Missing
      <4>1. content[1] = "toml" /\ content[2] = l
        BY <3>2, CodexFile, TomlIs
      <4>2. QED
        BY <2>3, <2>4, <2>7, <4>1 DEF Respects
    <3>3. QED
      BY <3>1, <3>2
  <2> HIDE DEF new
  <2>10. QED
    BY <1>0, <1>2, <2>6, <2>7, <2>8, <2>9, WrittenKeeps
<1>3. CASE Unreadable(asked, FALSE)
  BY <1>3, UnreadableKeeps
<1>4. QED
  BY <1>1, <1>2, <1>3 DEF installCodex

(* A table of one switched on or off (setCodexEnabled).                    *)
LEMMA SetCodexKeeps ==
  ASSUME AgentsFit, agent = "codex", agent' = agent, NEW asked \in {"enable", "disable"},
         setCodexEnabled(asked)
  PROVE  AgentsFit' /\ AgentFilesKept'
<1> DEFINE on == asked = "enable"
           l == LinesOf(content)
           e == Edited(l, on)
           new == <<"toml", e>>
<1>0. l \in Seq(TomlLines) /\ content # Damaged
  BY CodexFile
<1>1. CASE content # Missing /\ HasTrun(l) /\ Written(asked, new)
  <2>1. e = Edited(l, on) /\ on \in BOOLEAN /\ new = <<"toml", e>>
    OBVIOUS
  <2>2. /\ e \in Seq(TomlLines) /\ Outside(e) = Outside(l) /\ HasTrun(e)
        /\ on => \A i \in Block(e) : e[i] \notin EnabledLines
        /\ ~on => \E i \in Block(e) : e[i] = Off
    <3> HIDE DEF e, on, new, l
    <3>1. QED
      BY <1>0, <1>1, <2>1, EditedFacts
  <2> HIDE DEF e, new
  <2>3. new \in AgentFiles
    BY <2>1, <2>2 DEF AgentFiles, TomlFile
  <2>4. new[1] = "toml" /\ new[2] = e /\ new # Damaged /\ new # Missing
    BY <2>1, TomlIs
  <2>5. "enabled = false" \in EnabledLines /\ Off = "enabled = false"
    BY DEF EnabledLines, Off
  <2>6. Serves(asked, new)
    <3>1. asked = "enable" => \A i \in Block(e) : e[i] # "enabled = false"
      BY <2>2, <2>5
    <3>2. asked = "disable" => \E i \in Block(e) : e[i] = "enabled = false"
      BY <2>2, <2>5
    <3>3. QED
      BY <2>1, <2>2, <3>1, <3>2, CodexServes
  <2>7. content[1] = "toml" /\ content[2] = l
    BY <1>1, CodexFile, TomlIs
  <2>8. Respects(content, new)
    BY <2>2, <2>4, <2>7 DEF Respects
  <2>9. QED
    BY <1>0, <1>1, <2>3, <2>4, <2>6, <2>8, WrittenKeeps
<1>2. CASE ~HasTrun(l) /\ on /\ installCodex(asked)
  BY <1>2, InstallCodexKeeps
<1>3. CASE ~HasTrun(l) /\ ~on /\ Unchanged(asked, TRUE)
  <2>1. asked = "disable" /\ Block(l) = {}
    BY <1>0, <1>3, NoTable
  <2>2. ~Installed(content)
    <3>1. CASE content = Missing
      BY <3>1 DEF Missing, Installed
    <3>2. CASE content # Missing
      <4>1. content[1] = "toml" /\ content[2] = l
        BY <3>2, CodexFile, TomlIs
      <4>2. QED
        BY <2>1, <4>1 DEF Installed
    <3>3. QED
      BY <3>1, <3>2
  <2>3. Serves(asked, content)
    BY <2>1, <2>2 DEF Serves, Enabled
  <2>4. QED
    BY <1>3, <2>3, UnchangedKeeps
<1>4. CASE Unreadable(asked, ~on)
  <2>1. (~on) \in BOOLEAN
    OBVIOUS
  <2>2. QED
    BY <1>4, <2>1, UnreadableKeeps
<1>5. QED
  BY <1>1, <1>2, <1>3, <1>4 DEF setCodexEnabled, HasTrun

-----------------------------------------------------------------------------
(* It holds of the file that is found.                                     *)
LEMMA AgentsStart == AgentsInit => AgentsFit /\ AgentFilesKept
<1> SUFFICES ASSUME AgentsInit PROVE AgentsFit /\ AgentFilesKept
  OBVIOUS
<1>1. reply.asked = "nothing" /\ reply.before = content
  BY DEF AgentsInit
<1>2. OthersAreKept /\ AskedIsDone /\ NothingIsLost
  BY <1>1 DEF OthersAreKept, AskedIsDone, NothingIsLost
<1>3. TomlFiles \subseteq TomlFile
  <2>1. SeqOf(TomlLines, MaxTomlLines) \subseteq Seq(TomlLines)
    BY DEF SeqOf
  <2>2. QED
    BY <2>1 DEF TomlFiles, TomlFile
<1>4. AgentsFit
  BY <1>3 DEF AgentsInit, AgentsFit, AgentFiles
<1>5. QED
  BY <1>2, <1>4 DEF AgentFilesKept

(* And of what a request leaves.                                           *)
LEMMA AgentsStepKeeps ==
  ASSUME AgentsFit, AgentsNext
  PROVE  AgentsFit' /\ AgentFilesKept'
<1>0. agent' = agent /\ agent \in {"claude", "junie", "opencode", "codex"}
  BY DEF AgentsNext, AgentsFit
<1>1. agent # "codex" => JsonAgent
  BY <1>0 DEF JsonAgent
<1>2. CASE installAgent("install")
  <2>1. CASE agent = "codex"
    BY <1>0, <1>2, <2>1, InstallCodexKeeps DEF installAgent
  <2>2. CASE agent # "codex"
    BY <1>0, <1>1, <1>2, <2>2, InstallJsonKeeps DEF installAgent
  <2>3. QED
    BY <2>1, <2>2
<1>3. ASSUME NEW asked \in {"enable", "disable"}, setAgentEnabled(asked) PROVE AgentsFit' /\ AgentFilesKept'
  <2>1. CASE agent = "codex"
    <3>1. setCodexEnabled(asked)
      BY <1>3, <2>1 DEF setAgentEnabled
    <3>2. QED
      BY <1>0, <2>1, <3>1, SetCodexKeeps
  <2>2. CASE agent = "opencode"
    <3>1. setOpencodeEnabled(asked)
      BY <1>3, <2>2 DEF setAgentEnabled
    <3>2. QED
      BY <1>0, <2>2, <3>1, OpencodeKeeps
  <2>3. CASE agent \notin {"codex", "opencode"} /\ asked = "disable"
    <3>1. removeJsonEntry("disable")
      BY <1>3, <2>3 DEF setAgentEnabled
    <3>2. QED
      BY <1>0, <1>1, <2>3, <3>1, RemoveKeeps
  <2>4. CASE agent \notin {"codex", "opencode"} /\ asked = "enable"
    <3>1. installJson("enable")
      BY <1>3, <2>4 DEF setAgentEnabled, installAgent
    <3>2. QED
      BY <1>0, <1>1, <2>4, <3>1, InstallJsonKeeps
  <2>5. QED
    BY <2>1, <2>2, <2>3, <2>4
<1>4. QED
  BY <1>2, <1>3 DEF AgentsNext

(* The settings of the coding agents (mcpagents.cpp), for Codex files of   *)
(* any length: what is not trun's stays, what reports success is done, and *)
(* what a failure destroys is in the backup.                               *)
THEOREM AgentFilesAreKept == AgentsSpec => []AgentFilesKept
<1>1. AgentsFit /\ AgentFilesKept /\ [AgentsNext]_agentsVars => AgentsFit' /\ AgentFilesKept'
  <2> SUFFICES ASSUME AgentsFit, AgentFilesKept, [AgentsNext]_agentsVars
               PROVE  AgentsFit' /\ AgentFilesKept'
    OBVIOUS
  <2>1. CASE AgentsNext
    BY <2>1, AgentsStepKeeps
  <2>2. CASE UNCHANGED agentsVars
    <3>1. agent' = agent /\ content' = content /\ backup' = backup /\ reply' = reply
      BY <2>2 DEF agentsVars
    <3>2. AgentsFit'
      BY <3>1 DEF AgentsFit, AgentFiles
    <3>3. AgentFilesKept'
      BY <3>1 DEF AgentFilesKept, OthersAreKept, AskedIsDone, NothingIsLost, Installed, Enabled, HasEntry
    <3>4. QED
      BY <3>2, <3>3
  <2>3. QED
    BY <2>1, <2>2
<1>2. QED
  BY <1>1, AgentsStart, PTL DEF AgentsSpec
=============================================================================
