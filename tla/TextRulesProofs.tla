-------------------------- MODULE TextRulesProofs --------------------------
(***************************************************************************)
(* Proofs about TextRules, for every alphabet and every length of string:  *)
(* the runs examine strings of at most MaxLength characters.               *)
(***************************************************************************)
EXTENDS TextRules, FiniteSetTheorems, TLAPS

(* A set of positions that is not empty has a least element: the intervals
   1..i are finite sets, of which one includes no other. *)
LEMMA LeastPosition ==
  ASSUME NEW T, T \subseteq Nat, T # {}
  PROVE  \E i \in T : \A j \in T : i <= j
<1>. DEFINE Below == {1..i : i \in T}
<1>1. \A i \in T : 1..i \in FiniteSubsetsOf(Nat)
  BY FS_Interval DEF FiniteSubsetsOf
<1>2. Below \subseteq FiniteSubsetsOf(Nat) /\ Below # {}
  BY <1>1
<1>. HIDE DEF Below
<1>3. PICK b \in Below : \A d \in Below : <<d, b>> \notin StrictSubsetOrdering(Nat)
  BY <1>2, FS_StrictSubsetOrderingWellFounded, WFMin
<1>4. PICK i \in T : b = 1..i
  BY <1>3 DEF Below
<1>5. ASSUME NEW j \in T, j < i
      PROVE  FALSE
  <2>1. 1..j \in Below
    BY DEF Below
  <2>2. 1..j \subseteq 1..i /\ 1..j # 1..i /\ 1..j \subseteq Nat /\ 1..i \subseteq Nat
    <3>1. i \in 1..i /\ i \notin 1..j
      BY <1>5
    <3>2. QED
      BY <1>5, <3>1
  <2>3. <<1..j, 1..i>> \in StrictSubsetOrdering(Nat)
    BY <2>2 DEF StrictSubsetOrdering
  <2>4. QED
    BY <1>3, <1>4, <2>1, <2>3
<1>6. QED
  BY <1>5

(* CHOOSE finds the first c of a string that holds one. *)
LEMMA FirstExists ==
  ASSUME NEW s \in Seq(Chars), NEW c, Holds(s, c)
  PROVE  /\ FirstAt(s, c) \in 1..Len(s)
         /\ s[FirstAt(s, c)] = c
         /\ \A j \in 1..(FirstAt(s, c) - 1) : s[j] # c
<1>. DEFINE T == {i \in 1..Len(s) : s[i] = c}
<1>1. DOMAIN s = 1..Len(s) /\ Len(s) \in Nat
  OBVIOUS
<1>2. T # {} /\ T \subseteq Nat
  BY <1>1 DEF Holds, Range
<1>3. PICK i \in T : \A j \in T : i <= j
  BY <1>2, LeastPosition
<1>4. i \in DOMAIN s /\ s[i] = c /\ \A j \in 1..(i - 1) : s[j] # c
  BY <1>1, <1>3
<1>5. QED
  BY <1>1, <1>4 DEF FirstAt

(* Cutting at c: what comes before the first c of a string ... *)
LEMMA BeforePiece ==
  ASSUME NEW s \in Seq(Chars), NEW c, Holds(s, c), NEW cut, cut = FirstAt(s, c)
  PROVE  /\ Before(s, c) \in Seq(Chars)
         /\ Len(Before(s, c)) = cut - 1
         /\ \A i \in 1..(cut - 1) : Before(s, c)[i] = s[i]
<1>1. cut \in 1..Len(s) /\ Len(s) \in Nat
  BY FirstExists
<1>2. Before(s, c) = SubSeq(s, 1, cut - 1)
  BY DEF Before
<1>3. QED
  BY <1>1, <1>2

(* ... and what comes after it. *)
LEMMA AfterPiece ==
  ASSUME NEW s \in Seq(Chars), NEW c, Holds(s, c), NEW cut, cut = FirstAt(s, c)
  PROVE  /\ After(s, c) \in Seq(Chars)
         /\ Len(After(s, c)) = Len(s) - cut
         /\ \A i \in 1..(Len(s) - cut) : After(s, c)[i] = s[cut + i]
<1>1. cut \in 1..Len(s) /\ Len(s) \in Nat
  BY FirstExists
<1>2. After(s, c) = SubSeq(s, cut + 1, Len(s))
  BY DEF After
<1>3. QED
  BY <1>1, <1>2

-----------------------------------------------------------------------------
(* The code's URI test implies the grammar, with the first colon ... *)
LEMMA AcceptedUriIsInGrammar ==
  ASSUME NEW s \in Seq(Chars), IsAbsoluteUri(s)
  PROVE  UriGrammar(s)
<1>. DEFINE colon == FirstAt(s, Colon)
            Rest == Chars \ ({Hash} \cup Space \cup Control)
<1>1. /\ colon \in 1..Len(s) /\ s[colon] = Colon
      /\ Len(Before(s, Colon)) = colon - 1
      /\ Before(s, Colon) \in Seq(Chars)
      /\ \A i \in 1..(colon - 1) : Before(s, Colon)[i] = s[i]
  BY FirstExists, BeforePiece DEF IsAbsoluteUri
<1>2. colon \in 2..Len(s)
  BY <1>1 DEF IsAbsoluteUri
<1>3. s[1] \in Alpha /\ Span(s, 2, colon - 1, SchemeTail)
  BY <1>1, <1>2 DEF IsAbsoluteUri, Span
<1>4. \A i \in 1..Len(s) : s[i] \in Rest
  BY DEF IsAbsoluteUri, Range
<1>5. Span(s, colon + 1, Len(s), Rest)
  BY <1>1, <1>4 DEF Span
<1>. HIDE DEF colon
<1>6. QED
  BY <1>1, <1>2, <1>3, <1>5 DEF UriGrammar

(* ... and the grammar implies the test: its colon is the first, because no
   character of a scheme is a colon, or anything else the test refuses. *)
LEMMA UriInGrammarIsAccepted ==
  ASSUME NEW s \in Seq(Chars), UriGrammar(s)
  PROVE  IsAbsoluteUri(s)
<1>. DEFINE Refused == {Hash} \cup Space \cup Control
<1>1. PICK colon \in 2..Len(s) :
        /\ s[1] \in Alpha
        /\ Span(s, 2, colon - 1, SchemeTail)
        /\ s[colon] = Colon
        /\ Span(s, colon + 1, Len(s), Chars \ Refused)
  BY DEF UriGrammar
<1>2. Colon \notin Refused /\ Colon \notin SchemeTail /\ SchemeTail \cap Refused = {}
  BY TextAssumption
<1>3. \A i \in 1..(colon - 1) : s[i] \in SchemeTail
  BY <1>1, TextAssumption DEF Span
<1>4. Holds(s, Colon)
  BY <1>1 DEF Holds, Range
<1>5. FirstAt(s, Colon) = colon
  <2>1. /\ FirstAt(s, Colon) \in 1..Len(s)
        /\ s[FirstAt(s, Colon)] = Colon
        /\ \A j \in 1..(FirstAt(s, Colon) - 1) : s[j] # Colon
    BY <1>4, FirstExists
  <2>. HIDE DEF Refused
  <2>2. QED
    BY <2>1, <1>1, <1>2, <1>3
<1>6. \A i \in 1..Len(s) : s[i] \notin Refused
  <2>1. ASSUME NEW i \in 1..Len(s)
        PROVE  s[i] \notin Refused
    <3>1. i \in 1..(colon - 1) \/ i = colon \/ i \in (colon + 1)..Len(s)
      BY <1>1
    <3>. HIDE DEF Refused
    <3>2. QED
      BY <1>1, <1>2, <1>3, <3>1 DEF Span
  <2>2. QED
    BY <2>1
<1>7. Range(s) \cap Refused = {}
  BY <1>6 DEF Range
<1>8. /\ Len(Before(s, Colon)) = colon - 1
      /\ \A i \in 1..(colon - 1) : Before(s, Colon)[i] = s[i]
  BY <1>4, <1>5, BeforePiece
<1>9. /\ Before(s, Colon) # <<>> /\ Before(s, Colon)[1] \in Alpha
      /\ \A i \in 2..Len(Before(s, Colon)) : Before(s, Colon)[i] \in SchemeTail
  BY <1>1, <1>3, <1>8
<1>10. QED
  BY <1>4, <1>7, <1>9 DEF IsAbsoluteUri

-----------------------------------------------------------------------------
(* A set of positions has a last element, the first counted from the end. *)
LEMMA LastPosition ==
  ASSUME NEW n \in Nat, NEW T, T \subseteq 1..n, T # {}
  PROVE  \E i \in T : \A j \in T : j <= i
<1>. DEFINE FromEnd == {n - i : i \in T}
<1>1. FromEnd \subseteq Nat /\ FromEnd # {}
  <2>1. \A i \in T : n - i \in Nat
    OBVIOUS
  <2>2. QED
    BY <2>1
<1>2. PICK d \in FromEnd : \A f \in FromEnd : d <= f
  <2>. HIDE DEF FromEnd
  <2>1. QED
    BY <1>1, LeastPosition
<1>3. PICK i \in T : d = n - i
  BY <1>2
<1>4. \A j \in T : n - i <= n - j
  BY <1>2, <1>3
<1>5. QED
  BY <1>4

(* s is the characters from..to between spaces. *)
Padded(s, from, to) ==
  /\ from \in 1..Len(s) /\ to \in from..Len(s)
  /\ s[from] \notin Space /\ s[to] \notin Space
  /\ Span(s, 1, from - 1, Space) /\ Span(s, to + 1, Len(s), Space)

(* Trimming keeps what is between the first and the last ink ... *)
LEMMA TrimPads ==
  ASSUME NEW s \in Seq(Chars), Trim(s) # <<>>
  PROVE  \E from, to \in 1..Len(s) : Padded(s, from, to)
<1>1. Inked(s) # {} /\ Inked(s) \subseteq 1..Len(s)
  <2>1. Inked(s) # {}
    BY Zenon DEF Trim
  <2>2. QED
    BY <2>1 DEF Inked
<1>2. PICK from \in Inked(s) : \A j \in Inked(s) : from <= j
  BY <1>1, LeastPosition
<1>3. PICK to \in Inked(s) : \A j \in Inked(s) : j <= to
  BY <1>1, LastPosition
<1>4. Padded(s, from, to)
  BY <1>1, <1>2, <1>3 DEF Padded, Span, Inked
<1>5. QED
  BY <1>1, <1>4

(* ... and there is one way to see a string as padded. *)
LEMMA PaddedIsTrimmed ==
  ASSUME NEW s \in Seq(Chars), NEW from, NEW to, Padded(s, from, to)
  PROVE  Trim(s) = SubSeq(s, from, to)
<1>1. /\ from \in Inked(s) /\ to \in Inked(s)
      /\ \A j \in Inked(s) : from <= j /\ j <= to
      /\ Inked(s) \subseteq Int
  BY DEF Padded, Span, Inked
<1>2. (CHOOSE i \in Inked(s) : \A j \in Inked(s) : i <= j) = from
  BY <1>1
<1>3. (CHOOSE i \in Inked(s) : \A j \in Inked(s) : j <= i) = to
  BY <1>1
<1>4. QED
  BY <1>1, <1>2, <1>3 DEF Trim

(* What precedes the first semicolon, with the position where it ends. *)
LEMMA HeadEnds ==
  ASSUME NEW s \in Seq(Chars)
  PROVE  \E end \in 1..(Len(s) + 1) :
           /\ Before(s, Semicolon) = SubSeq(s, 1, end - 1)
           /\ end = Len(s) + 1 \/ s[end] = Semicolon
           /\ \A i \in 1..(end - 1) : s[i] # Semicolon
<1>1. CASE Holds(s, Semicolon)
  <2>1. /\ FirstAt(s, Semicolon) \in 1..Len(s)
        /\ s[FirstAt(s, Semicolon)] = Semicolon
        /\ \A j \in 1..(FirstAt(s, Semicolon) - 1) : s[j] # Semicolon
    BY <1>1, FirstExists
  <2>2. Before(s, Semicolon) = SubSeq(s, 1, FirstAt(s, Semicolon) - 1)
    BY <1>1 DEF Before
  <2>3. FirstAt(s, Semicolon) \in 1..(Len(s) + 1)
    BY <2>1
  <2>4. QED
    BY <2>1, <2>2, <2>3
<1>2. CASE ~Holds(s, Semicolon)
  <2>1. \A i \in 1..Len(s) : s[i] # Semicolon
    BY <1>2 DEF Holds, Range
  <2>2. Before(s, Semicolon) = SubSeq(s, 1, Len(s))
    BY <1>2 DEF Before
  <2>3. QED
    BY <2>1, <2>2
<1>3. QED
  BY <1>1, <1>2

(* s frames the characters from..to, which are text without semicolons. *)
FramesText(s, from, to) ==
  /\ from \in 1..Len(s) /\ to \in from..Len(s)
  /\ s[from] \notin Space /\ s[to] \notin Space
  /\ \A i \in from..to : s[i] # Semicolon
  /\ Framed(s, from, to)

(* The essence of a string is what it frames: cutting at the first semicolon
   and trimming find it ... *)
LEMMA EssenceIsFramed ==
  ASSUME NEW s \in Seq(Chars), Essence(s) # <<>>
  PROVE  \E from, to \in 1..Len(s) :
           FramesText(s, from, to) /\ Essence(s) = SubSeq(s, from, to)
<1>. DEFINE head == Before(s, Semicolon)
<1>1. PICK end \in 1..(Len(s) + 1) :
        /\ head = SubSeq(s, 1, end - 1)
        /\ end = Len(s) + 1 \/ s[end] = Semicolon
        /\ \A i \in 1..(end - 1) : s[i] # Semicolon
  BY HeadEnds
<1>2. /\ head \in Seq(Chars) /\ Len(head) = end - 1
      /\ \A i \in 1..(end - 1) : head[i] = s[i]
  BY <1>1
<1>. HIDE DEF head
<1>3. Trim(head) # <<>> /\ Essence(s) = Trim(head)
  BY DEF Essence, head
<1>4. PICK from, to \in 1..Len(head) : Padded(head, from, to)
  BY <1>2, <1>3, TrimPads
<1>5. Essence(s) = SubSeq(head, from, to)
  BY <1>2, <1>3, <1>4, PaddedIsTrimmed
<1>6. SubSeq(head, from, to) = SubSeq(s, from, to)
  BY <1>1, <1>2, <1>4 DEF Padded
<1>7. FramesText(s, from, to)
  BY <1>1, <1>2, <1>4 DEF Padded, FramesText, Framed, Span
<1>8. QED
  BY <1>2, <1>4, <1>5, <1>6, <1>7

(* ... and it can be framed in one way only. *)
LEMMA FramedIsEssence ==
  ASSUME NEW s \in Seq(Chars), NEW from, NEW to, FramesText(s, from, to)
  PROVE  Essence(s) = SubSeq(s, from, to)
<1>. DEFINE head == Before(s, Semicolon)
<1>1. PICK end \in 1..(Len(s) + 1) :
        /\ head = SubSeq(s, 1, end - 1)
        /\ end = Len(s) + 1 \/ s[end] = Semicolon
        /\ \A i \in 1..(end - 1) : s[i] # Semicolon
  BY HeadEnds
<1>2. /\ head \in Seq(Chars) /\ Len(head) = end - 1
      /\ \A i \in 1..(end - 1) : head[i] = s[i]
  BY <1>1
<1>3. PICK stop \in (to + 1)..(Len(s) + 1) :
        /\ Span(s, to + 1, stop - 1, Space)
        /\ stop = Len(s) + 1 \/ s[stop] = Semicolon
  BY DEF FramesText, Framed
<1>4. Semicolon \notin Space
  BY TextAssumption
<1>. HIDE DEF head
<1>5. from \in 1..Len(s) /\ to \in from..Len(s) /\ Len(s) \in Nat
  BY DEF FramesText
<1>6. \A i \in 1..(stop - 1) : s[i] # Semicolon
  BY <1>3, <1>4, <1>5 DEF FramesText, Framed, Span
<1>7. stop = end
  BY <1>1, <1>3, <1>5, <1>6
<1>8. Padded(head, from, to)
  <2>1. from \in 1..Len(head) /\ to \in from..Len(head) /\ Len(head) = stop - 1
    BY <1>2, <1>3, <1>5, <1>7
  <2>2. \A i \in 1..Len(head) : head[i] = s[i]
    BY <1>2
  <2>3. head[from] \notin Space /\ head[to] \notin Space
    BY <1>5, <2>1, <2>2 DEF FramesText
  <2>4. Span(head, 1, from - 1, Space)
    <3>1. \A i \in 1..(from - 1) : i \in 1..Len(head) /\ s[i] \in Space
      BY <1>5, <2>1 DEF FramesText, Framed, Span
    <3>2. QED
      BY <2>2, <3>1 DEF Span
  <2>5. Span(head, to + 1, Len(head), Space)
    <3>1. \A i \in (to + 1)..Len(head) : i \in 1..Len(head) /\ s[i] \in Space
      BY <1>3, <1>5, <2>1 DEF Span
    <3>2. QED
      BY <2>2, <3>1 DEF Span
  <2>6. QED
    BY <2>1, <2>3, <2>4, <2>5 DEF Padded
<1>9. Essence(s) = SubSeq(head, from, to)
  BY <1>2, <1>8, PaddedIsTrimmed DEF Essence, head
<1>10. SubSeq(head, from, to) = SubSeq(s, from, to)
  BY <1>1, <1>2, <1>3, <1>5, <1>7
<1>11. QED
  BY <1>9, <1>10

(* A token holds no slash, semicolon or space. *)
LEMMA TokenCharacters ==
  /\ Slash \notin Graphic \ Tspecials /\ Semicolon \notin Graphic \ Tspecials
  /\ Graphic \cap Space = {}
  /\ Slash # Semicolon /\ Slash \in Graphic
BY TextAssumption

(* The cut at the first slash of an accepted string fits the grammar. *)
LEMMA AcceptedTypeIsInGrammar ==
  ASSUME NEW s \in Seq(Chars), IsMediaType(s)
  PROVE  MediaTypeGrammar(s)
<1>. DEFINE e == Essence(s)
            cut == FirstAt(e, Slash)
            Token == Graphic \ Tspecials
<1>1. e # <<>>
  BY DEF IsMediaType, Holds, Range
<1>2. PICK from, to \in 1..Len(s) : FramesText(s, from, to) /\ e = SubSeq(s, from, to)
  BY <1>1, EssenceIsFramed
<1>3. /\ e \in Seq(Chars) /\ Len(e) = to - from + 1 /\ from <= to
      /\ \A i \in 1..(to - from + 1) : e[i] = s[from + i - 1]
  BY <1>2 DEF FramesText
<1>4. /\ Holds(e, Slash) /\ IsToken(Before(e, Slash)) /\ IsToken(After(e, Slash))
  BY DEF IsMediaType
<1>. HIDE DEF e
<1>string. e \in Seq(Chars) /\ Holds(e, Slash)
  BY <1>3, <1>4
<1>5. cut \in 1..Len(e) /\ e[cut] = Slash
  BY <1>string, FirstExists
<1>6. /\ Before(e, Slash) \in Seq(Chars)
      /\ Len(Before(e, Slash)) = cut - 1
      /\ \A i \in 1..(cut - 1) : Before(e, Slash)[i] = e[i]
  BY <1>string, BeforePiece
<1>7. /\ After(e, Slash) \in Seq(Chars)
      /\ Len(After(e, Slash)) = Len(e) - cut
      /\ \A i \in 1..(Len(e) - cut) : After(e, Slash)[i] = e[cut + i]
  BY <1>string, AfterPiece
<1>. HIDE DEF cut
<1>8. /\ 1 < cut /\ cut < Len(e)
      /\ \A i \in 1..(cut - 1) : e[i] \in Token
  <2>1. Len(Before(e, Slash)) > 0 /\ Len(After(e, Slash)) > 0
    BY <1>4, <1>6, <1>7 DEF IsToken
  <2>2. \A i \in DOMAIN Before(e, Slash) : Before(e, Slash)[i] \in Token
    BY <1>4 DEF IsToken, Range
  <2>3. DOMAIN Before(e, Slash) = 1..(cut - 1)
    BY <1>6
  <2>4. Len(e) \in Nat /\ cut \in Nat
    BY <1>3, <1>5
  <2>5. 1 < cut /\ cut < Len(e)
    BY <1>6, <1>7, <2>1, <2>4
  <2>6. QED
    BY <1>6, <2>2, <2>3, <2>5
<1>9. \A i \in (cut + 1)..Len(e) : e[i] \in Token
  <2>1. ASSUME NEW i \in (cut + 1)..Len(e)
        PROVE  e[i] \in Token
    <3>1. i - cut \in 1..(Len(e) - cut) /\ cut + (i - cut) = i
      BY <1>3, <1>5
    <3>2. i - cut \in DOMAIN After(e, Slash) /\ After(e, Slash)[i - cut] = e[i]
      BY <1>7, <3>1
    <3>3. QED
      BY <1>4, <3>2 DEF IsToken, Range
  <2>2. QED
    BY <2>1
<1>10. \A i \in from..to : i - from + 1 \in 1..Len(e) /\ e[i - from + 1] = s[i]
  BY <1>2, <1>3
<1>. DEFINE slash == from + cut - 1
<1>11. /\ slash \in 1..Len(s) /\ from < slash /\ slash < to /\ s[slash] = Slash
  BY <1>2, <1>3, <1>5, <1>8
<1>12. Span(s, from, slash - 1, Token) /\ Span(s, slash + 1, to, Token)
  <2>. HIDE DEF Token
  <2>1. ASSUME NEW i \in from..to, i # slash
        PROVE  s[i] \in Token
    <3>1. i - from + 1 \in 1..(cut - 1) \/ i - from + 1 \in (cut + 1)..Len(e)
      BY <1>2, <1>3, <1>5, <2>1
    <3>2. QED
      BY <1>8, <1>9, <1>10, <3>1
  <2>2. \A i \in from..(slash - 1) : i \in from..to /\ i # slash
    BY <1>2, <1>11
  <2>3. \A i \in (slash + 1)..to : i \in from..to /\ i # slash
    BY <1>2, <1>11
  <2>. HIDE DEF slash
  <2>4. QED
    BY <2>1, <2>2, <2>3 DEF Span
<1>. HIDE DEF slash
<1>13. Framed(s, from, to)
  BY <1>2 DEF FramesText
<1>14. from \in DOMAIN s /\ slash \in DOMAIN s /\ to \in DOMAIN s
  BY <1>11
<1>15. \E i, j, k \in DOMAIN s :
         /\ i < j /\ j < k /\ Framed(s, i, k)
         /\ Span(s, i, j - 1, Token) /\ s[j] = Slash /\ Span(s, j + 1, k, Token)
  <2>. HIDE DEF Token
  <2>1. QED
    BY <1>11, <1>12, <1>13, <1>14
<1>16. QED
  BY <1>15 DEF MediaTypeGrammar

(* A string of the grammar is accepted: its essence is what the grammar
   frames, and the slash of the grammar is the first of the essence. *)
LEMMA TypeInGrammarIsAccepted ==
  ASSUME NEW s \in Seq(Chars), MediaTypeGrammar(s)
  PROVE  IsMediaType(s)
<1>. DEFINE Token == Graphic \ Tspecials
<1>1. PICK from, slash, to \in 1..Len(s) :
        /\ from < slash /\ slash < to
        /\ Framed(s, from, to)
        /\ Span(s, from, slash - 1, Token)
        /\ s[slash] = Slash
        /\ Span(s, slash + 1, to, Token)
  BY DEF MediaTypeGrammar
<1>2. /\ Slash \notin Token /\ Semicolon \notin Token \cup {Slash}
      /\ Token \cap Space = {}
  BY TokenCharacters
<1>. HIDE DEF Token
<1>3. \A i \in from..to : s[i] \in Token \/ i = slash
  BY <1>1 DEF Span
<1>4. FramesText(s, from, to)
  BY <1>1, <1>2, <1>3 DEF FramesText
<1>. DEFINE e == Essence(s)
            cut == slash - from + 1
<1>5. e = SubSeq(s, from, to)
  BY <1>4, FramedIsEssence
<1>6. /\ e \in Seq(Chars) /\ Len(e) = to - from + 1
      /\ \A i \in 1..(to - from + 1) : e[i] = s[from + i - 1]
  <2>. HIDE DEF e
  <2>1. from \in 1..Len(s) /\ to \in 1..Len(s) /\ from <= to
    BY <1>1
  <2>2. QED
    BY <1>5, <2>1
<1>. HIDE DEF e
<1>7. cut \in 2..(Len(e) - 1) /\ e[cut] = Slash
  BY <1>1, <1>6
<1>8. \A i \in 1..Len(e) : i # cut => e[i] \in Token
  <2>1. ASSUME NEW i \in 1..Len(e), i # cut
        PROVE  e[i] \in Token
    <3>1. from + i - 1 \in from..to /\ from + i - 1 # slash
      BY <1>1, <1>6, <2>1
    <3>2. QED
      BY <1>3, <1>6, <3>1
  <2>2. QED
    BY <2>1
<1>. HIDE DEF cut
<1>9. e \in Seq(Chars) /\ Len(e) \in Nat /\ DOMAIN e = 1..Len(e)
  BY <1>6
<1>10. Holds(e, Slash)
  BY <1>7, <1>9 DEF Holds, Range
<1>11. FirstAt(e, Slash) = cut
  <2>1. FirstAt(e, Slash) \in 1..Len(e) /\ e[FirstAt(e, Slash)] = Slash
    BY <1>6, <1>10, FirstExists
  <2>2. QED
    BY <1>2, <1>8, <2>1
<1>12. /\ Before(e, Slash) \in Seq(Chars)
       /\ Len(Before(e, Slash)) = cut - 1
       /\ \A i \in 1..(cut - 1) : Before(e, Slash)[i] = e[i]
  BY <1>9, <1>10, <1>11, BeforePiece
<1>13. /\ After(e, Slash) \in Seq(Chars)
       /\ Len(After(e, Slash)) = Len(e) - cut
       /\ \A i \in 1..(Len(e) - cut) : After(e, Slash)[i] = e[cut + i]
  BY <1>9, <1>10, <1>11, AfterPiece
<1>14. IsToken(Before(e, Slash))
  <2>1. \A i \in 1..(cut - 1) : Before(e, Slash)[i] \in Token
    BY <1>7, <1>8, <1>9, <1>12
  <2>2. Before(e, Slash) # <<>> /\ DOMAIN Before(e, Slash) = 1..(cut - 1)
    BY <1>7, <1>12
  <2>3. QED
    BY <2>1, <2>2 DEF IsToken, Range, Token
<1>15. IsToken(After(e, Slash))
  <2>1. \A i \in 1..(Len(e) - cut) : After(e, Slash)[i] \in Token
    BY <1>7, <1>8, <1>9, <1>13
  <2>2. After(e, Slash) # <<>> /\ DOMAIN After(e, Slash) = 1..(Len(e) - cut)
    BY <1>7, <1>9, <1>13
  <2>3. QED
    BY <2>1, <2>2 DEF IsToken, Range, Token
<1>16. QED
  BY <1>10, <1>14, <1>15 DEF IsMediaType, e

(* The strings examined are strings. *)
IsString == text \in Seq(Chars)

(* What is examined is a string. *)
LEMMA TextIsString == Spec => []IsString
<1>1. Init => IsString
  BY DEF Init, IsString
<1>2. IsString /\ [Next]_text => IsString'
  BY DEF Next, Extend, IsString
<1>3. QED
  BY <1>1, <1>2, PTL DEF Spec

(* UrisRecognized: for every alphabet and every string, however long, cutting
   at the first colon decides exactly the URI grammar (is_absolute_uri). *)
THEOREM UrisRecognized == Spec => []UrisAreRecognized
<1>1. IsString => UrisAreRecognized
  BY AcceptedUriIsInGrammar, UriInGrammarIsAccepted
  DEF UrisAreRecognized, IsString
<1>2. QED
  BY <1>1, TextIsString, PTL

(* MediaTypesRecognized: and cutting off the parameters, trimming and cutting
   at the first slash decides exactly the media type grammar (is_media_type). *)
THEOREM MediaTypesRecognized == Spec => []MediaTypesAreRecognized
<1>1. IsString => MediaTypesAreRecognized
  BY AcceptedTypeIsInGrammar, TypeInGrammarIsAccepted
  DEF MediaTypesAreRecognized, IsString
<1>2. QED
  BY <1>1, TextIsString, PTL

(* GateIsExact: the handler takes exactly the strings that frame one of the
   two names for that name (the Content-Type gate of create_sheep). *)
THEOREM GateIsExact == Spec => []TheGateIsExact
<1>. DEFINE Names(names) ==
       /\ Readable(text)
       /\ \E from, to \in DOMAIN text :
            Framed(text, from, to) /\ SubSeq(text, from, to) \in names
<1>1. ASSUME IsString, NEW names, names \subseteq SingleNames \cup BatchNames
      PROVE  Names(names) <=> Readable(text) /\ Essence(text) \in names
  <2>1. names \subseteq Seq(Graphic \ {Semicolon}) \ {<<>>}
    BY <1>1, TextAssumption
  <2>2. Graphic \cap Space = {} /\ DOMAIN text = 1..Len(text) /\ Len(text) \in Nat
    BY <1>1, TextAssumption DEF IsString
  <2>3. ASSUME Essence(text) \in names
        PROVE  \E from, to \in DOMAIN text :
                 Framed(text, from, to) /\ SubSeq(text, from, to) \in names
    <3>1. Essence(text) # <<>>
      BY <2>1, <2>3
    <3>2. QED
      BY <1>1, <2>2, <2>3, <3>1, EssenceIsFramed DEF IsString, FramesText
  <2>4. ASSUME NEW from \in DOMAIN text, NEW to \in DOMAIN text,
               Framed(text, from, to), SubSeq(text, from, to) \in names
        PROVE  Essence(text) \in names
    <3>1. SubSeq(text, from, to) # <<>>
      BY <2>1, <2>4
    <3>2. to \in from..Len(text)
      BY <1>1, <2>2, <2>4, <3>1 DEF IsString
    <3>3. \A i \in from..to : text[i] \in Graphic \ {Semicolon}
      <4>1. SubSeq(text, from, to) \in Seq(Graphic \ {Semicolon})
        BY <2>1, <2>4
      <4>2. /\ Len(SubSeq(text, from, to)) = to - from + 1
            /\ \A i \in 1..(to - from + 1) :
                 SubSeq(text, from, to)[i] = text[from + i - 1]
        BY <1>1, <2>2, <3>2 DEF IsString
      <4>3. ASSUME NEW i \in from..to
            PROVE  text[i] \in Graphic \ {Semicolon}
        <5>1. i - from + 1 \in 1..(to - from + 1) /\ from + (i - from + 1) - 1 = i
          BY <2>2, <3>2
        <5>2. SubSeq(text, from, to)[i - from + 1] = text[i]
          BY <4>2, <5>1
        <5>3. QED
          BY <4>1, <4>2, <5>1, <5>2
      <4>4. QED
        BY <4>3
    <3>4. FramesText(text, from, to)
      BY <2>2, <2>4, <3>2, <3>3 DEF FramesText
    <3>5. QED
      BY <1>1, <2>4, <3>4, FramedIsEssence DEF IsString
  <2>5. QED
    BY <2>3, <2>4
<1>2. IsString => TheGateIsExact
  <2>1. ASSUME IsString
        PROVE  /\ MediaOf(text) = "single" <=> Names(SingleNames)
               /\ MediaOf(text) = "batch" <=> Names(BatchNames)
    <3>1. /\ Names(SingleNames) <=> Readable(text) /\ Essence(text) \in SingleNames
          /\ Names(BatchNames) <=> Readable(text) /\ Essence(text) \in BatchNames
      BY <1>1, <2>1
    <3>. HIDE DEF Names
    <3>2. QED
      BY <3>1, TextAssumption DEF MediaOf
  <2>2. QED
    BY <2>1 DEF TheGateIsExact
<1>3. QED
  BY <1>2, TextIsString, PTL
=============================================================================
