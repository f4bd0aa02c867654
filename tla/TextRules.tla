----------------------------- MODULE TextRules -----------------------------
(***************************************************************************)
(* What the service decides from the characters of a string: is it an      *)
(* absolute URI, is it a media type (ingest/sheep.rs), and which ingestion *)
(* path does a Content-Type select (ingest/handler.rs).  The code cuts the *)
(* string at the first of a separator and inspects the pieces; each        *)
(* decision is compared with a grammar that says where the pieces are.     *)
(* They give AbsoluteUris and MediaTypes of module Sheep, and the media of *)
(* a submission of module Ingest, their meaning.                           *)
(*                                                                         *)
(* A string is a sequence of characters, told apart by their classes.      *)
(***************************************************************************)
EXTENDS Integers, Sequences, Functions

CONSTANTS
  Chars,       \* all characters
  Alpha,       \* is_ascii_alphabetic
  SchemeTail,  \* ASCII letters and digits, and + - .
  Graphic,     \* is_ascii_graphic
  Tspecials,   \* ( ) < > @ , ; : \ " / [ ] ? =
  Space,       \* is_whitespace
  Control,     \* is_control
  Printable,   \* what HeaderValue::to_str lets through: ASCII, no controls but tab
  Colon, Hash, Slash, Semicolon,
  SingleNames, \* every capitalization of application/cloudevents+json
  BatchNames,  \* every capitalization of application/cloudevents-batch+json
  MaxLength    \* bound on the strings examined

ASSUME TextAssumption ==
  /\ Alpha \subseteq SchemeTail /\ SchemeTail \subseteq Graphic \ (Tspecials \cup {Hash})
  /\ Graphic \cup Space \cup Control \subseteq Chars
  /\ Graphic \subseteq Printable /\ Printable \subseteq Graphic \cup Space
  /\ Graphic \cap (Space \cup Control) = {}
  /\ {Colon, Slash, Semicolon} \subseteq Tspecials /\ Tspecials \subseteq Graphic
  /\ Hash \in Graphic \ Tspecials
  /\ Slash # Semicolon
  /\ SingleNames \cup BatchNames \subseteq Seq(Graphic \ {Semicolon}) \ {<<>>}
  /\ SingleNames \cap BatchNames = {}
  /\ MaxLength \in Nat

VARIABLE text

-----------------------------------------------------------------------------
(* Cutting strings.                                                        *)

Holds(s, c) == c \in Range(s)

(* The first c in s. *)
FirstAt(s, c) ==
  CHOOSE i \in DOMAIN s : s[i] = c /\ \A j \in 1..(i - 1) : s[j] # c

(* split(c).next(), and the halves of split_once(c). *)
Before(s, c) == IF Holds(s, c) THEN SubSeq(s, 1, FirstAt(s, c) - 1) ELSE s

After(s, c) == SubSeq(s, FirstAt(s, c) + 1, Len(s))

Inked(s) == {i \in DOMAIN s : s[i] \notin Space}

(* Mutant of Trim: only the end is trimmed. *)
TrimEnd(s) ==
  IF Inked(s) = {} THEN <<>>
  ELSE SubSeq(s, 1, CHOOSE i \in Inked(s) : \A j \in Inked(s) : j <= i)

Trim(s) ==
  IF Inked(s) = {} THEN <<>>
  ELSE SubSeq(s, CHOOSE i \in Inked(s) : \A j \in Inked(s) : i <= j,
                 CHOOSE i \in Inked(s) : \A j \in Inked(s) : j <= i)

-----------------------------------------------------------------------------
(* The decisions of the code.                                              *)

(* Mutant of IsAbsoluteUri: a scheme may start like any of its characters. *)
IsAbsoluteUriAnyStart(s) ==
  LET scheme == Before(s, Colon) IN
  /\ Holds(s, Colon)
  /\ scheme # <<>> /\ Range(scheme) \subseteq SchemeTail
  /\ Range(s) \cap ({Hash} \cup Space \cup Control) = {}

IsAbsoluteUri(s) ==
  LET scheme == Before(s, Colon) IN
  /\ Holds(s, Colon)
  /\ scheme # <<>> /\ scheme[1] \in Alpha
  /\ \A i \in 2..Len(scheme) : scheme[i] \in SchemeTail
  /\ Range(s) \cap ({Hash} \cup Space \cup Control) = {}

IsToken(s) == s # <<>> /\ Range(s) \subseteq Graphic \ Tspecials

(* What precedes the parameters, as is_media_type and create_sheep see it. *)
Essence(s) == Trim(Before(s, Semicolon))

(* Mutant of IsMediaType: the subtype is not inspected. *)
IsMediaTypeAnySubtype(s) ==
  Holds(Essence(s), Slash) /\ IsToken(Before(Essence(s), Slash))

IsMediaType(s) ==
  /\ Holds(Essence(s), Slash)
  /\ IsToken(Before(Essence(s), Slash))
  /\ IsToken(After(Essence(s), Slash))

(* A header value with other bytes is no string at all: to_str().ok(). *)
Readable(s) == Range(s) \subseteq Printable

MediaOf(s) ==
  CASE Readable(s) /\ Essence(s) \in SingleNames -> "single"
    [] Readable(s) /\ Essence(s) \in BatchNames  -> "batch"
    [] OTHER                                     -> "other"

-----------------------------------------------------------------------------
(* The strings examined: every one of at most MaxLength characters.        *)

Init == text = <<>>

Extend(c) == Len(text) < MaxLength /\ text' = Append(text, c)

Next == \E c \in Chars : Extend(c)

Spec == Init /\ [][Next]_text

-----------------------------------------------------------------------------
(* Properties                                                              *)

(* Characters from..to of s are all in the set C. *)
Span(s, from, to, C) == \A i \in from..to : s[i] \in C

(* RFC 3986, as far as the service enforces it: scheme ":" anything without
   fragment, space or control character. *)
UriGrammar(s) ==
  \E colon \in 2..Len(s) :
    /\ s[1] \in Alpha
    /\ Span(s, 2, colon - 1, SchemeTail)
    /\ s[colon] = Colon
    /\ Span(s, colon + 1, Len(s), Chars \ ({Hash} \cup Space \cup Control))

(* s is spaces, then characters from..to, then spaces up to its end or up to
   a ";" that starts the parameters. *)
Framed(s, from, to) ==
  /\ Span(s, 1, from - 1, Space)
  /\ \E end \in (to + 1)..(Len(s) + 1) :
       /\ Span(s, to + 1, end - 1, Space)
       /\ end = Len(s) + 1 \/ s[end] = Semicolon

(* RFC 2046: token "/" token, framed. *)
MediaTypeGrammar(s) ==
  \E from, slash, to \in DOMAIN s :
    /\ from < slash /\ slash < to
    /\ Framed(s, from, to)
    /\ Span(s, from, slash - 1, Graphic \ Tspecials)
    /\ s[slash] = Slash
    /\ Span(s, slash + 1, to, Graphic \ Tspecials)

(* UrisAreRecognized: cutting at the first colon and inspecting the halves
   separately accepts exactly the grammar (is_absolute_uri). *)
UrisAreRecognized == IsAbsoluteUri(text) <=> UriGrammar(text)

(* MediaTypesAreRecognized: cutting off the parameters, trimming and cutting
   at the first slash accepts exactly the grammar: one slash, two tokens,
   and parameters that are never read (is_media_type). *)
MediaTypesAreRecognized == IsMediaType(text) <=> MediaTypeGrammar(text)

(* TheGateIsExact: a Content-Type selects a path exactly when it is one of
   its names, framed, in a header that is a string (create_sheep). *)
TheGateIsExact ==
  LET Names(names) ==
        /\ Readable(text)
        /\ \E from, to \in DOMAIN text :
             Framed(text, from, to) /\ SubSeq(text, from, to) \in names
  IN /\ MediaOf(text) = "single" <=> Names(SingleNames)
     /\ MediaOf(text) = "batch" <=> Names(BatchNames)
=============================================================================
