---------------------------- MODULE Segmentation ----------------------------
(***************************************************************************)
(* How a message body is measured and cut into SMS segments (sms.rs).      *)
(*                                                                         *)
(* A character is one of five kinds, told apart by what they cost: plain   *)
(* ASCII of the GSM-7 alphabet, its other letters, the pairs of its        *)
(* extension, what needs UCS2, and what needs two UTF-16 units there.      *)
(***************************************************************************)
EXTENDS Naturals, SequencesExt

CONSTANTS
  Single,   \* Single[e]: what one SMS holds (SINGLE_PART_MAX, UCS2_SINGLE_MAX)
  Multi,    \* Multi[e]: what a part of several holds (MULTI_PART_MAX, ...)
  MaxParts  \* MAX_PARTS

Encodings == {"gsm7", "ucs2"}
Gsm7Chars == {"plain", "letter", "pair"}
Chars     == Gsm7Chars \union {"wide", "astral"}

ASSUME SegmentationAssumption ==
  /\ Single \in [Encodings -> Nat] /\ Multi \in [Encodings -> Nat]
  /\ \A e \in Encodings : 2 <= Multi[e] /\ Multi[e] <= Single[e]
  /\ MaxParts \in Nat \ {0}

\* message_encoding, is_gsm7.
Encoding(body) == IF ToSet(body) \subseteq Gsm7Chars THEN "gsm7" ELSE "ucs2"

\* gsm7_septets and len_utf16.
Cost(e, c) ==
  IF (e = "gsm7" /\ c = "pair") \/ (e = "ucs2" /\ c = "astral") THEN 2 ELSE 1

\* Sums(e, s)[n]: what the first n characters cost.
Sums(e, s) ==
  LET sum[n \in 0..Len(s)] == IF n = 0 THEN 0 ELSE sum[n - 1] + Cost(e, s[n])
  IN sum
Length(e, s) == Sums(e, s)[Len(s)]

Segments(parts) == [parts |-> parts, required |-> Len(parts)]
TooManyParts(n) == [parts |-> <<>>, required |-> n]

\* segment_simple_ascii_gsm7: every character costs one.
SegmentSimple(body) ==
  LET m == Multi["gsm7"]
      n == (Len(body) + m - 1) \div m
      Part(i) == SubSeq(body, (i - 1) * m + 1, Min({i * m, Len(body)}))
  IN IF Len(body) <= Single["gsm7"] THEN Segments(<<body>>)
     ELSE IF n > MaxParts THEN TooManyParts(n)
     ELSE Segments([i \in 1..n |-> Part(i)])

\* The loop of segment_by: a character that does not fit begins a part.
NoPart == [done |-> <<>>, open |-> <<>>, used |-> 0]
Put(e, acc, c) ==
  IF acc.used + Cost(e, c) > Multi[e]
  THEN [done |-> Append(acc.done, acc.open), open |-> <<c>>, used |-> Cost(e, c)]
  ELSE [acc EXCEPT !.open = Append(@, c), !.used = @ + Cost(e, c)]
Loop(e, body) ==
  LET after[n \in 0..Len(body)] ==
        IF n = 0 THEN NoPart ELSE Put(e, after[n - 1], body[n])
  IN after
Cut(e, body) ==
  LET end == Loop(e, body)[Len(body)] IN Append(end.done, end.open)

\* Mutant: the length is counted in characters.
SegmentByChars(e, body) ==
  LET parts == Cut(e, body) IN
  IF Len(body) <= Single[e] THEN Segments(<<body>>)
  ELSE IF Len(parts) > MaxParts THEN TooManyParts(Len(parts))
  ELSE Segments(parts)

SegmentBy(e, body) ==
  LET parts == Cut(e, body) IN
  IF Length(e, body) <= Single[e] THEN Segments(<<body>>)
  ELSE IF Len(parts) > MaxParts THEN TooManyParts(Len(parts))
  ELSE Segments(parts)

SegmentMessage(body) ==
  IF ToSet(body) \subseteq {"plain"}
  THEN SegmentSimple(body) ELSE SegmentBy(Encoding(body), body)

-----------------------------------------------------------------------------
(* What it is to do.                                                       *)

\* Cuts of a body in n consecutive parts, as the places where they end.
Cuts(body, n) ==
  {ends \in SUBSET (1..(Len(body) - 1)) : Cardinality(ends) = n - 1}
Fits(e, body, ends) ==
  \A i \in {0} \union ends :
    LET next == Min({j \in ends \union {Len(body)} : j > i}) IN
    Length(e, SubSeq(body, i + 1, next)) <= IF ends = {} THEN Single[e] ELSE Multi[e]

Fewest(body) ==
  Min({n \in 1..Len(body) :
         \E ends \in Cuts(body, n) : Fits(Encoding(body), body, ends)})

\* A body is cut into the fewest parts that hold it, none over its capacity and
\* nothing lost, repeated or cut within a character; it is refused only when
\* the fewest are too many, and told how many they are.
CutRight(body) ==
  LET r == SegmentMessage(body)  e == Encoding(body) IN
  /\ r.required = Fewest(body)
  /\ IF r.required > MaxParts THEN r.parts = <<>>
     ELSE /\ Len(r.parts) = r.required
          /\ FlattenSeq(r.parts) = body
          /\ \A i \in DOMAIN r.parts :
               Length(e, r.parts[i])
                 <= IF r.required = 1 THEN Single[e] ELSE Multi[e]
=============================================================================
