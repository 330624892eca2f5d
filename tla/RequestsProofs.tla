--------------------------- MODULE RequestsProofs ---------------------------
(***************************************************************************)
(* Proofs about module Requests, for every set of arguments a client may   *)
(* send and every limit. Six parts: what str.split makes of an argument    *)
(* and of a key; the channel that a message of Bybit comes back on; the    *)
(* keys a client holds and the counts; the ticker it knows; the steps of a *)
(* client; and the receive-side rate limit, with the theorems.             *)
(***************************************************************************)
EXTENDS Requests, FiniteSetTheorems, SequenceTheorems, TLAPS

(***************************************************************************)
(* A greater position has a greater rank.                                  *)
(***************************************************************************)
LEMMA FewerBelow ==
  ASSUME NEW P, P \subseteq Nat, IsFiniteSet(P), NEW p \in P, NEW q \in P, p < q
  PROVE  /\ Rank(P, p) \in Nat
         /\ Rank(P, q) \in Nat
         /\ Rank(P, p) < Rank(P, q)
<1> DEFINE A == {x \in P : x < p}
           B == {x \in P : x < q}
<1>1. IsFiniteSet(A) /\ IsFiniteSet(B)
  BY FS_Subset
<1>2. A \subseteq B /\ p \in B /\ p \notin A
  <2>1. p \in Nat /\ q \in Nat
    OBVIOUS
  <2>2. \A x \in P : x < p => x < q
    OBVIOUS
  <2>3. A \subseteq B
    BY <2>2
  <2>4. p \in B
    OBVIOUS
  <2>5. ~(p < p)
    BY <2>1
  <2> QED
    BY <2>3, <2>4, <2>5
<1>3. Cardinality(A) <= Cardinality(B) /\ Cardinality(A) # Cardinality(B)
  BY <1>1, <1>2, FS_Subset
<1> QED
  BY <1>1, <1>3, FS_CardinalityType DEF Rank

(***************************************************************************)
(* The position that n others come before is the only one of that rank.    *)
(***************************************************************************)
LEMMA NthIs ==
  ASSUME NEW P, P \subseteq Nat, IsFiniteSet(P), NEW p \in P,
         NEW n, Rank(P, p) = n
  PROVE  Nth(P, n) = p
<1>1. ASSUME NEW q \in P, Rank(P, q) = n
      PROVE  q = p
  <2> DEFINE below(x) == Rank(P, x)
  <2>0. p \in Nat /\ q \in Nat /\ below(p) = below(q)
    BY <1>1
  <2>1. p < q => below(p) \in Nat /\ below(q) \in Nat /\ below(p) < below(q)
    BY FewerBelow
  <2>2. q < p => below(p) \in Nat /\ below(q) \in Nat /\ below(q) < below(p)
    BY FewerBelow
  <2> HIDE DEF below
  <2> QED
    BY <2>0, <2>1, <2>2
<1> QED
  BY <1>1 DEF Nth

(***************************************************************************)
(* There is a position of every rank below the number of positions: the    *)
(* ranks are different numbers below that number, as many as there are     *)
(* positions, so none is left out.                                         *)
(***************************************************************************)
LEMMA NthExists ==
  ASSUME NEW P, P \subseteq Nat, IsFiniteSet(P),
         NEW n \in 0..(Cardinality(P) - 1)
  PROVE  Nth(P, n) \in P /\ Rank(P, Nth(P, n)) = n
<1> DEFINE c == Cardinality(P)
           rank == [p \in P |-> Rank(P, p)]
<1>1. c \in Nat
  BY FS_CardinalityType
<1>2. ASSUME NEW p \in P
      PROVE  Rank(P, p) \in 0..(c - 1)
  <2> DEFINE A == {x \in P : x < p}
  <2>1. A \in SUBSET P /\ p \notin A
    OBVIOUS
  <2>2. IsFiniteSet(A) /\ Cardinality(A) <= c /\ Cardinality(A) # c
    BY <2>1, FS_Subset
  <2> HIDE DEF A, c
  <2>3. Cardinality(A) \in Nat
    BY <2>2, FS_CardinalityType
  <2> QED
    BY <1>1, <2>2, <2>3 DEF A, Rank
<1>3. rank \in Injection(P, 0..(c - 1))
  <2>1. rank \in [P -> 0..(c - 1)]
    BY <1>2
  <2>2. ASSUME NEW p \in P, NEW q \in P, rank[p] = rank[q]
        PROVE  p = q
    <3>1. Rank(P, p) = Rank(P, q)
      BY <2>2
    <3>2. p = Nth(P, rank[p])
      BY NthIs
    <3>3. q = Nth(P, rank[q])
      BY NthIs
    <3> QED
      BY <2>2, <3>2, <3>3
  <2> QED
    BY <2>1, <2>2 DEF Injection, IsInjective
<1>4. IsFiniteSet(0..(c - 1)) /\ Cardinality(0..(c - 1)) = c
  BY <1>1, FS_Interval
<1>5. rank \in Surjection(P, 0..(c - 1))
  BY <1>3, <1>4, FS_Injection
<1>6. PICK p \in P : rank[p] = n
  BY <1>5 DEF Surjection
<1> QED
  BY <1>6 DEF Nth

(***************************************************************************)
(* The words of the client's arguments and those the code writes itself.   *)
(***************************************************************************)
Vocabulary ==
  Words \cup StreamType \cup
    {":", ".", "1", "tickers", "publicTrade", "kline", "mudrex", "futures"}
Text == Seq(Vocabulary)

(***************************************************************************)
(* A piece of a text.                                                      *)
(***************************************************************************)
LEMMA SubSeqOfText ==
  ASSUME NEW text \in Text, NEW a \in Nat \ {0}, NEW b \in Int, b <= Len(text)
  PROVE  /\ SubSeq(text, a, b) \in Text
         /\ Len(SubSeq(text, a, b)) = IF a <= b THEN b - a + 1 ELSE 0
         /\ \A i \in 1..(b - a + 1) : SubSeq(text, a, b)[i] = text[a + i - 1]
<1>1. \A i \in a..b : text[i] \in Vocabulary
  BY DEF Text
<1> QED
  BY <1>1, SubSeqProperties DEF Text

(***************************************************************************)
(* Split cuts a text at finitely many places, at its two ends at least.    *)
(***************************************************************************)
LEMMA CutsAreFinite ==
  ASSUME NEW text \in Text, NEW separator
  PROVE  /\ Cuts(text, separator) \subseteq Nat
         /\ Cuts(text, separator) \subseteq 0..(Len(text) + 1)
         /\ IsFiniteSet(Cuts(text, separator))
         /\ Cardinality(Cuts(text, separator)) \in Nat
         /\ Cardinality(Cuts(text, separator)) >= 2
<1> DEFINE C == Cuts(text, separator)
<1>1. Len(text) \in Nat
  BY DEF Text
<1>2. C \subseteq 0..(Len(text) + 1)
  BY <1>1 DEF Cuts
<1>3. IsFiniteSet(0..(Len(text) + 1))
  BY <1>1, FS_Interval
<1>4. IsFiniteSet(C)
  BY <1>2, <1>3, FS_Subset
<1>5. Cardinality({0, Len(text) + 1}) = 2 /\ IsFiniteSet({0, Len(text) + 1})
  <2>1. {0, Len(text) + 1} = {0} \cup {Len(text) + 1} /\ Len(text) + 1 \notin {0}
    BY <1>1
  <2>2. IsFiniteSet({0}) /\ Cardinality({0}) = 1
    BY FS_Singleton
  <2>3. IsFiniteSet({0} \cup {Len(text) + 1})
    BY <2>2, FS_AddElement
  <2>4. Cardinality({0} \cup {Len(text) + 1}) = 1 + 1
    BY <2>1, <2>2, FS_AddElement
  <2>5. 1 + 1 = 2
    OBVIOUS
  <2> QED
    BY <2>1, <2>3, <2>4, <2>5, Zenon
<1>6. {0, Len(text) + 1} \subseteq C
  BY DEF Cuts
<1>7. Cardinality({0, Len(text) + 1}) <= Cardinality(C)
  BY <1>4, <1>6, FS_Subset
<1>8. C \subseteq Nat
  BY <1>1, <1>2
<1>9. Cardinality(C) \in Nat
  BY <1>4, FS_CardinalityType
<1> QED
  BY <1>2, <1>4, <1>5, <1>7, <1>8, <1>9

(***************************************************************************)
(* str.split never returns an empty list.                                  *)
(***************************************************************************)
LEMMA SplitLength ==
  ASSUME NEW text \in Text, NEW separator
  PROVE  /\ Len(Split(text, separator)) = Cardinality(Cuts(text, separator)) - 1
         /\ Len(Split(text, separator)) \in Nat \ {0}
         /\ \A n \in 1..Len(Split(text, separator)) :
              Split(text, separator)[n] = Part(text, Cuts(text, separator), n)
<1> DEFINE c == Cardinality(Cuts(text, separator))
           parts == Split(text, separator)
<1>1. c \in Nat /\ c >= 2
  BY CutsAreFinite
<1> HIDE DEF c
<1>2. parts = [n \in 1..(c - 1) |-> Part(text, Cuts(text, separator), n)]
  BY DEF Split, c
<1>3. c - 1 \in Nat \ {0}
  BY <1>1
<1>4. Len(parts) = c - 1
  BY <1>2, <1>3
<1> QED
  BY <1>2, <1>3, <1>4 DEF c

(***************************************************************************)
(* The parts are texts without the separator.                              *)
(***************************************************************************)
LEMMA PartType ==
  ASSUME NEW text \in Text, NEW separator, NEW n \in 1..Len(Split(text, separator))
  PROVE  /\ Split(text, separator)[n] \in Text
         /\ \A i \in 1..Len(Split(text, separator)[n]) :
              Split(text, separator)[n][i] # separator
<1> DEFINE C == Cuts(text, separator)
           a == Nth(C, n - 1)
           b == Nth(C, n)
           below(x) == Rank(C, x)
<1>1. /\ C \subseteq Nat /\ C \subseteq 0..(Len(text) + 1)
      /\ IsFiniteSet(C) /\ Cardinality(C) \in Nat /\ Len(text) \in Nat
  BY CutsAreFinite DEF Text
<1>2. n - 1 \in 0..(Cardinality(C) - 1) /\ n \in 0..(Cardinality(C) - 1) /\ n \in Nat
  BY <1>1, SplitLength
<1>3. a \in C /\ below(a) = n - 1
  BY <1>1, <1>2, NthExists
<1>4. b \in C /\ below(b) = n
  BY <1>1, <1>2, NthExists
<1> HIDE DEF C, a, b, below
<1>5. \A p, q \in C : p < q => below(p) \in Nat /\ below(q) \in Nat /\ below(p) < below(q)
  BY <1>1, FewerBelow DEF below
<1>6. a \in Nat /\ b \in Nat /\ a >= 0 /\ b <= Len(text) + 1
  BY <1>1, <1>3, <1>4
<1>7. ASSUME NEW i \in (a + 1)..(b - 1)
      PROVE  text[i] \in Vocabulary /\ text[i] # separator
  <2>1. i \in 1..Len(text) /\ a < i /\ i < b
    BY <1>1, <1>6
  <2>2. text[i] \in Vocabulary
    BY <2>1 DEF Text
  <2>3. ASSUME text[i] = separator
        PROVE  FALSE
    <3>1. i \in C
      BY <2>1, <2>3 DEF C, Cuts
    <3>2. below(a) < below(i) /\ below(i) < below(b) /\ below(i) \in Nat
      BY <1>3, <1>4, <1>5, <2>1, <3>1
    <3> QED
      BY <1>2, <1>3, <1>4, <3>2
  <2> QED
    BY <2>2, <2>3
<1>8. Split(text, separator)[n] = SubSeq(text, a + 1, b - 1)
  BY SplitLength DEF Part, a, b, C
<1> DEFINE l == a + 1
           r == b - 1
           part == SubSeq(text, l, r)
<1>9. l \in Nat \ {0} /\ r \in Int /\ r <= Len(text)
  BY <1>1, <1>6
<1> HIDE DEF l, r
<1>10. /\ part \in Text /\ Len(part) = IF l <= r THEN r - l + 1 ELSE 0
       /\ \A i \in 1..(r - l + 1) : part[i] = text[l + i - 1]
  BY <1>9, SubSeqOfText
<1>11. ASSUME NEW i \in 1..Len(part)
       PROVE  part[i] # separator
  <2>1. l + i - 1 \in l..r /\ part[i] = text[l + i - 1]
    BY <1>9, <1>10
  <2>2. l + i - 1 \in (a + 1)..(b - 1)
    BY <2>1 DEF l, r
  <2> QED
    BY <1>7, <2>1, <2>2
<1>12. Split(text, separator)[n] = part
  BY <1>8 DEF l, r
<1> QED
  BY <1>10, <1>11, <1>12

(***************************************************************************)
(* The part between the cuts of rank n and n + 1.                          *)
(***************************************************************************)
LEMMA PartIs ==
  ASSUME NEW text \in Text, NEW separator, NEW n \in Nat,
         NEW p \in Cuts(text, separator), NEW q \in Cuts(text, separator),
         Rank(Cuts(text, separator), p) = n,
         Rank(Cuts(text, separator), q) = n + 1
  PROVE  /\ n + 1 \in 1..Len(Split(text, separator))
         /\ Split(text, separator)[n + 1] = SubSeq(text, p + 1, q - 1)
<1> DEFINE C == Cuts(text, separator)
<1>1. C \subseteq Nat /\ IsFiniteSet(C) /\ Cardinality(C) \in Nat
  BY CutsAreFinite
<1>2. Nth(C, n) = p /\ Nth(C, n + 1) = q
  BY <1>1, NthIs
<1>3. n + 1 <= Cardinality(C) - 1
  <2> DEFINE B == {x \in C : x < q}
  <2>1. B \subseteq C /\ q \in C
    OBVIOUS
  <2>2. q \notin B
    BY <1>1
  <2>3. Cardinality(B) <= Cardinality(C) /\ Cardinality(B) # Cardinality(C)
    BY <1>1, <2>1, <2>2, FS_Subset
  <2>4. Cardinality(B) = n + 1
    BY DEF Rank
  <2> HIDE DEF B, C
  <2> QED
    BY <1>1, <2>3, <2>4
<1>4. n + 1 \in 1..Len(Split(text, separator))
  BY <1>1, <1>3, SplitLength
<1>5. Split(text, separator)[n + 1] = Part(text, C, n + 1)
  BY <1>4, SplitLength
<1>6. (n + 1) - 1 = n
  OBVIOUS
<1> QED
  BY <1>2, <1>4, <1>5, <1>6 DEF Part

(***************************************************************************)
(* The last part is what follows the last separator.                       *)
(***************************************************************************)
LEMMA LastPartIs ==
  ASSUME NEW text \in Text, NEW separator, NEW l \in 0..Len(text),
         l \in Cuts(text, separator),
         \A i \in (l + 1)..Len(text) : text[i] # separator
  PROVE  Last(Split(text, separator)) = SubSeq(text, l + 1, Len(text))
<1> DEFINE C == Cuts(text, separator)
           e == Len(text) + 1
<1>1. /\ C \subseteq Nat /\ IsFiniteSet(C) /\ Cardinality(C) \in Nat
      /\ Cardinality(C) >= 2 /\ C \subseteq 0..e /\ Len(text) \in Nat
  BY CutsAreFinite DEF Text
<1>2. e \in C /\ l \in C /\ l \in Nat /\ l < e
  BY <1>1 DEF Cuts
<1>3. {x \in C : x < e} = C \ {e}
  BY <1>1
<1>4. {x \in C : x < l} = (C \ {e}) \ {l}
  <2>1. ASSUME NEW x \in C, x # e, x # l
        PROVE  x < l
    <3>1. (x \in 1..Len(text) /\ text[x] = separator) \/ x = 0
      BY <1>1, <2>1 DEF Cuts
    <3> QED
      BY <1>1, <1>2, <2>1, <3>1
  <2>2. ~(l < l) /\ ~(e < l)
    BY <1>2, <1>1
  <2> QED
    BY <2>1, <2>2
<1>5. IsFiniteSet(C \ {e}) /\ Cardinality(C \ {e}) = Cardinality(C) - 1
  BY <1>1, <1>2, FS_RemoveElement
<1>6. Cardinality((C \ {e}) \ {l}) = Cardinality(C) - 2
  <2>1. l \in C \ {e}
    BY <1>2
  <2>2. Cardinality((C \ {e}) \ {l}) = Cardinality(C \ {e}) - 1
    BY <1>5, <2>1, FS_RemoveElement
  <2> HIDE DEF C, e
  <2> QED
    BY <1>1, <1>5, <2>2
<1>7. PICK n \in Nat : n = Cardinality(C) - 2
  BY <1>1
<1>8. Rank(C, l) = n /\ Rank(C, e) = n + 1
  <2> HIDE DEF C, e
  <2>1. Cardinality((C \ {e}) \ {l}) = n /\ Cardinality(C \ {e}) = n + 1
    BY <1>1, <1>5, <1>6, <1>7
  <2> QED
    BY <1>3, <1>4, <2>1, Zenon DEF Rank
<1>9. Split(text, separator)[n + 1] = SubSeq(text, l + 1, e - 1)
  BY <1>2, <1>8, PartIs
<1>10. Len(Split(text, separator)) = n + 1
  BY <1>1, <1>7, SplitLength
<1>11. e - 1 = Len(text)
  BY <1>1
<1> HIDE DEF e
<1> QED
  BY <1>9, <1>10, <1>11 DEF Last

(***************************************************************************)
(* Between two cuts next to each other lies one part.                      *)
(***************************************************************************)
LEMMA PartBetween ==
  ASSUME NEW text \in Text, NEW separator,
         NEW p \in Cuts(text, separator), NEW q \in Cuts(text, separator), p < q,
         \A x \in Cuts(text, separator) : ~(p < x /\ x < q),
         NEW n \in Nat, Rank(Cuts(text, separator), p) = n
  PROVE  /\ Rank(Cuts(text, separator), q) = n + 1
         /\ n + 1 \in 1..Len(Split(text, separator))
         /\ Split(text, separator)[n + 1] = SubSeq(text, p + 1, q - 1)
<1> DEFINE C == Cuts(text, separator)
           B == {x \in C : x < p}
<1>1. C \subseteq Nat /\ IsFiniteSet(C)
  BY CutsAreFinite
<1>2. {x \in C : x < q} = B \cup {p}
  <2>1. ASSUME NEW x \in C, x < q
        PROVE  x \in B \cup {p}
    BY <1>1, <2>1
  <2>2. ASSUME NEW x \in B \cup {p}
        PROVE  x \in C /\ x < q
    BY <1>1, <2>2
  <2> QED
    BY <2>1, <2>2
<1>3. IsFiniteSet(B) /\ p \notin B
  <2>1. B \subseteq C
    OBVIOUS
  <2> QED
    BY <1>1, <2>1, FS_Subset
<1>4. Cardinality(B \cup {p}) = n + 1
  BY <1>3, FS_AddElement DEF Rank
<1>5. Rank(C, q) = n + 1
  BY <1>2, <1>4 DEF Rank
<1> QED
  BY <1>5, PartIs

(***************************************************************************)
(* What parse_stream_arg returns, and that no interval it returns holds a  *)
(* ":".                                                                    *)
(***************************************************************************)
Stream == [type : StreamType, symbol : Text, interval : Text]

Parsable(s) == s \in Stream /\ ~Has(s.interval, ":")

(***************************************************************************)
(* Whatever the argument: a stream that parse_stream_arg does not reject   *)
(* has one of the three types, and no ":" in its interval.                 *)
(***************************************************************************)
LEMMA ParsedIsParsable ==
  ASSUME NEW arg \in Text, ParseStreamArg(arg) # Rejected
  PROVE  Parsable(ParseStreamArg(arg))
<1> DEFINE parts == Split(arg, ":")
           symbol == Last(parts)
           dotted == SubSeq(arg, Len(Legacy) + 1, Len(arg))
<1>1. <<>> \in Text /\ ~Has(<<>>, ":")
  BY DEF Text, Has, Contains
<1>2. CASE StartsWith(arg, Legacy) /\ dotted # <<>>
  <2>1. ParseStreamArg(arg) = Parsed("ticker", dotted, <<>>)
    BY <1>2 DEF ParseStreamArg
  <2>2. dotted \in Text
    <3>1. Len(Legacy) = 2 /\ Len(arg) \in Nat
      BY DEF Legacy, Text
    <3> QED
      BY <3>1, SubSeqOfText
  <2> QED
    BY <1>1, <2>1, <2>2 DEF Parsed, Parsable, Stream, StreamType
<1>3. CASE ~(StartsWith(arg, Legacy) /\ dotted # <<>>)
  <2>1. /\ Len(parts) \in {2, 3}
        /\ \E type \in StreamType : parts[1] = <<type>>
        /\ ParseStreamArg(arg)
             = Parsed(parts[1][1], symbol, IF Len(parts) = 3 THEN parts[2] ELSE <<>>)
    BY <1>3 DEF ParseStreamArg
  <2>2. parts[1][1] \in StreamType
    BY <2>1
  <2>3. symbol \in Text
    BY <2>1, PartType, SplitLength DEF Last
  <2>4. Len(parts) = 3 => parts[2] \in Text /\ ~Has(parts[2], ":")
    BY PartType DEF Has, Contains
  <2> QED
    BY <1>1, <2>1, <2>2, <2>3, <2>4 DEF Parsed, Parsable, Stream
<1> QED
  BY <1>2, <1>3

(***************************************************************************)
(* Arguments are texts.                                                    *)
(***************************************************************************)
LEMMA ArgsAreTexts == Args \subseteq Text
<1> SUFFICES ASSUME NEW arg \in Args
             PROVE  arg \in Text
  OBVIOUS
<1>1. arg \in Seq(Words)
  BY ArgListsAssumption
<1>2. Words \subseteq Vocabulary
  BY Zenon DEF Vocabulary
<1> QED
  BY <1>1, <1>2, SeqMonotonic DEF Text

(***************************************************************************)
(* The streams that the client may ask for are such streams.               *)
(***************************************************************************)
LEMMA NamedIsParsable ==
  ASSUME NEW s \in Named
  PROVE  Parsable(s)
<1>1. s # Rejected
  BY DEF Named
<1>2. PICK arg \in Args : s = ParseStreamArg(arg)
  BY DEF Named
<1> QED
  BY <1>1, <1>2, ArgsAreTexts, ParsedIsParsable

(***************************************************************************)
(* A text with another in front of it.                                     *)
(***************************************************************************)
LEMMA WithPrefix ==
  ASSUME NEW head \in Text, NEW text \in Text
  PROVE  /\ head \o text \in Text
         /\ Len(head \o text) = Len(head) + Len(text)
         /\ Len(head) \in Nat /\ Len(text) \in Nat
         /\ \A i \in 1..Len(head) : (head \o text)[i] = head[i]
         /\ \A i \in 1..Len(text) : (head \o text)[Len(head) + i] = text[i]
<1>1. Len(head) \in Nat /\ Len(text) \in Nat
  BY DEF Text
<1>2. /\ head \o text \in Seq(Vocabulary)
      /\ Len(head \o text) = Len(head) + Len(text)
      /\ \A i \in 1..(Len(head) + Len(text)) :
           (head \o text)[i] = IF i <= Len(head) THEN head[i] ELSE text[i - Len(head)]
  BY ConcatProperties DEF Text
<1>3. ASSUME NEW i \in 1..Len(head)
      PROVE  (head \o text)[i] = head[i]
  BY <1>1, <1>2
<1>4. ASSUME NEW i \in 1..Len(text)
      PROVE  (head \o text)[Len(head) + i] = text[i]
  <2>1. Len(head) + i \in 1..(Len(head) + Len(text)) /\ ~(Len(head) + i <= Len(head))
        /\ (Len(head) + i) - Len(head) = i
    BY <1>1
  <2> QED
    BY <1>2, <2>1
<1> QED
  BY <1>1, <1>2, <1>3, <1>4 DEF Text

(***************************************************************************)
(* Two texts of the same words are the same.                               *)
(***************************************************************************)
LEMMA SameText ==
  ASSUME NEW text \in Text, NEW other \in Text, Len(text) = Len(other),
         \A i \in 1..Len(text) : text[i] = other[i]
  PROVE  text = other
BY SeqEqual DEF Text

(***************************************************************************)
(* What stands where in a key of make_stream_key.                          *)
(***************************************************************************)
LEMMA KeyShape ==
  ASSUME NEW s \in Stream
  PROVE  LET key == MakeStreamKey(s)
             i == Len(s.interval)
             n == Len(s.symbol)
         IN  /\ key \in Text /\ i \in Nat /\ n \in Nat
             /\ key[1] = s.type /\ key[2] = ":"
             /\ s.interval = <<>> =>
                  Len(key) = 2 + n /\ \A j \in 1..n : key[2 + j] = s.symbol[j]
             /\ s.interval # <<>> =>
                  /\ i > 0 /\ Len(key) = 3 + i + n
                  /\ \A j \in 1..i : key[2 + j] = s.interval[j]
                  /\ key[3 + i] = ":"
                  /\ \A j \in 1..n : key[3 + i + j] = s.symbol[j]
<1> DEFINE key == MakeStreamKey(s)
           i == Len(s.interval)
           n == Len(s.symbol)
           head == <<s.type, ":">>
           colon == <<":">>
<1>1. /\ s.symbol \in Text /\ s.interval \in Text /\ i \in Nat /\ n \in Nat
      /\ s.interval # <<>> => i > 0
  BY DEF Stream, Text
<1>2. head \in Text /\ Len(head) = 2 /\ head[1] = s.type /\ head[2] = ":"
  <2>1. s.type \in Vocabulary /\ ":" \in Vocabulary
    BY DEF Stream, Vocabulary
  <2>2. head \in Seq(Vocabulary)
    BY <2>1
  <2> QED
    BY <2>2 DEF Text
<1>3. colon \in Text /\ Len(colon) = 1 /\ colon[1] = ":"
  <2>1. ":" \in Vocabulary
    BY DEF Vocabulary
  <2> QED
    BY <2>1 DEF Text
<1> HIDE DEF head, colon, i, n
<1>4. CASE s.interval = <<>>
  <2>1. key = head \o s.symbol
    BY <1>4 DEF MakeStreamKey, head
  <2>2. /\ key \in Text /\ Len(key) = 2 + n
        /\ \A j \in 1..2 : key[j] = head[j]
        /\ \A j \in 1..n : key[2 + j] = s.symbol[j]
    <3>1. /\ head \o s.symbol \in Text
          /\ Len(head \o s.symbol) = Len(head) + Len(s.symbol)
          /\ \A j \in 1..Len(head) : (head \o s.symbol)[j] = head[j]
          /\ \A j \in 1..Len(s.symbol) : (head \o s.symbol)[Len(head) + j] = s.symbol[j]
      BY <1>1, <1>2, WithPrefix
    <3> QED
      BY <1>2, <2>1, <3>1, Zenon DEF n
  <2>3. key[1] = s.type /\ key[2] = ":"
    BY <1>2, <2>2
  <2> QED
    BY <1>1, <1>4, <2>2, <2>3 DEF i, n
<1>5. CASE s.interval # <<>>
  <2> DEFINE a == head \o s.interval
             b == a \o colon
  <2>1. key = b \o s.symbol
    BY <1>5 DEF MakeStreamKey, head, colon
  <2>2. /\ a \in Text /\ Len(a) = 2 + i
        /\ \A j \in 1..2 : a[j] = head[j]
        /\ \A j \in 1..i : a[2 + j] = s.interval[j]
    <3>1. /\ a \in Text
          /\ Len(a) = Len(head) + Len(s.interval)
          /\ \A j \in 1..Len(head) : a[j] = head[j]
          /\ \A j \in 1..Len(s.interval) : a[Len(head) + j] = s.interval[j]
      BY <1>1, <1>2, WithPrefix
    <3> QED
      BY <1>2, <3>1, Zenon DEF i
  <2> HIDE DEF a
  <2>3. /\ b \in Text /\ Len(b) = 3 + i
        /\ \A j \in 1..(2 + i) : b[j] = a[j]
        /\ b[3 + i] = ":"
    <3>1. /\ b \in Text /\ Len(b) = (2 + i) + 1
          /\ \A j \in 1..(2 + i) : b[j] = a[j]
          /\ \A j \in 1..1 : b[(2 + i) + j] = colon[j]
      <4>1. /\ b \in Text
            /\ Len(b) = Len(a) + Len(colon)
            /\ \A j \in 1..Len(a) : b[j] = a[j]
            /\ \A j \in 1..Len(colon) : b[Len(a) + j] = colon[j]
        BY <1>3, <2>2, WithPrefix
      <4> QED
        BY <1>3, <2>2, <4>1, Zenon
    <3>2. b[(2 + i) + 1] = ":" /\ (2 + i) + 1 = 3 + i
      BY <1>1, <1>3, <3>1
    <3> QED
      BY <3>1, <3>2
  <2> HIDE DEF b
  <2>4. /\ key \in Text /\ Len(key) = 3 + i + n
        /\ \A j \in 1..(3 + i) : key[j] = b[j]
        /\ \A j \in 1..n : key[3 + i + j] = s.symbol[j]
    <3>1. /\ b \o s.symbol \in Text
          /\ Len(b \o s.symbol) = Len(b) + Len(s.symbol)
          /\ \A j \in 1..Len(b) : (b \o s.symbol)[j] = b[j]
          /\ \A j \in 1..Len(s.symbol) : (b \o s.symbol)[Len(b) + j] = s.symbol[j]
      BY <1>1, <2>3, WithPrefix
    <3> QED
      BY <2>1, <2>3, <3>1, Zenon DEF n
  <2>5. key[1] = s.type /\ key[2] = ":" /\ key[3 + i] = ":"
    <3>1. 1 \in 1..(2 + i) /\ 2 \in 1..(2 + i) /\ 3 + i \in 1..(3 + i)
          /\ 1 \in 1..(3 + i) /\ 2 \in 1..(3 + i)
      BY <1>1
    <3> QED
      BY <1>2, <2>2, <2>3, <2>4, <3>1
  <2>6. \A j \in 1..i : key[2 + j] = s.interval[j]
    <3> SUFFICES ASSUME NEW j \in 1..i PROVE key[2 + j] = s.interval[j]
      OBVIOUS
    <3>1. 2 + j \in 1..(2 + i) /\ 2 + j \in 1..(3 + i)
      BY <1>1
    <3> QED
      BY <2>2, <2>3, <2>4, <3>1
  <2> QED
    BY <1>1, <1>5, <2>4, <2>5, <2>6 DEF i, n
<1> QED
  BY <1>4, <1>5

(***************************************************************************)
(* A text holds the words that stand somewhere in it.                      *)
(***************************************************************************)
LEMMA HasAt ==
  ASSUME NEW text \in Text, NEW word
  PROVE  Has(text, word) <=> \E i \in 1..Len(text) : text[i] = word
BY DEF Has, Contains

(***************************************************************************)
(* A key without an interval that is also a key with one: its symbol holds *)
(* a ":".                                                                  *)
(***************************************************************************)
LEMMA PlainKeyIsOther ==
  ASSUME NEW s, Parsable(s), NEW t, Parsable(t),
         MakeStreamKey(s) = MakeStreamKey(t),
         s.interval = <<>>, t.interval # <<>>
  PROVE  Has(s.symbol, ":")
<1> DEFINE key == MakeStreamKey(s)
           i == Len(t.interval)
           n == Len(s.symbol)
           m == Len(t.symbol)
<1>1. s \in Stream /\ t \in Stream /\ s.symbol \in Text
  BY DEF Parsable, Stream
<1>2. n \in Nat /\ Len(key) = 2 + n /\ \A j \in 1..n : key[2 + j] = s.symbol[j]
  BY <1>1, KeyShape
<1>3. /\ i \in Nat /\ i > 0 /\ m \in Nat /\ Len(MakeStreamKey(t)) = 3 + i + m
      /\ MakeStreamKey(t)[3 + i] = ":"
  BY <1>1, KeyShape
<1>4. key[3 + i] = ":" /\ Len(key) = 3 + i + m
  BY <1>3
<1> HIDE DEF i, n, m, key
<1>5. 1 + i \in 1..n /\ 2 + (1 + i) = 3 + i
  BY <1>2, <1>3, <1>4
<1>6. s.symbol[1 + i] = ":"
  BY <1>2, <1>4, <1>5
<1> QED
  BY <1>1, <1>5, <1>6, HasAt DEF n

(***************************************************************************)
(* Two equal keys with intervals have intervals of the same length, for no *)
(* interval holds a ":".                                                   *)
(***************************************************************************)
LEMMA IntervalsAreAligned ==
  ASSUME NEW s, Parsable(s), NEW t, Parsable(t),
         MakeStreamKey(s) = MakeStreamKey(t),
         s.interval # <<>>, t.interval # <<>>
  PROVE  Len(s.interval) >= Len(t.interval)
<1> SUFFICES ASSUME Len(s.interval) < Len(t.interval)
             PROVE  FALSE
  BY DEF Parsable, Stream, Text
<1> DEFINE i == Len(s.interval)
           k == Len(t.interval)
<1>1. s \in Stream /\ t \in Stream /\ t.interval \in Text
  BY DEF Parsable, Stream
<1>2. i \in Nat /\ MakeStreamKey(s)[3 + i] = ":"
  BY <1>1, KeyShape
<1>3. k \in Nat /\ \A j \in 1..k : MakeStreamKey(t)[2 + j] = t.interval[j]
  BY <1>1, KeyShape
<1>4. i < k
  OBVIOUS
<1> HIDE DEF i, k
<1>5. 1 + i \in 1..k /\ 2 + (1 + i) = 3 + i
  BY <1>2, <1>3, <1>4
<1>6. t.interval[1 + i] = ":"
  BY <1>2, <1>3, <1>5
<1>7. Has(t.interval, ":")
  BY <1>1, <1>5, <1>6, HasAt DEF k
<1> QED
  BY <1>7 DEF Parsable

(***************************************************************************)
(* Two streams with the same key have the same channel, unless the symbol  *)
(* of one of them holds a ":". So the keys of _subscribed_keys, which the  *)
(* counts are taken by, tell the channels apart.                           *)
(***************************************************************************)
THEOREM KeysTellChannels ==
  ASSUME NEW s, Parsable(s), NEW t, Parsable(t),
         MakeStreamKey(s) = MakeStreamKey(t),
         ~Has(s.symbol, ":"), ~Has(t.symbol, ":")
  PROVE  MakeChannel(s) = MakeChannel(t)
<1>1. s \in Stream /\ t \in Stream /\ s.symbol \in Text /\ t.symbol \in Text
  BY DEF Parsable, Stream
<1>2. s.type = t.type
  BY <1>1, KeyShape
<1>3. CASE s.interval = <<>> /\ t.interval = <<>>
  <2>1. /\ Len(s.symbol) \in Nat /\ Len(MakeStreamKey(s)) = 2 + Len(s.symbol)
        /\ \A j \in 1..Len(s.symbol) : MakeStreamKey(s)[2 + j] = s.symbol[j]
    BY <1>1, <1>3, KeyShape
  <2>2. /\ Len(t.symbol) \in Nat /\ Len(MakeStreamKey(t)) = 2 + Len(t.symbol)
        /\ \A j \in 1..Len(t.symbol) : MakeStreamKey(t)[2 + j] = t.symbol[j]
    BY <1>1, <1>3, KeyShape
  <2>3. Len(s.symbol) = Len(t.symbol)
    BY <2>1, <2>2
  <2>4. \A j \in 1..Len(s.symbol) : s.symbol[j] = t.symbol[j]
    BY <2>1, <2>2, <2>3
  <2> QED
    BY <1>1, <1>2, <2>3, <2>4, SameText DEF MakeChannel
<1>4. CASE s.interval # <<>> /\ t.interval # <<>>
  <2> DEFINE i == Len(s.interval)
  <2>1. /\ i \in Nat /\ Len(s.symbol) \in Nat
        /\ Len(MakeStreamKey(s)) = 3 + i + Len(s.symbol)
        /\ \A j \in 1..Len(s.symbol) : MakeStreamKey(s)[3 + i + j] = s.symbol[j]
    BY <1>1, <1>4, KeyShape
  <2>2. /\ Len(t.interval) \in Nat /\ Len(t.symbol) \in Nat
        /\ Len(MakeStreamKey(t)) = 3 + Len(t.interval) + Len(t.symbol)
        /\ \A j \in 1..Len(t.symbol) :
             MakeStreamKey(t)[3 + Len(t.interval) + j] = t.symbol[j]
    BY <1>1, <1>4, KeyShape
  <2>3. i = Len(t.interval)
    <3>1. i >= Len(t.interval) /\ Len(t.interval) >= i
      BY <1>4, IntervalsAreAligned
    <3> QED
      BY <2>1, <2>2, <3>1
  <2> HIDE DEF i
  <2>4. Len(s.symbol) = Len(t.symbol)
    <3>1. 3 + i + Len(s.symbol) = 3 + i + Len(t.symbol)
      BY <2>1, <2>2, <2>3
    <3>2. \A a, b, c \in Nat : 3 + a + b = 3 + a + c => b = c
      OBVIOUS
    <3> QED
      BY <2>1, <2>2, <3>1, <3>2
  <2>5. \A j \in 1..Len(s.symbol) : s.symbol[j] = t.symbol[j]
    BY <2>1, <2>2, <2>3, <2>4
  <2> QED
    BY <1>1, <1>2, <2>4, <2>5, SameText DEF MakeChannel
<1>5. CASE s.interval = <<>> /\ t.interval # <<>>
  BY <1>5, PlainKeyIsOther
<1>6. CASE s.interval # <<>> /\ t.interval = <<>>
  BY <1>6, PlainKeyIsOther
<1> QED
  BY <1>3, <1>4, <1>5, <1>6

(***************************************************************************)
(* The first part is the first word, when the second word is the           *)
(* separator.                                                              *)
(***************************************************************************)
LEMMA FirstPartIs ==
  ASSUME NEW text \in Text, NEW separator, Len(text) >= 2,
         text[1] # separator, text[2] = separator
  PROVE  /\ 1 \in 1..Len(Split(text, separator))
         /\ Split(text, separator)[1] = SubSeq(text, 1, 1)
         /\ Rank(Cuts(text, separator), 2) = 1
<1> DEFINE C == Cuts(text, separator)
<1>1. Len(text) \in Nat /\ C \subseteq Nat
  BY CutsAreFinite DEF Text
<1>2. 0 \in C /\ 2 \in C
  BY <1>1 DEF Cuts
<1>3. \A x \in C : ~(0 < x /\ x < 2)
  BY <1>1 DEF Cuts
<1>4. Rank(C, 0) = 0
  <2>1. {x \in C : x < 0} = {}
    BY <1>1
  <2> QED
    BY <2>1, FS_EmptySet DEF Rank
<1> HIDE DEF C
<1>5. /\ Rank(C, 2) = 0 + 1
      /\ 0 + 1 \in 1..Len(Split(text, separator))
      /\ Split(text, separator)[0 + 1] = SubSeq(text, 0 + 1, 2 - 1)
  <2>1. ASSUME NEW p \in C, NEW q \in C, p < q, \A x \in C : ~(p < x /\ x < q),
               NEW n \in Nat, Rank(C, p) = n
        PROVE  /\ Rank(C, q) = n + 1
               /\ n + 1 \in 1..Len(Split(text, separator))
               /\ Split(text, separator)[n + 1] = SubSeq(text, p + 1, q - 1)
    BY <2>1, PartBetween DEF C
  <2>2. 0 < 2 /\ 0 \in Nat
    OBVIOUS
  <2> QED
    BY <1>2, <1>3, <1>4, <2>1, <2>2
<1> QED
  BY <1>5 DEF C

(***************************************************************************)
(* _cleanup takes the channel of a stream back from its key, interval or   *)
(* not, unless the symbol holds a ":".                                     *)
(***************************************************************************)
THEOREM FromKeyOfKey ==
  ASSUME NEW s, Parsable(s), ~Has(s.symbol, ":")
  PROVE  MakeChannel(FromKey(MakeStreamKey(s))) = MakeChannel(s)
<1> DEFINE key == MakeStreamKey(s)
           n == Len(s.symbol)
           parts == Split(key, ":")
<1>1. s \in Stream /\ s.symbol \in Text
  BY DEF Parsable, Stream
<1>2. /\ key \in Text /\ n \in Nat /\ Len(key) \in Nat /\ Len(key) >= 2
      /\ key[1] = s.type /\ key[2] = ":"
  <2>1. /\ key \in Text /\ n \in Nat /\ Len(s.interval) \in Nat
        /\ key[1] = s.type /\ key[2] = ":"
        /\ \/ Len(key) = 2 + n
           \/ Len(key) = 3 + Len(s.interval) + n
    BY <1>1, KeyShape
  <2> HIDE DEF key, n
  <2> QED
    BY <2>1
<1>3. PICK l \in Nat : /\ Len(key) = l + n /\ l > 0 /\ key[l] = ":"
                       /\ \A j \in 1..n : key[l + j] = s.symbol[j]
  <2>1. CASE s.interval = <<>>
    <3>1. /\ Len(key) = 2 + n /\ key[2] = ":"
          /\ \A j \in 1..n : key[2 + j] = s.symbol[j]
      BY <1>1, <2>1, KeyShape
    <3> QED
      BY <3>1
  <2>2. CASE s.interval # <<>>
    <3>1. /\ Len(key) = 3 + Len(s.interval) + n /\ key[3 + Len(s.interval)] = ":"
          /\ \A j \in 1..n : key[3 + Len(s.interval) + j] = s.symbol[j]
          /\ Len(s.interval) \in Nat
      BY <1>1, <2>2, KeyShape
    <3>2. 3 + Len(s.interval) \in Nat /\ 3 + Len(s.interval) > 0
      BY <3>1
    <3> QED
      BY <3>1, <3>2
  <2> QED
    BY <2>1, <2>2
<1> HIDE DEF key, n
<1>4. \A j \in 1..n : s.symbol[j] # ":"
  BY <1>1, HasAt DEF n
<1>5. \A j \in (l + 1)..Len(key) : key[j] # ":"
  <2> SUFFICES ASSUME NEW j \in (l + 1)..Len(key)
               PROVE  key[j] # ":"
    OBVIOUS
  <2>1. j - l \in 1..n /\ l + (j - l) = j
    BY <1>2, <1>3
  <2> QED
    BY <1>3, <1>4, <2>1
<1>6. l \in 0..Len(key) /\ l \in Cuts(key, ":")
  BY <1>2, <1>3 DEF Cuts
<1>7. Last(parts) = SubSeq(key, l + 1, Len(key))
  BY <1>2, <1>5, <1>6, LastPartIs
<1>8. SubSeq(key, l + 1, Len(key)) = s.symbol
  <2> DEFINE sub == SubSeq(key, l + 1, Len(key))
  <2>1. /\ sub \in Text
        /\ Len(sub) = IF l + 1 <= Len(key) THEN Len(key) - (l + 1) + 1 ELSE 0
        /\ \A j \in 1..(Len(key) - (l + 1) + 1) : sub[j] = key[l + 1 + j - 1]
    BY <1>2, <1>3, SubSeqOfText
  <2>2. Len(sub) = n
    BY <1>2, <1>3, <2>1
  <2>3. \A j \in 1..Len(sub) : sub[j] = s.symbol[j]
    <3> SUFFICES ASSUME NEW j \in 1..n PROVE sub[j] = s.symbol[j]
      BY <2>2
    <3>1. j \in 1..(Len(key) - (l + 1) + 1) /\ l + 1 + j - 1 = l + j
      BY <1>2, <1>3
    <3> QED
      BY <1>3, <2>1, <3>1
  <2> QED
    BY <1>1, <2>1, <2>2, <2>3, SameText DEF n
<1>9. parts[1][1] = s.type
  <2>1. s.type # ":"
    BY <1>1 DEF Stream, StreamType
  <2>2. parts[1] = SubSeq(key, 1, 1)
    BY <1>2, <2>1, FirstPartIs
  <2>3. SubSeq(key, 1, 1)[1] = key[1]
    BY <1>2, SubSeqOfText
  <2> QED
    BY <1>2, <2>2, <2>3
<1>10. FromKey(key) = Parsed(s.type, s.symbol, <<>>)
  BY <1>7, <1>8, <1>9 DEF FromKey
<1> QED
  BY <1>10 DEF key, MakeChannel, Parsed

(***************************************************************************)
(* The last part is the text after a separator that holds no other.        *)
(***************************************************************************)
LEMMA LastPartAfter ==
  ASSUME NEW text \in Text, NEW separator, NEW rest \in Text, ~Has(rest, separator),
         NEW l \in Nat \ {0}, Len(text) = l + Len(rest), text[l] = separator,
         \A j \in 1..Len(rest) : text[l + j] = rest[j]
  PROVE  Last(Split(text, separator)) = rest
<1> DEFINE n == Len(rest)
           sub == SubSeq(text, l + 1, Len(text))
<1>1. n \in Nat /\ Len(text) \in Nat
  BY DEF Text
<1>2. \A j \in 1..n : rest[j] # separator
  BY HasAt
<1> HIDE DEF n
<1>3. Len(text) = l + n
  BY DEF n
<1>4. \A j \in 1..n : text[l + j] = rest[j]
  BY DEF n
<1>5. \A j \in (l + 1)..Len(text) : text[j] # separator
  <2> SUFFICES ASSUME NEW j \in (l + 1)..Len(text)
               PROVE  text[j] # separator
    OBVIOUS
  <2>1. j - l \in 1..n /\ l + (j - l) = j
    BY <1>1, <1>3
  <2> QED
    BY <1>2, <1>4, <2>1
<1>6. l \in 0..Len(text) /\ l \in Cuts(text, separator)
  BY <1>1, <1>3 DEF Cuts
<1>7. Last(Split(text, separator)) = sub
  BY <1>5, <1>6, LastPartIs
<1>8. /\ sub \in Text
      /\ Len(sub) = IF l + 1 <= Len(text) THEN Len(text) - (l + 1) + 1 ELSE 0
      /\ \A j \in 1..(Len(text) - (l + 1) + 1) : sub[j] = text[l + 1 + j - 1]
  <2>1. l + 1 \in Nat \ {0} /\ Len(text) \in Int /\ Len(text) <= Len(text)
    BY <1>1
  <2> QED
    BY <2>1, SubSeqOfText
<1> HIDE DEF sub
<1>9. Len(sub) = n
  BY <1>1, <1>3, <1>8
<1>10. \A j \in 1..Len(sub) : sub[j] = rest[j]
  <2> SUFFICES ASSUME NEW j \in 1..n PROVE sub[j] = rest[j]
    BY <1>9
  <2>1. j \in 1..(Len(text) - (l + 1) + 1) /\ l + 1 + j - 1 = l + j
    BY <1>1, <1>3
  <2> QED
    BY <1>4, <1>8, <2>1
<1> QED
  BY <1>7, <1>8, <1>9, <1>10, SameText DEF n

(***************************************************************************)
(* The last part is a text without the separator.                          *)
(***************************************************************************)
LEMMA LastPartIsClean ==
  ASSUME NEW text \in Text, NEW separator
  PROVE  /\ Last(Split(text, separator)) \in Text
         /\ ~Has(Last(Split(text, separator)), separator)
<1> DEFINE parts == Split(text, separator)
<1>1. Len(parts) \in 1..Len(parts)
  BY SplitLength
<1>2. parts[Len(parts)] \in Text
      /\ \A i \in 1..Len(parts[Len(parts)]) : parts[Len(parts)][i] # separator
  BY <1>1, PartType
<1> QED
  BY <1>2, HasAt DEF Last

(***************************************************************************)
(* The second part is the third word, when the words before and after it   *)
(* are separators.                                                         *)
(***************************************************************************)
LEMMA SecondPartIs ==
  ASSUME NEW text \in Text, NEW separator, Len(text) >= 4,
         text[1] # separator, text[2] = separator,
         text[3] # separator, text[4] = separator
  PROVE  /\ 2 \in 1..Len(Split(text, separator))
         /\ Split(text, separator)[2] = SubSeq(text, 3, 3)
         /\ Rank(Cuts(text, separator), 4) = 2
<1> DEFINE C == Cuts(text, separator)
<1>1. Len(text) \in Nat
  BY DEF Text
<1>2. 2 \in C /\ 4 \in C
  BY <1>1 DEF Cuts
<1>3. \A x \in C : ~(2 < x /\ x < 4)
  BY <1>1 DEF Cuts
<1>4. Rank(C, 2) = 1
  BY <1>1, FirstPartIs
<1>5. ASSUME NEW p \in C, NEW q \in C, p < q, \A x \in C : ~(p < x /\ x < q),
             NEW n \in Nat, Rank(C, p) = n
      PROVE  /\ Rank(C, q) = n + 1
             /\ n + 1 \in 1..Len(Split(text, separator))
             /\ Split(text, separator)[n + 1] = SubSeq(text, p + 1, q - 1)
  BY <1>5, PartBetween
<1> HIDE DEF C
<1>6. 2 < 4 /\ 1 \in Nat
  OBVIOUS
<1>7. /\ Rank(C, 4) = 1 + 1
      /\ 1 + 1 \in 1..Len(Split(text, separator))
      /\ Split(text, separator)[1 + 1] = SubSeq(text, 2 + 1, 4 - 1)
  BY <1>2, <1>3, <1>4, <1>5, <1>6
<1> QED
  BY <1>7 DEF C

(***************************************************************************)
(* The third part begins at the fifth word then, and ends at the next cut. *)
(***************************************************************************)
LEMMA ThirdPartIs ==
  ASSUME NEW text \in Text, NEW separator, Len(text) >= 4,
         text[1] # separator, text[2] = separator,
         text[3] # separator, text[4] = separator,
         NEW q \in Cuts(text, separator), 4 < q,
         \A x \in Cuts(text, separator) : ~(4 < x /\ x < q)
  PROVE  /\ 3 \in 1..Len(Split(text, separator))
         /\ Split(text, separator)[3] = SubSeq(text, 5, q - 1)
<1> DEFINE C == Cuts(text, separator)
<1>1. Len(text) \in Nat /\ 4 \in C
  BY DEF Text, Cuts
<1>2. Rank(C, 4) = 2
  BY SecondPartIs
<1>3. ASSUME NEW p \in C, p < q, \A x \in C : ~(p < x /\ x < q),
             NEW n \in Nat, Rank(C, p) = n
      PROVE  /\ n + 1 \in 1..Len(Split(text, separator))
             /\ Split(text, separator)[n + 1] = SubSeq(text, p + 1, q - 1)
  BY <1>3, PartBetween
<1> HIDE DEF C
<1>4. /\ 2 + 1 \in 1..Len(Split(text, separator))
      /\ Split(text, separator)[2 + 1] = SubSeq(text, 4 + 1, q - 1)
  <2>1. \A x \in C : ~(4 < x /\ x < q)
    BY DEF C
  <2> QED
    BY <1>1, <1>2, <1>3, <2>1
<1> QED
  BY <1>4

(***************************************************************************)
(* There is a third part then.                                             *)
(***************************************************************************)
LEMMA AtLeastThreeParts ==
  ASSUME NEW text \in Text, NEW separator, Len(text) >= 4,
         text[1] # separator, text[2] = separator,
         text[3] # separator, text[4] = separator
  PROVE  3 \in 1..Len(Split(text, separator))
<1> DEFINE C == Cuts(text, separator)
           e == Len(text) + 1
<1>1. Len(text) \in Nat /\ 4 \in C /\ e \in C /\ 4 < e
  BY DEF Text, Cuts
<1>2. C \subseteq Nat /\ IsFiniteSet(C) /\ Cardinality(C) \in Nat /\ C \subseteq 0..e
  BY CutsAreFinite
<1>3. Rank(C, 4) = 2
  BY SecondPartIs
<1>4. Rank(C, e) \in Nat /\ 2 < Rank(C, e)
  BY <1>1, <1>2, <1>3, FewerBelow
<1>5. Rank(C, e) = Cardinality(C) - 1
  <2>1. {x \in C : x < e} = C \ {e}
    BY <1>1, <1>2
  <2>2. Cardinality(C \ {e}) = Cardinality(C) - 1
    BY <1>1, <1>2, FS_RemoveElement
  <2> QED
    BY <2>1, <2>2, Zenon DEF Rank
<1>6. Len(Split(text, separator)) = Cardinality(C) - 1
  BY SplitLength
<1> HIDE DEF C, e
<1> QED
  BY <1>2, <1>4, <1>5, <1>6

-----------------------------------------------------------------------------

(***************************************************************************)
(* The words that the code writes itself.                                  *)
(***************************************************************************)
LEMMA WordsOfCode ==
  /\ StreamType \subseteq Vocabulary
  /\ {":", ".", "1", "tickers", "publicTrade", "kline", "mudrex", "futures",
      "ticker", "trade"} \subseteq Vocabulary
BY DEF Vocabulary, StreamType

(***************************************************************************)
(* A text with two words in front of it.                                   *)
(***************************************************************************)
LEMMA Headed ==
  ASSUME NEW v \in Vocabulary, NEW w \in Vocabulary, NEW text \in Text
  PROVE  /\ <<v, w>> \o text \in Text
         /\ Len(<<v, w>> \o text) = 2 + Len(text) /\ Len(text) \in Nat
         /\ (<<v, w>> \o text)[1] = v /\ (<<v, w>> \o text)[2] = w
         /\ \A j \in 1..Len(text) : (<<v, w>> \o text)[2 + j] = text[j]
<1> DEFINE head == <<v, w>>
<1>1. head \in Text /\ Len(head) = 2 /\ head[1] = v /\ head[2] = w
  <2>1. head \in Seq(Vocabulary)
    OBVIOUS
  <2> QED
    BY <2>1 DEF Text
<1> HIDE DEF head
<1>2. /\ head \o text \in Text
      /\ Len(head \o text) = Len(head) + Len(text) /\ Len(text) \in Nat
      /\ \A i \in 1..Len(head) : (head \o text)[i] = head[i]
      /\ \A i \in 1..Len(text) : (head \o text)[Len(head) + i] = text[i]
  BY <1>1, WithPrefix
<1>3. (head \o text)[1] = head[1] /\ (head \o text)[2] = head[2]
  BY <1>1, <1>2
<1>4. /\ Len(head \o text) = 2 + Len(text)
      /\ \A i \in 1..Len(text) : (head \o text)[2 + i] = text[i]
  BY <1>1, <1>2, Zenon
<1> QED
  BY <1>1, <1>2, <1>3, <1>4 DEF head

(***************************************************************************)
(* Whether a topic starts with a word and a ".".                           *)
(***************************************************************************)
LEMMA StartsWithWord ==
  ASSUME NEW topic \in Text, Len(topic) >= 2, topic[2] = ".", NEW w
  PROVE  StartsWith(topic, <<w, ".">>) <=> topic[1] = w
<1> DEFINE prefix == <<w, ".">>
<1>1. Len(prefix) = 2 /\ prefix[1] = w /\ prefix[2] = "."
  OBVIOUS
<1>2. SubSeq(prefix, 1, 2) = prefix
  <2>1. prefix \in Seq({w, "."})
    OBVIOUS
  <2> QED
    BY <1>1, <2>1, SubSeqFull
<1>3. /\ SubSeq(topic, 1, 2) \in Text /\ Len(SubSeq(topic, 1, 2)) = 2
      /\ SubSeq(topic, 1, 2)[1] = topic[1] /\ SubSeq(topic, 1, 2)[2] = topic[2]
  BY SubSeqOfText
<1>4. ASSUME topic[1] = w
      PROVE  SubSeq(topic, 1, 2) = prefix
  <2>1. w \in Vocabulary /\ "." \in Vocabulary
    BY <1>4, WordsOfCode DEF Text
  <2>2. prefix \in Text
    BY <2>1 DEF Text
  <2>3. \A i \in 1..2 : SubSeq(topic, 1, 2)[i] = prefix[i]
    BY <1>1, <1>3, <1>4
  <2> QED
    BY <1>1, <1>3, <2>2, <2>3, SameText
<1>5. SubSeq(prefix, 1, 2) = SubSeq(topic, 1, 2) <=> topic[1] = w
  BY <1>1, <1>2, <1>3, <1>4
<1>6. Len(prefix) <= Len(topic)
  BY <1>1
<1> HIDE DEF prefix
<1>7. StartsWith(topic, prefix) <=> topic[1] = w
  BY <1>1, <1>5, <1>6 DEF StartsWith, IsPrefix
<1> QED
  BY <1>7 DEF prefix

(***************************************************************************)
(* The symbol that a transformer reads out of a topic is a text.           *)
(***************************************************************************)
LEMMA SymbolIsText ==
  ASSUME NEW topic \in Text, NEW word
  PROVE  SymbolOf(topic, word) \in Text
<1> DEFINE found == {i \in 1..(Len(topic) - 1) : topic[i] = word /\ topic[i + 1] = "."}
           kept == {i \in 1..Len(topic) : i \notin found /\ i - 1 \notin found}
           c == Cardinality(kept)
<1>1. Len(topic) \in Nat
  BY DEF Text
<1>2. kept \subseteq 1..Len(topic)
  OBVIOUS
<1>3. SymbolOf(topic, word) = [n \in 1..c |-> topic[Nth(kept, n - 1)]]
  BY DEF SymbolOf
<1> HIDE DEF kept
<1>4. kept \subseteq Nat /\ IsFiniteSet(kept) /\ c \in Nat
  <2>1. IsFiniteSet(1..Len(topic))
    BY <1>1, FS_Interval
  <2>2. IsFiniteSet(kept)
    BY <1>2, <2>1, FS_Subset
  <2> QED
    BY <1>1, <1>2, <2>2, FS_CardinalityType
<1>5. ASSUME NEW n \in 1..c
      PROVE  topic[Nth(kept, n - 1)] \in Vocabulary
  <2>1. n - 1 \in 0..(c - 1)
    BY <1>4
  <2>2. Nth(kept, n - 1) \in kept
    BY <1>4, <2>1, NthExists
  <2>3. Nth(kept, n - 1) \in 1..Len(topic)
    BY <1>2, <2>2
  <2> QED
    BY <2>3 DEF Text
<1> HIDE DEF c
<1>6. [n \in 1..c |-> topic[Nth(kept, n - 1)]] \in Seq(Vocabulary)
  BY <1>4, <1>5
<1> QED
  BY <1>3, <1>6 DEF Text

(***************************************************************************)
(* topic.replace leaves the symbol as it is when it holds no ".".          *)
(***************************************************************************)
LEMMA SymbolAfterWord ==
  ASSUME NEW topic \in Text, NEW word, NEW symbol \in Text, ~Has(symbol, "."),
         Len(topic) = 2 + Len(symbol), topic[1] = word, topic[2] = ".",
         \A j \in 1..Len(symbol) : topic[2 + j] = symbol[j]
  PROVE  SymbolOf(topic, word) = symbol
<1> DEFINE found == {i \in 1..(Len(topic) - 1) : topic[i] = word /\ topic[i + 1] = "."}
           kept == {i \in 1..Len(topic) : i \notin found /\ i - 1 \notin found}
           n == Len(symbol)
<1>1. n \in Nat /\ \A j \in 1..n : symbol[j] # "."
  BY HasAt DEF Text
<1> HIDE DEF n
<1>2. Len(topic) = 2 + n /\ \A j \in 1..n : topic[2 + j] # "."
  BY <1>1 DEF n
<1>3. 1 \in found
  BY <1>1, <1>2
<1>4. ASSUME NEW i \in found
      PROVE  i = 1
  <2>1. CASE i >= 2
    <3>1. i - 1 \in 1..n /\ 2 + (i - 1) = i + 1
      BY <1>1, <1>2, <2>1
    <3>2. topic[i + 1] # "."
      BY <1>2, <3>1
    <3> QED
      BY <3>2
  <2> QED
    BY <1>1, <1>2, <2>1
<1>5. found = {1}
  BY <1>3, <1>4
<1>6. kept = 3..(2 + n)
  <2>1. ASSUME NEW i \in kept
        PROVE  i \in 3..(2 + n)
    <3>1. i \in 1..(2 + n) /\ i # 1 /\ i - 1 # 1
      BY <1>2, <1>5
    <3> QED
      BY <1>1, <3>1
  <2>2. ASSUME NEW i \in 3..(2 + n)
        PROVE  i \in kept
    <3>1. i \in 1..Len(topic) /\ i # 1 /\ i - 1 # 1
      BY <1>1, <1>2
    <3> QED
      BY <1>5, <3>1
  <2> QED
    BY <2>1, <2>2
<1>7. SymbolOf(topic, word) = [m \in 1..Cardinality(kept) |-> topic[Nth(kept, m - 1)]]
  BY DEF SymbolOf
<1> HIDE DEF kept, found
<1>8. kept \subseteq Nat /\ IsFiniteSet(kept) /\ Cardinality(kept) = n
  <2>1. IsFiniteSet(3..(2 + n)) /\ Cardinality(3..(2 + n)) = IF 3 > 2 + n THEN 0 ELSE (2 + n) - 3 + 1
    <3>1. 3 \in Int /\ 2 + n \in Int
      BY <1>1
    <3> QED
      BY <3>1, FS_Interval
  <2> QED
    BY <1>1, <1>6, <2>1
<1>9. ASSUME NEW m \in 1..n
      PROVE  topic[Nth(kept, m - 1)] = symbol[m]
  <2>1. m + 2 \in kept /\ m \in Nat
    BY <1>1, <1>6
  <2>2. {q \in kept : q < m + 2} = 3..(m + 1)
    BY <1>1, <1>6
  <2>3. Cardinality(3..(m + 1)) = m - 1
    <3>1. Cardinality(3..(m + 1)) = IF 3 > m + 1 THEN 0 ELSE (m + 1) - 3 + 1
      BY <2>1, FS_Interval
    <3> QED
      BY <2>1, <3>1
  <2>4. Rank(kept, m + 2) = m - 1
    BY <2>2, <2>3 DEF Rank
  <2>5. Nth(kept, m - 1) = m + 2
    BY <1>8, <2>1, <2>4, NthIs
  <2>6. topic[2 + m] = symbol[m] /\ 2 + m = m + 2
    BY <2>1 DEF n
  <2> QED
    BY <2>5, <2>6
<1>10. SymbolOf(topic, word) = [m \in 1..n |-> symbol[m]]
  BY <1>7, <1>8, <1>9
<1>11. symbol = [m \in 1..n |-> symbol[m]]
  BY DEF Text, n
<1> QED
  BY <1>10, <1>11

(***************************************************************************)
(* The channel of what a transformer returns has the third part for its    *)
(* type and the last part for its symbol.                                  *)
(***************************************************************************)
LEMMA ChannelOfStream ==
  ASSUME NEW stream \in Text, NEW w \in StreamType, Len(stream) >= 6,
         stream[1] = "mudrex", stream[2] = ".", stream[3] = "futures",
         stream[4] = ".", stream[5] = w, stream[6] = "."
  PROVE  ChannelOf(stream) = <<w, ":">> \o Last(Split(stream, "."))
<1> DEFINE parts == Split(stream, ".")
<1>1. Len(stream) \in Nat /\ w # "."
  BY DEF Text, StreamType
<1>2. 6 \in Cuts(stream, ".") /\ \A x \in Cuts(stream, ".") : ~(4 < x /\ x < 6)
  BY <1>1 DEF Cuts
<1>3. parts[3] = SubSeq(stream, 5, 6 - 1)
  <2>1. 4 < 6 /\ Len(stream) >= 4
    BY <1>1
  <2> QED
    BY <1>2, <2>1, ThirdPartIs
<1>4. SubSeq(stream, 5, 5)[1] = stream[5]
  BY <1>1, SubSeqOfText
<1>5. parts[3][1] = w
  BY <1>3, <1>4
<1> HIDE DEF parts
<1> QED
  BY <1>5 DEF ChannelOf, Parsed, MakeChannel, parts


(***************************************************************************)
(* The head of every stream that a transformer returns.                    *)
(***************************************************************************)
LEMMA HeadIsText ==
  ASSUME NEW w \in StreamType
  PROVE  /\ <<"mudrex", ".", "futures", ".", w, ".">> \in Text
         /\ Len(<<"mudrex", ".", "futures", ".", w, ".">>) = 6
<1>1. w \in Vocabulary /\ "mudrex" \in Vocabulary /\ "." \in Vocabulary
      /\ "futures" \in Vocabulary
  BY WordsOfCode
<1> QED
  BY <1>1 DEF Text

(***************************************************************************)
(* A stream that a transformer returns.                                    *)
(***************************************************************************)
StreamOf(w, rest) == <<"mudrex", ".", "futures", ".", w, ".">> \o rest

(***************************************************************************)
(* What stands where in it.                                                *)
(***************************************************************************)
LEMMA StreamShape ==
  ASSUME NEW w \in StreamType, NEW rest \in Text
  PROVE
    LET stream == StreamOf(w, rest)
    IN   /\ stream \in Text /\ Len(stream) = 6 + Len(rest) /\ Len(rest) \in Nat
         /\ stream[1] = "mudrex" /\ stream[2] = "." /\ stream[3] = "futures"
         /\ stream[4] = "." /\ stream[5] = w /\ stream[6] = "."
         /\ \A j \in 1..Len(rest) : stream[6 + j] = rest[j]
<1> DEFINE head == <<"mudrex", ".", "futures", ".", w, ".">>
           stream == StreamOf(w, rest)
<1>1. /\ head \in Text /\ Len(head) = 6
      /\ head[1] = "mudrex" /\ head[2] = "." /\ head[3] = "futures"
      /\ head[4] = "." /\ head[5] = w /\ head[6] = "."
  BY HeadIsText
<1>2. stream = head \o rest
  BY DEF StreamOf
<1> HIDE DEF head, stream
<1>3. /\ head \o rest \in Text
      /\ Len(head \o rest) = Len(head) + Len(rest) /\ Len(rest) \in Nat
      /\ \A i \in 1..Len(head) : (head \o rest)[i] = head[i]
      /\ \A i \in 1..Len(rest) : (head \o rest)[Len(head) + i] = rest[i]
  BY <1>1, WithPrefix
<1>4. \A i \in 1..6 : stream[i] = head[i]
  BY <1>1, <1>2, <1>3
<1>5. /\ Len(stream) = 6 + Len(rest)
      /\ \A i \in 1..Len(rest) : stream[6 + i] = rest[i]
  BY <1>1, <1>2, <1>3, Zenon
<1>6. /\ stream[1] = "mudrex" /\ stream[2] = "." /\ stream[3] = "futures"
      /\ stream[4] = "." /\ stream[5] = w /\ stream[6] = "."
  BY <1>1, <1>4
<1> QED
  BY <1>2, <1>3, <1>5, <1>6 DEF stream

(***************************************************************************)
(* The channel of a relayed ticker or trade is that of its type and its    *)
(* symbol, or what follows the last "." of the symbol.                     *)
(***************************************************************************)
LEMMA RelayedChannel ==
  ASSUME NEW w \in StreamType, NEW rest \in Text
  PROVE  \E last \in Text : /\ ChannelOf(StreamOf(w, rest)) = <<w, ":">> \o last
                            /\ ~Has(last, ".")
                            /\ ~Has(rest, ".") => last = rest
<1> DEFINE stream == StreamOf(w, rest)
<1>1. /\ stream \in Text /\ Len(stream) = 6 + Len(rest) /\ Len(rest) \in Nat
      /\ stream[1] = "mudrex" /\ stream[2] = "." /\ stream[3] = "futures"
      /\ stream[4] = "." /\ stream[5] = w /\ stream[6] = "."
      /\ \A j \in 1..Len(rest) : stream[6 + j] = rest[j]
  BY StreamShape
<1> HIDE DEF stream
<1>2. Len(stream) >= 6
  BY <1>1
<1>3. ChannelOf(stream) = <<w, ":">> \o Last(Split(stream, "."))
  BY <1>1, <1>2, ChannelOfStream
<1>4. Last(Split(stream, ".")) \in Text /\ ~Has(Last(Split(stream, ".")), ".")
  BY <1>1, LastPartIsClean
<1>5. ASSUME ~Has(rest, ".")
      PROVE  Last(Split(stream, ".")) = rest
  <2>1. ASSUME NEW l \in Nat \ {0}, Len(stream) = l + Len(rest), stream[l] = ".",
               \A j \in 1..Len(rest) : stream[l + j] = rest[j]
        PROVE  Last(Split(stream, ".")) = rest
    BY <1>1, <1>5, <2>1, LastPartAfter
  <2>2. 6 \in Nat \ {0}
    OBVIOUS
  <2> QED
    BY <1>1, <2>1, <2>2
<1> QED
  BY <1>3, <1>4, <1>5 DEF stream

(***************************************************************************)
(* The channel of a relayed kline is that of the third part of the topic.  *)
(***************************************************************************)
LEMMA KlineChannel ==
  ASSUME NEW w \in StreamType, NEW a \in Text, NEW b \in Text, ~Has(b, ".")
  PROVE  ChannelOf(StreamOf(w, a) \o <<".">> \o b)
           = <<w, ":">> \o b
<1> DEFINE front == StreamOf(w, a)
           dot == <<".">>
           middle == front \o dot
           stream == middle \o b
<1>1. dot \in Text /\ Len(dot) = 1 /\ dot[1] = "."
  <2>1. "." \in Vocabulary
    BY WordsOfCode
  <2> QED
    BY <2>1 DEF Text
<1>2. /\ front \in Text /\ Len(front) = 6 + Len(a) /\ Len(a) \in Nat
      /\ front[1] = "mudrex" /\ front[2] = "." /\ front[3] = "futures"
      /\ front[4] = "." /\ front[5] = w /\ front[6] = "."
  BY StreamShape
<1> HIDE DEF front, dot
<1>3. /\ middle \in Text /\ Len(middle) = Len(front) + Len(dot)
      /\ \A i \in 1..Len(front) : middle[i] = front[i]
      /\ \A i \in 1..Len(dot) : middle[Len(front) + i] = dot[i]
  BY <1>1, <1>2, WithPrefix
<1>4. Len(middle) = Len(front) + 1 /\ middle[Len(front) + 1] = "." /\ Len(middle) \in Nat
  BY <1>1, <1>2, <1>3
<1> HIDE DEF middle
<1>5. /\ stream \in Text /\ Len(stream) = Len(middle) + Len(b) /\ Len(b) \in Nat
      /\ \A i \in 1..Len(middle) : stream[i] = middle[i]
      /\ \A i \in 1..Len(b) : stream[Len(middle) + i] = b[i]
  BY <1>3, WithPrefix
<1> HIDE DEF stream
<1>6. \A i \in 1..6 : stream[i] = front[i]
  <2> SUFFICES ASSUME NEW i \in 1..6 PROVE stream[i] = front[i]
    OBVIOUS
  <2>1. i \in 1..Len(front) /\ i \in 1..Len(middle)
    BY <1>2, <1>4
  <2> QED
    BY <1>3, <1>5, <2>1
<1>7. /\ stream[1] = "mudrex" /\ stream[2] = "." /\ stream[3] = "futures"
      /\ stream[4] = "." /\ stream[5] = w /\ stream[6] = "."
  BY <1>2, <1>6
<1>8. Len(stream) >= 6 /\ Len(middle) \in Nat \ {0} /\ stream[Len(middle)] = "."
  BY <1>2, <1>4, <1>5
<1>9. ChannelOf(stream) = <<w, ":">> \o Last(Split(stream, "."))
  BY <1>5, <1>7, <1>8, ChannelOfStream
<1>10. Last(Split(stream, ".")) = b
  BY <1>5, <1>8, LastPartAfter
<1>11. ChannelOf(stream) = <<w, ":">> \o b
  BY <1>9, <1>10
<1> QED
  BY <1>11 DEF stream, middle, front, dot

(***************************************************************************)
(* Not a pong and not the answer to a subscription.                        *)
(***************************************************************************)
Relayable(message) == message.type \notin {"pong", "answer"}

(***************************************************************************)
(* What is published of a ticker: one message, whose channel has the       *)
(* symbol of the topic, or what follows the last "." of it.                *)
(***************************************************************************)
LEMMA TickerPublications ==
  ASSUME NEW s \in Stream, s.type = "ticker", NEW message,
         message.topic = MakeTopic(s), Relayable(message)
  PROVE  \E last \in Text :
           /\ Publications(message) =
                {[channel |-> <<"ticker", ":">> \o last, data |-> TickerData(message.data)]}
           /\ ~Has(last, ".")
           /\ ~Has(s.symbol, ".") => last = s.symbol
<1> DEFINE topic == MakeTopic(s)
           symbol == SymbolOf(topic, "tickers")
           stream == StreamOf("ticker", symbol)
<1>1. s.symbol \in Text /\ "tickers" \in Vocabulary /\ "." \in Vocabulary
  BY WordsOfCode DEF Stream
<1>2. topic = <<"tickers", ".">> \o s.symbol
  BY DEF MakeTopic
<1> HIDE DEF topic
<1>3. /\ topic \in Text /\ Len(topic) = 2 + Len(s.symbol) /\ Len(s.symbol) \in Nat
      /\ topic[1] = "tickers" /\ topic[2] = "."
      /\ \A j \in 1..Len(s.symbol) : topic[2 + j] = s.symbol[j]
  BY <1>1, <1>2, Headed
<1>4. symbol \in Text
  BY <1>3, SymbolIsText
<1>5. ~Has(s.symbol, ".") => symbol = s.symbol
  BY <1>1, <1>3, SymbolAfterWord
<1>6. /\ StartsWith(topic, <<"tickers", ".">>)
      /\ ~StartsWith(topic, <<"kline", ".">>)
      /\ ~StartsWith(topic, <<"publicTrade", ".">>)
  <2>1. Len(topic) >= 2
    BY <1>3
  <2> QED
    BY <1>3, <2>1, StartsWithWord
<1> HIDE DEF symbol
<1>7. \E type : TransformMessage(message) =
        {[stream |-> stream, type |-> type, data |-> TickerData(message.data)]}
  <2>1. TransformMessage(message) = TransformTicker(message)
    BY <1>6 DEF TransformMessage, Relayable, topic
  <2>2. stream = <<"mudrex", ".", "futures", ".", "ticker", ".">>
                   \o SymbolOf(message.topic, "tickers")
    BY DEF StreamOf, symbol, topic
  <2> HIDE DEF stream
  <2> QED
    BY <2>1, <2>2 DEF TransformTicker
<1>8. Publications(message) =
        {[channel |-> ChannelOf(stream), data |-> TickerData(message.data)]}
  <2> HIDE DEF stream
  <2> QED
    BY <1>7 DEF Publications
<1>9. "ticker" \in StreamType
  BY DEF StreamType
<1>10. PICK last \in Text : /\ ChannelOf(stream) = <<"ticker", ":">> \o last
                            /\ ~Has(last, ".")
                            /\ ~Has(symbol, ".") => last = symbol
  BY <1>4, <1>9, RelayedChannel
<1> HIDE DEF stream
<1>11. ~Has(s.symbol, ".") => last = s.symbol
  BY <1>5, <1>10
<1> QED
  BY <1>8, <1>10, <1>11

(***************************************************************************)
(* The same of a trade.                                                    *)
(***************************************************************************)
LEMMA TradePublications ==
  ASSUME NEW s \in Stream, s.type = "trade", NEW message,
         message.topic = MakeTopic(s), Relayable(message)
  PROVE  \E last \in Text :
           /\ Publications(message) =
                {[channel |-> <<"trade", ":">> \o last, data |-> message.data]}
           /\ ~Has(last, ".")
           /\ ~Has(s.symbol, ".") => last = s.symbol
<1> DEFINE topic == MakeTopic(s)
           symbol == SymbolOf(topic, "publicTrade")
           stream == StreamOf("trade", symbol)
<1>1. s.symbol \in Text /\ "publicTrade" \in Vocabulary /\ "." \in Vocabulary
  BY WordsOfCode DEF Stream
<1>2. topic = <<"publicTrade", ".">> \o s.symbol
  BY DEF MakeTopic
<1> HIDE DEF topic
<1>3. /\ topic \in Text /\ Len(topic) = 2 + Len(s.symbol) /\ Len(s.symbol) \in Nat
      /\ topic[1] = "publicTrade" /\ topic[2] = "."
      /\ \A j \in 1..Len(s.symbol) : topic[2 + j] = s.symbol[j]
  BY <1>1, <1>2, Headed
<1>4. symbol \in Text
  BY <1>3, SymbolIsText
<1>5. ~Has(s.symbol, ".") => symbol = s.symbol
  BY <1>1, <1>3, SymbolAfterWord
<1>6. /\ StartsWith(topic, <<"publicTrade", ".">>)
      /\ ~StartsWith(topic, <<"tickers", ".">>)
      /\ ~StartsWith(topic, <<"kline", ".">>)
  <2>1. Len(topic) >= 2
    BY <1>3
  <2> QED
    BY <1>3, <2>1, StartsWithWord
<1> HIDE DEF symbol
<1>7. \E type : TransformMessage(message) =
        {[stream |-> stream, type |-> type, data |-> message.data]}
  <2>1. TransformMessage(message) = TransformTrade(message)
    BY <1>6 DEF TransformMessage, Relayable, topic
  <2>2. stream = <<"mudrex", ".", "futures", ".", "trade", ".">>
                   \o SymbolOf(message.topic, "publicTrade")
    BY DEF StreamOf, symbol, topic
  <2> HIDE DEF stream
  <2> QED
    BY <2>1, <2>2 DEF TransformTrade
<1>8. Publications(message) =
        {[channel |-> ChannelOf(stream), data |-> message.data]}
  <2> HIDE DEF stream
  <2> QED
    BY <1>7 DEF Publications
<1>9. "trade" \in StreamType
  BY DEF StreamType
<1>10. PICK last \in Text : /\ ChannelOf(stream) = <<"trade", ":">> \o last
                            /\ ~Has(last, ".")
                            /\ ~Has(symbol, ".") => last = symbol
  BY <1>4, <1>9, RelayedChannel
<1> HIDE DEF stream
<1>11. ~Has(s.symbol, ".") => last = s.symbol
  BY <1>5, <1>10
<1> QED
  BY <1>8, <1>10, <1>11

(***************************************************************************)
(* The same of a kline, of which the first one is published.               *)
(***************************************************************************)
LEMMA KlinePublications ==
  ASSUME NEW s \in Stream, s.type = "kline", NEW message,
         message.topic = MakeTopic(s), Relayable(message), message.data # <<>>
  PROVE  \E last \in Text :
           /\ Publications(message) =
                {[channel |-> <<"kline", ":">> \o last, data |-> Head(message.data)]}
           /\ ~Has(last, ".")
           /\ ~Has(s.symbol, ".") => last = s.symbol
<1> DEFINE topic == MakeTopic(s)
           parts == Split(topic, ".")
           stream == StreamOf("kline", parts[2]) \o <<".">> \o parts[3]
           n == Len(s.symbol)
<1>1. s.symbol \in Text
  BY DEF Stream
<1>2. topic = <<"kline", ".", "1", ".">> \o s.symbol
  BY DEF MakeTopic
<1> HIDE DEF topic
<1>3. /\ topic \in Text /\ Len(topic) = 4 + n /\ n \in Nat
      /\ topic[1] = "kline" /\ topic[2] = "." /\ topic[3] = "1" /\ topic[4] = "."
      /\ \A j \in 1..n : topic[4 + j] = s.symbol[j]
  <2> DEFINE head == <<"kline", ".", "1", ".">>
  <2>1. /\ head \in Text /\ Len(head) = 4
        /\ head[1] = "kline" /\ head[2] = "." /\ head[3] = "1" /\ head[4] = "."
    <3>1. "kline" \in Vocabulary /\ "." \in Vocabulary /\ "1" \in Vocabulary
      BY WordsOfCode
    <3> QED
      BY <3>1 DEF Text
  <2>2. topic = head \o s.symbol
    BY <1>2
  <2> HIDE DEF head
  <2>3. /\ head \o s.symbol \in Text
        /\ Len(head \o s.symbol) = Len(head) + Len(s.symbol) /\ n \in Nat
        /\ \A i \in 1..Len(head) : (head \o s.symbol)[i] = head[i]
        /\ \A i \in 1..Len(s.symbol) : (head \o s.symbol)[Len(head) + i] = s.symbol[i]
    BY <1>1, <2>1, WithPrefix
  <2>4. \A i \in 1..4 : topic[i] = head[i]
    BY <2>1, <2>2, <2>3
  <2>5. topic \in Text /\ Len(topic) = 4 + n /\ \A j \in 1..n : topic[4 + j] = s.symbol[j]
    BY <2>1, <2>2, <2>3, Zenon
  <2>6. topic[1] = head[1] /\ topic[2] = head[2] /\ topic[3] = head[3] /\ topic[4] = head[4]
    BY <2>4
  <2> QED
    BY <2>1, <2>3, <2>5, <2>6
<1>4. /\ Len(topic) >= 4 /\ Len(topic) \in Nat
      /\ topic[1] # "." /\ topic[3] # "."
  BY <1>3
<1>5. /\ 2 \in 1..Len(parts) /\ 3 \in 1..Len(parts)
  BY <1>3, <1>4, SecondPartIs, AtLeastThreeParts
<1>6. parts[2] \in Text /\ parts[3] \in Text /\ ~Has(parts[3], ".")
  <2>1. /\ parts[2] \in Text /\ parts[3] \in Text
        /\ \A i \in 1..Len(parts[3]) : parts[3][i] # "."
    BY <1>3, <1>5, PartType
  <2> QED
    BY <2>1, HasAt
<1>7. ASSUME ~Has(s.symbol, ".")
      PROVE  parts[3] = s.symbol
  <2> DEFINE e == Len(topic) + 1
             sub == SubSeq(topic, 5, e - 1)
  <2>1. \A j \in 1..n : s.symbol[j] # "."
    BY <1>1, <1>7, HasAt
  <2>2. e \in Cuts(topic, ".") /\ 4 < e
    BY <1>4 DEF Cuts
  <2>3. \A x \in Cuts(topic, ".") : ~(4 < x /\ x < e)
    <3> SUFFICES ASSUME NEW x \in Cuts(topic, "."), 4 < x, x < e
                 PROVE  FALSE
      OBVIOUS
    <3>1. x \in 1..Len(topic) /\ topic[x] = "."
      BY <1>4 DEF Cuts
    <3>2. x - 4 \in 1..n /\ 4 + (x - 4) = x
      BY <1>3, <3>1
    <3> QED
      BY <1>3, <2>1, <3>1, <3>2
  <2> HIDE DEF e
  <2>4. parts[3] = sub
    BY <1>3, <1>4, <2>2, <2>3, ThirdPartIs
  <2>5. e - 1 = 4 + n /\ e - 1 \in Int /\ e - 1 <= Len(topic)
    BY <1>3, <1>4 DEF e
  <2>6. /\ sub \in Text
        /\ Len(sub) = IF 5 <= e - 1 THEN (e - 1) - 5 + 1 ELSE 0
        /\ \A i \in 1..((e - 1) - 5 + 1) : sub[i] = topic[5 + i - 1]
    BY <1>3, <2>5, SubSeqOfText
  <2> HIDE DEF sub, n
  <2>7. Len(sub) = n
    BY <1>3, <2>5, <2>6
  <2>8. \A i \in 1..Len(sub) : sub[i] = s.symbol[i]
    <3> SUFFICES ASSUME NEW i \in 1..n PROVE sub[i] = s.symbol[i]
      BY <2>7
    <3>1. i \in 1..((e - 1) - 5 + 1) /\ 5 + i - 1 = 4 + i
      BY <1>3, <2>5
    <3> QED
      BY <1>3, <2>6, <3>1
  <2> QED
    BY <1>1, <2>4, <2>6, <2>7, <2>8, SameText DEF n
<1>8. /\ StartsWith(topic, <<"kline", ".">>)
      /\ ~StartsWith(topic, <<"tickers", ".">>)
      /\ ~StartsWith(topic, <<"publicTrade", ".">>)
  <2>1. Len(topic) >= 2
    BY <1>4
  <2> QED
    BY <1>3, <2>1, StartsWithWord
<1> HIDE DEF parts
<1>9. \E type : TransformMessage(message) =
        {[stream |-> stream, type |-> type, data |-> Head(message.data)]}
  <2>1. TransformMessage(message) = TransformKline(message)
    BY <1>8 DEF TransformMessage, Relayable, topic
  <2>2. parts = Split(message.topic, ".")
    BY DEF parts, topic
  <2>3. stream = <<"mudrex", ".", "futures", ".", "kline", ".">>
                   \o parts[2] \o <<".">> \o parts[3]
    BY DEF StreamOf
  <2>4. ~(Len(parts) < 3)
    BY <1>5
  <2> HIDE DEF stream
  <2> QED
    BY <2>1, <2>2, <2>3, <2>4 DEF TransformKline
<1>10. "kline" \in StreamType
  BY DEF StreamType
<1>11. ChannelOf(stream) = <<"kline", ":">> \o parts[3]
  BY <1>6, <1>10, KlineChannel
<1> HIDE DEF stream
<1>12. Publications(message) =
        {[channel |-> <<"kline", ":">> \o parts[3], data |-> Head(message.data)]}
  <2>1. PICK type : TransformMessage(message) =
                      {[stream |-> stream, type |-> type, data |-> Head(message.data)]}
    BY <1>9
  <2>2. Publications(message) = {[channel |-> ChannelOf(stream), data |-> Head(message.data)]}
    BY <2>1 DEF Publications
  <2> QED
    BY <2>2, <1>11
<1> QED
  BY <1>6, <1>7, <1>12

(***************************************************************************)
(* Two channels of a type are the same when their symbols are.             *)
(***************************************************************************)
LEMMA SameAfterHead ==
  ASSUME NEW w \in StreamType, NEW a \in Text, NEW b \in Text,
         <<w, ":">> \o a = <<w, ":">> \o b
  PROVE  a = b
<1>1. w \in Vocabulary /\ ":" \in Vocabulary
  BY WordsOfCode
<1>2. /\ Len(<<w, ":">> \o a) = 2 + Len(a) /\ Len(a) \in Nat
      /\ \A j \in 1..Len(a) : (<<w, ":">> \o a)[2 + j] = a[j]
  BY <1>1, Headed
<1>3. /\ Len(<<w, ":">> \o b) = 2 + Len(b) /\ Len(b) \in Nat
      /\ \A j \in 1..Len(b) : (<<w, ":">> \o b)[2 + j] = b[j]
  BY <1>1, Headed
<1>4. Len(a) = Len(b)
  BY <1>2, <1>3
<1>5. \A i \in 1..Len(a) : a[i] = b[i]
  BY <1>2, <1>3, <1>4
<1> QED
  BY <1>4, <1>5, SameText

(***************************************************************************)
(* What is published of a message on the topic of a stream, for every type *)
(* of stream.                                                              *)
(***************************************************************************)
LEMMA SamplePublications ==
  ASSUME NEW s \in Stream
  PROVE  \E last \in Text : \E data :
           /\ Publications(Sample(s)) =
                {[channel |-> <<s.type, ":">> \o last, data |-> data]}
           /\ ~Has(last, ".")
           /\ ~Has(s.symbol, ".") => last = s.symbol
<1>1. /\ Sample(s).topic = MakeTopic(s) /\ Relayable(Sample(s))
      /\ s.type # "ticker" => Sample(s).data = <<0>>
  BY DEF Sample, Message, Relayable
<1>2. s.type \in {"ticker", "kline", "trade"}
  BY DEF Stream, StreamType
<1>3. CASE s.type = "ticker"
  <2>1. \E last \in Text :
           /\ Publications(Sample(s)) =
                {[channel |-> <<"ticker", ":">> \o last, data |-> TickerData(Sample(s).data)]}
           /\ ~Has(last, ".")
           /\ ~Has(s.symbol, ".") => last = s.symbol
    BY <1>1, <1>3, TickerPublications
  <2> QED
    BY <1>3, <2>1
<1>4. CASE s.type = "trade"
  <2>1. \E last \in Text :
           /\ Publications(Sample(s)) =
                {[channel |-> <<"trade", ":">> \o last, data |-> Sample(s).data]}
           /\ ~Has(last, ".")
           /\ ~Has(s.symbol, ".") => last = s.symbol
    BY <1>1, <1>4, TradePublications
  <2> QED
    BY <1>4, <2>1
<1>5. CASE s.type = "kline"
  <2>1. Sample(s).data # <<>>
    <3>1. Sample(s).data = <<0>>
      BY <1>1, <1>5
    <3>2. <<0>> # <<>>
      OBVIOUS
    <3> QED
      BY <3>1, <3>2
  <2>2. \E last \in Text :
           /\ Publications(Sample(s)) =
                {[channel |-> <<"kline", ":">> \o last, data |-> Head(Sample(s).data)]}
           /\ ~Has(last, ".")
           /\ ~Has(s.symbol, ".") => last = s.symbol
    BY <1>1, <1>5, <2>1, KlinePublications
  <2> QED
    BY <1>5, <2>2
<1> QED
  BY <1>2, <1>3, <1>4, <1>5

(***************************************************************************)
(* It is published on the channel of the stream exactly when the symbol of *)
(* the stream holds no ".".                                                *)
(***************************************************************************)
LEMMA SampleComesBack ==
  ASSUME NEW s \in Named
  PROVE  {p.channel : p \in Publications(Sample(s))} = {MakeChannel(s)}
           <=> ~Has(s.symbol, ".")
<1>1. s \in Stream /\ s.type \in StreamType /\ s.symbol \in Text
  BY NamedIsParsable DEF Parsable, Stream
<1>0. PICK last \in Text :
        \E data :
           /\ Publications(Sample(s)) =
                {[channel |-> <<s.type, ":">> \o last, data |-> data]}
           /\ ~Has(last, ".")
           /\ ~Has(s.symbol, ".") => last = s.symbol
  BY <1>1, SamplePublications
<1>2. PICK data :
           /\ Publications(Sample(s)) =
                {[channel |-> <<s.type, ":">> \o last, data |-> data]}
           /\ ~Has(last, ".")
           /\ ~Has(s.symbol, ".") => last = s.symbol
  BY <1>0
<1>3. {p.channel : p \in Publications(Sample(s))} = {<<s.type, ":">> \o last}
  <2> DEFINE p == [channel |-> <<s.type, ":">> \o last, data |-> data]
  <2>1. p.channel = <<s.type, ":">> \o last
    OBVIOUS
  <2>2. Publications(Sample(s)) = {p}
    BY <1>2
  <2> HIDE DEF p
  <2>3. {x.channel : x \in {p}} = {p.channel}
    OBVIOUS
  <2> QED
    BY <2>1, <2>2, <2>3
<1>4. MakeChannel(s) = <<s.type, ":">> \o s.symbol
  BY DEF MakeChannel
<1>5. <<s.type, ":">> \o last = <<s.type, ":">> \o s.symbol => last = s.symbol
  BY <1>1, SameAfterHead
<1>6. {<<s.type, ":">> \o last} = {MakeChannel(s)} <=> last = s.symbol
  BY <1>4, <1>5
<1> QED
  BY <1>2, <1>3, <1>6

-----------------------------------------------------------------------------

(***************************************************************************)
(* The types of what a client holds.                                       *)
(***************************************************************************)
HeldTypes ==
  /\ held \in [Keys -> Named] /\ IsFiniteSet(Keys)
  /\ granted \subseteq Named
  /\ left \subseteq Channels /\ registered \subseteq Channels
  /\ counts \in [Channels -> Nat] /\ strayed \in Nat

(***************************************************************************)
(* A key is that of the stream it was put into the set for.                *)
(***************************************************************************)
KeysNameStreams == \A k \in Keys : MakeStreamKey(held[k]) = k

(***************************************************************************)
(* The client is registered on the channel of every key it holds, or has   *)
(* given that channel up with the key of another interval.                 *)
(***************************************************************************)
HeldIsFed == \A k \in Keys : MakeChannel(held[k]) \in registered \cup left

(***************************************************************************)
(* GrantedIsFed is not inductive without HeldIsFed: an argument whose key  *)
(* is in the set already is reported as subscribed and registered nowhere. *)
(***************************************************************************)
HeldInv ==
  HeldTypes /\ KeysNameStreams /\ HeldIsFed /\ GrantedIsFed /\ CountsFollowKeys

(***************************************************************************)
(* A stream the client may ask for has one of the channels.                *)
(***************************************************************************)
LEMMA StreamsGiven ==
  ASSUME NEW s \in Named
  PROVE  Parsable(s) /\ s \in Stream /\ MakeChannel(s) \in Channels
BY NamedIsParsable DEF Parsable, Channels

(***************************************************************************)
(* Two streams with the same key and different channels: the key will      *)
(* stray.                                                                  *)
(***************************************************************************)
LEMMA SameKey ==
  ASSUME HeldInv, NEW s \in Named, MakeStreamKey(s) \in Keys,
         MakeChannel(s) # MakeChannel(held[MakeStreamKey(s)])
  PROVE  Has(s.symbol, ":") \/ Has(held[MakeStreamKey(s)].symbol, ":")
<1> DEFINE t == held[MakeStreamKey(s)]
<1>1. t \in Named /\ MakeStreamKey(t) = MakeStreamKey(s)
  BY DEF HeldInv, HeldTypes, KeysNameStreams
<1>2. Parsable(s) /\ Parsable(t)
  BY <1>1, StreamsGiven
<1> QED
  BY <1>1, <1>2, KeysTellChannels

(***************************************************************************)
(* Nothing is subscribed, unsubscribed or given back.                      *)
(***************************************************************************)
LEMMA HeldUnchanged ==
  ASSUME HeldInv, UNCHANGED streamVars, Unreturned' = Unreturned
  PROVE  HeldInv'
<1>1. UNCHANGED <<held, granted, left, registered, counts, strayed>>
  BY DEF streamVars
<1>2. HeldTypes' /\ KeysNameStreams' /\ HeldIsFed' /\ GrantedIsFed'
  BY <1>1 DEF HeldInv, HeldTypes, KeysNameStreams, HeldIsFed, GrantedIsFed, Keys
<1>3. \A channel : Counted(channel)' = Counted(channel)
  BY <1>1 DEF Counted
<1>4. CountsFollowKeys'
  BY <1>1, <1>3 DEF HeldInv, CountsFollowKeys
<1> QED
  BY <1>2, <1>4 DEF HeldInv

(***************************************************************************)
(* One argument of a subscribe request keeps HeldInv. For a key that is    *)
(* held already, HeldIsFed of that key gives GrantedIsFed of the stream;   *)
(* for a new key, one count and one set of counted keys grow by one.       *)
(***************************************************************************)
LEMMA HeldSubscribed ==
  ASSUME HeldInv, NEW s \in Named, SubscribeOne(s),
         op # "cleanup", op' # "cleanup"
  PROVE  HeldInv'
<1> DEFINE key == MakeStreamKey(s)
           channel == MakeChannel(s)
<1>0. /\ HeldTypes /\ KeysNameStreams /\ HeldIsFed /\ GrantedIsFed /\ CountsFollowKeys
      /\ channel \in Channels /\ granted' = granted \cup {s}
  BY StreamsGiven DEF HeldInv, SubscribeOne
<1>1. CASE key \in Keys
  <2>1. UNCHANGED <<held, left, registered, counts, strayed>> /\ Keys' = Keys
    BY <1>1 DEF SubscribeOne, Keys
  <2>2. HeldTypes' /\ KeysNameStreams' /\ HeldIsFed'
    BY <1>0, <2>1 DEF HeldTypes, KeysNameStreams, HeldIsFed
  <2>3. \/ channel \in registered \cup left
        \/ \E t \in Named : Has(t.symbol, ":") /\ MakeStreamKey(t) = MakeStreamKey(s)
    <3>1. held[key] \in Named /\ MakeStreamKey(held[key]) = key
          /\ MakeChannel(held[key]) \in registered \cup left
      BY <1>0, <1>1 DEF HeldTypes, KeysNameStreams, HeldIsFed
    <3>2. CASE channel = MakeChannel(held[key])
      BY <3>1, <3>2
    <3>3. CASE channel # MakeChannel(held[key])
      <4>1. Has(s.symbol, ":") \/ Has(held[key].symbol, ":")
        BY <1>1, <3>3, SameKey
      <4> QED
        BY <3>1, <4>1
    <3> QED
      BY <3>2, <3>3
  <2>4. GrantedIsFed'
    BY <1>0, <2>1, <2>3 DEF GrantedIsFed
  <2>5. \A ch : Counted(ch)' = Counted(ch)
    BY <2>1 DEF Counted, Unreturned
  <2>6. CountsFollowKeys'
    BY <1>0, <2>1, <2>5 DEF CountsFollowKeys
  <2> QED
    BY <2>2, <2>4, <2>6 DEF HeldInv
<1>2. CASE key \notin Keys
  <2>1. /\ held' = Added(key, s, held)
        /\ left' = left \ {channel} /\ registered' = registered \cup {channel}
        /\ counts' = [counts EXCEPT ![channel] = @ + 1]
        /\ strayed' = strayed
    BY <1>2 DEF SubscribeOne
  <2>2. /\ Keys' = Keys \cup {key} /\ held'[key] = s
        /\ \A k \in Keys : held'[k] = held[k]
    BY <1>2, <2>1 DEF Added, Keys
  <2>3. held' \in [Keys' -> Named]
    <3>1. held' = [k \in Keys \cup {key} |-> IF k = key THEN s ELSE held[k]]
      BY <2>1 DEF Added, Keys
    <3>2. \A k \in Keys : held[k] \in Named
      BY <1>0 DEF HeldTypes
    <3> QED
      BY <2>2, <3>1, <3>2
  <2>4. IsFiniteSet(Keys')
    BY <1>0, <2>2, FS_AddElement DEF HeldTypes
  <2>5. counts' \in [Channels -> Nat] /\ strayed' \in Nat
    BY <1>0, <2>1 DEF HeldTypes
  <2>6. HeldTypes'
    BY <1>0, <2>1, <2>3, <2>4, <2>5 DEF HeldTypes
  <2>7. KeysNameStreams'
    BY <1>0, <2>2 DEF KeysNameStreams
  <2>8. registered \cup left \subseteq registered' \cup left' /\ channel \in registered'
    BY <2>1
  <2>9. HeldIsFed'
    BY <1>0, <2>2, <2>8 DEF HeldIsFed
  <2>10. GrantedIsFed'
    BY <1>0, <2>8 DEF GrantedIsFed
  <2>11. \A ch : Counted(ch)' = IF ch = channel THEN Counted(ch) \cup {key} ELSE Counted(ch)
    <3> SUFFICES ASSUME NEW ch
                 PROVE  Counted(ch)' = IF ch = channel THEN Counted(ch) \cup {key}
                                                       ELSE Counted(ch)
      OBVIOUS
    <3>1. Counted(ch)' = {k \in Keys \cup {key} : MakeChannel(held'[k]) = ch}
      BY <2>2 DEF Counted, Unreturned
    <3>2. Counted(ch) = {k \in Keys : MakeChannel(held[k]) = ch}
      BY DEF Counted, Unreturned
    <3> QED
      BY <2>2, <3>1, <3>2
  <2>12. key \notin Counted(channel) /\ \A ch : IsFiniteSet(Counted(ch))
    <3>1. \A ch : Counted(ch) \subseteq Keys
      BY DEF Counted, Unreturned
    <3>2. IsFiniteSet(Keys)
      BY <1>0 DEF HeldTypes
    <3> QED
      BY <1>2, <3>1, <3>2, FS_Subset
  <2>13. ASSUME NEW ch \in Channels
         PROVE  (counts[ch] - OtherCounts[ch] - Cardinality(Counted(ch)))'
                  = counts[ch] - OtherCounts[ch] - Cardinality(Counted(ch))
    <3>1. Cardinality(Counted(ch)) \in Nat /\ counts[ch] \in Nat /\ OtherCounts[ch] \in Nat
      BY <1>0, <2>12, FS_CardinalityType, OtherCountsAssumption DEF HeldTypes
    <3>2. CASE ch = channel
      <4>1. Cardinality(Counted(ch)') = Cardinality(Counted(ch)) + 1
        BY <2>11, <2>12, <3>2, FS_AddElement
      <4>2. counts'[ch] = counts[ch] + 1
        BY <1>0, <2>1, <3>2 DEF HeldTypes
      <4> QED
        BY <3>1, <4>1, <4>2
    <3>3. CASE ch # channel
      <4>1. Counted(ch)' = Counted(ch) /\ counts'[ch] = counts[ch]
        BY <1>0, <2>1, <2>11, <3>3 DEF HeldTypes
      <4> QED
        BY <4>1
    <3> QED
      BY <3>2, <3>3
  <2>14. CountsFollowKeys'
    <3>1. DOMAIN counts = Channels /\ DOMAIN counts' = Channels
      BY <1>0, <2>5 DEF HeldTypes
    <3> QED
      BY <1>0, <2>1, <2>13, <3>1 DEF CountsFollowKeys
  <2> QED
    BY <2>6, <2>7, <2>9, <2>10, <2>14 DEF HeldInv
<1> QED
  BY <1>1, <1>2

(***************************************************************************)
(* A key given back leaves each count off by at most one more than before, *)
(* and by no more than before when the channel it is given back as is the  *)
(* one it was counted under.                                               *)
(***************************************************************************)
LEMMA GivenBack ==
  ASSUME HeldTypes, CountsFollowKeys, Unreturned \subseteq Keys,
         NEW key \in Unreturned, NEW s, GiveBack(key, s),
         MakeChannel(s) = MakeChannel(held[key]) \/ Strays(s, held[key]),
         \A ch : Counted(ch)' = Counted(ch) \ {key}
  PROVE  CountsFollowKeys' /\ counts' \in [Channels -> Nat] /\ strayed' \in Nat
<1>1. /\ counts' = [counts EXCEPT ![MakeChannel(s)] = Decremented(@)]
      /\ strayed \in Nat /\ strayed' \in {strayed, strayed + 1}
      /\ MakeChannel(s) # MakeChannel(held[key]) => strayed' = strayed + 1
  BY DEF GiveBack, HeldTypes
<1>2. /\ counts' \in [Channels -> Nat]
      /\ \A ch \in Channels :
           counts'[ch] = IF ch = MakeChannel(s) THEN Decremented(counts[ch]) ELSE counts[ch]
  <2> DEFINE c == MakeChannel(s)
  <2>1. counts \in [Channels -> Nat] /\ counts' = [counts EXCEPT ![c] = Decremented(counts[c])]
    BY <1>1 DEF HeldTypes
  <2>2. \A n \in Nat : Decremented(n) \in Nat
    BY DEF Decremented
  <2> HIDE DEF c
  <2> QED
    BY <2>1, <2>2 DEF c
<1>3. ASSUME NEW ch \in Channels
      PROVE  counts'[ch] - OtherCounts[ch] - Cardinality(Counted(ch)') \in -strayed'..strayed'
  <2>1. IsFiniteSet(Counted(ch))
    BY FS_Subset DEF HeldTypes, Counted
  <2>2. key \in Counted(ch) <=> ch = MakeChannel(held[key])
    BY DEF Counted
  <2>3. /\ Cardinality(Counted(ch)) \in Nat /\ Cardinality(Counted(ch)') \in Nat
        /\ Cardinality(Counted(ch)')
             = IF ch = MakeChannel(held[key]) THEN Cardinality(Counted(ch)) - 1
                                              ELSE Cardinality(Counted(ch))
    <3>1. Counted(ch)' = Counted(ch) \ {key}
      OBVIOUS
    <3>2. IsFiniteSet(Counted(ch) \ {key})
      BY <2>1, FS_RemoveElement
    <3> QED
      BY <2>1, <2>2, <3>1, <3>2, FS_RemoveElement, FS_CardinalityType
  <2>4. counts[ch] - OtherCounts[ch] - Cardinality(Counted(ch)) \in -strayed..strayed
    BY DEF CountsFollowKeys, HeldTypes
  <2>5. counts[ch] \in Nat /\ OtherCounts[ch] \in Nat
    BY OtherCountsAssumption DEF HeldTypes
  <2>6. CASE MakeChannel(s) # MakeChannel(held[key])
    <3>1. counts'[ch] \in {counts[ch], counts[ch] - 1}
      BY <1>2, <2>5 DEF Decremented
    <3>2. ch # MakeChannel(held[key]) \/ counts'[ch] = counts[ch]
      BY <1>2, <2>6
    <3> QED
      BY <1>1, <2>3, <2>4, <2>5, <2>6, <3>1, <3>2
  <2>7. CASE MakeChannel(s) = MakeChannel(held[key]) /\ ch = MakeChannel(s)
    <3>1. counts'[ch] = IF counts[ch] > 1 THEN counts[ch] - 1 ELSE 0
      BY <1>2, <2>7 DEF Decremented
    <3>2. Cardinality(Counted(ch)') = Cardinality(Counted(ch)) - 1
      BY <2>3, <2>7
    <3> QED
      BY <1>1, <2>3, <2>4, <2>5, <3>1, <3>2
  <2>8. CASE MakeChannel(s) = MakeChannel(held[key]) /\ ch # MakeChannel(s)
    <3>1. counts'[ch] = counts[ch] /\ Cardinality(Counted(ch)') = Cardinality(Counted(ch))
      BY <1>2, <2>3, <2>8
    <3> QED
      BY <1>1, <2>4, <2>5, <2>3, <3>1
  <2> QED
    BY <2>6, <2>7, <2>8
<1>4. DOMAIN counts' = Channels
  BY <1>2
<1> QED
  BY <1>1, <1>2, <1>3, <1>4 DEF CountsFollowKeys

(***************************************************************************)
(* One argument of an unsubscribe request keeps HeldInv.                   *)
(***************************************************************************)
LEMMA HeldUnsubscribed ==
  ASSUME HeldInv, NEW s \in Named, UnsubscribeOne(s),
         op # "cleanup", op' # "cleanup"
  PROVE  HeldInv'
<1> DEFINE key == MakeStreamKey(s)
           channel == MakeChannel(s)
<1>0. /\ HeldTypes /\ KeysNameStreams /\ HeldIsFed /\ GrantedIsFed /\ CountsFollowKeys
      /\ channel \in Channels
  BY StreamsGiven DEF HeldInv
<1>1. CASE key \notin Keys
  <2>1. UNCHANGED streamVars
    BY <1>1 DEF UnsubscribeOne
  <2>2. Unreturned' = Unreturned
    BY <2>1 DEF Unreturned, Keys, streamVars
  <2> QED
    BY <2>1, <2>2, HeldUnchanged
<1>2. CASE key \in Keys
  <2>1. /\ GiveBack(key, s) /\ held' = Gone(key, held) /\ granted' = granted \ {s}
        /\ left' = left \cup {channel} /\ registered' = registered \ {channel}
    BY <1>2 DEF UnsubscribeOne
  <2>2. /\ Keys' = Keys \ {key} /\ \A k \in Keys' : held'[k] = held[k]
    BY <2>1 DEF Gone, Keys
  <2>3. held' \in [Keys' -> Named]
    <3>1. held' = [k \in Keys \ {key} |-> held[k]]
      BY <2>1 DEF Gone, Keys
    <3>2. \A k \in Keys : held[k] \in Named
      BY <1>0 DEF HeldTypes
    <3> QED
      BY <2>2, <3>1, <3>2
  <2>4. IsFiniteSet(Keys')
    BY <1>0, <2>2, FS_RemoveElement DEF HeldTypes
  <2>5. Unreturned = Keys /\ Unreturned' = Keys'
    BY DEF Unreturned
  <2>6. \A ch : Counted(ch)' = Counted(ch) \ {key}
    <3> SUFFICES ASSUME NEW ch PROVE Counted(ch)' = Counted(ch) \ {key}
      OBVIOUS
    <3>1. Counted(ch)' = {k \in Keys \ {key} : MakeChannel(held'[k]) = ch}
      BY <2>2, <2>5 DEF Counted
    <3>2. Counted(ch) = {k \in Keys : MakeChannel(held[k]) = ch}
      BY <2>5 DEF Counted
    <3> QED
      BY <2>2, <3>1, <3>2
  <2>7. MakeChannel(s) = MakeChannel(held[key]) \/ Strays(s, held[key])
    BY <1>2, SameKey DEF Strays
  <2>8. CountsFollowKeys' /\ counts' \in [Channels -> Nat] /\ strayed' \in Nat
    BY <1>0, <1>2, <2>1, <2>5, <2>6, <2>7, GivenBack
  <2>9. HeldTypes'
    BY <1>0, <2>1, <2>3, <2>4, <2>8 DEF HeldTypes
  <2>10. KeysNameStreams'
    BY <1>0, <2>2 DEF KeysNameStreams
  <2>11. registered \cup left \subseteq registered' \cup left'
    BY <2>1
  <2>12. HeldIsFed'
    BY <1>0, <2>2, <2>11 DEF HeldIsFed
  <2>13. GrantedIsFed'
    BY <1>0, <2>1, <2>11 DEF GrantedIsFed
  <2> QED
    BY <2>8, <2>9, <2>10, <2>12, <2>13 DEF HeldInv
<1> QED
  BY <1>1, <1>2

(***************************************************************************)
(* One key that _cleanup gives back keeps HeldInv: a key that is cut to    *)
(* another channel than it was counted under has a ":" in its symbol.      *)
(***************************************************************************)
LEMMA HeldCleaned ==
  ASSUME HeldInv, op = "cleanup", returning \subseteq Keys,
         NEW key \in returning, CleanupKey(key)
  PROVE  HeldInv'
<1> DEFINE s == FromKey(key)
<1>0. /\ HeldTypes /\ KeysNameStreams /\ HeldIsFed /\ GrantedIsFed /\ CountsFollowKeys
  BY DEF HeldInv
<1>1. /\ GiveBack(key, s) /\ returning' = returning \ {key} /\ op' = "cleanup"
      /\ UNCHANGED <<held, granted, left, registered>>
  BY DEF CleanupKey
<1> HIDE DEF s
<1>2. Unreturned = returning /\ Unreturned' = returning' /\ Keys' = Keys
  BY <1>1 DEF Unreturned, Keys
<1>3. \A ch : Counted(ch)' = Counted(ch) \ {key}
  <2> SUFFICES ASSUME NEW ch PROVE Counted(ch)' = Counted(ch) \ {key}
    OBVIOUS
  <2>1. Counted(ch)' = {k \in returning \ {key} : MakeChannel(held[k]) = ch}
    BY <1>1, <1>2 DEF Counted
  <2>2. Counted(ch) = {k \in returning : MakeChannel(held[k]) = ch}
    BY <1>2 DEF Counted
  <2> QED
    BY <2>1, <2>2
<1>4. MakeChannel(s) = MakeChannel(held[key]) \/ Strays(s, held[key])
  <2>1. held[key] \in Named /\ MakeStreamKey(held[key]) = key
    BY <1>0 DEF HeldTypes, KeysNameStreams
  <2>2. Has(held[key].symbol, ":") \/ MakeChannel(s) = MakeChannel(held[key])
    BY <2>1, NamedIsParsable, FromKeyOfKey DEF s
  <2> QED
    BY <2>2 DEF Strays
<1>5. CountsFollowKeys' /\ counts' \in [Channels -> Nat] /\ strayed' \in Nat
  BY <1>0, <1>1, <1>2, <1>3, <1>4, GivenBack
<1>6. HeldTypes' /\ KeysNameStreams' /\ HeldIsFed' /\ GrantedIsFed'
  BY <1>0, <1>1, <1>2, <1>5 DEF HeldTypes, KeysNameStreams, HeldIsFed, GrantedIsFed
<1> QED
  BY <1>5, <1>6 DEF HeldInv

(***************************************************************************)
(* The end of _cleanup: nothing is left to be counted.                     *)
(***************************************************************************)
LEMMA HeldEmpty ==
  ASSUME HeldInv, CleanupEnds
  PROVE  HeldInv'
<1>1. /\ op = "cleanup" /\ op' = "none" /\ returning = {} /\ held' = Nowhere
      /\ granted' = {} /\ left' = {} /\ registered' = {}
      /\ UNCHANGED <<counts, strayed>>
  BY DEF CleanupEnds
<1>2. Keys' = {} /\ held' \in [{} -> Named]
  BY <1>1 DEF Keys, Nowhere
<1>3. HeldTypes'
  BY <1>1, <1>2, FS_EmptySet DEF HeldInv, HeldTypes
<1>4. KeysNameStreams' /\ HeldIsFed' /\ GrantedIsFed'
  BY <1>1, <1>2 DEF KeysNameStreams, HeldIsFed, GrantedIsFed
<1>5. \A ch : Counted(ch) = {} /\ Counted(ch)' = {}
  BY <1>1, <1>2 DEF Counted, Unreturned
<1>6. CountsFollowKeys'
  BY <1>1, <1>5 DEF HeldInv, CountsFollowKeys
<1> QED
  BY <1>3, <1>4, <1>6 DEF HeldInv

(***************************************************************************)
(* So it is for every stream a client holds.                               *)
(***************************************************************************)
LEMMA AllRoutedBack ==
  ASSUME HeldTypes
  PROVE  RoutedBack
BY SampleComesBack DEF HeldTypes, RoutedBack

-----------------------------------------------------------------------------

(***************************************************************************)
(* What a client knows of Feed. ViewIsCurrent is not inductive by itself:  *)
(* the update must reach the client as long as it knows anything, and a    *)
(* field it knows and no update carries must be one of Bybit's.            *)
(***************************************************************************)
ViewInv ==
  /\ ticker \in [Fields -> Values] /\ sent \subseteq Fields
  /\ view \in [DOMAIN view -> Value] /\ DOMAIN view \subseteq DOMAIN TickerSource
  /\ \A f \in DOMAIN view : f \in AlwaysPresent \/ TickerSource[f] \in Fields
  /\ DOMAIN view # {} => open /\ MakeChannel(Feed) \in registered
  /\ ViewIsCurrent

(***************************************************************************)
(* The client stays where it is, and no message comes.                     *)
(***************************************************************************)
LEMMA ViewUnchanged ==
  ASSUME ViewInv, UNCHANGED <<tickerVars, view>>,
         open /\ MakeChannel(Feed) \in registered =>
           DOMAIN view = {} \/ (open' /\ MakeChannel(Feed) \in registered')
  PROVE  ViewInv'
BY DEF ViewInv, ViewIsCurrent, tickerVars

(***************************************************************************)
(* The client is taken out of the channel, or is gone.                     *)
(***************************************************************************)
LEMMA ViewForgotten ==
  ASSUME ViewInv, UNCHANGED tickerVars, view' = Nowhere
  PROVE  ViewInv'
<1>1. DOMAIN view' = {} /\ view' \in [{} -> Value]
  BY DEF Nowhere
<1> QED
  BY <1>1 DEF ViewInv, ViewIsCurrent, tickerVars

(***************************************************************************)
(* The fields of a relayed ticker.                                         *)
(***************************************************************************)
LEMMA TickerDataIs ==
  ASSUME NEW data
  PROVE  /\ DOMAIN TickerData(data) =
              {f \in DOMAIN TickerSource :
                 TickerSource[f] \in DOMAIN data \/ f \in AlwaysPresent}
         /\ \A f \in DOMAIN TickerData(data) :
              TickerData(data)[f] = IF TickerSource[f] \in DOMAIN data
                                    THEN Formatted(f, data[TickerSource[f]])
                                    ELSE Absent
BY DEF TickerData

(***************************************************************************)
(* A field stays a number.                                                 *)
(***************************************************************************)
LEMMA FormattedIsInt ==
  ASSUME NEW f, NEW v \in Int
  PROVE  Formatted(f, v) \in Int
BY DEF Formatted, FormatPercent

(***************************************************************************)
(* Every delta of Feed is published on the channel of Feed.                *)
(***************************************************************************)
LEMMA FeedPublications ==
  ASSUME NEW data
  PROVE  Publications(Message(MakeTopic(Feed), "delta", data))
           = {[channel |-> MakeChannel(Feed), data |-> TickerData(data)]}
<1> DEFINE message == Message(MakeTopic(Feed), "delta", data)
<1>1. Feed \in Stream /\ Feed.type = "ticker" /\ ~Has(Feed.symbol, ".")
  BY FeedAssumption, StreamsGiven DEF Has
<1>2. message.topic = MakeTopic(Feed) /\ Relayable(message) /\ message.data = data
  BY DEF Message, Relayable
<1>3. \E last \in Text :
           /\ Publications(message) =
                {[channel |-> <<"ticker", ":">> \o last, data |-> TickerData(message.data)]}
           /\ ~Has(last, ".")
           /\ ~Has(Feed.symbol, ".") => last = Feed.symbol
  <2> HIDE DEF message
  <2> QED
    BY <1>1, <1>2, TickerPublications
<1> HIDE DEF message
<1>4. Publications(message) =
        {[channel |-> <<"ticker", ":">> \o Feed.symbol, data |-> TickerData(data)]}
  BY <1>1, <1>2, <1>3
<1> QED
  BY <1>1, <1>4 DEF MakeChannel, message

(***************************************************************************)
(* A delta of Feed keeps ViewInv. A field it does not carry and does not   *)
(* blank has not changed at Bybit.                                         *)
(***************************************************************************)
LEMMA ViewUpdated ==
  ASSUME ViewInv, NEW values \in [Fields -> Values], BybitSends(values)
  PROVE  ViewInv'
<1> DEFINE changed == {f \in Fields : values[f] # ticker[f]}
           data == [f \in changed |-> values[f]]
           update == TickerData(data)
           message == Message(MakeTopic(Feed), "delta", data)
           heard == {p \in Publications(message) : p.channel \in registered}
<1>1. /\ open /\ ticker' = values /\ sent' = changed
      /\ (heard = {} /\ view' = view) \/ \E p \in heard : view' = Over(p.data, view)
      /\ open' = open /\ registered' = registered
  BY DEF BybitSends, streamVars
<1>2. Publications(message) = {[channel |-> MakeChannel(Feed), data |-> update]}
  BY FeedPublications
<1>3. /\ ticker \in [Fields -> Values] /\ view \in [DOMAIN view -> Value]
      /\ DOMAIN view \subseteq DOMAIN TickerSource
      /\ \A f \in DOMAIN view : f \in AlwaysPresent \/ TickerSource[f] \in Fields
      /\ DOMAIN view # {} => MakeChannel(Feed) \in registered
      /\ ViewIsCurrent
  BY DEF ViewInv
<1>4. \A f : f \in changed => f \in Fields /\ data[f] = values[f] /\ values[f] \in Int
  BY ValuesAssumption
<1>5. DOMAIN data = changed /\ \A f \in Fields \ changed : values[f] = ticker[f]
  OBVIOUS
<1>6. /\ DOMAIN update = {f \in DOMAIN TickerSource :
                            TickerSource[f] \in changed \/ f \in AlwaysPresent}
      /\ \A f \in DOMAIN update :
           update[f] = IF TickerSource[f] \in changed
                       THEN Formatted(f, data[TickerSource[f]]) ELSE Absent
  <2> HIDE DEF data
  <2> QED
    BY <1>5, TickerDataIs
<1>7. MakeChannel(Feed) \in registered <=> heard # {}
  <2> DEFINE p == [channel |-> MakeChannel(Feed), data |-> update]
  <2> HIDE DEF message, update
  <2>1. p.channel = MakeChannel(Feed)
    OBVIOUS
  <2>2. Publications(message) = {p}
    BY <1>2
  <2> HIDE DEF p
  <2> QED
    BY <2>1, <2>2
<1>8. \A p \in heard : p.data = update
  <2>1. heard \subseteq Publications(message)
    OBVIOUS
  <2> HIDE DEF message, update, heard
  <2> QED
    BY <1>2, <2>1
<1> HIDE DEF heard, message, update, data, changed
<1>9. CASE heard = {}
  <2>1. DOMAIN view = {} /\ view' = view
    BY <1>1, <1>3, <1>7, <1>9
  <2>2. sent' \subseteq Fields
    BY <1>1, <1>4
  <2> QED
    BY <1>1, <1>3, <2>1, <2>2 DEF ViewInv, ViewIsCurrent
<1>10. CASE heard # {}
  <2>1. view' = Over(update, view) /\ MakeChannel(Feed) \in registered'
    BY <1>1, <1>7, <1>8, <1>10
  <2>2. /\ DOMAIN view' = DOMAIN update \cup DOMAIN view
        /\ \A f \in DOMAIN view' :
             view'[f] = IF f \in DOMAIN update THEN update[f] ELSE view[f]
        /\ view' = [f \in DOMAIN view' |-> view'[f]]
    BY <2>1 DEF Over
  <2>3. DOMAIN view' \subseteq DOMAIN TickerSource
    BY <1>3, <1>6, <2>2
  <2>4. \A f \in DOMAIN view' : f \in AlwaysPresent \/ TickerSource[f] \in Fields
    BY <1>3, <1>4, <1>6, <2>2
  <2>5. ASSUME NEW f \in DOMAIN view'
        PROVE  f \notin AlwaysPresent \/ TickerSource[f] \in sent'
                 => view'[f] = Formatted(f, ticker'[TickerSource[f]])
    <3>1. CASE f \in DOMAIN update
      <4>1. view'[f] = IF TickerSource[f] \in changed
                       THEN Formatted(f, data[TickerSource[f]]) ELSE Absent
        BY <1>6, <2>2, <3>1
      <4>2. TickerSource[f] \in changed \/ f \in AlwaysPresent
        BY <1>6, <3>1
      <4> QED
        BY <1>1, <1>4, <4>1, <4>2
    <3>2. CASE f \notin DOMAIN update
      <4>1. f \in DOMAIN view /\ view'[f] = view[f]
        BY <2>2, <3>2
      <4>2. f \notin AlwaysPresent /\ TickerSource[f] \in Fields \ changed
        BY <1>3, <1>6, <3>2, <4>1
      <4>3. view[f] = Formatted(f, ticker[TickerSource[f]])
        BY <1>3, <4>1, <4>2 DEF ViewIsCurrent
      <4> QED
        BY <1>1, <1>5, <4>1, <4>2, <4>3
    <3> QED
      BY <3>1, <3>2
  <2>6. \A f \in DOMAIN view' : view'[f] \in Value
    <3>1. \A f \in DOMAIN update : update[f] \in Value
      BY <1>4, <1>6, FormattedIsInt DEF Value
    <3>2. \A f \in DOMAIN view : view[f] \in Value
      BY <1>3
    <3> QED
      BY <2>2, <3>1, <3>2
  <2>7. view' \in [DOMAIN view' -> Value]
    BY <2>2, <2>6
  <2>8. sent' \subseteq Fields /\ ticker' \in [Fields -> Values]
    BY <1>1, <1>4
  <2> QED
    BY <1>1, <2>1, <2>3, <2>4, <2>5, <2>7, <2>8 DEF ViewInv, ViewIsCurrent
<1> QED
  BY <1>9, <1>10

-----------------------------------------------------------------------------

(***************************************************************************)
(* What the handler is busy with.                                          *)
(***************************************************************************)
WorkInv ==
  /\ connections \in Nat /\ open \in BOOLEAN
  /\ op \in {"none", "subscribe", "unsubscribe", "cleanup"}
  /\ todo \in Seq(Args) /\ (todo # <<>> <=> op \in {"subscribe", "unsubscribe"})
  /\ op = "cleanup" => ~open
  /\ returning \subseteq Keys /\ (op # "cleanup" => returning = {})

(***************************************************************************)
(* The inductive invariant of the streams, the counts and the messages.    *)
(***************************************************************************)
StreamInv == HeldInv /\ WorkInv /\ ViewInv

(***************************************************************************)
(* It holds before anything has happened.                                  *)
(***************************************************************************)
LEMMA StreamInvInit == Init => StreamInv
<1> SUFFICES ASSUME Init PROVE StreamInv
  OBVIOUS
<1>1. /\ connections = 0 /\ open = FALSE /\ held = Nowhere /\ granted = {} /\ left = {}
      /\ registered = {} /\ counts = OtherCounts /\ strayed = 0
      /\ ticker \in [Fields -> Values] /\ sent = {} /\ view = Nowhere
      /\ op = "none" /\ todo = <<>> /\ returning = {}
  BY DEF Init
<1>2. Keys = {} /\ held \in [{} -> Named] /\ DOMAIN view = {} /\ view \in [{} -> Value]
  BY <1>1 DEF Keys, Nowhere
<1>3. HeldTypes
  BY <1>1, <1>2, FS_EmptySet, OtherCountsAssumption DEF HeldTypes
<1>4. KeysNameStreams /\ HeldIsFed /\ GrantedIsFed
  BY <1>1, <1>2 DEF KeysNameStreams, HeldIsFed, GrantedIsFed
<1>5. CountsFollowKeys
  <2>1. \A ch : Counted(ch) = {}
    BY <1>1, <1>2 DEF Counted, Unreturned
  <2>2. Cardinality({}) = 0
    BY FS_EmptySet
  <2>3. \A ch \in Channels : OtherCounts[ch] \in Nat
    BY OtherCountsAssumption
  <2>4. DOMAIN counts = Channels
    BY <1>1, OtherCountsAssumption
  <2>5. \A ch \in Channels : counts[ch] - OtherCounts[ch] - 0 \in -0..0
    BY <1>1, <2>3
  <2> QED
    BY <1>1, <2>1, <2>2, <2>4, <2>5 DEF CountsFollowKeys
<1>6. WorkInv
  <2>1. todo \in Seq(Args) /\ todo = <<>> /\ op \notin {"subscribe", "unsubscribe", "cleanup"}
    BY <1>1
  <2> QED
    BY <1>1, <1>2, <2>1 DEF WorkInv
<1>7. ViewInv
  BY <1>1, <1>2 DEF ViewInv, ViewIsCurrent
<1> QED
  BY <1>3, <1>4, <1>5, <1>6, <1>7 DEF StreamInv, HeldInv

(***************************************************************************)
(* An argument that is not rejected names a stream.                        *)
(***************************************************************************)
LEMMA NamedByArg ==
  ASSUME NEW arg \in Args, ParseStreamArg(arg) # Rejected
  PROVE  ParseStreamArg(arg) \in Named
BY DEF Named

(***************************************************************************)
(* One argument of a request, rejected or not.                             *)
(***************************************************************************)
LEMMA ArgHandled ==
  ASSUME StreamInv, NEW request, NEW arg \in Args, HandleArg(request, arg),
         op # "cleanup", op' # "cleanup", UNCHANGED <<open, tickerVars>>
  PROVE  HeldInv' /\ ViewInv'
<1> DEFINE s == ParseStreamArg(arg)
<1>0. HeldInv /\ ViewInv
  BY DEF StreamInv
<1>1. CASE s = Rejected
  <2>1. UNCHANGED <<streamVars, view>>
    BY <1>1 DEF HandleArg
  <2>2. Unreturned' = Unreturned /\ registered' = registered
    BY <2>1 DEF Unreturned, Keys, streamVars
  <2>3. HeldInv'
    BY <1>0, <2>1, <2>2, HeldUnchanged
  <2>4. ViewInv'
    BY <1>0, <2>1, <2>2, ViewUnchanged
  <2> QED
    BY <2>3, <2>4
<1>2. CASE s # Rejected
  <2>1. s \in Named
    BY <1>2, NamedByArg
  <2>2. SubscribeOne(s) \/ UnsubscribeOne(s)
    BY <1>2 DEF HandleArg
  <2> HIDE DEF s
  <2>3. CASE SubscribeOne(s)
    <3>1. HeldInv'
      BY <1>0, <2>1, <2>3, HeldSubscribed
    <3>2. view' = view /\ registered \subseteq registered'
      BY <2>3 DEF SubscribeOne
    <3>3. ViewInv'
      BY <1>0, <3>2, ViewUnchanged
    <3> QED
      BY <3>1, <3>3
  <2>4. CASE UnsubscribeOne(s)
    <3>1. HeldInv'
      BY <1>0, <2>1, <2>4, HeldUnsubscribed
    <3>2. \/ view' = Nowhere
          \/ view' = view /\ registered' = registered
          \/ /\ view' = view /\ registered' = registered \ {MakeChannel(s)}
             /\ MakeChannel(s) # MakeChannel(Feed)
      BY <2>4 DEF UnsubscribeOne, streamVars
    <3>3. ViewInv'
      BY <1>0, <3>2, ViewUnchanged, ViewForgotten
    <3> QED
      BY <3>1, <3>3
  <2> QED
    BY <2>2, <2>3, <2>4
<1> QED
  BY <1>1, <1>2

(***************************************************************************)
(* An argument, and what is left of the request after it.                  *)
(***************************************************************************)
LEMMA FirstHandled ==
  ASSUME StreamInv, NEW request \in {"subscribe", "unsubscribe"},
         NEW args \in Seq(Args) \ {<<>>}, HandleFirst(request, args),
         op # "cleanup", UNCHANGED <<open, connections, tickerVars>>
  PROVE  StreamInv'
<1>1. /\ HandleArg(request, Head(args)) /\ todo' = Tail(args)
      /\ op' = (IF Tail(args) = <<>> THEN "none" ELSE request)
      /\ returning' = returning
  BY DEF HandleFirst
<1>2. Head(args) \in Args /\ Tail(args) \in Seq(Args)
  OBVIOUS
<1>3. HeldInv' /\ ViewInv'
  BY <1>1, <1>2, ArgHandled
<1>4. WorkInv'
  <2>1. WorkInv
    BY DEF StreamInv
  <2>2. returning' = {}
    BY <1>1, <2>1 DEF WorkInv
  <2>3. todo' # <<>> <=> op' \in {"subscribe", "unsubscribe"}
    BY <1>1
  <2> QED
    BY <1>1, <1>2, <2>1, <2>2, <2>3 DEF WorkInv
<1> QED
  BY <1>3, <1>4 DEF StreamInv

(***************************************************************************)
(* The steps that leave the streams alone.                                 *)
(***************************************************************************)
LEMMA NothingHandled ==
  ASSUME StreamInv, UNCHANGED <<streamVars, tickerVars, view, workVars>>,
         open' \in BOOLEAN, connections' \in Nat, open => open',
         op = "cleanup" => ~open'
  PROVE  StreamInv'
<1>0. HeldInv /\ WorkInv /\ ViewInv
  BY DEF StreamInv
<1>1. /\ held' = held /\ registered' = registered /\ op' = op /\ todo' = todo
      /\ returning' = returning /\ Keys' = Keys
  BY DEF streamVars, workVars, Keys
<1>2. Unreturned' = Unreturned
  BY <1>1 DEF Unreturned
<1>3. HeldInv'
  BY <1>0, <1>2, HeldUnchanged
<1>4. ViewInv'
  BY <1>0, <1>1, ViewUnchanged
<1>5. WorkInv'
  BY <1>0, <1>1 DEF WorkInv
<1> QED
  BY <1>3, <1>4, <1>5 DEF StreamInv

(***************************************************************************)
(* The connection is gone: every key is to be given back.                  *)
(***************************************************************************)
LEMMA StreamInvLeave ==
  ASSUME StreamInv, Leave
  PROVE  StreamInv'
<1>0. HeldInv /\ WorkInv /\ ViewInv
  BY DEF StreamInv
<1>1. /\ op = "none" /\ op' = "cleanup" /\ returning' = Keys /\ open' = FALSE
      /\ view' = Nowhere /\ connections' = connections /\ todo' = todo
      /\ UNCHANGED streamVars /\ UNCHANGED tickerVars
  BY DEF Leave
<1>2. Keys' = Keys
  BY <1>1 DEF streamVars, Keys
<1>3. Unreturned' = Unreturned
  BY <1>1, <1>2 DEF Unreturned
<1>4. HeldInv'
  BY <1>0, <1>1, <1>3, HeldUnchanged
<1>5. ViewInv'
  BY <1>0, <1>1, ViewForgotten
<1>6. WorkInv'
  <2>1. todo' \in Seq(Args) /\ todo' = <<>> /\ op' \notin {"subscribe", "unsubscribe"}
    BY <1>0, <1>1 DEF WorkInv
  <2> QED
    BY <1>0, <1>1, <1>2, <2>1 DEF WorkInv
<1> QED
  BY <1>4, <1>5, <1>6 DEF StreamInv

(***************************************************************************)
(* _cleanup gives back one key.                                            *)
(***************************************************************************)
LEMMA StreamInvCleanupKey ==
  ASSUME StreamInv, NEW key \in returning, CleanupKey(key)
  PROVE  StreamInv'
<1>0. HeldInv /\ WorkInv /\ ViewInv
  BY DEF StreamInv
<1>1. /\ op' = op /\ returning' = returning \ {key} /\ open' = open /\ held' = held
      /\ view' = view /\ connections' = connections /\ todo' = todo
      /\ registered' = registered /\ UNCHANGED tickerVars
  BY DEF CleanupKey
<1>2. op = "cleanup" /\ returning \subseteq Keys /\ Keys' = Keys
  BY <1>0, <1>1 DEF WorkInv, Keys
<1>3. HeldInv'
  BY <1>0, <1>2, HeldCleaned
<1>4. ViewInv'
  BY <1>0, <1>1, ViewUnchanged
<1>5. WorkInv'
  BY <1>0, <1>1, <1>2 DEF WorkInv
<1> QED
  BY <1>3, <1>4, <1>5 DEF StreamInv

(***************************************************************************)
(* _cleanup clears the set. Nothing is heard by then, for the client is    *)
(* not connected.                                                          *)
(***************************************************************************)
LEMMA StreamInvCleanupEnds ==
  ASSUME StreamInv, CleanupEnds
  PROVE  StreamInv'
<1>0. HeldInv /\ WorkInv /\ ViewInv
  BY DEF StreamInv
<1>1. /\ op = "cleanup" /\ op' = "none" /\ returning = {} /\ returning' = {}
      /\ open' = open /\ view' = view /\ connections' = connections /\ todo' = todo
      /\ UNCHANGED tickerVars
  BY DEF CleanupEnds
<1>2. ~open
  BY <1>0, <1>1 DEF WorkInv
<1>3. HeldInv'
  BY <1>0, HeldEmpty
<1>4. ViewInv'
  BY <1>0, <1>1, <1>2, ViewUnchanged
<1>5. WorkInv'
  BY <1>0, <1>1 DEF WorkInv
<1> QED
  BY <1>3, <1>4, <1>5 DEF StreamInv

(***************************************************************************)
(* Bybit sends a delta of Feed.                                            *)
(***************************************************************************)
LEMMA StreamInvBybitSends ==
  ASSUME StreamInv, NEW values \in [Fields -> Values], BybitSends(values)
  PROVE  StreamInv'
<1>0. HeldInv /\ WorkInv /\ ViewInv
  BY DEF StreamInv
<1>1. UNCHANGED <<connections, open, streamVars, workVars>>
  BY DEF BybitSends
<1>2. Unreturned' = Unreturned /\ Keys' = Keys
  BY <1>1 DEF Unreturned, Keys, streamVars, workVars
<1>3. HeldInv'
  BY <1>0, <1>1, <1>2, HeldUnchanged
<1>4. ViewInv'
  BY <1>0, ViewUpdated
<1>5. WorkInv'
  BY <1>0, <1>1, <1>2 DEF WorkInv, workVars
<1> QED
  BY <1>3, <1>4, <1>5 DEF StreamInv

(***************************************************************************)
(* A message of the client, up to the first await.                         *)
(***************************************************************************)
LEMMA StreamInvReceive ==
  ASSUME StreamInv,
         \/ \E args \in ArgLists : Subscribe(args) \/ Unsubscribe(args)
         \/ OtherMessage
  PROVE  StreamInv'
<1>1. WorkInv
  BY DEF StreamInv
<1>2. /\ op = "none" /\ UNCHANGED <<connections, open, tickerVars>>
      /\ \/ UNCHANGED <<streamVars, view, workVars>>
         \/ \E args \in ArgLists : HandleFirst("subscribe", args)
         \/ \E args \in ArgLists : HandleFirst("unsubscribe", args)
  BY DEF Subscribe, Unsubscribe, OtherMessage, Receive, HandleSubscribe, HandleUnsubscribe
<1>3. CASE UNCHANGED <<streamVars, view, workVars>>
  BY <1>1, <1>2, <1>3, NothingHandled DEF WorkInv
<1>4. ASSUME NEW args \in ArgLists, NEW request \in {"subscribe", "unsubscribe"},
             HandleFirst(request, args)
      PROVE  StreamInv'
  BY <1>2, <1>4, ArgListsAssumption, FirstHandled
<1> QED
  BY <1>2, <1>3, <1>4

(***************************************************************************)
(* Every step keeps the invariant.                                         *)
(***************************************************************************)
LEMMA StreamInvNext ==
  ASSUME StreamInv, [Next]_vars
  PROVE  StreamInv'
<1>1. WorkInv
  BY DEF StreamInv
<1>2. CASE UNCHANGED vars
  BY <1>1, <1>2, NothingHandled DEF WorkInv, vars
<1>3. CASE Tick
  BY <1>1, <1>3, NothingHandled DEF WorkInv, Tick
<1>4. CASE Connect
  BY <1>1, <1>4, NothingHandled DEF WorkInv, Connect
<1>5. CASE NextArg
  <2>1. /\ todo \in Seq(Args) \ {<<>>} /\ op \in {"subscribe", "unsubscribe"}
        /\ HandleFirst(op, todo) /\ UNCHANGED <<open, connections, tickerVars>>
    BY <1>1, <1>5 DEF NextArg, WorkInv
  <2> QED
    BY <2>1, FirstHandled
<1> QED
  BY <1>2, <1>3, <1>4, <1>5, StreamInvReceive, StreamInvLeave, StreamInvCleanupKey,
     StreamInvCleanupEnds, StreamInvBybitSends
     DEF Next

-----------------------------------------------------------------------------

(***************************************************************************)
(* How many of the messages let through belong to the present window.      *)
(***************************************************************************)
Through ==
  IF receiveCount < MAX_MESSAGE_RATE_PER_CLIENT
  THEN receiveCount ELSE MAX_MESSAGE_RATE_PER_CLIENT

(***************************************************************************)
(* The messages before the present window came before it, and those before *)
(* the last window (the present one and a full limit further back) at      *)
(* least a second before the present one.                                  *)
(***************************************************************************)
Earlier ==
  \A i \in 1..Len(accepted) :
    /\ accepted[i] <= now
    /\ i <= Len(accepted) - Through => accepted[i] <= windowStart
    /\ i <= Len(accepted) - Through - MAX_MESSAGE_RATE_PER_CLIENT =>
         accepted[i] + SECOND <= windowStart

RateInv ==
  /\ now \in Nat /\ windowStart \in Nat /\ receiveCount \in Nat
  /\ accepted \in Seq(Nat)
  /\ windowStart <= now
  /\ MAX_MESSAGE_RATE_PER_CLIENT = 0 => accepted = <<>>
  /\ Earlier
  /\ AtMostTwiceTheRate

(***************************************************************************)
(* The actions that leave the window alone keep the invariant.             *)
(***************************************************************************)
LEMMA RateInvUnchanged ==
  ASSUME RateInv, UNCHANGED rateVars, now' \in {now, now + 1}
  PROVE  RateInv'
<1>1. now' \in Nat /\ now <= now'
  BY DEF RateInv
<1>2. Earlier'
  BY <1>1, LimitsAssumption, ClockAssumption
     DEF RateInv, Earlier, Through, rateVars
<1>3. AtMostTwiceTheRate'
  BY DEF RateInv, AtMostTwiceTheRate, rateVars
<1> QED
  BY <1>1, <1>2, <1>3 DEF RateInv, rateVars

(***************************************************************************)
(* A message that comes now is far enough from the one that is twice the   *)
(* limit back.                                                             *)
(***************************************************************************)
FarEnough ==
  \A i \in 1..Len(accepted) :
    i + 2 * MAX_MESSAGE_RATE_PER_CLIENT = Len(accepted) + 1 =>
      accepted[i] + SECOND <= now

(***************************************************************************)
(* One more message, a second or more after the one that is twice the      *)
(* limit further back.                                                     *)
(***************************************************************************)
LEMMA AppendedKeepsRate ==
  ASSUME RateInv,
         accepted' \in Seq(Nat), Len(accepted') = Len(accepted) + 1,
         accepted'[Len(accepted) + 1] = now,
         \A i \in 1..Len(accepted) : accepted'[i] = accepted[i],
         MAX_MESSAGE_RATE_PER_CLIENT > 0, FarEnough
  PROVE  AtMostTwiceTheRate'
<1> DEFINE MAX == MAX_MESSAGE_RATE_PER_CLIENT
           L == Len(accepted)
<1>0. /\ L \in Nat /\ MAX \in Nat /\ SECOND \in Nat /\ now \in Nat
      /\ accepted \in Seq(Nat)
  BY LimitsAssumption, ClockAssumption DEF RateInv
<1> SUFFICES ASSUME NEW i \in 1..(L + 1), NEW j \in 1..(L + 1), j = i + 2 * MAX
             PROVE  accepted'[j] - accepted'[i] >= SECOND
  BY <1>0 DEF AtMostTwiceTheRate
<1>1. i \in Int /\ j \in Int /\ i \in 1..L /\ i < j /\ j <= L + 1
  BY <1>0
<1>2. accepted[i] \in Nat /\ accepted'[i] = accepted[i]
  BY <1>0, <1>1
<1>3. CASE j <= L
  <2>1. j \in 1..L
    BY <1>0, <1>1, <1>3
  <2>2. accepted'[j] = accepted[j]
    BY <2>1
  <2>3. i \in DOMAIN accepted /\ j \in DOMAIN accepted
    BY <1>0, <1>1, <2>1
  <2>4. accepted[j] - accepted[i] >= SECOND
    BY <2>3 DEF RateInv, AtMostTwiceTheRate
  <2> QED
    BY <1>2, <2>2, <2>4
<1>4. CASE j = L + 1
  <2>1. accepted'[j] = now
    BY <1>4
  <2>2. accepted[i] + SECOND <= now
    BY <1>0, <1>1, <1>4 DEF FarEnough
  <2>3. now - accepted[i] >= SECOND
    <3>1. \A n \in Nat : n + SECOND <= now => now - n >= SECOND
      BY <1>0
    <3> QED
      BY <1>2, <2>2, <3>1
  <2> QED
    BY <1>2, <2>1, <2>3
<1>5. j <= L \/ j = L + 1
  <2> HIDE DEF L
  <2> QED
    BY <1>0, <1>1
<1> QED
  BY <1>3, <1>4, <1>5

(***************************************************************************)
(* A message of the client, whatever is done with it.                      *)
(***************************************************************************)
LEMMA RateInvReceived ==
  ASSUME RateInv, CheckReceiveRate, now' = now
  PROVE  RateInv'
<1> DEFINE MAX == MAX_MESSAGE_RATE_PER_CLIENT
           old == accepted
           L == Len(accepted)
<1>0. /\ now \in Nat /\ windowStart \in Nat /\ receiveCount \in Nat
      /\ accepted \in Seq(Nat) /\ L \in Nat /\ MAX \in Nat /\ SECOND \in Nat
  BY LimitsAssumption, ClockAssumption DEF RateInv
<1>1. CASE Expired
  <2>1. windowStart' = now /\ receiveCount' = 1 /\ now - windowStart >= SECOND
    BY <1>1 DEF CheckReceiveRate, Received, Expired
  <2>2. CASE MAX = 0
    <3>1. accepted' = <<>>
      BY <1>1, <2>2 DEF CheckReceiveRate, Received, RateInv
    <3> QED
      BY <1>0, <2>1, <3>1 DEF RateInv, Earlier, AtMostTwiceTheRate
  <2>3. CASE MAX > 0
    <3>1. accepted' = Append(accepted, now)
      BY <1>0, <1>1, <2>3 DEF CheckReceiveRate, Received
    <3>2. /\ accepted' \in Seq(Nat) /\ Len(accepted') = L + 1
          /\ accepted'[L + 1] = now
          /\ \A i \in 1..L : accepted'[i] = accepted[i]
      BY <1>0, <3>1
    <3>3. Through' = 1
      BY <1>0, <2>1, <2>3 DEF Through
    <3>4. \A i \in 1..L : i <= L - MAX => accepted[i] + SECOND <= now
      <4> SUFFICES ASSUME NEW i \in 1..L, i <= L - MAX
                   PROVE  accepted[i] + SECOND <= now
        OBVIOUS
      <4>1. Through \in Nat /\ Through <= MAX
        BY <1>0 DEF Through
      <4>2. accepted[i] \in Nat /\ accepted[i] <= windowStart
        BY <1>0, <4>1 DEF RateInv, Earlier
      <4> QED
        BY <1>0, <2>1, <4>2
    <3>5. Earlier'
      <4> SUFFICES ASSUME NEW i \in 1..(L + 1)
                   PROVE  /\ accepted'[i] <= now
                          /\ i <= L => accepted'[i] <= now
                          /\ i <= L - MAX => accepted'[i] + SECOND <= now
        BY <1>0, <2>1, <3>2, <3>3 DEF Earlier
      <4>1. CASE i \in 1..L
        BY <1>0, <3>2, <3>4, <4>1 DEF RateInv, Earlier
      <4>2. CASE i = L + 1
        BY <1>0, <2>3, <3>2, <4>2
      <4> QED
        BY <1>0, <4>1, <4>2
    <3>6. AtMostTwiceTheRate'
      BY <1>0, <2>3, <3>2, <3>4, AppendedKeepsRate DEF FarEnough
    <3> QED
      BY <1>0, <2>1, <2>3, <3>2, <3>5, <3>6 DEF RateInv
  <2> QED
    BY <1>0, <2>2, <2>3
<1>2. CASE ~Expired
  <2>1. windowStart' = windowStart /\ receiveCount' = receiveCount + 1
    BY <1>2 DEF CheckReceiveRate, Received
  <2>2. CASE receiveCount + 1 <= MAX
    <3>1. accepted' = Append(accepted, now)
      BY <1>2, <2>2 DEF CheckReceiveRate, Received
    <3>2. /\ accepted' \in Seq(Nat) /\ Len(accepted') = L + 1
          /\ accepted'[L + 1] = now
          /\ \A i \in 1..L : accepted'[i] = accepted[i]
      BY <1>0, <3>1
    <3>3. Through = receiveCount /\ Through' = Through + 1
      BY <1>0, <2>1, <2>2 DEF Through
    <3>4. Earlier'
      <4> SUFFICES ASSUME NEW i \in 1..(L + 1)
                   PROVE  /\ accepted'[i] <= now
                          /\ i <= L - Through => accepted'[i] <= windowStart
                          /\ i <= L - Through - MAX =>
                               accepted'[i] + SECOND <= windowStart
        BY <1>0, <2>1, <3>2, <3>3 DEF Earlier
      <4>1. CASE i \in 1..L
        BY <1>0, <3>2, <4>1 DEF RateInv, Earlier
      <4>2. CASE i = L + 1
        BY <1>0, <2>2, <3>2, <3>3, <4>2
      <4> QED
        BY <1>0, <4>1, <4>2
    <3>5. \A i \in 1..L : i + 2 * MAX = L + 1 => accepted[i] + SECOND <= now
      <4> SUFFICES ASSUME NEW i \in 1..L, i + 2 * MAX = L + 1
                   PROVE  accepted[i] + SECOND <= now
        OBVIOUS
      <4>1. i <= L - Through - MAX
        BY <1>0, <2>2, <3>3
      <4>2. accepted[i] \in Nat /\ accepted[i] + SECOND <= windowStart
        BY <1>0, <4>1 DEF RateInv, Earlier
      <4> QED
        BY <1>0, <4>2 DEF RateInv
    <3>6. AtMostTwiceTheRate'
      BY <1>0, <2>2, <3>2, <3>5, AppendedKeepsRate DEF FarEnough
    <3> QED
      BY <1>0, <2>1, <2>2, <3>2, <3>4, <3>6 DEF RateInv
  <2>3. CASE ~(receiveCount + 1 <= MAX)
    <3>1. accepted' = accepted
      BY <1>2, <2>3 DEF CheckReceiveRate, Received
    <3>2. Through = MAX /\ Through' = MAX
      BY <1>0, <2>1, <2>3 DEF Through
    <3>3. Earlier'
      BY <1>0, <2>1, <3>1, <3>2 DEF RateInv, Earlier
    <3> QED
      BY <1>0, <2>1, <3>1, <3>3 DEF RateInv, AtMostTwiceTheRate
  <2> QED
    BY <2>2, <2>3
<1> QED
  BY <1>1, <1>2

(***************************************************************************)
(* Every step keeps the invariant: a new connection starts with nothing    *)
(* let through, a message is the lemma above, and the other actions leave  *)
(* the window alone.                                                       *)
(***************************************************************************)
LEMMA RateInvNext ==
  ASSUME RateInv, [Next]_vars
  PROVE  RateInv'
<1>1. CASE Connect
  BY <1>1 DEF Connect, RateInv, Earlier, AtMostTwiceTheRate, Through
<1>2. CASE (\E args \in ArgLists : Subscribe(args) \/ Unsubscribe(args)) \/ OtherMessage
  <2>1. CheckReceiveRate /\ now' = now
    BY <1>2 DEF Subscribe, Unsubscribe, OtherMessage, Receive
  <2> QED
    BY <2>1, RateInvReceived
<1>3. CASE Tick
  BY <1>3, RateInvUnchanged DEF Tick
<1>4. CASE NextArg
  BY <1>4, RateInvUnchanged DEF NextArg
<1>5. CASE Leave
  BY <1>5, RateInvUnchanged DEF Leave
<1>6. CASE \E key \in returning : CleanupKey(key)
  BY <1>6, RateInvUnchanged DEF CleanupKey
<1>7. CASE CleanupEnds
  BY <1>7, RateInvUnchanged DEF CleanupEnds
<1>8. CASE \E values \in [Fields -> Values] \ {ticker} : BybitSends(values)
  BY <1>8, RateInvUnchanged DEF BybitSends
<1>9. CASE UNCHANGED vars
  BY <1>9, RateInvUnchanged DEF vars
<1> QED
  BY <1>1, <1>2, <1>3, <1>4, <1>5, <1>6, <1>7, <1>8, <1>9 DEF Next

(***************************************************************************)
(* Both invariants hold of every behaviour.                                *)
(***************************************************************************)
LEMMA Invariants == Spec => [](RateInv /\ StreamInv)
<1>1. Init => RateInv
  BY DEF Init, RateInv, Earlier, AtMostTwiceTheRate
<1>2. RateInv /\ [Next]_vars => RateInv'
  BY RateInvNext
<1>3. StreamInv /\ [Next]_vars => StreamInv'
  BY StreamInvNext
<1> QED
  BY <1>1, <1>2, <1>3, StreamInvInit, PTL DEF Spec

(***************************************************************************)
(* Every variable keeps its type, whatever the client asks for.            *)
(* check_receive_rate, the handler's set and the counts are all in it.     *)
(***************************************************************************)
THEOREM TypeCorrect == Spec => []TypeOK
<1>1. RateInv /\ StreamInv => TypeOK
  <2> SUFFICES ASSUME RateInv, StreamInv PROVE TypeOK
    OBVIOUS
  <2>1. Keys \subseteq {MakeStreamKey(s) : s \in Named}
    BY DEF StreamInv, HeldInv, HeldTypes, KeysNameStreams
  <2>2. now \in Nat /\ windowStart \in Nat /\ receiveCount \in Nat /\ accepted \in Seq(Nat)
    BY DEF RateInv
  <2>3. WorkInv /\ ViewInv /\ HeldTypes
    BY DEF StreamInv, HeldInv
  <2> QED
    BY <2>1, <2>2, <2>3 DEF TypeOK, WorkInv, ViewInv, HeldTypes
<1> QED
  BY <1>1, Invariants, PTL

(***************************************************************************)
(* A stream that _handle_subscribe reported as subscribed has its channel  *)
(* in Pub/Sub, or the client gave the channel up itself, or the key of the *)
(* stream is also that of a symbol with a ":".                             *)
(***************************************************************************)
THEOREM GrantedAreFed == Spec => []GrantedIsFed
<1>1. StreamInv => GrantedIsFed
  BY DEF StreamInv, HeldInv
<1> QED
  BY <1>1, Invariants, PTL

(***************************************************************************)
(* The counts follow the keys, through requests cut short by other steps   *)
(* and through _cleanup, off by no more than the keys that strayed: with   *)
(* no ":" in any symbol they are exact.                                    *)
(***************************************************************************)
THEOREM CountsAreFollowed == Spec => []CountsFollowKeys
<1>1. StreamInv => CountsFollowKeys
  BY DEF StreamInv, HeldInv
<1> QED
  BY <1>1, Invariants, PTL

(***************************************************************************)
(* For every stream the client holds: what Bybit sends on its topic is     *)
(* published on the channel of the stream by _on_upstream_message, exactly *)
(* when the symbol holds no ".".                                           *)
(***************************************************************************)
THEOREM StreamsComeBack == Spec => []RoutedBack
<1>1. StreamInv => RoutedBack
  BY AllRoutedBack DEF StreamInv, HeldInv
<1> QED
  BY <1>1, Invariants, PTL

(***************************************************************************)
(* A client that lays update over update knows every field of the ticker   *)
(* that may be left out as Bybit has it, and the other fields where the    *)
(* last delta carried them.                                                *)
(***************************************************************************)
THEOREM ViewsAreCurrent == Spec => []ViewIsCurrent
<1>1. StreamInv => ViewIsCurrent
  BY DEF StreamInv, ViewInv
<1> QED
  BY <1>1, Invariants, PTL

(***************************************************************************)
(* For every limit, every length of a second and every client: over any    *)
(* second at most twice the limit of messages gets through.                *)
(***************************************************************************)
THEOREM RateIsBounded == Spec => []AtMostTwiceTheRate
<1>1. RateInv => AtMostTwiceTheRate
  BY DEF RateInv
<1> QED
  BY <1>1, Invariants, PTL

=============================================================================
