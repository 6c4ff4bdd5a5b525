--------------------------- MODULE FrontEndProofs ---------------------------
(***************************************************************************)
(* Theorems about FrontEnd, for every set of requests, legal or not, and   *)
(* every way to cut their streams.                                         *)
(***************************************************************************)
EXTENDS FrontEnd, QueryParsingProofs, TLAPS, SequenceTheorems

-----------------------------------------------------------------------------
(* The scans that are defined by least elements.                           *)

LEMMA MinIsLeast ==
  ASSUME NEW T, T \subseteq Nat, T # {}
  PROVE  Min(T) \in T /\ \A n \in T : Min(T) <= n
  BY LeastElement DEF Min

LEMMA NextOfIsFirst ==
  ASSUME NEW s \in Seq(STRING), NEW i \in Nat \ {0}, NEW L
  PROVE  /\ NextOf(s, i, L) \in Nat
         /\ \/ NextOf(s, i, L) = Len(s) + 1
            \/ NextOf(s, i, L) \in i .. Len(s) /\ s[NextOf(s, i, L)] \in L
         /\ \A j \in i .. Len(s) : s[j] \in L => NextOf(s, i, L) <= j
<1> DEFINE T == {j \in i .. Len(s) : s[j] \in L} \cup {Len(s) + 1}
<1>1. T \subseteq Nat /\ T # {}
  OBVIOUS
<1>2. Min(T) \in T /\ \A n \in T : Min(T) <= n
  BY <1>1, MinIsLeast
<1>3. NextOf(s, i, L) = Min(T)
  BY DEF NextOf
<1> QED BY <1>1, <1>2, <1>3

LEMMA ValueStartIsFirst ==
  ASSUME NEW s \in Seq(STRING), NEW i \in Nat \ {0}
  PROVE  /\ ValueStart(s, i) \in Nat
         /\ \/ ValueStart(s, i) = Len(s) + 1
            \/ ValueStart(s, i) \in i .. Len(s) /\ s[ValueStart(s, i)] \notin Blanks
         /\ \A j \in i .. Len(s) : s[j] \notin Blanks => ValueStart(s, i) <= j
<1> DEFINE T == {j \in i .. Len(s) : s[j] \notin Blanks} \cup {Len(s) + 1}
<1>1. T \subseteq Nat /\ T # {}
  OBVIOUS
<1>2. Min(T) \in T /\ \A n \in T : Min(T) <= n
  BY <1>1, MinIsLeast
<1>3. ValueStart(s, i) = Min(T)
  BY DEF ValueStart
<1> QED BY <1>1, <1>2, <1>3

(* The empty line that ends at n.                                          *)
BlankLineAt(s, n) == s[n - 3] = "CR" /\ s[n - 2] = "LF" /\ s[n - 1] = "CR" /\ s[n] = "LF"

LEMMA EndsABlankLine ==
  ASSUME NEW s \in Seq(STRING), NEW n \in 4 .. Len(s)
  PROVE  SubSeq(s, n - 3, n) = CRLF \o CRLF <=> BlankLineAt(s, n)
<1>1. CRLF \o CRLF = <<"CR", "LF", "CR", "LF">>
  <2> DEFINE t == CRLF \o CRLF
  <2>1. CRLF \in Seq({"CR", "LF"}) /\ Len(CRLF) = 2 /\ CRLF[1] = "CR" /\ CRLF[2] = "LF"
    BY DEF CRLF
  <2>5. /\ t \in Seq({"CR", "LF"})
        /\ Len(t) = Len(CRLF) + Len(CRLF)
        /\ \A i \in 1 .. Len(CRLF) + Len(CRLF) :
             t[i] = IF i <= Len(CRLF) THEN CRLF[i] ELSE CRLF[i - Len(CRLF)]
    <3>1. CRLF \in Seq({"CR", "LF"})
      BY <2>1
    <3> QED BY <3>1, ConcatProperties
  <2> HIDE DEF t
  <2>2. t \in Seq({"CR", "LF"}) /\ Len(t) = 4 /\ t[1] = CRLF[1] /\ t[2] = CRLF[2] /\ t[3] = CRLF[1] /\ t[4] = CRLF[2]
    BY <2>1, <2>5
  <2>4. t[1] = "CR" /\ t[2] = "LF" /\ t[3] = "CR" /\ t[4] = "LF"
    BY <2>1, <2>2
  <2>3. t = <<"CR", "LF", "CR", "LF">>
    BY <2>2, <2>4
  <2> QED BY <2>3 DEF t
<1>2. /\ SubSeq(s, n - 3, n) \in Seq(STRING)
      /\ Len(SubSeq(s, n - 3, n)) = 4
      /\ \A k \in 1 .. 4 : SubSeq(s, n - 3, n)[k] = s[n - 4 + k]
  <2> DEFINE a == n - 3
             t == SubSeq(s, a, n)
  <2>1. n \in Int /\ a \in Int /\ n - a + 1 = 4 /\ a <= n
    OBVIOUS
  <2>2. \A i \in a .. n : s[i] \in STRING
    OBVIOUS
  <2> HIDE DEF a
  <2>3. /\ t \in Seq(STRING)
        /\ Len(t) = (IF a <= n THEN n - a + 1 ELSE 0)
        /\ \A i \in 1 .. n - a + 1 : t[i] = s[a + i - 1]
    BY <2>1, <2>2, SubSeqProperties
  <2> HIDE DEF t
  <2>4. t \in Seq(STRING) /\ Len(t) = 4 /\ \A i \in 1 .. 4 : t[i] = s[a + i - 1]
    BY <2>1, <2>3
  <2>5. \A k \in 1 .. 4 : a + k - 1 = n - 4 + k
    BY DEF a
  <2>6. \A k \in 1 .. 4 : t[k] = s[n - 4 + k]
    BY <2>4, <2>5
  <2> QED BY <2>4, <2>6 DEF t, a
<1>3. /\ SubSeq(s, n - 3, n)[1] = s[n - 3] /\ SubSeq(s, n - 3, n)[2] = s[n - 2]
      /\ SubSeq(s, n - 3, n)[3] = s[n - 1] /\ SubSeq(s, n - 3, n)[4] = s[n]
  BY <1>2
<1>4. ASSUME BlankLineAt(s, n) PROVE SubSeq(s, n - 3, n) = <<"CR", "LF", "CR", "LF">>
  <2> DEFINE t == SubSeq(s, n - 3, n)
  <2>1. t \in Seq(STRING) /\ Len(t) = 4 /\ t[1] = "CR" /\ t[2] = "LF" /\ t[3] = "CR" /\ t[4] = "LF"
    BY <1>2, <1>3, <1>4 DEF BlankLineAt
  <2> HIDE DEF t
  <2>2. t = <<"CR", "LF", "CR", "LF">>
    BY <2>1
  <2> QED BY <2>2 DEF t
<1>5. ASSUME SubSeq(s, n - 3, n) = <<"CR", "LF", "CR", "LF">> PROVE BlankLineAt(s, n)
  <2> DEFINE t == SubSeq(s, n - 3, n)
  <2>1. t[1] = s[n - 3] /\ t[2] = s[n - 2] /\ t[3] = s[n - 1] /\ t[4] = s[n]
    BY <1>3
  <2>2. t = <<"CR", "LF", "CR", "LF">>
    BY <1>5
  <2> HIDE DEF t
  <2>3. t[1] = "CR" /\ t[2] = "LF" /\ t[3] = "CR" /\ t[4] = "LF"
    BY <2>2
  <2> QED BY <2>1, <2>3 DEF BlankLineAt
<1> QED BY <1>1, <1>4, <1>5
LEMMA HeaderEndIsFirst ==
  ASSUME NEW s \in Seq(STRING)
  PROVE  /\ HeaderEnd(s) \in Nat
         /\ \/ HeaderEnd(s) = 0
            \/ HeaderEnd(s) \in 4 .. Len(s) /\ BlankLineAt(s, HeaderEnd(s))
         /\ \A n \in 4 .. Len(s) : BlankLineAt(s, n) => HeaderEnd(s) # 0 /\ HeaderEnd(s) <= n
<1> DEFINE T == {n \in 4 .. Len(s) : SubSeq(s, n - 3, n) = CRLF \o CRLF}
<1>1. HeaderEnd(s) = IF T = {} THEN 0 ELSE Min(T)
  BY DEF HeaderEnd
<1>2. \A n \in 4 .. Len(s) : n \in T <=> BlankLineAt(s, n)
  BY EndsABlankLine
<1>3. T \subseteq 4 .. Len(s) /\ T \subseteq Nat
  OBVIOUS
<1> HIDE DEF T
<1>4. CASE T = {}
  BY <1>1, <1>2, <1>4
<1>5. CASE T # {}
  <2>1. Min(T) \in T /\ \A n \in T : Min(T) <= n
    BY <1>3, <1>5, MinIsLeast
  <2>2. HeaderEnd(s) = Min(T)
    BY <1>1, <1>5
  <2>3. HeaderEnd(s) \in 4 .. Len(s) /\ BlankLineAt(s, HeaderEnd(s))
    BY <1>2, <1>3, <2>1, <2>2
  <2>4. \A n \in 4 .. Len(s) : BlankLineAt(s, n) => HeaderEnd(s) <= n
    BY <1>2, <2>1, <2>2
  <2> QED BY <2>3, <2>4
<1> QED BY <1>4, <1>5

-----------------------------------------------------------------------------
(* A buffer and a longer one that begins with it. What a scan finds in the *)
(* first it finds at the same place in the second.                         *)

Begins(p, s) ==
  /\ p \in Seq(STRING) /\ s \in Seq(STRING)
  /\ Len(p) <= Len(s)
  /\ \A k \in 1 .. Len(p) : p[k] = s[k]

LEMMA NextOfAgrees ==
  ASSUME NEW p, NEW s, Begins(p, s), NEW i \in Nat \ {0}, NEW L
  PROVE  \/ NextOf(p, i, L) \in 1 .. Len(p) /\ NextOf(s, i, L) = NextOf(p, i, L)
         \/ NextOf(p, i, L) > Len(p) /\ NextOf(s, i, L) > Len(p)
<1> DEFINE a == NextOf(p, i, L)
           b == NextOf(s, i, L)
<1>1. /\ a \in Nat
      /\ (a = Len(p) + 1) \/ (a \in i .. Len(p) /\ p[a] \in L)
      /\ \A j \in i .. Len(p) : p[j] \in L => a <= j
  BY NextOfIsFirst DEF Begins
<1>2. /\ b \in Nat
      /\ (b = Len(s) + 1) \/ (b \in i .. Len(s) /\ s[b] \in L)
      /\ \A j \in i .. Len(s) : s[j] \in L => b <= j
  BY NextOfIsFirst DEF Begins
<1>3. Len(p) \in Nat /\ Len(s) \in Nat /\ Len(p) <= Len(s) /\ \A k \in 1 .. Len(p) : p[k] = s[k]
  BY DEF Begins
<1> HIDE DEF a, b
<1>4. a <= Len(p) => b <= a
  BY <1>1, <1>2, <1>3
<1>5. b <= Len(p) => a <= b
  BY <1>1, <1>2, <1>3
<1>6. a <= Len(p) => a \in 1 .. Len(p) /\ b = a
  BY <1>1, <1>2, <1>3, <1>4, <1>5
<1>7. a > Len(p) => b > Len(p)
  BY <1>1, <1>2, <1>3, <1>5
<1>8. a <= Len(p) \/ a > Len(p)
  BY <1>1, <1>3
<1> QED BY <1>6, <1>7, <1>8 DEF a, b

LEMMA ValueStartAgrees ==
  ASSUME NEW p, NEW s, Begins(p, s), NEW i \in Nat \ {0}, NEW h \in i .. Len(p), p[h] = "CR"
  PROVE  /\ ValueStart(p, i) \in i .. h
         /\ ValueStart(s, i) = ValueStart(p, i)
<1> DEFINE a == ValueStart(p, i)
           b == ValueStart(s, i)
<1>1. /\ a \in Nat
      /\ (a = Len(p) + 1) \/ (a \in i .. Len(p) /\ p[a] \notin Blanks)
      /\ \A j \in i .. Len(p) : p[j] \notin Blanks => a <= j
  BY ValueStartIsFirst DEF Begins
<1>2. /\ b \in Nat
      /\ (b = Len(s) + 1) \/ (b \in i .. Len(s) /\ s[b] \notin Blanks)
      /\ \A j \in i .. Len(s) : s[j] \notin Blanks => b <= j
  BY ValueStartIsFirst DEF Begins
<1>3. Len(p) \in Nat /\ Len(s) \in Nat /\ Len(p) <= Len(s) /\ \A k \in 1 .. Len(p) : p[k] = s[k]
  BY DEF Begins
<1>4. p[h] \notin Blanks /\ s[h] \notin Blanks
  <2>1. "CR" \notin Blanks
    BY DEF Blanks
  <2>2. p[h] = "CR" /\ s[h] = "CR"
    BY <1>3
  <2> QED BY <2>1, <2>2
<1> HIDE DEF a, b
<1>5. a <= h /\ b <= h
  BY <1>1, <1>2, <1>3, <1>4
<1>6. a \in i .. h /\ b \in i .. h /\ p[a] \notin Blanks /\ s[b] \notin Blanks
  BY <1>1, <1>2, <1>3, <1>5
<1>7. b <= a /\ a <= b
  BY <1>1, <1>2, <1>3, <1>6
<1> QED BY <1>6, <1>7 DEF a, b

LEMMA SubSeqAgrees ==
  ASSUME NEW p, NEW s, Begins(p, s), NEW i \in Nat \ {0}, NEW j \in Nat, j <= Len(p)
  PROVE  SubSeq(p, i, j) = SubSeq(s, i, j)
<1>1. p \in Seq(STRING) /\ s \in Seq(STRING) /\ Len(p) <= Len(s) /\ \A k \in 1 .. Len(p) : p[k] = s[k]
  BY DEF Begins
<1>2. CASE i <= j
  <2> DEFINE a == SubSeq(p, i, j)
             b == SubSeq(s, i, j)
  <2>1. a \in Seq(STRING) /\ Len(a) = j - i + 1 /\ \A k \in 1 .. (j - i + 1) : a[k] = p[i + k - 1]
    BY <1>1, <1>2
  <2>2. b \in Seq(STRING) /\ Len(b) = j - i + 1 /\ \A k \in 1 .. (j - i + 1) : b[k] = s[i + k - 1]
    BY <1>1, <1>2
  <2>3. \A k \in 1 .. (j - i + 1) : p[i + k - 1] = s[i + k - 1]
    BY <1>1, <1>2
  <2> HIDE DEF a, b
  <2>4. a = b
    BY <2>1, <2>2, <2>3, SeqEqual
  <2> QED BY <2>4 DEF a, b
<1>3. CASE i > j
  BY <1>1, <1>3, SubSeqEmpty
<1> QED BY <1>2, <1>3

LEMMA HeaderEndAgrees ==
  ASSUME NEW p, NEW s, Begins(p, s), HeaderEnd(p) # 0
  PROVE  HeaderEnd(s) = HeaderEnd(p)
<1> DEFINE a == HeaderEnd(p)
           b == HeaderEnd(s)
<1>1. /\ a \in Nat
      /\ (a = 0) \/ (a \in 4 .. Len(p) /\ BlankLineAt(p, a))
      /\ \A n \in 4 .. Len(p) : BlankLineAt(p, n) => a # 0 /\ a <= n
  BY HeaderEndIsFirst DEF Begins
<1>2. /\ b \in Nat
      /\ (b = 0) \/ (b \in 4 .. Len(s) /\ BlankLineAt(s, b))
      /\ \A n \in 4 .. Len(s) : BlankLineAt(s, n) => b # 0 /\ b <= n
  BY HeaderEndIsFirst DEF Begins
<1>3. Len(p) \in Nat /\ Len(s) \in Nat /\ Len(p) <= Len(s) /\ \A k \in 1 .. Len(p) : p[k] = s[k]
  BY DEF Begins
<1>4. \A n \in 4 .. Len(p) : BlankLineAt(p, n) <=> BlankLineAt(s, n)
  BY <1>3 DEF BlankLineAt
<1> HIDE DEF a, b
<1>5. a \in 4 .. Len(p) /\ BlankLineAt(s, a) /\ a \in 4 .. Len(s)
  BY <1>1, <1>3, <1>4 DEF a
<1>6. b # 0 /\ b <= a
  BY <1>2, <1>5
<1>7. b \in 4 .. Len(p) /\ BlankLineAt(p, b)
  BY <1>2, <1>3, <1>4, <1>5, <1>6
<1>8. a <= b
  BY <1>1, <1>7
<1> QED BY <1>1, <1>2, <1>6, <1>8 DEF a, b

-----------------------------------------------------------------------------
(* The parser on both buffers, once the first has a whole head.            *)

LEMMA LineEndIsInHead ==
  ASSUME NEW p, NEW s, Begins(p, s), HeaderEnd(p) # 0
  PROVE  /\ HeaderEnd(p) \in 4 .. Len(p) /\ BlankLineAt(p, HeaderEnd(p))
         /\ LineEnd(p) \in 1 .. HeaderEnd(p) - 3
         /\ LineEnd(s) = LineEnd(p)
<1>1. p \in Seq(STRING)
  BY DEF Begins
<1>2. HeaderEnd(p) \in 4 .. Len(p) /\ BlankLineAt(p, HeaderEnd(p))
  BY <1>1, HeaderEndIsFirst
<1>3. p[HeaderEnd(p) - 3] \in {"CR"} /\ HeaderEnd(p) - 3 \in 1 .. Len(p)
  BY <1>2 DEF BlankLineAt
<1>4. /\ LineEnd(p) \in Nat
      /\ (LineEnd(p) = Len(p) + 1) \/ (LineEnd(p) \in 1 .. Len(p))
      /\ LineEnd(p) <= HeaderEnd(p) - 3
  BY <1>1, <1>3, NextOfIsFirst DEF LineEnd
<1>5. \/ LineEnd(p) \in 1 .. Len(p) /\ LineEnd(s) = LineEnd(p)
      \/ LineEnd(p) > Len(p) /\ LineEnd(s) > Len(p)
  BY NextOfAgrees DEF LineEnd
<1> QED BY <1>2, <1>3, <1>4, <1>5

LEMMA FirstLineAgrees ==
  ASSUME NEW p, NEW s, Begins(p, s), HeaderEnd(p) # 0
  PROVE  /\ FirstLineIsRequest(s) <=> FirstLineIsRequest(p)
         /\ FirstLineIsRequest(p) => Method(s) = Method(p) /\ RequestPath(s) = RequestPath(p)
<1>1. p \in Seq(STRING) /\ s \in Seq(STRING) /\ Len(p) \in Nat /\ Len(s) \in Nat /\ Len(p) <= Len(s)
  BY DEF Begins
<1>2. LineEnd(p) \in 1 .. Len(p) /\ LineEnd(s) = LineEnd(p)
  BY <1>1, LineEndIsInHead
<1>8. 1 \in Nat \ {0}
  OBVIOUS
<1>9. PICK L : /\ MethodEnd(p) = NextOf(p, 1, L) /\ MethodEnd(s) = NextOf(s, 1, L)
               /\ PathEnd(p) = NextOf(p, MethodEnd(p) + 1, L)
               /\ PathEnd(s) = NextOf(s, MethodEnd(s) + 1, L)
  BY Zenon DEF MethodEnd, PathEnd
<1>3. MethodEnd(p) \in Nat /\ MethodEnd(s) \in Nat
  BY <1>1, <1>8, <1>9, NextOfIsFirst
<1>4. /\ PathEnd(p) \in Nat /\ PathEnd(s) \in Nat
      /\ (PathEnd(p) = Len(p) + 1) \/ (PathEnd(p) > MethodEnd(p))
      /\ (PathEnd(s) = Len(s) + 1) \/ (PathEnd(s) > MethodEnd(s))
  <2>1. MethodEnd(p) + 1 \in Nat \ {0} /\ MethodEnd(s) + 1 \in Nat \ {0}
    BY <1>3
  <2>2. /\ PathEnd(p) \in Nat
        /\ (PathEnd(p) = Len(p) + 1) \/ (PathEnd(p) \in MethodEnd(p) + 1 .. Len(p))
    BY <1>1, <1>9, <2>1, NextOfIsFirst
  <2>3. /\ PathEnd(s) \in Nat
        /\ (PathEnd(s) = Len(s) + 1) \/ (PathEnd(s) \in MethodEnd(s) + 1 .. Len(s))
    BY <1>1, <1>9, <2>1, NextOfIsFirst
  <2> QED BY <1>3, <2>2, <2>3
<1>5. \/ MethodEnd(p) \in 1 .. Len(p) /\ MethodEnd(s) = MethodEnd(p)
      \/ MethodEnd(p) > Len(p) /\ MethodEnd(s) > Len(p)
  BY <1>8, <1>9, NextOfAgrees
<1>6. CASE MethodEnd(p) \in 1 .. Len(p) /\ MethodEnd(s) = MethodEnd(p)
  <2>1. \/ PathEnd(p) \in 1 .. Len(p) /\ PathEnd(s) = PathEnd(p)
        \/ PathEnd(p) > Len(p) /\ PathEnd(s) > Len(p)
    <3>1. MethodEnd(p) + 1 \in Nat \ {0}
      BY <1>3
    <3> QED BY <1>6, <1>9, <3>1, NextOfAgrees
  <2>2. CASE PathEnd(p) \in 1 .. Len(p) /\ PathEnd(s) = PathEnd(p)
    <3>1. Method(s) = Method(p)
      <4>1. MethodEnd(p) - 1 \in Nat /\ MethodEnd(p) - 1 <= Len(p)
        BY <1>1, <1>6
      <4>2. SubSeq(p, 1, MethodEnd(p) - 1) = SubSeq(s, 1, MethodEnd(p) - 1)
        BY <1>8, <4>1, SubSeqAgrees
      <4> QED BY <1>6, <4>2 DEF Method
    <3>2. RequestPath(s) = RequestPath(p)
      <4>1. PathEnd(p) - 1 \in Nat /\ PathEnd(p) - 1 <= Len(p) /\ MethodEnd(p) + 1 \in Nat \ {0}
        BY <1>1, <1>3, <2>2
      <4>2. SubSeq(p, MethodEnd(p) + 1, PathEnd(p) - 1) = SubSeq(s, MethodEnd(p) + 1, PathEnd(p) - 1)
        BY <4>1, SubSeqAgrees
      <4> QED BY <1>6, <2>2, <4>2 DEF RequestPath
    <3> QED BY <1>2, <2>2, <3>1, <3>2 DEF FirstLineIsRequest
  <2>3. CASE PathEnd(p) > Len(p) /\ PathEnd(s) > Len(p)
    <3>1. ~(PathEnd(p) < LineEnd(p)) /\ ~(PathEnd(s) < LineEnd(s))
      BY <1>1, <1>2, <1>4, <2>3
    <3> QED BY <3>1 DEF FirstLineIsRequest
  <2> QED BY <2>1, <2>2, <2>3
<1>7. CASE MethodEnd(p) > Len(p) /\ MethodEnd(s) > Len(p)
  <2>1. ~(PathEnd(p) < LineEnd(p)) /\ ~(PathEnd(s) < LineEnd(s))
    BY <1>1, <1>2, <1>3, <1>4, <1>7
  <2> QED BY <2>1 DEF FirstLineIsRequest
<1> QED BY <1>5, <1>6, <1>7

(* A length is a word of the head, so it and its value end before the head *)
(* does.                                                                   *)
LEMMA LengthValueAgrees ==
  ASSUME NEW p, NEW s, Begins(p, s), HeaderEnd(p) # 0,
         NEW i \in Nat \ {0}, NEW L \in SUBSET LengthNames, NextOf(p, i, L) <= HeaderEnd(p)
  PROVE  ContentLengthValue(s, NextOf(p, i, L) + 1) = ContentLengthValue(p, NextOf(p, i, L) + 1)
<1> DEFINE h == HeaderEnd(p)
           a == NextOf(p, i, L)
<1>1. p \in Seq(STRING) /\ Len(p) \in Nat
  BY DEF Begins
<1>2. h \in 4 .. Len(p) /\ BlankLineAt(p, h)
  BY LineEndIsInHead
<1>3. a \in i .. Len(p) /\ p[a] \in L /\ a <= h
  BY <1>1, <1>2, NextOfIsFirst
<1>4. p[a] \notin {"CR", "LF"}
  BY <1>3 DEF LengthNames, ExactLength
<1> HIDE DEF h, a
<1>5. a + 1 \in 1 .. h - 3 /\ h - 3 \in 1 .. Len(p) /\ p[h - 3] = "CR"
  <2>1. p[h] = "LF" /\ p[h - 1] = "CR" /\ p[h - 2] = "LF" /\ p[h - 3] = "CR"
    BY <1>2 DEF BlankLineAt
  <2>2. a # h /\ a # h - 1 /\ a # h - 2 /\ a # h - 3
    BY <1>4, <2>1
  <2> QED BY <1>1, <1>2, <1>3, <2>1, <2>2
<1> DEFINE v == ValueStart(p, a + 1)
           C == Blanks \cup {"CR"}
           e == NextOf(p, v, C)
<1>6. v \in 1 .. h - 3 /\ ValueStart(s, a + 1) = v
  BY <1>5, ValueStartAgrees
<1>7. e \in 1 .. h - 3 /\ NextOf(s, v, C) = e
  <2> HIDE DEF v
  <2>1. v \in Nat \ {0} /\ h - 3 \in v .. Len(p) /\ p[h - 3] \in C
    BY <1>5, <1>6
  <2> HIDE DEF C
  <2>4. e \in Nat /\ \A j \in v .. Len(p) : p[j] \in C => e <= j
    BY <1>1, <2>1, NextOfIsFirst
  <2> HIDE DEF e
  <2>2. e \in Nat /\ e <= h - 3
    BY <2>1, <2>4
  <2> USE DEF e
  <2>3. \/ e \in 1 .. Len(p) /\ NextOf(s, v, C) = e
        \/ e > Len(p) /\ NextOf(s, v, C) > Len(p)
    BY <2>1, NextOfAgrees
  <2> QED BY <1>1, <1>5, <2>2, <2>3
<1>8. SubSeq(p, v, e - 1) = SubSeq(s, v, e - 1)
  <2> HIDE DEF v, e
  <2>1. v \in Nat \ {0} /\ e - 1 \in Nat /\ e - 1 <= Len(p)
    <3> DEFINE m == h - 3
    <3>1. v \in 1 .. m /\ e \in 1 .. m /\ m \in 1 .. Len(p) /\ Len(p) \in Nat
      BY <1>1, <1>5, <1>6, <1>7, Zenon
    <3>2. m \in Nat /\ m <= Len(p)
      BY <3>1
    <3> HIDE DEF m
    <3>3. v \in Nat \ {0} /\ e \in Nat \ {0} /\ e <= m
      BY <3>1, <3>2
    <3> QED BY <3>1, <3>2, <3>3
  <2> QED BY <2>1, SubSeqAgrees
<1>9. ContentLengthValue(p, a + 1) = Number(SubSeq(p, v, e - 1))
  BY DEF ContentLengthValue
<1>10. ContentLengthValue(s, a + 1) = Number(SubSeq(s, v, e - 1))
  <2>1. ContentLengthValue(s, a + 1)
          = Number(SubSeq(s, ValueStart(s, a + 1), NextOf(s, ValueStart(s, a + 1), C) - 1))
    BY DEF ContentLengthValue
  <2> QED BY <1>6, <1>7, <2>1
<1> QED BY <1>8, <1>9, <1>10 DEF a

LEMMA ContentLengthAgrees ==
  ASSUME NEW p, NEW s, Begins(p, s), HeaderEnd(p) # 0
  PROVE  ContentLength(s) = ContentLength(p)
<1> DEFINE h == HeaderEnd(p)
           from == LineEnd(p) + 2
<1>1. /\ h \in 4 .. Len(p) /\ h \in Nat /\ Len(p) \in Nat
      /\ from \in Nat \ {0}
      /\ HeaderEnd(s) = h /\ LineEnd(s) = LineEnd(p)
  <2>1. Len(p) \in Nat
    BY DEF Begins
  <2> QED BY <2>1, LineEndIsInHead, HeaderEndAgrees
<1> HIDE DEF h, from
<1>2. \A L \in SUBSET LengthNames :
        /\ NextOf(p, from, L) <= h <=> NextOf(s, from, L) <= h
        /\ NextOf(p, from, L) > h <=> NextOf(s, from, L) > h
        /\ NextOf(p, from, L) <= h =>
             ContentLengthValue(s, NextOf(s, from, L) + 1) = ContentLengthValue(p, NextOf(p, from, L) + 1)
  <2> SUFFICES ASSUME NEW L \in SUBSET LengthNames
               PROVE  /\ NextOf(p, from, L) <= h <=> NextOf(s, from, L) <= h
                      /\ NextOf(p, from, L) > h <=> NextOf(s, from, L) > h
                      /\ NextOf(p, from, L) <= h =>
                           ContentLengthValue(s, NextOf(s, from, L) + 1)
                             = ContentLengthValue(p, NextOf(p, from, L) + 1)
    OBVIOUS
  <2>1. \/ NextOf(p, from, L) \in 1 .. Len(p) /\ NextOf(s, from, L) = NextOf(p, from, L)
        \/ NextOf(p, from, L) > Len(p) /\ NextOf(s, from, L) > Len(p)
    BY <1>1, NextOfAgrees
  <2>2. NextOf(p, from, L) \in Nat /\ NextOf(s, from, L) \in Nat
    BY <1>1, NextOfIsFirst DEF Begins
  <2>3. NextOf(p, from, L) <= h => NextOf(s, from, L) = NextOf(p, from, L)
    BY <1>1, <2>1, <2>2
  <2>4. NextOf(p, from, L) > h => NextOf(s, from, L) > h
    BY <1>1, <2>1, <2>2
  <2>5. NextOf(p, from, L) <= h =>
          ContentLengthValue(s, NextOf(p, from, L) + 1) = ContentLengthValue(p, NextOf(p, from, L) + 1)
    BY <1>1, LengthValueAgrees DEF h
  <2> QED BY <1>1, <2>2, <2>3, <2>4, <2>5
<1>3. {ExactLength} \in SUBSET LengthNames /\ LengthNames \in SUBSET LengthNames
  BY DEF LengthNames
<1>5. /\ NextOf(p, from, {ExactLength}) \in Nat /\ NextOf(s, from, {ExactLength}) \in Nat
      /\ h \in Nat
  BY <1>1, NextOfIsFirst DEF Begins
<1>4. FindContentLength(s, from, h) = FindContentLength(p, from, h)
  <2>1. CASE NextOf(p, from, {ExactLength}) <= h
    <3>1. NextOf(s, from, {ExactLength}) <= h
      BY <1>2, <1>3, <2>1
    <3>2. FindContentLength(p, from, h) = ContentLengthValue(p, NextOf(p, from, {ExactLength}) + 1)
      BY <1>5, <2>1 DEF FindContentLength
    <3>3. FindContentLength(s, from, h) = ContentLengthValue(s, NextOf(s, from, {ExactLength}) + 1)
      BY <1>5, <3>1 DEF FindContentLength
    <3> QED BY <1>2, <1>3, <2>1, <3>2, <3>3
  <2>2. CASE ~(NextOf(p, from, {ExactLength}) <= h)
    <3>1. ~(NextOf(s, from, {ExactLength}) <= h)
      BY <1>2, <1>3, <2>2
    <3>2. NextOf(p, from, {ExactLength}) > h /\ NextOf(s, from, {ExactLength}) > h
      BY <1>5, <2>2, <3>1
    <3>3. CASE NextOf(p, from, LengthNames) <= h
      <4>1. NextOf(s, from, LengthNames) <= h
        BY <1>2, <1>3, <3>3
      <4>2. FindContentLength(p, from, h) = ContentLengthValue(p, NextOf(p, from, LengthNames) + 1)
        BY <2>2, <3>2, <3>3 DEF FindContentLength
      <4>3. FindContentLength(s, from, h) = ContentLengthValue(s, NextOf(s, from, LengthNames) + 1)
        BY <3>1, <3>2, <4>1 DEF FindContentLength
      <4> QED BY <1>2, <1>3, <3>3, <4>2, <4>3
    <3>4. CASE ~(NextOf(p, from, LengthNames) <= h)
      <4>1. ~(NextOf(s, from, LengthNames) <= h)
        BY <1>2, <1>3, <3>4
      <4> QED BY <2>2, <3>1, <3>4, <4>1 DEF FindContentLength
    <3> QED BY <3>3, <3>4
  <2> QED BY <2>1, <2>2
<1> QED BY <1>1, <1>4 DEF ContentLength, h, from

LEMMA KeepAliveAgrees ==
  ASSUME NEW p, NEW s, Begins(p, s), HeaderEnd(p) # 0
  PROVE  KeepAlive(s) = KeepAlive(p)
<1>1. HeaderEnd(p) \in 4 .. Len(p) /\ Len(p) \in Nat /\ HeaderEnd(s) = HeaderEnd(p)
  <2>1. Len(p) \in Nat
    BY DEF Begins
  <2> QED BY <2>1, LineEndIsInHead, HeaderEndAgrees
<1>2. 1 \in Nat \ {0}
  OBVIOUS
<1>3. NextOf(p, 1, CloseHeaders) \in Nat /\ NextOf(s, 1, CloseHeaders) \in Nat
  BY <1>2, NextOfIsFirst DEF Begins
<1>4. \/ NextOf(p, 1, CloseHeaders) \in 1 .. Len(p) /\ NextOf(s, 1, CloseHeaders) = NextOf(p, 1, CloseHeaders)
      \/ NextOf(p, 1, CloseHeaders) > Len(p) /\ NextOf(s, 1, CloseHeaders) > Len(p)
  BY <1>2, NextOfAgrees
<1>5. NextOf(s, 1, CloseHeaders) > HeaderEnd(s) <=> NextOf(p, 1, CloseHeaders) > HeaderEnd(p)
  BY <1>1, <1>3, <1>4
<1> QED BY <1>5 DEF KeepAlive

LEMMA DigitsAreNumbers == \A x \in DOMAIN DigitValue : DigitValue[x] \in Nat
<1> DEFINE D == {"0", "1", "2", "3", "4", "5", "6", "7", "8", "9"}
           W == <<"0", "1", "2", "3", "4", "5", "6", "7", "8", "9">>
<1>1. \A x \in D : \E n \in 0 .. 9 : x = W[n + 1]
  <2>1. /\ W[0 + 1] = "0" /\ W[1 + 1] = "1" /\ W[2 + 1] = "2" /\ W[3 + 1] = "3" /\ W[4 + 1] = "4"
        /\ W[5 + 1] = "5" /\ W[6 + 1] = "6" /\ W[7 + 1] = "7" /\ W[8 + 1] = "8" /\ W[9 + 1] = "9"
    OBVIOUS
  <2> HIDE DEF W
  <2> QED BY <2>1
<1>2. \A x \in D : (CHOOSE n \in 0 .. 9 : x = W[n + 1]) \in Nat
  <2> HIDE DEF D, W
  <2> SUFFICES ASSUME NEW x \in D PROVE (CHOOSE n \in 0 .. 9 : x = W[n + 1]) \in Nat
    OBVIOUS
  <2>1. \E n \in 0 .. 9 : x = W[n + 1]
    BY <1>1
  <2>2. (CHOOSE n \in 0 .. 9 : x = W[n + 1]) \in 0 .. 9
    BY <2>1, Zenon
  <2>3. \A y \in 0 .. 9 : y \in Nat
    OBVIOUS
  <2> QED BY <2>2, <2>3, Zenon
<1>3. DigitValue = [x \in D |-> CHOOSE n \in 0 .. 9 : x = W[n + 1]]
  BY DEF DigitValue
<1> HIDE DEF D, W
<1> QED BY <1>2, <1>3

LEMMA NumberIsNat ==
  ASSUME NEW d, Len(d) \in Nat, DOMAIN d = 1 .. Len(d)
  PROVE  Number(d) \in Nat
<1> DEFINE Sum(f, n) ==
             f = [k \in 0 .. n |-> IF k = 0 THEN 0 ELSE 10 * f[k - 1] + DigitValue[d[k]]]
           AllDigits == \A n \in DOMAIN d : d[n] \in DOMAIN DigitValue
<1>1. Number(d) = IF AllDigits THEN (CHOOSE f : Sum(f, Len(d)))[Len(d)] ELSE 0
  BY Zenon DEF Number
<1>2. SUFFICES ASSUME AllDigits PROVE (CHOOSE f : Sum(f, Len(d)))[Len(d)] \in Nat
  BY <1>1
<1>3. \A k \in 1 .. Len(d) : DigitValue[d[k]] \in Nat
  BY <1>2, DigitsAreNumbers
<1>4. ASSUME NEW f, Sum(f, Len(d)) PROVE f[Len(d)] \in Nat
  <2> DEFINE T == {k \in 0 .. Len(d) : f[k] \notin Nat}
  <2>1. \A k \in 0 .. Len(d) : f[k] = IF k = 0 THEN 0 ELSE 10 * f[k - 1] + DigitValue[d[k]]
    BY <1>4
  <2>2. ASSUME T # {} PROVE FALSE
    <3>1. PICK m \in T : \A k \in T : m <= k
      <4>1. T \subseteq Nat
        OBVIOUS
      <4> QED BY <2>2, <4>1, LeastElement
    <3>2. m # 0
      BY <2>1, <3>1
    <3>3. m - 1 \in 0 .. Len(d) /\ m - 1 \notin T
      BY <3>1, <3>2
    <3>4. f[m - 1] \in Nat /\ DigitValue[d[m]] \in Nat
      BY <1>3, <3>1, <3>2, <3>3
    <3> QED BY <2>1, <3>1, <3>2, <3>4
  <2> QED BY <2>2
<1>5. \E f : Sum(f, Len(d))
  <2> DEFINE T == {n \in 0 .. Len(d) : ~\E f : Sum(f, n)}
  <2>1. ASSUME T # {} PROVE FALSE
    <3>1. PICK m \in T : \A k \in T : m <= k
      <4>1. T \subseteq Nat
        OBVIOUS
      <4> QED BY <2>1, <4>1, LeastElement
    <3>2. m # 0
      <4>1. Sum([k \in 0 .. 0 |-> 0], 0)
        OBVIOUS
      <4> QED BY <3>1, <4>1
    <3>3. m - 1 \in 0 .. Len(d) /\ m - 1 \notin T
      <4>1. T \subseteq 0 .. Len(d)
        OBVIOUS
      <4> HIDE DEF T
      <4> QED BY <3>1, <3>2, <4>1
    <3>4. PICK g : Sum(g, m - 1)
      <4> HIDE DEF Sum
      <4>1. \A n \in 0 .. Len(d) : n \notin T => \E g : Sum(g, n)
        BY Zenon
      <4> HIDE DEF T
      <4> QED BY <3>3, <4>1
    <3> DEFINE f == [k \in 0 .. m |-> IF k = m THEN 10 * g[m - 1] + DigitValue[d[m]] ELSE g[k]]
    <3>5. \A k \in 0 .. m : f[k] = IF k = 0 THEN 0 ELSE 10 * f[k - 1] + DigitValue[d[k]]
      <4>1. \A k \in 0 .. m - 1 : g[k] = IF k = 0 THEN 0 ELSE 10 * g[k - 1] + DigitValue[d[k]]
        BY <3>4
      <4>2. \A k \in 0 .. m - 1 : f[k] = g[k]
        BY <3>1, <3>2
      <4>3. f[m] = 10 * g[m - 1] + DigitValue[d[m]]
        BY <3>1, <3>2
      <4> HIDE DEF f
      <4> QED BY SMTT(30), <3>1, <3>2, <4>1, <4>2, <4>3
    <3>6. Sum(f, m)
      BY <3>5
    <3> QED BY <3>1, <3>6
  <2> QED BY <2>1
<1> QED BY <1>4, <1>5

LEMMA ContentLengthIsNat ==
  ASSUME NEW s \in Seq(STRING), HeaderEnd(s) # 0
  PROVE  ContentLength(s) \in Nat
<1> DEFINE h == HeaderEnd(s)
           from == LineEnd(s) + 2
<1>1. h \in Nat /\ Len(s) \in Nat /\ from \in Nat \ {0}
  <2>1. Begins(s, s)
    BY DEF Begins
  <2> QED BY <2>1, LineEndIsInHead, HeaderEndIsFirst
<1> HIDE DEF h, from
<1>2. ASSUME NEW i \in Nat \ {0} PROVE ContentLengthValue(s, i) \in Nat
  <2> DEFINE v == ValueStart(s, i)
             e == NextOf(s, v, Blanks \cup {"CR"})
  <2>1. v \in 1 .. Len(s) + 1
    BY <1>1, <1>2, ValueStartIsFirst
  <2>2. e \in Nat /\ e - 1 \in 0 .. Len(s)
    <3> HIDE DEF v
    <3>1. v \in Nat \ {0}
      BY <2>1
    <3>2. e \in Nat /\ e \in 1 .. Len(s) + 1
      BY <1>1, <3>1, NextOfIsFirst
    <3> HIDE DEF e
    <3> QED BY <1>1, <3>2
  <2> HIDE DEF v, e
  <2> DEFINE d == SubSeq(s, v, e - 1)
  <2>3. Len(d) \in Nat /\ DOMAIN d = 1 .. Len(d)
    <3>1. CASE v <= e - 1
      <4>1. d \in Seq(STRING)
        BY <1>1, <2>1, <2>2, <3>1
      <4> HIDE DEF d
      <4> QED BY <4>1
    <3>2. CASE v > e - 1
      <4>1. d = << >>
        BY <2>1, <2>2, <3>2, SubSeqEmpty
      <4> HIDE DEF d
      <4> QED BY <4>1
    <3> QED BY <2>1, <2>2, <3>1, <3>2
  <2>4. ContentLengthValue(s, i) = Number(d)
    BY DEF ContentLengthValue, v, e
  <2> HIDE DEF d
  <2> QED BY <2>3, <2>4, NumberIsNat
<1>3. \A L : NextOf(s, from, L) \in Nat /\ NextOf(s, from, L) + 1 \in Nat \ {0}
  BY <1>1, NextOfIsFirst
<1>4. FindContentLength(s, from, h) \in Nat
  <2> DEFINE exact == NextOf(s, from, {ExactLength})
             any == NextOf(s, from, LengthNames)
  <2>1. exact \in Nat /\ any \in Nat /\ exact + 1 \in Nat \ {0} /\ any + 1 \in Nat \ {0}
    BY <1>3
  <2>2. FindContentLength(s, from, h)
          = CASE exact <= h -> ContentLengthValue(s, exact + 1)
              [] exact > h /\ any <= h -> ContentLengthValue(s, any + 1)
              [] OTHER -> 0
    BY DEF FindContentLength
  <2> HIDE DEF exact, any
  <2>3. ContentLengthValue(s, exact + 1) \in Nat /\ ContentLengthValue(s, any + 1) \in Nat
    BY <1>2, <2>1
  <2> QED BY <1>1, <2>1, <2>2, <2>3
<1> QED BY <1>4 DEF ContentLength, h, from

(* Once the parser decides on a part of the stream, it decides the same on *)
(* all of it.                                                              *)
LEMMA DecidesOnPrefix ==
  ASSUME NEW p, NEW s, Begins(p, s), ParseRequest(p) # NeedMore
  PROVE  ParseRequest(s) = ParseRequest(p)
<1> DEFINE h == HeaderEnd(p)
           c == ContentLength(p)
           early == EarlyRejection(Method(p), RequestPath(p), c)
<1>1. h # 0
  BY DEF ParseRequest
<1>2. /\ HeaderEnd(s) = h /\ ContentLength(s) = c
      /\ FirstLineIsRequest(s) <=> FirstLineIsRequest(p)
      /\ FirstLineIsRequest(p) => Method(s) = Method(p) /\ RequestPath(s) = RequestPath(p)
      /\ KeepAlive(s) = KeepAlive(p)
  BY <1>1, HeaderEndAgrees, ContentLengthAgrees, FirstLineAgrees, KeepAliveAgrees
<1>3. Len(p) \in Nat /\ Len(s) \in Nat /\ Len(p) <= Len(s) /\ h \in Nat /\ c \in Nat
  <2>1. p \in Seq(STRING) /\ s \in Seq(STRING) /\ Len(p) <= Len(s)
    BY DEF Begins
  <2> QED BY <1>1, <2>1, HeaderEndIsFirst, ContentLengthIsNat
<1>4. CASE ~FirstLineIsRequest(p)
  BY <1>1, <1>2, <1>4 DEF ParseRequest
<1>5. CASE FirstLineIsRequest(p)
  <2>1. EarlyRejection(Method(s), RequestPath(s), ContentLength(s)) = early
    BY <1>2, <1>5
  <2>2. ParseRequest(p) = IF early # NeedMore \/ Len(p) < h + c THEN early ELSE Complete(p, h + c)
    BY <1>1, <1>5, Zenon DEF ParseRequest
  <2>3. ParseRequest(s) = IF early # NeedMore \/ Len(s) < h + c THEN early ELSE Complete(s, h + c)
    <3>1. ParseRequest(s) =
            IF EarlyRejection(Method(s), RequestPath(s), ContentLength(s)) # NeedMore
               \/ Len(s) < HeaderEnd(s) + ContentLength(s)
            THEN EarlyRejection(Method(s), RequestPath(s), ContentLength(s))
            ELSE Complete(s, HeaderEnd(s) + ContentLength(s))
      BY <1>1, <1>2, <1>5, Zenon DEF ParseRequest
    <3> QED BY <1>2, <2>1, <3>1, Zenon
  <2>4. Complete(s, h + c) = Complete(p, h + c)
    BY <1>2, <1>5 DEF Complete
  <2> HIDE DEF h, c, early
  <2>5. CASE early # NeedMore
    BY <2>2, <2>3, <2>5
  <2>6. CASE early = NeedMore
    <3>1. ~(Len(p) < h + c)
      BY <2>2, <2>6
    <3>2. ~(Len(s) < h + c)
      BY <1>3, <3>1
    <3> QED BY <2>2, <2>3, <2>4, <2>6, <3>1, <3>2
  <2> QED BY <2>5, <2>6
<1> QED BY <1>4, <1>5

-----------------------------------------------------------------------------
(* Of the stream only a part has arrived, no more than the buffer holds,   *)
(* and what has been decided was decided on that part.                     *)
Cut ==
  /\ sent \in Requests
  /\ arrived \in 0 .. Len(Stream) /\ arrived <= BUF_SIZE
  /\ decision = IF arrived >= BUF_SIZE THEN Reject("bad_request")
                ELSE ParseRequest(SubSeq(Stream, 1, arrived))

LEMMA StreamBegins ==
  ASSUME NEW s \in Seq(STRING), NEW n \in 0 .. Len(s)
  PROVE  Begins(SubSeq(s, 1, n), s)
<1>1. CASE n = 0
  <2>1. SubSeq(s, 1, n) = << >>
    BY <1>1, SubSeqEmpty
  <2> QED BY <2>1 DEF Begins
<1>2. CASE n # 0
  <2>1. /\ SubSeq(s, 1, n) \in Seq(STRING)
        /\ Len(SubSeq(s, 1, n)) = n
        /\ \A k \in 1 .. n : SubSeq(s, 1, n)[k] = s[k]
    BY <1>2
  <2> QED BY <2>1 DEF Begins
<1> QED BY <1>1, <1>2

LEMMA StreamType ==
  ASSUME NEW r \in Requests
  PROVE  /\ Encoded(r) \o r.next \in Seq(STRING) /\ Len(Encoded(r) \o r.next) \in Nat
         /\ Begins(HeadOf(r), Encoded(r) \o r.next)
<1> DEFINE h == HeadOf(r)
           b == [k \in 1 .. BodyLength(r) |-> "byte"]
           n == r.next
<1>1. h \in Seq(STRING) /\ n \in Seq(STRING) /\ BodyLength(r) \in Nat
  BY StreamAssumption
<1> DEFINE S == STRING \cup {"byte"}
<1>2. h \in Seq(S)
  <2>1. Len(h) \in Nat /\ h = [k \in 1 .. Len(h) |-> h[k]] /\ \A k \in 1 .. Len(h) : h[k] \in STRING
    BY <1>1
  <2> QED BY <2>1
<1>3. b \in Seq(S)
  BY <1>1
<1>4. Encoded(r) = h \o b /\ h \o b \in Seq(STRING)
  BY StreamAssumption DEF Encoded
<1> HIDE DEF h, b, n, S
<1>5. /\ h \o b \in Seq(STRING) /\ Len(h \o b) = Len(h) + Len(b)
      /\ \A k \in 1 .. Len(h) : (h \o b)[k] = h[k]
  BY <1>2, <1>3, <1>4, ConcatProperties
<1> DEFINE e == h \o b
<1> HIDE DEF e
<1>6. /\ e \o n \in Seq(STRING) /\ Len(e \o n) = Len(e) + Len(n)
      /\ \A k \in 1 .. Len(e) : (e \o n)[k] = e[k]
  BY <1>1, <1>5 DEF e
<1>7. Begins(h, e \o n) /\ Len(e \o n) \in Nat
  <2>1. Len(h) \in Nat /\ Len(b) \in Nat /\ Len(n) \in Nat
    BY <1>1, <1>3
  <2> QED BY <1>1, <1>5, <1>6, <2>1 DEF Begins, e
<1> QED BY <1>4, <1>6, <1>7 DEF h, n, e

LEMMA CutInit == FramingInit => Cut
<1> SUFFICES ASSUME FramingInit PROVE Cut
  OBVIOUS
<1>1. sent \in Requests /\ arrived = 0 /\ decision = NeedMore
  BY DEF FramingInit
<1>2. Len(Stream) \in Nat
  BY <1>1, StreamType DEF Stream
<1>3. SubSeq(Stream, 1, arrived) = << >>
  BY <1>1, SubSeqEmpty
<1>4. HeaderEnd(<< >>) = 0
  <2>1. << >> \in Seq(STRING) /\ Len(<< >>) = 0
    OBVIOUS
  <2>2. HeaderEnd(<< >>) \in 4 .. Len(<< >>) => FALSE
    BY <2>1
  <2> QED BY <2>1, <2>2, HeaderEndIsFirst
<1>5. ParseRequest(<< >>) = NeedMore
  BY <1>4 DEF ParseRequest
<1>6. decision = ParseRequest(SubSeq(Stream, 1, arrived))
  BY <1>1, <1>3, <1>5
<1>7. arrived \in 0 .. Len(Stream) /\ arrived < BUF_SIZE /\ arrived <= BUF_SIZE
  BY <1>1, <1>2, FramingAssumption
<1>8. ~(arrived >= BUF_SIZE)
  BY <1>1, <1>7, FramingAssumption
<1> QED BY <1>1, <1>6, <1>7, <1>8 DEF Cut

LEMMA CutStep == Cut /\ [FrontNext]_frontVars => Cut'
<1> SUFFICES ASSUME Cut, [FrontNext]_frontVars PROVE Cut'
  OBVIOUS
<1>1. CASE OnReadable
  <2>1. Arrive
    BY <1>1 DEF OnReadable
  <2>2. sent' = sent /\ Stream' = Stream
    BY <2>1 DEF Arrive, Stream
  <2>3. /\ arrived \in 0 .. Len(Stream) /\ Len(Stream) \in Nat /\ arrived < Room
        /\ BUF_SIZE \in Nat /\ Room <= Len(Stream) /\ Room <= BUF_SIZE /\ Room \in Nat
    <3>1. arrived \in 0 .. Len(Stream) /\ Len(Stream) \in Nat /\ arrived < Room
      BY <2>1, StreamType DEF Cut, Arrive, Stream
    <3> QED BY <3>1, FramingAssumption DEF Room
  <2>4. arrived' \in 0 .. Len(Stream) /\ arrived' <= BUF_SIZE
    <3>1. arrived' = arrived + 1 \/ arrived' = Room
      BY <2>1 DEF Arrive
    <3> QED BY <2>3, <3>1
  <2>5. decision' = IF arrived' >= BUF_SIZE THEN Reject("bad_request")
                    ELSE ParseRequest(SubSeq(Stream, 1, arrived'))
    BY <2>1 DEF Arrive
  <2> QED BY <2>2, <2>4, <2>5 DEF Cut
<1>2. CASE ParseQuery \/ UNCHANGED frontVars
  <2>1. UNCHANGED framingVars
    BY <1>2 DEF ParseQuery, frontVars
  <2> QED BY <2>1 DEF framingVars, Cut, Stream
<1> QED BY <1>1, <1>2 DEF FrontNext

LEMMA CutImplies == Cut => ChunksDoNotMatter
<1> SUFFICES ASSUME Cut, decision # NeedMore, arrived < BUF_SIZE
             PROVE  decision = ParseRequest(Stream)
  BY DEF ChunksDoNotMatter
<1>1. Stream \in Seq(STRING) /\ arrived \in 0 .. Len(Stream)
  BY StreamType DEF Cut, Stream
<1>2. Begins(SubSeq(Stream, 1, arrived), Stream)
  BY <1>1, StreamBegins
<1>3. decision = ParseRequest(SubSeq(Stream, 1, arrived))
  <2>1. ~(arrived >= BUF_SIZE)
    BY <1>1, FramingAssumption
  <2> QED BY <2>1 DEF Cut
<1> QED BY <1>2, <1>3, DecidesOnPrefix

(* The reads of a connection always hold a beginning of what its client    *)
(* sends, never more than the buffer has room for, and the decision is the *)
(* one of the last try on it, a refusal once the buffer is full            *)
(* (drive_reading of evented.rs).                                          *)
THEOREM OnlyABeginningIsRead == FrontSpec => []Cut
<1>1. FrontInit => Cut
  BY CutInit DEF FrontInit
<1> QED BY <1>1, CutStep, PTL DEF FrontSpec

(* What parse_request_result decides on the first part of a stream that it *)
(* decides on at all is what it decides on the whole stream, wherever the  *)
(* reads have cut it and whatever follows the request in it, as long as    *)
(* the buffer is not full: the scans of parser.rs stop at the end of the   *)
(* head.                                                                   *)
THEOREM CutsDoNotMatter == FrontSpec => []ChunksDoNotMatter
  BY OnlyABeginningIsRead, CutImplies, PTL

-----------------------------------------------------------------------------
(* The body that parse_query is given.                                     *)

(* A body that is cut short is a body: what a section is depends on what   *)
(* is before it only.                                                      *)
LEMMA CutBody ==
  ASSUME NEW b, IsBody(b), NEW m \in 0 .. Len(b.tokens), NEW t
  PROVE  IsBody([tokens |-> SubSeq(b.tokens, 1, m), tail |-> t])
<1> DEFINE ts == b.tokens
           ps == SubSeq(b.tokens, 1, m)
           S == {ts[i] : i \in DOMAIN ts}
           P == {ps[i] : i \in DOMAIN ps}
           IsToken(u, i) ==
             /\ u[i].kind \in {"open", "field", "close"}
             /\ u[i].kind = "open" =>
                  SectionIn(u, i) = "top" /\ u[i].key \notin {"top", "skipped", "end"}
             /\ u[i].kind = "close" /\ SectionIn(u, i) = "top" => i = Len(u)
             /\ u[i].kind = "field" => IsValue(u[i].key, u[i].value)
             /\ u[i].loose => i > 1 /\ u[i - 1].kind # "open"
<1>1. ts \in Seq(S) /\ \A i \in DOMAIN ts : IsToken(ts, i)
  BY DEF IsBody
<1> HIDE DEF S
<1>2. Len(ts) \in Nat /\ DOMAIN ts = 1 .. Len(ts) /\ m \in Nat /\ m <= Len(ts)
  BY <1>1
<1>3. /\ Len(ps) = m /\ DOMAIN ps = 1 .. m
      /\ \A i \in 1 .. m : ps[i] = ts[i]
      /\ ps \in Seq(P)
  <2>1. ps = [i \in 1 .. m |-> ts[i]]
    <3>1. ps \in Seq(S) /\ Len(ps) = m /\ \A i \in 1 .. m : ps[i] = ts[i]
      <4>1. CASE m = 0
        BY <4>1, SubSeqEmpty
      <4>2. CASE m # 0
        BY <1>1, <1>2, <4>2
      <4> QED BY <4>1, <4>2
    <3> HIDE DEF ps, ts
    <3> QED BY <3>1
  <2> HIDE DEF ts
  <2>2. Len(ps) = m /\ DOMAIN ps = 1 .. m /\ \A i \in 1 .. m : ps[i] = ts[i]
    BY <1>2, <2>1
  <2>3. \A i \in 1 .. m : ts[i] \in P
    BY <2>2
  <2> HIDE DEF P
  <2>4. ps \in Seq(P)
    <3> HIDE DEF ps
    <3> QED BY <1>2, <2>1, <2>3
  <2> QED BY <2>2, <2>4
<1>4. \A i \in 1 .. m : SectionIn(ps, i) = SectionIn(ts, i)
  <2> SUFFICES ASSUME NEW i \in 1 .. m PROVE SectionIn(ps, i) = SectionIn(ts, i)
    OBVIOUS
  <2> DEFINE B(u) == {j \in 1 .. i - 1 : u[j].kind \in {"open", "close"}}
             L(u) == CHOOSE j \in B(u) : \A k \in B(u) : k <= j
  <2> HIDE DEF ps, ts
  <2>1. \A j \in 1 .. i - 1 : ps[j] = ts[j]
    BY <1>2, <1>3
  <2>2. B(ps) = B(ts)
    BY <2>1
  <2>3. L(ps) = L(ts)
    <3> HIDE DEF B
    <3> QED BY <2>2
  <2>4. B(ts) # {} => ps[L(ts)] = ts[L(ts)]
    <3> SUFFICES ASSUME B(ts) # {} PROVE ps[L(ts)] = ts[L(ts)]
      OBVIOUS
    <3>1. B(ts) \subseteq Int /\ \E j \in B(ts) : \A k \in B(ts) : k <= j
      <4>1. B(ts) \subseteq Nat /\ \A j \in B(ts) : j <= m
        BY <1>2
      <4>2. {m - j : j \in B(ts)} \subseteq Nat /\ {m - j : j \in B(ts)} # {}
        <5> HIDE DEF B
        <5> QED BY <1>2, <4>1
      <4>3. PICK d \in {m - j : j \in B(ts)} : \A e \in {m - j : j \in B(ts)} : d <= e
        BY <4>2, LeastElement
      <4>4. PICK j \in B(ts) : d = m - j
        BY <4>3
      <4>5. \A k \in B(ts) : m - j <= m - k
        BY <4>3, <4>4
      <4> HIDE DEF B
      <4>6. \A k \in B(ts) : k <= j
        BY <1>2, <4>1, <4>5
      <4> QED BY <4>1, <4>6
    <3>2. L(ts) \in B(ts)
      <4> HIDE DEF B
      <4> QED BY <3>1, Zenon
    <3> QED BY <2>1, <3>2
  <2>5. SectionIn(ps, i) = IF B(ps) # {} /\ ps[L(ps)].kind = "open" THEN ps[L(ps)].key ELSE "top"
    BY Zenon DEF SectionIn
  <2>6. SectionIn(ts, i) = IF B(ts) # {} /\ ts[L(ts)].kind = "open" THEN ts[L(ts)].key ELSE "top"
    BY Zenon DEF SectionIn
  <2> HIDE DEF B, L
  <2> QED BY <2>2, <2>3, <2>4, <2>5, <2>6
<1> HIDE DEF ps, ts
<1>5. \A i \in 1 .. m : IsToken(ps, i)
  <2> SUFFICES ASSUME NEW i \in 1 .. m PROVE IsToken(ps, i)
    OBVIOUS
  <2>1. i \in DOMAIN ts /\ ps[i] = ts[i] /\ SectionIn(ps, i) = SectionIn(ts, i)
    BY <1>2, <1>3, <1>4
  <2>2. i = Len(ts) => i = Len(ps)
    <3>1. Len(ps) = m
      BY <1>3
    <3>2. PICK n \in Nat : n = Len(ts)
      BY <1>2
    <3>3. m <= n /\ i <= m /\ m \in Nat /\ i \in Nat
      BY <1>2, <3>2
    <3>4. i = n => i = m
      BY <3>3
    <3> QED BY <3>1, <3>2, <3>4
  <2>3. ts[i].loose => i > 1 /\ ps[i - 1].kind # "open"
    <3>1. ASSUME ts[i].loose PROVE i > 1 /\ ps[i - 1].kind # "open"
      <4>1. i > 1 /\ ts[i - 1].kind # "open"
        BY <1>1, <2>1, <3>1
      <4>2. i - 1 \in 1 .. m
        BY <1>2, <4>1
      <4> QED BY <1>3, <4>1, <4>2
    <3> QED BY <3>1
  <2>4. /\ ts[i].kind \in {"open", "field", "close"}
        /\ ts[i].kind = "open" =>
             SectionIn(ts, i) = "top" /\ ts[i].key \notin {"top", "skipped", "end"}
        /\ ts[i].kind = "close" /\ SectionIn(ts, i) = "top" => i = Len(ts)
        /\ ts[i].kind = "field" => IsValue(ts[i].key, ts[i].value)
    BY <1>1, <2>1
  <2> QED BY <2>1, <2>2, <2>3, <2>4
<1> HIDE DEF P
<1> DEFINE c == [tokens |-> ps, tail |-> t]
<1>6. c.tokens = ps
  OBVIOUS
<1> HIDE DEF c
<1>7. IsBody(c)
  <2>1. /\ ps \in Seq({ps[i] : i \in DOMAIN ps})
        /\ \A i \in DOMAIN ps : IsToken(ps, i)
    BY <1>3, <1>5 DEF P
  <2> QED BY <1>6, <2>1, Zenon DEF IsBody
<1> QED BY <1>7 DEF c, ps

(* The head that parse_request_result finds is the one that was sent, and  *)
(* what the handler is given begins where the body that was sent begins.   *)
LEMMA FramedBody ==
  ASSUME NEW p, sent \in Requests, Begins(p, Stream), NEW d, d = ParseRequest(p), IsQuery(d)
  PROVE  IsBody(Framed(d.from, d.to))
<1>1. d.kind = "complete"
  BY DEF IsQuery
<1>2. HeaderEnd(p) # 0
  BY <1>1 DEF ParseRequest, NeedMore
<1>3. p \in Seq(STRING)
  BY DEF Begins
<1>4. HeaderEnd(p) \in Nat /\ ContentLength(p) \in Nat
  BY <1>2, <1>3, HeaderEndIsFirst, ContentLengthIsNat
<1>5. d.from = HeaderEnd(p) /\ d.to = HeaderEnd(p) + ContentLength(p)
  <2>1. d = EarlyRejection(Method(p), RequestPath(p), ContentLength(p)) =>
          d.kind # "complete"
    BY DEF EarlyRejection, NeedMore, Reject
  <2>2. d = Reject("bad_request") => d.kind # "complete"
    BY DEF Reject
  <2>3. d = Complete(p, HeaderEnd(p) + ContentLength(p))
    BY <1>1, <1>2, <2>1, <2>2, Zenon DEF ParseRequest
  <2> QED BY <2>3 DEF Complete
<1> DEFINE h == HeadOf(sent)
<1>6. h \in Seq(STRING) /\ h # << >> /\ HeaderEnd(h) = Len(h) /\ Begins(h, Stream)
  BY StreamAssumption, StreamType DEF Stream
<1> HIDE DEF h
<1>7. Len(h) # 0 /\ Len(h) \in Nat
  BY <1>6
<1>8. HeaderEnd(p) = Len(h)
  BY <1>2, <1>6, <1>7, HeaderEndAgrees
<1> DEFINE ts == sent.body.tokens
           c == ContentLength(p)
           m == Min({c, Len(ts)})
<1>9. IsBody(sent.body) /\ Len(ts) \in Nat
  <2>1. IsBody(sent.body)
    BY BodiesAssumption
  <2>2. ts \in Seq({ts[i] : i \in DOMAIN ts})
    BY <2>1 DEF IsBody
  <2> HIDE DEF ts
  <2> QED BY <2>1, <2>2
<1>10. m \in 0 .. Len(ts)
  <2> HIDE DEF ts, c
  <2>1. c \in Nat
    BY <1>4 DEF c
  <2>2. {c, Len(ts)} \subseteq Nat /\ {c, Len(ts)} # {}
    BY <1>9, <2>1
  <2>3. m \in {c, Len(ts)} /\ \A n \in {c, Len(ts)} : m <= n
    BY <2>2, MinIsLeast
  <2> HIDE DEF m
  <2> QED BY <1>9, <2>1, <2>3
<1>11. d.from - Len(HeadOf(sent)) + 1 = 1 /\ d.to - Len(HeadOf(sent)) = c
  BY <1>4, <1>5, <1>7, <1>8 DEF h
<1>12. Framed(d.from, d.to) = [tokens |-> SubSeq(ts, 1, m), tail |-> c > Len(ts)]
  <2> HIDE DEF c
  <2> QED BY <1>11, Zenon DEF Framed
<1> HIDE DEF c, m
<1>13. IsBody([tokens |-> SubSeq(sent.body.tokens, 1, m), tail |-> c > Len(ts)])
  BY <1>9, <1>10, CutBody
<1> QED BY <1>12, <1>13

-----------------------------------------------------------------------------
(* The parser of a body has not begun before the request is complete, and  *)
(* keeps its invariant from then on.                                       *)
Unread ==
  /\ strategy = "compact" /\ result = "running"
  /\ pos = 1 /\ section = "top" /\ vals = << >>
  /\ out = [f \in Features |-> 0]

FrontInv ==
  /\ Cut
  /\ IF IsQuery(decision) THEN ReadingInv ELSE Unread

LEMMA FrontInvInit == FrontInit => FrontInv
<1> SUFFICES ASSUME FrontInit PROVE FrontInv
  OBVIOUS
<1>1. Cut /\ decision = NeedMore
  BY CutInit DEF FrontInit, FramingInit
<1>2. ~IsQuery(decision)
  BY <1>1 DEF IsQuery, NeedMore
<1>3. Unread
  BY DEF FrontInit, Start, Unread
<1> QED BY <1>1, <1>2, <1>3 DEF FrontInv

LEMMA FrontInvStep == FrontInv /\ [FrontNext]_frontVars => FrontInv'
<1> SUFFICES ASSUME FrontInv, [FrontNext]_frontVars PROVE FrontInv'
  OBVIOUS
<1>1. Cut /\ Cut'
  BY CutStep DEF FrontInv
<1>2. CASE OnReadable
  <2>1. decision = NeedMore /\ sent' = sent
    BY <1>2 DEF OnReadable, Arrive
  <2>2. Unread
    BY <2>1 DEF FrontInv, IsQuery, NeedMore
  <2>3. Unread'
    BY <1>2, <2>2 DEF OnReadable, Unread
  <2>4. CASE IsQuery(decision')
    <3>1. body' = Framed(decision'.from, decision'.to)
      BY <1>2, <2>4 DEF OnReadable
    <3>2. Stream' = Stream
      BY <2>1 DEF Stream
    <3>3. sent \in Requests /\ arrived' \in 0 .. Len(Stream)
      BY <1>1, <2>1, <3>2 DEF Cut
    <3>4. decision' = ParseRequest(SubSeq(Stream, 1, arrived'))
      <4>1. decision'.kind # "reject"
        BY <2>4 DEF IsQuery
      <4>2. decision' # Reject("bad_request")
        BY <4>1 DEF Reject
      <4> QED BY <1>1, <3>2, <4>2 DEF Cut
    <3>5. Begins(SubSeq(Stream, 1, arrived'), Stream)
      BY <3>3, StreamType, StreamBegins DEF Stream
    <3>6. IsBody(Framed(decision'.from, decision'.to))
      BY <2>4, <3>3, <3>4, <3>5, FramedBody
    <3>7. Fresh'
      BY <2>3, <3>1, <3>6 DEF Fresh, Unread
    <3>8. ReadingInv'
      BY <3>7, AtStartOfReading, PTL
    <3> QED BY <1>1, <2>4, <3>8 DEF FrontInv
  <2>5. CASE ~IsQuery(decision')
    BY <1>1, <2>3, <2>5 DEF FrontInv
  <2> QED BY <2>4, <2>5
<1>3. CASE ParseQuery
  <2>1. decision' = decision /\ IsQuery(decision) /\ [Next]_vars
    BY <1>3 DEF ParseQuery, framingVars
  <2>2. ReadingInv'
    BY <2>1, ReadingStep DEF FrontInv
  <2> QED BY <1>1, <2>1, <2>2 DEF FrontInv
<1>4. CASE UNCHANGED frontVars
  <2>1. decision' = decision /\ UNCHANGED vars
    BY <1>4 DEF frontVars, framingVars
  <2>2. CASE IsQuery(decision)
    <3>1. ReadingInv'
      BY <2>1, <2>2, ReadingStep DEF FrontInv
    <3> QED BY <1>1, <2>1, <2>2, <3>1 DEF FrontInv
  <2>3. CASE ~IsQuery(decision)
    <3>1. Unread'
      BY <2>1, <2>3 DEF FrontInv, Unread, vars
    <3> QED BY <1>1, <2>1, <2>3, <3>1 DEF FrontInv
  <2> QED BY <2>2, <2>3
<1> QED BY <1>2, <1>3, <1>4 DEF FrontNext

LEMMA FrontInvImplies ==
  FrontInv => VectorInRange /\ AcceptedIsComplete /\ WellFormedIsAccepted /\ AcceptedMeansBody
<1>1. Unread => VectorInRange /\ AcceptedIsComplete /\ WellFormedIsAccepted /\ AcceptedMeansBody
  BY DEF Unread, VectorInRange, AcceptedIsComplete, WellFormedIsAccepted, AcceptedMeansBody
<1>2. ReadingInv => VectorInRange /\ AcceptedIsComplete /\ WellFormedIsAccepted /\ AcceptedMeansBody
  BY ParserImplies, ReadingImplies DEF ReadingInv
<1> QED BY <1>1, <1>2 DEF FrontInv

LEMMA FrontAlways == FrontSpec => []FrontInv
  BY FrontInvInit, FrontInvStep, PTL DEF FrontSpec

(* Whatever body of the form modelled a client sends, cut short or with    *)
(* bytes after it, in any order and spelling of its members and with any   *)
(* numbers: a vector that a parser accepts is 14 numbers of -Scale ..      *)
(* Scale, the range the distances in 32 bits count on (quantize of         *)
(* src/src/vector/helpers.rs).                                             *)
THEOREM VectorsAreInRange == FrontSpec => []VectorInRange
  BY FrontAlways, FrontInvImplies, PTL

(* No parser takes such a body without a field the vector needs, nor, but  *)
(* for the keys of last_transaction the single-pass parser skips, with one *)
(* of its two fields.                                                      *)
THEOREM NothingIsMissing == FrontSpec => []AcceptedIsComplete
  BY FrontAlways, FrontInvImplies, PTL

(* A body of JSON in which every field the vector needs occurs once and is *)
(* of its type is never refused, whatever the order and the spelling of    *)
(* its keys, the white space and the escapes in it: where the two fast     *)
(* parsers give up, the last one takes it (parse_query of                  *)
(* src/src/vector/mod.rs).                                                 *)
THEOREM NoneIsTooStrict == FrontSpec => []WellFormedIsAccepted
  BY FrontAlways, FrontInvImplies, PTL

(* The vector of a body that is accepted is the one the body means,        *)
(* whichever of the three parsers takes it: nothing of an earlier attempt  *)
(* is left in it, each feature comes from its field, and the days of       *)
(* days_from_civil (src/src/vector/helpers.rs) are those of the calendar,  *)
(* for every date from 1970 on.                                            *)
THEOREM VectorsMeanTheirBodies == FrontSpec => []AcceptedMeansBody
  BY FrontAlways, FrontInvImplies, PTL

-----------------------------------------------------------------------------
(* Where the headers of a request stand in its head.                       *)

(* w is the part of s after the first o elements.                          *)
LiesAt(s, o, w) ==
  /\ o \in Nat /\ o + Len(w) <= Len(s)
  /\ \A i \in 1 .. Len(w) : s[o + i] = w[i]

LEMMA LiesInBoth ==
  ASSUME NEW W, NEW s \in Seq(W), NEW t \in Seq(W), NEW w \in Seq(W), NEW o \in Nat
  PROVE  /\ LiesAt(s, o, w) => LiesAt(s \o t, o, w)
         /\ LiesAt(t, o, w) => LiesAt(s \o t, Len(s) + o, w)
<1>1. /\ Len(s \o t) = Len(s) + Len(t)
      /\ \A i \in 1 .. Len(s) + Len(t) :
           (s \o t)[i] = IF i <= Len(s) THEN s[i] ELSE t[i - Len(s)]
  BY ConcatProperties
<1>2. Len(s) \in Nat /\ Len(t) \in Nat /\ Len(w) \in Nat
  OBVIOUS
<1> DEFINE u == s \o t
<1> HIDE DEF u
<1>3. ASSUME LiesAt(s, o, w) PROVE LiesAt(u, o, w)
  <2>1. \A i \in 1 .. Len(w) : o + i \in 1 .. Len(s) + Len(t) /\ o + i <= Len(s)
    BY <1>2, <1>3 DEF LiesAt
  <2>2. \A i \in 1 .. Len(w) : u[o + i] = s[o + i]
    BY <1>1, <2>1 DEF u
  <2> QED BY <1>1, <1>2, <1>3, <2>2 DEF LiesAt, u
<1>4. ASSUME LiesAt(t, o, w) PROVE LiesAt(u, Len(s) + o, w)
  <2>1. \A i \in 1 .. Len(w) : /\ Len(s) + o + i \in 1 .. Len(s) + Len(t)
                               /\ ~(Len(s) + o + i <= Len(s))
                               /\ (Len(s) + o + i) - Len(s) = o + i
    BY <1>2, <1>4 DEF LiesAt
  <2>2. \A i \in 1 .. Len(w) : u[Len(s) + o + i] = t[o + i]
    BY <1>1, <2>1 DEF u
  <2> QED BY <1>1, <1>2, <1>4, <2>2 DEF LiesAt, u
<1> QED BY <1>3, <1>4 DEF u

(* s consists of the first d of the sequences.                             *)
Covered(s, seqs, d) ==
  /\ \A p \in 1 .. Len(s) : \E k \in 1 .. d, o \in Nat :
       LiesAt(s, o, seqs[k]) /\ p \in o + 1 .. o + Len(seqs[k])
  /\ \A k \in 1 .. d : \E o \in Nat : LiesAt(s, o, seqs[k])

LEMMA OneMoreCovered ==
  ASSUME NEW W, NEW s \in Seq(W), NEW seqs, NEW d \in Nat,
         \A k \in 1 .. d + 1 : seqs[k] \in Seq(W), Covered(s, seqs, d)
  PROVE  s \o seqs[d + 1] \in Seq(W) /\ Covered(s \o seqs[d + 1], seqs, d + 1)
<1> DEFINE t == seqs[d + 1]
           u == s \o t
<1>1. t \in Seq(W) /\ d + 1 \in 1 .. d + 1 /\ Len(s) \in Nat /\ Len(t) \in Nat
  OBVIOUS
<1>2. u \in Seq(W) /\ Len(u) = Len(s) + Len(t)
  BY <1>1, ConcatProperties
<1>3. \A k \in 1 .. d : \A o \in Nat : LiesAt(s, o, seqs[k]) => LiesAt(u, o, seqs[k])
  <2>1. \A k \in 1 .. d : seqs[k] \in Seq(W)
    OBVIOUS
  <2> HIDE DEF t
  <2> QED BY <1>1, <2>1, LiesInBoth
<1>4. LiesAt(u, Len(s), t)
  <2>1. LiesAt(t, 0, t)
    BY <1>1 DEF LiesAt
  <2>2. 0 \in Nat /\ Len(s) + 0 = Len(s)
    BY <1>1
  <2> HIDE DEF t
  <2>3. LiesAt(s \o t, Len(s) + 0, t)
    BY <1>1, <2>1, <2>2, LiesInBoth
  <2> QED BY <2>2, <2>3
<1> HIDE DEF u
<1>5. ASSUME NEW p \in 1 .. Len(u)
      PROVE  \E k \in 1 .. d + 1, o \in Nat :
               LiesAt(u, o, seqs[k]) /\ p \in o + 1 .. o + Len(seqs[k])
  <2>1. CASE p <= Len(s)
    <3>1. p \in 1 .. Len(s)
      BY <1>1, <1>2, <1>5, <2>1
    <3>2. PICK k \in 1 .. d, o \in Nat : LiesAt(s, o, seqs[k]) /\ p \in o + 1 .. o + Len(seqs[k])
      BY <3>1 DEF Covered
    <3>3. k \in 1 .. d + 1 /\ LiesAt(u, o, seqs[k])
      BY <1>3, <3>2
    <3> QED BY <3>2, <3>3
  <2>2. CASE ~(p <= Len(s))
    <3>1. p \in Len(s) + 1 .. Len(s) + Len(t)
      BY <1>1, <1>2, <1>5, <2>2
    <3> QED BY <1>1, <1>4, <3>1
  <2> QED BY <2>1, <2>2
<1>6. ASSUME NEW k \in 1 .. d + 1 PROVE \E o \in Nat : LiesAt(u, o, seqs[k])
  <2>1. CASE k = d + 1
    BY <1>1, <1>4, <2>1
  <2>2. CASE k # d + 1
    <3>1. k \in 1 .. d
      BY <1>6, <2>2
    <3>2. PICK o \in Nat : LiesAt(s, o, seqs[k])
      BY <3>1 DEF Covered
    <3> QED BY <1>3, <3>1, <3>2
  <2> QED BY <2>1, <2>2
<1>7. Covered(u, seqs, d + 1)
  BY <1>5, <1>6 DEF Covered
<1> QED BY <1>2, <1>7 DEF u

FlattensTo(f, seqs, d) ==
  f = [i \in 1 .. d |-> IF i = 1 THEN seqs[i] ELSE f[i - 1] \o seqs[i]]

LEMMA FlattenExists ==
  ASSUME NEW seqs
  PROVE  \A d \in Nat : \E f : FlattensTo(f, seqs, d)
<1> DEFINE T == {d \in Nat : \E f : FlattensTo(f, seqs, d)}
<1>1. 0 \in T
  <2> DEFINE g == [i \in 1 .. 0 |-> seqs[i]]
  <2>1. FlattensTo(g, seqs, 0)
    BY DEF FlattensTo
  <2> QED BY <2>1
<1>2. ASSUME NEW d \in Nat, d \in T PROVE d + 1 \in T
  <2>1. PICK f : FlattensTo(f, seqs, d)
    BY <1>2
  <2> DEFINE Step(c, i) == c \o seqs[i]
             last == IF d = 0 THEN seqs[1] ELSE Step(f[d], d + 1)
             g == [i \in 1 .. d + 1 |-> IF i = d + 1 THEN last ELSE f[i]]
  <2>2. \A i \in 1 .. d : f[i] = IF i = 1 THEN seqs[i] ELSE Step(f[i - 1], i)
    BY <2>1 DEF FlattensTo
  <2> HIDE DEF Step
  <2>3. \A i \in 1 .. d + 1 : g[i] = IF i = 1 THEN seqs[i] ELSE Step(g[i - 1], i)
    <3> TAKE i \in 1 .. d + 1
    <3>1. CASE i = d + 1 /\ d = 0
      BY <3>1
    <3>2. CASE i = d + 1 /\ d # 0
      <4>1. i # 1 /\ i - 1 = d /\ d \in 1 .. d + 1 /\ d # d + 1
        BY <3>2
      <4>2. g[d] = f[d] /\ g[i] = Step(f[d], i)
        BY <3>2, <4>1
      <4> QED BY <4>1, <4>2
    <3>3. CASE i # d + 1
      <4>1. i \in 1 .. d /\ g[i] = f[i]
        BY <3>3
      <4>2. i # 1 => i - 1 \in 1 .. d + 1 /\ i - 1 # d + 1
        BY <4>1
      <4>3. i # 1 => g[i - 1] = f[i - 1]
        BY <4>2
      <4> QED BY <2>2, <4>1, <4>3
    <3> QED BY <3>1, <3>2, <3>3
  <2>4. g = [i \in 1 .. d + 1 |-> IF i = 1 THEN seqs[i] ELSE Step(g[i - 1], i)]
    <3>1. g = [i \in 1 .. d + 1 |-> g[i]]
      OBVIOUS
    <3> HIDE DEF g
    <3> QED BY <2>3, <3>1
  <2>5. FlattensTo(g, seqs, d + 1)
    BY <2>4 DEF FlattensTo, Step
  <2> QED BY <2>5
<1> HIDE DEF T
<1>3. \A d \in Nat : d \in T
  BY <1>1, <1>2, AllNumbersOfSet
<1> QED BY <1>3 DEF T

LEMMA FlattenIsCovered ==
  ASSUME NEW W, NEW seqs, Len(seqs) \in Nat, DOMAIN seqs = 1 .. Len(seqs),
         seqs = [k \in 1 .. Len(seqs) |-> seqs[k]], \A k \in 1 .. Len(seqs) : seqs[k] \in Seq(W)
  PROVE  FlattenSeq(seqs) \in Seq(W) /\ Covered(FlattenSeq(seqs), seqs, Len(seqs))
<1>1. CASE Len(seqs) = 0
  <2>1. FlattenSeq(seqs) = seqs
    BY <1>1 DEF FlattenSeq
  <2>2. seqs \in Seq(W)
    BY <1>1
  <2> QED BY <1>1, <2>1, <2>2 DEF Covered
<1>2. CASE Len(seqs) # 0
  <2> DEFINE f == CHOOSE f : FlattensTo(f, seqs, Len(seqs))
  <2>1. FlattenSeq(seqs) = f[Len(seqs)]
    BY <1>2, Zenon DEF FlattenSeq, FlattensTo
  <2>2. FlattensTo(f, seqs, Len(seqs))
    BY FlattenExists
  <2> HIDE DEF f
  <2>3. \A i \in 1 .. Len(seqs) : f[i] = IF i = 1 THEN seqs[i] ELSE f[i - 1] \o seqs[i]
    BY <2>2 DEF FlattensTo
  <2> DEFINE T == {i \in Nat : i + 1 <= Len(seqs) =>
                                 f[i + 1] \in Seq(W) /\ Covered(f[i + 1], seqs, i + 1)}
  <2>4. 0 \in T
    <3>1. 1 \in 1 .. Len(seqs) /\ 0 + 1 = 1
      BY <1>2
    <3>2. f[1] = seqs[1] /\ seqs[1] \in Seq(W)
      BY <2>3, <3>1
    <3>3. << >> \in Seq(W) /\ << >> \o seqs[1] = seqs[1] /\ Covered(<< >>, seqs, 0)
      BY <3>2, ConcatEmptySeq DEF Covered
    <3>4. Covered(seqs[1], seqs, 1)
      <4>1. \A k \in 1 .. 0 + 1 : seqs[k] \in Seq(W)
        BY <3>2
      <4>2. Covered(<< >> \o seqs[0 + 1], seqs, 0 + 1)
        BY <3>3, <4>1, OneMoreCovered
      <4> QED BY <3>3, <4>2
    <3> QED BY <3>1, <3>2, <3>4
  <2>5. ASSUME NEW i \in Nat, i \in T PROVE i + 1 \in T
    <3>1. SUFFICES ASSUME (i + 1) + 1 <= Len(seqs)
                   PROVE  /\ f[(i + 1) + 1] \in Seq(W)
                          /\ Covered(f[(i + 1) + 1], seqs, (i + 1) + 1)
      OBVIOUS
    <3> DEFINE n == i + 1
    <3>2. n \in Nat /\ n + 1 \in 1 .. Len(seqs) /\ n + 1 # 1 /\ (n + 1) - 1 = n
      BY <3>1
    <3>3. f[n + 1] = f[n] \o seqs[n + 1]
      BY <2>3, <3>2
    <3>4. f[n] \in Seq(W) /\ Covered(f[n], seqs, n)
      <4>1. i + 1 <= Len(seqs)
        BY <3>1
      <4> QED BY <2>5, <4>1
    <3>5. \A k \in 1 .. n + 1 : seqs[k] \in Seq(W)
      BY <3>2
    <3> HIDE DEF n
    <3> DEFINE s == f[n]
    <3>7. s \in Seq(W) /\ Covered(s, seqs, n)
      BY <3>4
    <3>8. n \in Nat
      BY <3>2
    <3> HIDE DEF s
    <3>9. s \o seqs[n + 1] \in Seq(W) /\ Covered(s \o seqs[n + 1], seqs, n + 1)
      BY <3>5, <3>7, <3>8, OneMoreCovered
    <3>6. f[n + 1] \in Seq(W) /\ Covered(f[n + 1], seqs, n + 1)
      BY <3>3, <3>9 DEF s
    <3> QED BY <3>6 DEF n
  <2> HIDE DEF T
  <2>6. Len(seqs) - 1 \in T
    BY <1>2, <2>4, <2>5, AllNumbersOfSet
  <2>7. (Len(seqs) - 1) + 1 = Len(seqs)
    OBVIOUS
  <2> QED BY <2>1, <2>6, <2>7 DEF T
<1> QED BY <1>1, <1>2
(* Header k of r stands in h after the first o lexemes.                    *)
FieldAt(h, r, k, o) ==
  LET lexemes == r.fields[k].lexemes
      n == Len(r.fields[k].lexemes)
  IN /\ o \in Nat /\ o >= 7 /\ n \in Nat /\ o + n + 2 <= Len(h) - 2
     /\ \A i \in 1 .. n : h[o + i] = lexemes[i]
     /\ h[o + n + 1] = "CR" /\ h[o + n + 2] = "LF"

(* h is the first line of r, its headers and an empty line.                *)
HasShape(h, r) ==
  /\ h \in Seq(STRING) /\ Len(h) >= 9
  /\ \A i \in 1 .. 5 : h[i] = r.line[i]
  /\ h[6] = "CR" /\ h[7] = "LF" /\ h[Len(h) - 1] = "CR" /\ h[Len(h)] = "LF"
  /\ \A p \in 8 .. Len(h) - 2 : \E k \in DOMAIN r.fields, o \in Nat :
       FieldAt(h, r, k, o) /\ p \in o + 1 .. o + Len(r.fields[k].lexemes) + 2
  /\ \A k \in DOMAIN r.fields : \E o \in Nat : FieldAt(h, r, k, o)

LEMMA SeqOfMore ==
  ASSUME NEW S, NEW W, S \subseteq W, NEW x \in Seq(S)
  PROVE  x \in Seq(W) /\ Len(x) \in Nat
<1>1. Len(x) \in Nat /\ DOMAIN x = 1 .. Len(x) /\ x = [i \in 1 .. Len(x) |-> x[i]]
  OBVIOUS
<1>2. \A i \in 1 .. Len(x) : x[i] \in W
  OBVIOUS
<1>3. x \in [1 .. Len(x) -> W]
  BY <1>1, <1>2
<1> QED BY <1>1, <1>3

LEMMA FiveLexemes ==
  ASSUME NEW V, NEW a \in V, NEW b \in V, NEW c \in V, NEW d \in V, NEW e \in V
  PROVE  <<a, b, c, d, e>> \in Seq(V) /\ Len(<<a, b, c, d, e>>) = 5
<1> DEFINE t == <<a, b, c, d, e>>
<1>1. Len(t) = 5 /\ DOMAIN t = 1 .. 5
  OBVIOUS
<1>2. t[1] = a /\ t[2] = b /\ t[3] = c /\ t[4] = d /\ t[5] = e
  OBVIOUS
<1>4. t = [i \in 1 .. 5 |-> t[i]]
  OBVIOUS
<1> HIDE DEF t
<1>3. \A i \in 1 .. 5 : t[i] \in V
  BY <1>2
<1>5. t \in [1 .. 5 -> V]
  BY <1>3, <1>4
<1> QED BY <1>1, <1>5 DEF t

LEMMA PieceOf ==
  ASSUME NEW W, STRING \subseteq W, "CR" \in W, "LF" \in W, NEW x \in Seq(STRING)
  PROVE  /\ x \in Seq(W) /\ x \o CRLF \in Seq(W) /\ CRLF \in Seq(W)
         /\ Len(x \o CRLF) = Len(x) + 2
         /\ \A i \in 1 .. Len(x) : (x \o CRLF)[i] = x[i]
         /\ (x \o CRLF)[Len(x) + 1] = "CR" /\ (x \o CRLF)[Len(x) + 2] = "LF"
<1>1. CRLF \in Seq(W) /\ Len(CRLF) = 2 /\ CRLF[1] = "CR" /\ CRLF[2] = "LF"
  BY DEF CRLF
<1>2. x \in Seq(W) /\ Len(x) \in Nat
  BY SeqOfMore
<1> DEFINE u == x \o CRLF
<1>3. /\ u \in Seq(W) /\ Len(u) = Len(x) + Len(CRLF)
      /\ \A i \in 1 .. Len(x) + Len(CRLF) : u[i] = IF i <= Len(x) THEN x[i] ELSE CRLF[i - Len(x)]
  BY <1>1, <1>2, ConcatProperties
<1> HIDE DEF u
<1>4. Len(u) = Len(x) + 2 /\ \A i \in 1 .. Len(x) : u[i] = x[i]
  BY <1>1, <1>2, <1>3
<1>5. u[Len(x) + 1] = CRLF[1] /\ u[Len(x) + 2] = CRLF[2]
  BY <1>1, <1>2, <1>3
<1> QED BY <1>1, <1>2, <1>3, <1>4, <1>5 DEF u

LEMMA HeadHasShape ==
  ASSUME NEW r \in Requests, IsLegal(r)
  PROVE  HasShape(HeadOf(r), r)
<1> DEFINE W == STRING \cup {"CR", "LF", "GET", "POST", " ", "/ready", "/fraud-score", "HTTP/1.1"}
           F == r.fields
           piece == [k \in DOMAIN F |-> F[k].lexemes \o CRLF]
           flat == FlattenSeq(piece)
           line == r.line
           a == line \o CRLF
           b == a \o flat
           h == b \o CRLF
<1>1. HeadOf(r) = h
  BY DEF HeadOf
<1>2. STRING \subseteq W /\ "CR" \in W /\ "LF" \in W
  OBVIOUS
<1>3. line \in Seq(W) /\ Len(line) = 5
  <2>1. \/ line = <<"GET", " ", "/ready", " ", "HTTP/1.1">>
        \/ line = <<"POST", " ", "/fraud-score", " ", "HTTP/1.1">>
    BY DEF IsLegal
  <2> DEFINE V == {"GET", "POST", " ", "/ready", "/fraud-score", "HTTP/1.1"}
  <2>2. V \subseteq W
    OBVIOUS
  <2> HIDE DEF W, line
  <2>3. line \in Seq(V) /\ Len(line) = 5
    <3>1. /\ "GET" \in V /\ "POST" \in V /\ " " \in V
          /\ "/ready" \in V /\ "/fraud-score" \in V /\ "HTTP/1.1" \in V
      OBVIOUS
    <3> HIDE DEF V
    <3>2. <<"GET", " ", "/ready", " ", "HTTP/1.1">> \in Seq(V)
      BY <3>1, FiveLexemes
    <3>3. <<"POST", " ", "/fraud-score", " ", "HTTP/1.1">> \in Seq(V)
      BY <3>1, FiveLexemes
    <3>4. /\ Len(<<"GET", " ", "/ready", " ", "HTTP/1.1">>) = 5
          /\ Len(<<"POST", " ", "/fraud-score", " ", "HTTP/1.1">>) = 5
      OBVIOUS
    <3> QED BY <2>1, <3>2, <3>3, <3>4, Zenon
  <2> HIDE DEF V
  <2> QED BY <2>2, <2>3, SeqOfMore
<1>4. Len(F) \in Nat /\ DOMAIN F = 1 .. Len(F) /\ \A k \in DOMAIN F : F[k].lexemes \in Seq(STRING)
  BY DEF IsLegal, IsHeaderOf
<1>5. CRLF \in Seq(W) /\ Len(CRLF) = 2 /\ CRLF[1] = "CR" /\ CRLF[2] = "LF"
  BY DEF CRLF
<1> HIDE DEF W, F, line
<1>6. \A k \in DOMAIN F :
        /\ piece[k] \in Seq(W) /\ Len(F[k].lexemes) \in Nat /\ Len(piece[k]) = Len(F[k].lexemes) + 2
        /\ \A i \in 1 .. Len(F[k].lexemes) : piece[k][i] = F[k].lexemes[i]
        /\ piece[k][Len(F[k].lexemes) + 1] = "CR" /\ piece[k][Len(F[k].lexemes) + 2] = "LF"
  <2> TAKE k \in DOMAIN F
  <2> DEFINE x == F[k].lexemes
  <2>1. piece[k] = x \o CRLF /\ x \in Seq(STRING)
    BY <1>4
  <2> HIDE DEF x, piece
  <2>2. /\ x \o CRLF \in Seq(W) /\ Len(x \o CRLF) = Len(x) + 2
        /\ \A i \in 1 .. Len(x) : (x \o CRLF)[i] = x[i]
        /\ (x \o CRLF)[Len(x) + 1] = "CR" /\ (x \o CRLF)[Len(x) + 2] = "LF"
    BY <1>2, <2>1, PieceOf
  <2>3. Len(x) \in Nat
    BY <2>1
  <2> QED BY <2>1, <2>2, <2>3 DEF x
<1>7. flat \in Seq(W) /\ Covered(flat, piece, Len(F))
  <2>1. Len(piece) = Len(F) /\ DOMAIN piece = 1 .. Len(piece) /\ piece = [k \in 1 .. Len(piece) |-> piece[k]]
    BY <1>4
  <2>2. \A k \in 1 .. Len(piece) : piece[k] \in Seq(W)
    BY <1>4, <1>6, <2>1
  <2>3. Len(piece) \in Nat
    BY <1>4, <2>1
  <2> HIDE DEF piece
  <2>4. flat \in Seq(W) /\ Covered(flat, piece, Len(piece))
    BY <2>1, <2>2, <2>3, FlattenIsCovered
  <2> QED BY <2>1, <2>4
<1> HIDE DEF piece, flat
<1>8. /\ a \in Seq(W) /\ Len(a) = 7 /\ \A i \in 1 .. 5 : a[i] = line[i]
      /\ a[6] = "CR" /\ a[7] = "LF"
  <2>1. /\ a \in Seq(W) /\ Len(a) = Len(line) + Len(CRLF)
        /\ \A i \in 1 .. Len(line) + Len(CRLF) : a[i] = IF i <= Len(line) THEN line[i] ELSE CRLF[i - Len(line)]
    BY <1>3, <1>5, ConcatProperties
  <2> HIDE DEF a
  <2>2. a[6] = CRLF[1] /\ a[7] = CRLF[2] /\ Len(a) = 7 /\ \A i \in 1 .. 5 : a[i] = line[i]
    BY <1>3, <1>5, <2>1
  <2> QED BY <1>5, <2>1, <2>2
<1> HIDE DEF a
<1>9. /\ b \in Seq(W) /\ Len(b) = 7 + Len(flat) /\ \A i \in 1 .. 7 : b[i] = a[i]
      /\ \A o \in Nat : \A k \in DOMAIN F : LiesAt(flat, o, piece[k]) => LiesAt(b, 7 + o, piece[k])
  <2>1. /\ b \in Seq(W) /\ Len(b) = Len(a) + Len(flat)
        /\ \A i \in 1 .. Len(a) + Len(flat) : b[i] = IF i <= Len(a) THEN a[i] ELSE flat[i - Len(a)]
    <3>1. a \in Seq(W) /\ flat \in Seq(W)
      BY <1>7, <1>8
    <3> QED BY <3>1, ConcatProperties
  <2>2. ASSUME NEW o \in Nat, NEW k \in DOMAIN F, LiesAt(flat, o, piece[k])
        PROVE  LiesAt(b, 7 + o, piece[k])
    <3>1. piece[k] \in Seq(W)
      BY <1>6
    <3>2. LiesAt(b, Len(a) + o, piece[k])
      BY <1>7, <1>8, <2>2, <3>1, LiesInBoth
    <3> QED BY <1>8, <3>2
  <2> HIDE DEF b
  <2>3. Len(flat) \in Nat
    BY <1>7
  <2> QED BY <1>8, <2>1, <2>2, <2>3
<1> HIDE DEF b
<1>10. /\ h \in Seq(W) /\ Len(h) = Len(flat) + 9 /\ \A i \in 1 .. 7 + Len(flat) : h[i] = b[i]
       /\ h[Len(h) - 1] = "CR" /\ h[Len(h)] = "LF" /\ Len(flat) \in Nat
       /\ \A o \in Nat : \A k \in DOMAIN F : LiesAt(b, o, piece[k]) => LiesAt(h, o, piece[k])
  <2>1. /\ h \in Seq(W) /\ Len(h) = Len(b) + Len(CRLF)
        /\ \A i \in 1 .. Len(b) + Len(CRLF) : h[i] = IF i <= Len(b) THEN b[i] ELSE CRLF[i - Len(b)]
    <3>1. b \in Seq(W) /\ CRLF \in Seq(W)
      BY <1>5, <1>9
    <3> QED BY <3>1, ConcatProperties
  <2>2. ASSUME NEW o \in Nat, NEW k \in DOMAIN F, LiesAt(b, o, piece[k])
        PROVE  LiesAt(h, o, piece[k])
    <3>1. piece[k] \in Seq(W)
      BY <1>6
    <3> QED BY <1>5, <1>9, <2>2, <3>1, LiesInBoth
  <2> HIDE DEF h
  <2>3. Len(flat) \in Nat
    BY <1>7
  <2>4. Len(h) = Len(flat) + 9 /\ \A i \in 1 .. 7 + Len(flat) : h[i] = b[i]
    BY <1>5, <1>9, <2>1, <2>3
  <2>5. h[Len(h) - 1] = CRLF[1] /\ h[Len(h)] = CRLF[2]
    <3> DEFINE m == Len(b)
    <3>1. m \in Nat /\ Len(h) = m + 2
      BY <1>5, <1>9, <2>1, <2>3
    <3>2. \A i \in 1 .. m + 2 : h[i] = IF i <= m THEN b[i] ELSE CRLF[i - m]
      BY <1>5, <2>1
    <3> HIDE DEF m
    <3>3. m + 1 \in 1 .. m + 2 /\ m + 2 \in 1 .. m + 2 /\ (m + 1) - m = 1 /\ (m + 2) - m = 2
      BY <3>1
    <3>4. ~(m + 1 <= m) /\ ~(m + 2 <= m) /\ Len(h) - 1 = m + 1
      BY <3>1
    <3>5. h[m + 1] = CRLF[1] /\ h[m + 2] = CRLF[2]
      BY <3>2, <3>3, <3>4
    <3> QED BY <3>1, <3>4, <3>5
  <2> QED BY <1>5, <2>1, <2>2, <2>3, <2>4, <2>5
<1>11. \A o \in Nat : \A k \in DOMAIN F : LiesAt(flat, o, piece[k]) => FieldAt(h, r, k, 7 + o)
  <2> HIDE DEF h
  <2> TAKE o \in Nat
  <2> TAKE k \in DOMAIN F
  <2> HAVE LiesAt(flat, o, piece[k])
  <2> DEFINE q == 7 + o
             n == Len(F[k].lexemes)
             x == F[k].lexemes
             w == piece[k]
  <2>1. q \in Nat /\ q >= 7
    OBVIOUS
  <2>2. LiesAt(h, q, w)
    BY <1>9, <1>10, <2>1
  <2>3. /\ n \in Nat /\ Len(w) = n + 2 /\ \A i \in 1 .. n : w[i] = x[i]
        /\ w[n + 1] = "CR" /\ w[n + 2] = "LF"
    BY <1>6
  <2>4. o + Len(w) <= Len(flat)
    BY DEF LiesAt
  <2>5. \A i \in 1 .. Len(w) : h[q + i] = w[i]
    BY <2>2 DEF LiesAt
  <2>6. q + n + 2 <= Len(h) - 2
    <3> DEFINE L == Len(flat)
               K == Len(h)
    <3>1. L \in Nat /\ K = L + 9 /\ o + (n + 2) <= L
      BY <1>10, <2>3, <2>4
    <3> HIDE DEF L, K, n
    <3> QED BY <2>3, <3>1 DEF K
  <2> HIDE DEF n, x, w, q
  <2>7. n + 1 \in 1 .. Len(w) /\ n + 2 \in 1 .. Len(w) /\ 1 .. n \subseteq 1 .. Len(w)
    BY <2>3
  <2>8. /\ \A i \in 1 .. n : h[q + i] = x[i]
        /\ h[q + (n + 1)] = "CR" /\ h[q + (n + 2)] = "LF"
    BY <2>3, <2>5, <2>7
  <2>9. q + (n + 1) = q + n + 1 /\ q + (n + 2) = q + n + 2
    BY <2>1, <2>3
  <2>10. FieldAt(h, r, k, q)
    BY <2>1, <2>3, <2>6, <2>8, <2>9 DEF FieldAt, n, x, F
  <2> QED BY <2>10 DEF q
<1>12. ASSUME NEW p \in 8 .. Len(h) - 2
       PROVE  \E k \in DOMAIN r.fields, o \in Nat :
                FieldAt(h, r, k, o) /\ p \in o + 1 .. o + Len(r.fields[k].lexemes) + 2
  <2> HIDE DEF h
  <2>1. p - 7 \in 1 .. Len(flat)
    BY <1>10, <1>12
  <2>2. PICK k \in 1 .. Len(F), o \in Nat :
          LiesAt(flat, o, piece[k]) /\ p - 7 \in o + 1 .. o + Len(piece[k])
    BY <1>7, <2>1 DEF Covered
  <2>3. k \in DOMAIN F
    BY <1>4, <2>2
  <2>4. FieldAt(h, r, k, 7 + o)
    BY <1>11, <2>2, <2>3
  <2>5. Len(piece[k]) = Len(F[k].lexemes) + 2 /\ Len(F[k].lexemes) \in Nat
    BY <1>6, <2>3
  <2>6. 7 + o \in Nat /\ p \in (7 + o) + 1 .. (7 + o) + Len(F[k].lexemes) + 2
    <3> DEFINE n == Len(F[k].lexemes)
    <3>1. n \in Nat /\ p \in Nat /\ p - 7 \in o + 1 .. o + (n + 2)
      BY <1>12, <2>2, <2>5
    <3> HIDE DEF n
    <3>2. 7 + o \in Nat /\ p \in (7 + o) + 1 .. (7 + o) + n + 2
      BY <3>1
    <3> QED BY <3>2, Zenon DEF n
  <2> QED BY <2>3, <2>4, <2>6 DEF F
<1>13. ASSUME NEW k \in DOMAIN r.fields PROVE \E o \in Nat : FieldAt(h, r, k, o)
  <2> HIDE DEF h
  <2>1. k \in DOMAIN F /\ k \in 1 .. Len(F)
    BY <1>4 DEF F
  <2>2. PICK o \in Nat : LiesAt(flat, o, piece[k])
    BY <1>7, <2>1 DEF Covered
  <2>3. 7 + o \in Nat /\ FieldAt(h, r, k, 7 + o)
    BY <1>11, <2>1, <2>2
  <2> QED BY <2>3
<1>14. h \in Seq(STRING)
  BY <1>1, StreamAssumption
<1> HIDE DEF h
<1>15. Len(h) >= 9 /\ \A i \in 1 .. 7 : h[i] = a[i]
  BY <1>9, <1>10
<1>16. (\A i \in 1 .. 5 : h[i] = r.line[i]) /\ h[6] = "CR" /\ h[7] = "LF"
  BY <1>8, <1>15 DEF line
<1>17. HasShape(h, r)
  BY <1>10, <1>12, <1>13, <1>14, <1>15, <1>16 DEF HasShape
<1> QED BY <1>1, <1>17
LEMMA FirstLineOfHead ==
  ASSUME NEW r \in Requests, IsLegal(r), NEW h, HasShape(h, r)
  PROVE  /\ FirstLineIsRequest(h)
         /\ LineEnd(h) = 6
         /\ Method(h) = <<r.method>>
         /\ Method(h) = <<"GET">> => RequestPath(h) = <<"/ready">>
         /\ Method(h) = <<"POST">> => RequestPath(h) = <<"/fraud-score">>
<1>1. h \in Seq(STRING) /\ Len(h) \in Nat /\ Len(h) >= 9 /\ h[6] = "CR"
  BY DEF HasShape
<1>2. PICK path :
        /\ r.line = <<r.method, " ", path, " ", "HTTP/1.1">>
        /\ path \in {"/ready", "/fraud-score"} /\ r.method \in {"GET", "POST"}
        /\ r.method = "GET" => path = "/ready"
        /\ r.method = "POST" => path = "/fraud-score"
  <2>1. CASE r.method = "GET" /\ r.line = <<"GET", " ", "/ready", " ", "HTTP/1.1">>
    BY <2>1
  <2>2. CASE r.method = "POST" /\ r.line = <<"POST", " ", "/fraud-score", " ", "HTTP/1.1">>
    BY <2>2
  <2> QED BY <2>1, <2>2 DEF IsLegal
<1>3. h[1] = r.method /\ h[2] = " " /\ h[3] = path /\ h[4] = " " /\ h[5] = "HTTP/1.1"
  <2>1. h[1] = r.line[1] /\ h[2] = r.line[2] /\ h[3] = r.line[3] /\ h[4] = r.line[4] /\ h[5] = r.line[5]
    BY DEF HasShape
  <2> DEFINE m == r.method
             l == r.line
  <2>2. l = <<m, " ", path, " ", "HTTP/1.1">>
    BY <1>2
  <2> HIDE DEF m, l
  <2>3. l[1] = m /\ l[2] = " " /\ l[3] = path /\ l[4] = " " /\ l[5] = "HTTP/1.1"
    BY <2>2
  <2> QED BY <2>1, <2>3, Zenon DEF m, l
<1>4. LineEnd(h) = 6
  <2> DEFINE e == LineEnd(h)
             C == {"CR"}
  <2>1. /\ e \in Nat
        /\ e = Len(h) + 1 \/ (e \in 1 .. Len(h) /\ h[e] \in C)
        /\ \A j \in 1 .. Len(h) : h[j] \in C => e <= j
    <3>1. LineEnd(h) = NextOf(h, 1, C) /\ 1 \in Nat \ {0}
      BY DEF LineEnd
    <3> HIDE DEF C
    <3> QED BY <1>1, <3>1, NextOfIsFirst
  <2>2. h[1] \notin C /\ h[2] \notin C /\ h[3] \notin C /\ h[4] \notin C /\ h[5] \notin C /\ h[6] \in C
    BY <1>1, <1>2, <1>3
  <2> HIDE DEF e, C
  <2>3. e <= 6 /\ e # 1 /\ e # 2 /\ e # 3 /\ e # 4 /\ e # 5 /\ e # 0
    BY <1>1, <2>1, <2>2
  <2> QED BY <2>1, <2>3 DEF e
<1>5. MethodEnd(h) = 2
  <2> DEFINE e == MethodEnd(h)
             C == {" "}
  <2>1. /\ e \in Nat
        /\ e = Len(h) + 1 \/ (e \in 1 .. Len(h) /\ h[e] \in C)
        /\ \A j \in 1 .. Len(h) : h[j] \in C => e <= j
    <3>1. MethodEnd(h) = NextOf(h, 1, C) /\ 1 \in Nat \ {0}
      BY DEF MethodEnd
    <3> HIDE DEF C
    <3> QED BY <1>1, <3>1, NextOfIsFirst
  <2>2. h[1] \notin C /\ h[2] \in C
    BY <1>2, <1>3
  <2> HIDE DEF e, C
  <2>3. e <= 2 /\ e # 1 /\ e # 0
    BY <1>1, <2>1, <2>2
  <2> QED BY <2>1, <2>3 DEF e
<1>6. PathEnd(h) = 4
  <2> DEFINE e == PathEnd(h)
             C == {" "}
  <2>1. /\ e \in Nat
        /\ e = Len(h) + 1 \/ (e \in 3 .. Len(h) /\ h[e] \in C)
        /\ \A j \in 3 .. Len(h) : h[j] \in C => e <= j
    <3>1. PathEnd(h) = NextOf(h, 3, C) /\ 3 \in Nat \ {0}
      BY <1>5 DEF PathEnd
    <3> HIDE DEF C
    <3> QED BY <1>1, <3>1, NextOfIsFirst
  <2>2. h[3] \notin C /\ h[4] \in C
    BY <1>2, <1>3
  <2> HIDE DEF e, C
  <2>3. e <= 4 /\ e # 3 /\ e > 2
    BY <1>1, <2>1, <2>2
  <2> QED BY <2>1, <2>3 DEF e
<1>7. Method(h) = <<r.method>>
  <2>1. Method(h) = SubSeq(h, 1, 1)
    BY <1>5 DEF Method
  <2> DEFINE u == SubSeq(h, 1, 1)
  <2>2. u \in Seq(STRING) /\ Len(u) = 1 /\ u[1] = h[1]
    BY <1>1
  <2> HIDE DEF u
  <2>3. u = <<h[1]>>
    BY <2>2
  <2> QED BY <1>3, <2>1, <2>3 DEF u
<1>8. RequestPath(h) = <<path>>
  <2>1. RequestPath(h) = SubSeq(h, 3, 3)
    BY <1>5, <1>6 DEF RequestPath
  <2> DEFINE u == SubSeq(h, 3, 3)
  <2>2. u \in Seq(STRING) /\ Len(u) = 1 /\ u[1] = h[3]
    BY <1>1
  <2> HIDE DEF u
  <2>3. u = <<h[3]>>
    BY <2>2
  <2> QED BY <1>3, <2>1, <2>3 DEF u
<1>9. Method(h) \in {<<"GET">>, <<"POST">>} /\ RequestPath(h) # <<>> /\ PathEnd(h) < LineEnd(h)
  <2>1. Method(h) = <<"GET">> \/ Method(h) = <<"POST">>
    BY <1>2, <1>7, Zenon
  <2>2. <<path>> # <<>>
    OBVIOUS
  <2> QED BY <1>4, <1>6, <1>8, <2>1, <2>2
<1>10. FirstLineIsRequest(h)
  BY <1>9, Zenon DEF FirstLineIsRequest
<1>11. ASSUME Method(h) = <<"GET">> PROVE RequestPath(h) = <<"/ready">>
  <2>1. <<r.method>> = <<"GET">>
    BY <1>7, <1>11
  <2>2. r.method = "GET"
    BY <2>1
  <2> QED BY <1>2, <1>8, <2>2, Zenon
<1>12. ASSUME Method(h) = <<"POST">>
       PROVE  RequestPath(h) = <<"/fraud-score">>
  <2>1. <<r.method>> = <<"POST">>
    BY <1>7, <1>12
  <2>2. r.method = "POST"
    BY <2>1
  <2> QED BY <1>2, <1>8, <2>2, Zenon
<1> QED BY <1>4, <1>7, <1>10, <1>11, <1>12

LEMMA DigitLexemes ==
  /\ DOMAIN DigitValue = {"0", "1", "2", "3", "4", "5", "6", "7", "8", "9"}
  /\ \A x \in DOMAIN DigitValue : x \notin Blanks \cup {"CR"} \cup LengthNames \cup CloseHeaders
  /\ \A x \in Blanks : x \notin LengthNames \cup CloseHeaders
  BY DEF DigitValue, Blanks, LengthNames, ExactLength, CloseHeaders

(* The value of the header of the length is the length that is meant.      *)
LEMMA LengthOfHeader ==
  ASSUME NEW r \in Requests, IsLegal(r), NEW h \in Seq(STRING), NEW k \in DOMAIN r.fields,
         r.fields[k].means = "length", NEW o \in Nat, FieldAt(h, r, k, o)
  PROVE  ContentLengthValue(h, o + 2) = BodyLength(r)
<1> DEFINE x == r.fields[k].lexemes
           n == Len(r.fields[k].lexemes)
           C == Blanks \cup {"CR"}
           D == DOMAIN DigitValue
<1>1. x \in Seq(STRING) /\ IsLength(x, BodyLength(r))
  BY DEF IsLegal, IsHeaderOf
<1>2. /\ n \in Nat /\ o + n + 2 <= Len(h) - 2
      /\ \A i \in 1 .. n : h[o + i] = x[i]
      /\ h[o + n + 1] = "CR" /\ Len(h) \in Nat
  <2>1. Len(h) \in Nat
    OBVIOUS
  <2>2. /\ n \in Nat /\ o + n + 2 <= Len(h) - 2
        /\ \A i \in 1 .. n : h[o + i] = x[i]
        /\ h[o + n + 1] = "CR"
    BY Zenon DEF FieldAt
  <2> QED BY <2>1, <2>2
<1>3. \A l \in D : l \notin Blanks /\ l \notin C
  BY DigitLexemes
<1>4. Blanks \subseteq C /\ "CR" \in C
  OBVIOUS
<1>5. PICK i \in 2 .. n, j \in 2 .. n :
        /\ i <= j /\ Number(SubSeq(x, i, j)) = BodyLength(r)
        /\ \A l \in 2 .. n : x[l] \in (IF l \in i .. j THEN D ELSE Blanks)
  BY <1>1 DEF IsLength
<1> HIDE DEF x, n, C, D
<1>6. /\ \A l \in 2 .. n : l < i => h[o + l] \in Blanks
      /\ \A l \in i .. j : h[o + l] \in D
      /\ h[o + (j + 1)] \in C
  <2>1. \A l \in 2 .. n : l \in 1 .. n
    BY <1>2
  <2>2. \A l \in 2 .. n : l < i => h[o + l] \in Blanks
    <3>1. \A l \in 2 .. n : l < i => l \notin i .. j
      BY <1>2
    <3> QED BY <1>2, <1>5, <2>1, <3>1
  <2>3. \A l \in i .. j : h[o + l] \in D
    <3>1. \A l \in i .. j : l \in 2 .. n /\ l \in 1 .. n
      BY <1>2
    <3>2. \A l \in i .. j : x[l] \in D
      BY <1>5, <3>1
    <3> QED BY <1>2, <3>1, <3>2
  <2>4. CASE j = n
    <3>1. o + (j + 1) = o + n + 1
      BY <1>2, <2>4
    <3> QED BY <1>2, <1>4, <2>2, <2>3, <3>1
  <2>5. CASE j # n
    <3>1. j + 1 \in 2 .. n /\ j + 1 \in 1 .. n /\ j + 1 \notin i .. j
      BY <1>2, <2>5
    <3>2. h[o + (j + 1)] \in Blanks
      BY <1>2, <1>5, <3>1
    <3> QED BY <1>4, <2>2, <2>3, <3>2
  <2> QED BY <2>4, <2>5
<1> DEFINE v == ValueStart(h, o + 2)
           a == o + i
           b == o + (j + 1)
<1>7. a \in Nat /\ b \in Nat /\ o + 2 <= a /\ a < b /\ b <= Len(h) /\ o + 2 \in Nat \ {0}
  <2>1. n \in Nat /\ o + n + 2 <= Len(h) - 2 /\ Len(h) \in Nat /\ i <= j
    BY <1>2, <1>5
  <2> QED BY <2>1
<1>8. v = a
  <2>1. /\ v \in Nat
        /\ (v = Len(h) + 1) \/ (v \in o + 2 .. Len(h) /\ h[v] \notin Blanks)
        /\ \A q \in o + 2 .. Len(h) : h[q] \notin Blanks => v <= q
    BY <1>7, ValueStartIsFirst
  <2>2. h[a] \notin Blanks
    <3>1. i \in i .. j
      BY <1>5
    <3> QED BY <1>3, <1>6, <3>1
  <2>3. \A q \in o + 2 .. a - 1 : h[q] \in Blanks
    <3> TAKE q \in o + 2 .. a - 1
    <3> DEFINE l == q - o
    <3>1. l \in 2 .. n /\ l < i /\ o + l = q
      BY <1>2
    <3> HIDE DEF l
    <3> QED BY <1>6, <3>1
  <2> HIDE DEF v, a
  <2>4. a \in o + 2 .. Len(h) /\ v <= a
    BY <1>2, <1>7, <2>1, <2>2
  <2>5. ASSUME v < a PROVE FALSE
    <3>1. v \in o + 2 .. a - 1 /\ h[v] \notin Blanks
      BY <1>2, <1>7, <2>1, <2>4, <2>5
    <3> QED BY <2>3, <3>1
  <2> QED BY <1>7, <2>1, <2>4, <2>5
<1>9. NextOf(h, a, C) = b
  <2> DEFINE e == NextOf(h, a, C)
  <2>1. a \in Nat \ {0}
    BY <1>7
  <2>2. /\ e \in Nat
        /\ (e = Len(h) + 1) \/ (e \in a .. Len(h) /\ h[e] \in C)
        /\ \A q \in a .. Len(h) : h[q] \in C => e <= q
    <3> HIDE DEF a
    <3> QED BY <2>1, NextOfIsFirst
  <2>3. h[b] \in C
    BY <1>6
  <2>4. \A q \in a .. b - 1 : h[q] \notin C
    <3> TAKE q \in a .. b - 1
    <3> DEFINE l == q - o
    <3>1. l \in i .. j /\ o + l = q
      BY <1>2
    <3> HIDE DEF l
    <3> QED BY <1>3, <1>6, <3>1
  <2> HIDE DEF a, b, e
  <2>5. b \in a .. Len(h) /\ e <= b
    BY <1>2, <1>7, <2>2, <2>3
  <2>6. ASSUME e < b PROVE FALSE
    <3>1. e \in a .. b - 1 /\ h[e] \in C
      BY <1>2, <1>7, <2>2, <2>5, <2>6
    <3> QED BY <2>4, <3>1
  <2> QED BY <1>7, <2>2, <2>5, <2>6 DEF e
<1>10. SubSeq(h, a, b - 1) = SubSeq(x, i, j)
  <2> DEFINE c == b - 1
             s == SubSeq(h, a, c)
             t == SubSeq(x, i, j)
             m == j - i + 1
  <2>1. m \in Nat /\ c - a + 1 = m /\ c <= Len(h) /\ a <= c /\ c \in Nat /\ a \in Nat \ {0}
    BY <1>2, <1>7
  <2>2. s \in Seq(STRING) /\ Len(s) = m /\ \A q \in 1 .. m : s[q] = h[a + q - 1]
    <3> HIDE DEF a, c, m
    <3>1. \A q \in a .. c : h[q] \in STRING
      BY <2>1
    <3>2. /\ s \in Seq(STRING)
          /\ Len(s) = (IF a <= c THEN c - a + 1 ELSE 0)
          /\ \A q \in 1 .. c - a + 1 : s[q] = h[a + q - 1]
      BY <2>1, <3>1, SubSeqProperties
    <3> HIDE DEF s
    <3> QED BY <2>1, <3>2
  <2>3. t \in Seq(STRING) /\ Len(t) = m /\ \A q \in 1 .. m : t[q] = x[i + q - 1]
    <3>1. \A q \in i .. j : x[q] \in STRING
      <4>1. Len(x) = n
        BY DEF x, n
      <4> QED BY <1>1, <1>2, <4>1
    <3>2. i \in Int /\ j \in Int /\ i <= j
      BY <1>5
    <3>3. /\ t \in Seq(STRING)
          /\ Len(t) = (IF i <= j THEN j - i + 1 ELSE 0)
          /\ \A q \in 1 .. j - i + 1 : t[q] = x[i + q - 1]
      BY <3>1, <3>2, SubSeqProperties
    <3> HIDE DEF t
    <3> QED BY <3>2, <3>3
  <2>4. \A q \in 1 .. m : h[a + q - 1] = x[i + q - 1]
    <3> TAKE q \in 1 .. m
    <3> DEFINE l == i + q - 1
    <3>1. l \in 1 .. n /\ a + q - 1 = o + l
      BY <1>2, <1>5
    <3> HIDE DEF l, a
    <3> QED BY <1>2, <3>1 DEF l
  <2> HIDE DEF s, t, m
  <2>5. s = t
    <3>1. \A q \in 1 .. Len(s) : s[q] = t[q]
      BY <2>2, <2>3, <2>4
    <3> QED BY <2>2, <2>3, <3>1, SeqEqual
  <2> QED BY <2>5 DEF s, t
<1>11. ContentLengthValue(h, o + 2) = Number(SubSeq(h, v, NextOf(h, v, C) - 1))
  BY DEF ContentLengthValue, C
<1> HIDE DEF v, a, b
<1> QED BY <1>5, <1>8, <1>9, <1>10, <1>11
(* What stands in the head behind the first line: the lexemes of headers,  *)
(* CR and LF.                                                              *)
LEMMA BehindFirstLine ==
  ASSUME NEW r \in Requests, IsLegal(r), NEW h, HasShape(h, r), NEW p \in 8 .. Len(h)
  PROVE  \/ h[p] \in {"CR", "LF"}
         \/ \E k \in DOMAIN r.fields, o \in Nat : \E i \in 1 .. Len(r.fields[k].lexemes) :
              FieldAt(h, r, k, o) /\ p = o + i /\ h[p] = r.fields[k].lexemes[i]
<1>1. h \in Seq(STRING) /\ Len(h) \in Nat /\ Len(h) >= 9
  BY DEF HasShape
<1>2. CASE p \in 8 .. Len(h) - 2
  <2>1. PICK k \in DOMAIN r.fields, o \in Nat :
          FieldAt(h, r, k, o) /\ p \in o + 1 .. o + Len(r.fields[k].lexemes) + 2
    BY <1>2 DEF HasShape
  <2> DEFINE x == r.fields[k].lexemes
             n == Len(r.fields[k].lexemes)
             i == p - o
  <2>2. /\ n \in Nat /\ \A q \in 1 .. n : h[o + q] = x[q]
        /\ h[o + n + 1] = "CR" /\ h[o + n + 2] = "LF"
    BY <2>1 DEF FieldAt
  <2>3. n \in Nat /\ p \in o + 1 .. o + n + 2
    BY <2>1, <2>2
  <2> HIDE DEF n, x
  <2>4. p = o + i /\ i \in 1 .. n + 2
    BY <2>3
  <2>5. CASE i \in 1 .. n
    <3>1. h[p] = x[i]
      BY <2>2, <2>4, <2>5
    <3> QED BY <2>1, <2>4, <2>5, <3>1 DEF n, x
  <2>6. CASE i = n + 1
    <3>1. p = o + n + 1
      BY <2>3, <2>6
    <3> QED BY <2>2, <3>1
  <2>7. CASE i = n + 2
    <3>1. p = o + n + 2
      BY <2>3, <2>7
    <3> QED BY <2>2, <3>1
  <2>8. i \in 1 .. n \/ i = n + 1 \/ i = n + 2
    BY <2>3, <2>4
  <2> QED BY <2>5, <2>6, <2>7, <2>8
<1>3. CASE p \notin 8 .. Len(h) - 2
  <2>1. p = Len(h) - 1 \/ p = Len(h)
    BY <1>1, <1>3
  <2> QED BY <2>1 DEF HasShape
<1> QED BY <1>2, <1>3

(* A name of the length is the first lexeme of the header of the length.   *)
LEMMA OnlyTheLength ==
  ASSUME NEW r \in Requests, IsLegal(r), IsUnderstood(r), NEW h, HasShape(h, r),
         NEW p \in 8 .. Len(h), h[p] \in LengthNames
  PROVE  /\ ContentLengthValue(h, p + 1) = BodyLength(r)
<1>1. h \in Seq(STRING) /\ h[p] \notin {"CR", "LF"}
  BY DEF HasShape, LengthNames, ExactLength
<1>2. PICK k \in DOMAIN r.fields, o \in Nat : \E i \in 1 .. Len(r.fields[k].lexemes) :
        FieldAt(h, r, k, o) /\ p = o + i /\ h[p] = r.fields[k].lexemes[i]
  BY <1>1, BehindFirstLine
<1>3. PICK i \in 1 .. Len(r.fields[k].lexemes) :
        FieldAt(h, r, k, o) /\ p = o + i /\ h[p] = r.fields[k].lexemes[i]
  BY <1>2
<1> DEFINE x == r.fields[k].lexemes
<1>4. x \in Seq(STRING) /\ i \in DOMAIN x /\ x[i] \in LengthNames /\ i \in 1 .. Len(x)
  <2>1. x \in Seq(STRING)
    BY DEF IsLegal, IsHeaderOf
  <2> HIDE DEF x
  <2>2. i \in 1 .. Len(x) /\ x[i] \in LengthNames
    BY <1>3 DEF x
  <2> QED BY <2>1, <2>2
<1>5. r.fields[k].means = "length"
  <2>1. x[i] \in LexemesOf(r.fields[k])
    BY <1>4 DEF LexemesOf
  <2>2. LexemesOf(r.fields[k]) \cap LengthNames # {}
    BY <1>4, <2>1
  <2> QED BY <2>2 DEF IsUnderstood
<1>6. i = 1
  <2>1. IsLength(x, BodyLength(r))
    BY <1>5 DEF IsLegal, IsHeaderOf
  <2> HIDE DEF x
  <2>2. \A l \in 2 .. Len(x) : x[l] \in Blanks \cup DOMAIN DigitValue
    BY <2>1 DEF IsLength
  <2>3. \A l \in 2 .. Len(x) : x[l] \notin LengthNames
    BY <2>2, DigitLexemes
  <2>4. i \notin 2 .. Len(x)
    BY <1>4, <2>3
  <2> QED BY <1>4, <2>4
<1>7. ContentLengthValue(h, o + 2) = BodyLength(r)
  BY <1>1, <1>3, <1>5, LengthOfHeader
<1>8. p + 1 = o + 2
  BY <1>3, <1>6
<1> QED BY <1>7, <1>8

LEMMA ContentLengthOfHead ==
  ASSUME NEW r \in Requests, IsLegal(r), IsUnderstood(r), NEW h, HasShape(h, r),
         HeaderEnd(h) = Len(h)
  PROVE  ContentLength(h) = BodyLength(r)
<1>1. h \in Seq(STRING) /\ Len(h) \in Nat /\ Len(h) >= 9
  BY DEF HasShape
<1> DEFINE E == {ExactLength}
           exact == NextOf(h, 8, E)
           any == NextOf(h, 8, LengthNames)
<1>2. E \subseteq LengthNames
  BY DEF LengthNames
<1>3. LineEnd(h) + 2 = 8 /\ 8 \in Nat \ {0}
  BY FirstLineOfHead
<1>4. ContentLength(h) = CASE exact <= Len(h) -> ContentLengthValue(h, exact + 1)
                           [] exact > Len(h) /\ any <= Len(h) -> ContentLengthValue(h, any + 1)
                           [] OTHER -> 0
  <2>1. ContentLength(h) = FindContentLength(h, 8, Len(h))
    BY <1>3 DEF ContentLength
  <2> QED BY <2>1 DEF FindContentLength
<1> HIDE DEF E
<1>5. /\ exact \in Nat
      /\ (exact = Len(h) + 1) \/ (exact \in 8 .. Len(h) /\ h[exact] \in E)
  BY <1>1, <1>3, NextOfIsFirst
<1>6. /\ any \in Nat
      /\ (any = Len(h) + 1) \/ (any \in 8 .. Len(h) /\ h[any] \in LengthNames)
      /\ \A q \in 8 .. Len(h) : h[q] \in LengthNames => any <= q
  BY <1>1, <1>3, NextOfIsFirst
<1> HIDE DEF exact, any
<1>7. CASE exact <= Len(h)
  <2>1. exact \in 8 .. Len(h) /\ h[exact] \in LengthNames
    BY <1>1, <1>2, <1>5, <1>7
  <2>2. ContentLengthValue(h, exact + 1) = BodyLength(r)
    BY <2>1, OnlyTheLength
  <2>3. ~(exact > Len(h))
    BY <1>1, <1>5, <1>7
  <2> QED BY <1>4, <1>7, <2>2, <2>3
<1>8. CASE exact > Len(h) /\ any <= Len(h)
  <2>1. any \in 8 .. Len(h) /\ h[any] \in LengthNames
    BY <1>1, <1>6, <1>8
  <2>2. ContentLengthValue(h, any + 1) = BodyLength(r)
    BY <2>1, OnlyTheLength
  <2>3. ~(exact <= Len(h))
    BY <1>1, <1>5, <1>8
  <2> QED BY <1>4, <1>8, <2>2, <2>3
<1>9. CASE exact > Len(h) /\ any > Len(h)
  <2>1. ~(exact <= Len(h)) /\ ~(any <= Len(h))
    BY <1>1, <1>5, <1>6, <1>9
  <2>2. ContentLength(h) = 0
    BY <1>4, <2>1
  <2>3. ASSUME NEW k \in DOMAIN r.fields, r.fields[k].means = "length" PROVE FALSE
    <3>1. PICK o \in Nat : FieldAt(h, r, k, o)
      BY DEF HasShape
    <3> DEFINE x == r.fields[k].lexemes
               n == Len(r.fields[k].lexemes)
    <3>2. n > 1 /\ x[1] \in LengthNames
      <4>1. IsHeaderOf(r, r.fields[k])
        BY DEF IsLegal
      <4>2. x \in Seq(STRING) /\ x[1] \in LengthField /\ IsLength(x, BodyLength(r))
        BY <2>3, <4>1 DEF IsHeaderOf
      <4>3. LengthField \subseteq LengthNames
        BY DEF LengthField, LengthNames, ExactLength
      <4> HIDE DEF x
      <4>4. Len(x) > 1
        BY <4>2 DEF IsLength
      <4> QED BY <4>2, <4>3, <4>4 DEF x
    <3>3. /\ o >= 7 /\ n \in Nat /\ o + n + 2 <= Len(h) - 2
          /\ \A q \in 1 .. n : h[o + q] = x[q]
      BY <3>1 DEF FieldAt
    <3> HIDE DEF n, x
    <3>4. o + 1 \in 8 .. Len(h) /\ h[o + 1] = x[1]
      BY <1>1, <3>2, <3>3
    <3>5. any <= o + 1
      BY <1>6, <3>2, <3>4
    <3> QED BY <1>1, <1>6, <1>9, <3>4, <3>5
  <2>4. BodyLength(r) = 0
    BY <2>3 DEF IsLegal
  <2> QED BY <2>2, <2>4
<1>10. exact <= Len(h) \/ (exact > Len(h) /\ any <= Len(h)) \/ (exact > Len(h) /\ any > Len(h))
  BY <1>1, <1>5, <1>6
<1> QED BY <1>7, <1>8, <1>9, <1>10

LEMMA KeepAliveOfHead ==
  ASSUME NEW r \in Requests, IsLegal(r), IsUnderstood(r), NEW h, HasShape(h, r),
         HeaderEnd(h) = Len(h)
  PROVE  KeepAlive(h) = (AssumeKeepAlive \/ ~Means(r, "close"))
<1>1. h \in Seq(STRING) /\ Len(h) \in Nat /\ Len(h) >= 9
  BY DEF HasShape
<1> DEFINE c == NextOf(h, 1, CloseHeaders)
<1>2. /\ c \in Nat
      /\ (c = Len(h) + 1) \/ (c \in 1 .. Len(h) /\ h[c] \in CloseHeaders)
      /\ \A q \in 1 .. Len(h) : h[q] \in CloseHeaders => c <= q
  <2>1. 1 \in Nat \ {0}
    OBVIOUS
  <2> QED BY <1>1, <2>1, NextOfIsFirst
<1> HIDE DEF c
<1>3. ASSUME c <= Len(h) PROVE Means(r, "close")
  <2>1. c \in 1 .. Len(h) /\ h[c] \in CloseHeaders
    BY <1>1, <1>2, <1>3
  <2>2. c \notin 1 .. 7
    <3>1. h[6] = "CR" /\ h[7] = "LF"
      BY DEF HasShape
    <3>2. \A i \in 1 .. 5 : h[i] \in {"GET", "POST", " ", "/ready", "/fraud-score", "HTTP/1.1"}
      <4> DEFINE l == r.line
                 V == {"GET", "POST", " ", "/ready", "/fraud-score", "HTTP/1.1"}
      <4>1. \/ l = <<"GET", " ", "/ready", " ", "HTTP/1.1">>
            \/ l = <<"POST", " ", "/fraud-score", " ", "HTTP/1.1">>
        BY DEF IsLegal
      <4>2. \A i \in 1 .. 5 : h[i] = l[i]
        BY DEF HasShape
      <4>3. l[1] \in V /\ l[2] \in V /\ l[3] \in V /\ l[4] \in V /\ l[5] \in V
        <5>1. /\ "GET" \in V /\ "POST" \in V /\ " " \in V
              /\ "/ready" \in V /\ "/fraud-score" \in V /\ "HTTP/1.1" \in V
          OBVIOUS
        <5> HIDE DEF l, V
        <5>2. CASE l = <<"GET", " ", "/ready", " ", "HTTP/1.1">>
          BY <5>1, <5>2
        <5>3. CASE l = <<"POST", " ", "/fraud-score", " ", "HTTP/1.1">>
          BY <5>1, <5>3
        <5> QED BY <4>1, <5>2, <5>3
      <4> HIDE DEF l, V
      <4>4. \A i \in 1 .. 5 : h[i] \in V
        BY <4>2, <4>3
      <4> QED BY <4>4 DEF V
    <3>3. \A i \in 1 .. 7 : h[i] \notin CloseHeaders
      <4>1. \A i \in 1 .. 7 :
              h[i] \in {"CR", "LF", "GET", "POST", " ", "/ready", "/fraud-score", "HTTP/1.1"}
        <5> TAKE i \in 1 .. 7
        <5>1. i \in 1 .. 5 \/ i = 6 \/ i = 7
          OBVIOUS
        <5> QED BY <3>1, <3>2, <5>1
      <4>2. \A x \in {"CR", "LF", "GET", "POST", " ", "/ready", "/fraud-score", "HTTP/1.1"} :
              x \notin CloseHeaders
        BY DEF CloseHeaders
      <4> QED BY <4>1, <4>2
    <3> QED BY <2>1, <3>3
  <2>3. c \in 8 .. Len(h) /\ h[c] \notin {"CR", "LF"}
    <3>1. c \in 8 .. Len(h)
      BY <1>1, <2>1, <2>2
    <3>2. \A x \in CloseHeaders : x \notin {"CR", "LF"}
      BY DEF CloseHeaders
    <3> QED BY <2>1, <3>1, <3>2
  <2>4. PICK k \in DOMAIN r.fields, o \in Nat : \E i \in 1 .. Len(r.fields[k].lexemes) :
          FieldAt(h, r, k, o) /\ c = o + i /\ h[c] = r.fields[k].lexemes[i]
    BY <2>3, BehindFirstLine
  <2>5. PICK i \in 1 .. Len(r.fields[k].lexemes) : h[c] = r.fields[k].lexemes[i]
    BY <2>4
  <2>6. IsHeaderOf(r, r.fields[k])
    BY DEF IsLegal
  <2>7. h[c] \in LexemesOf(r.fields[k])
    <3> DEFINE x == r.fields[k].lexemes
    <3>1. x \in Seq(STRING)
      BY <2>6 DEF IsHeaderOf
    <3>2. i \in 1 .. Len(x)
      OBVIOUS
    <3> HIDE DEF x
    <3>3. i \in DOMAIN x
      BY <3>1, <3>2
    <3> QED BY <2>5, <3>3 DEF LexemesOf, x
  <2>8. r.fields[k].means = "close"
    BY <2>1, <2>7 DEF IsUnderstood
  <2> QED BY <2>8 DEF Means
<1>4. ASSUME Means(r, "close") PROVE c <= Len(h)
  <2>1. PICK k \in DOMAIN r.fields : r.fields[k].means = "close"
    BY <1>4 DEF Means
  <2> DEFINE x == r.fields[k].lexemes
             n == Len(r.fields[k].lexemes)
  <2>2. x \in Seq(STRING) /\ LexemesOf(r.fields[k]) \cap CloseHeaders # {}
    BY <2>1 DEF IsLegal, IsHeaderOf, IsUnderstood
  <2>3. PICK i \in DOMAIN x : x[i] \in CloseHeaders
    BY <2>2 DEF LexemesOf
  <2>4. PICK o \in Nat : FieldAt(h, r, k, o)
    BY DEF HasShape
  <2>5. /\ o >= 7 /\ n \in Nat /\ o + n + 2 <= Len(h) - 2
        /\ \A q \in 1 .. n : h[o + q] = x[q]
    BY <2>4 DEF FieldAt
  <2>6. i \in 1 .. n
    BY <2>2, <2>3
  <2> HIDE DEF x, n
  <2>7. o + i \in 1 .. Len(h) /\ h[o + i] \in CloseHeaders
    BY <1>1, <2>3, <2>5, <2>6
  <2> QED BY <1>1, <1>2, <2>7
<1>5. c > Len(h) <=> ~Means(r, "close")
  BY <1>1, <1>2, <1>3, <1>4
<1>6. KeepAlive(h) = (AssumeKeepAlive \/ c > Len(h))
  BY DEF KeepAlive, c
<1> QED BY <1>5, <1>6
LEMMA EncodedLength ==
  ASSUME NEW r \in Requests
  PROVE  Len(Encoded(r)) = Len(HeadOf(r)) + BodyLength(r) /\ Len(HeadOf(r)) \in Nat \ {0}
<1> DEFINE h == HeadOf(r)
           n == BodyLength(r)
           W == STRING \cup {"byte"}
           b == [k \in 1 .. n |-> "byte"]
<1>1. h \in Seq(STRING) /\ h # << >> /\ n \in Nat
  BY StreamAssumption
<1>2. b \in Seq(W) /\ Len(b) = n
  <2> HIDE DEF n
  <2>1. \A k \in 1 .. n : b[k] \in W
    OBVIOUS
  <2> HIDE DEF W
  <2> QED BY <1>1, <2>1
<1>3. STRING \subseteq W
  OBVIOUS
<1> HIDE DEF W, b, h, n
<1>4. h \in Seq(W)
  BY <1>1, <1>3, SeqOfMore
<1>5. Len(h \o b) = Len(h) + Len(b)
  BY <1>2, <1>4, ConcatProperties
<1>6. Encoded(r) = h \o b
  BY Zenon DEF Encoded, h, b, n
<1>7. Len(h) \in Nat /\ Len(h) # 0
  BY <1>1
<1> QED BY <1>2, <1>5, <1>6, <1>7 DEF h, n

(* What the parser decides on a beginning of a stream that starts with a   *)
(* legal request it understands.                                           *)
LEMMA BeginningIsFramed ==
  ASSUME NEW r \in Requests, IsLegal(r), IsUnderstood(r),
         NEW s \in Seq(STRING), Begins(HeadOf(r), s),
         NEW p \in Seq(STRING), Begins(p, s)
  PROVE  ParseRequest(p) =
           IF Len(p) >= Len(HeadOf(r)) /\ IsTooLong(r) THEN Reject("bad_request")
           ELSE IF Len(p) < Len(Encoded(r)) THEN NeedMore
           ELSE [kind |-> "complete", method |-> r.method,
                 from |-> Len(HeadOf(r)), to |-> Len(Encoded(r)),
                 keepAlive |-> AssumeKeepAlive \/ ~Means(r, "close")]
<1> DEFINE h == HeadOf(r)
           n == BodyLength(r)
           N == Len(h)
           whole == Len(Encoded(r))
           got == Len(p)
           taken == [kind |-> "complete", method |-> r.method, from |-> N, to |-> whole,
                     keepAlive |-> AssumeKeepAlive \/ ~Means(r, "close")]
           long == IsTooLong(r)
           refusal == Reject("bad_request")
           d == ParseRequest(p)
<1>2. h \in Seq(STRING) /\ HeaderEnd(h) = N /\ n \in Nat /\ HasShape(h, r)
  BY StreamAssumption, HeadHasShape
<1>3. whole = N + n /\ N \in Nat /\ N # 0 /\ got \in Nat
  BY EncodedLength
<1> HIDE DEF h, n, N, whole, got, taken, long, refusal, d
<1>6. ASSUME N <= got PROVE Begins(h, p)
  <2>1. \A k \in 1 .. N : h[k] = p[k]
    <3>1. /\ \A k \in 1 .. Len(h) : h[k] = s[k]
          /\ \A k \in 1 .. Len(p) : p[k] = s[k]
      BY DEF Begins, h
    <3> QED BY <1>3, <1>6, <3>1 DEF N, got
  <2> QED BY <1>2, <1>6, <2>1 DEF Begins, N, got
<1>7. HeaderEnd(h) # 0
  BY <1>2, <1>3
<1>8. CASE HeaderEnd(p) = 0
  <2>1. d = NeedMore
    BY <1>8 DEF ParseRequest, d
  <2>2. got < N
    <3>1. ASSUME N <= got PROVE FALSE
      <4>1. HeaderEnd(p) = HeaderEnd(h)
        BY <1>6, <1>7, <3>1, HeaderEndAgrees
      <4> QED BY <1>7, <1>8, <4>1
    <3> QED BY <1>3, <3>1
  <2>3. got < whole /\ ~(got >= N)
    BY <1>2, <1>3, <2>2
  <2>4. d = IF got >= N /\ long THEN refusal ELSE IF got < whole THEN NeedMore ELSE taken
    BY <2>1, <2>3
  <2> QED BY <2>4 DEF whole, N, h, d, got, taken, long, refusal
<1>9. CASE HeaderEnd(p) # 0
  <2>1. HeaderEnd(p) = N /\ N <= got
    <3>1. HeaderEnd(s) = HeaderEnd(p)
      BY <1>9, HeaderEndAgrees
    <3>2. HeaderEnd(s) = HeaderEnd(h)
      BY <1>7, HeaderEndAgrees DEF h
    <3>3. HeaderEnd(p) <= Len(p)
      BY <1>9, HeaderEndIsFirst
    <3> QED BY <1>2, <3>1, <3>2, <3>3 DEF got
  <2>2. Begins(h, p)
    BY <1>6, <2>1
  <2>3. /\ FirstLineIsRequest(h) /\ Method(h) = <<r.method>>
        /\ Method(h) = <<"GET">> => RequestPath(h) = <<"/ready">>
        /\ Method(h) = <<"POST">> => RequestPath(h) = <<"/fraud-score">>
        /\ ContentLength(h) = n
        /\ KeepAlive(h) = (AssumeKeepAlive \/ ~Means(r, "close"))
    <3>1. HeaderEnd(h) = Len(h)
      BY <1>2 DEF N
    <3> QED BY <1>2, <3>1, FirstLineOfHead, ContentLengthOfHead, KeepAliveOfHead DEF n
  <2>4. /\ FirstLineIsRequest(p) /\ Method(p) = <<r.method>> /\ RequestPath(p) = RequestPath(h)
        /\ ContentLength(p) = n
        /\ KeepAlive(p) = (AssumeKeepAlive \/ ~Means(r, "close"))
    BY <1>7, <2>2, <2>3, FirstLineAgrees, ContentLengthAgrees, KeepAliveAgrees
  <2>5. Method(h) = <<"GET">> \/ Method(h) = <<"POST">>
    BY <2>3 DEF FirstLineIsRequest
  <2>6. EarlyRejection(Method(p), RequestPath(p), n) = IF long THEN refusal ELSE NeedMore
    <3>1. CASE Method(h) = <<"GET">>
      <4>1. Method(p) = <<"GET">> /\ RequestPath(p) = <<"/ready">>
        BY <2>3, <2>4, <3>1
      <4>2. <<"GET">> # <<"POST">>
        OBVIOUS
      <4>3. ~long
        <5>1. r.method = "GET"
          BY <2>3, <3>1
        <5> QED BY <5>1 DEF long, IsTooLong
      <4> QED BY <4>1, <4>2, <4>3 DEF EarlyRejection
    <3>2. CASE Method(h) = <<"POST">>
      <4>1. Method(p) = <<"POST">> /\ RequestPath(p) = <<"/fraud-score">>
        BY <2>3, <2>4, <3>2
      <4>2. <<"GET">> # <<"POST">>
        OBVIOUS
      <4>3. long <=> ~(n <= MAX_BODY_LEN)
        <5>1. r.method = "POST"
          BY <2>3, <3>2
        <5> QED BY <1>2, <5>1, FramingAssumption DEF long, IsTooLong, n
      <4>4. EarlyRejection(Method(p), RequestPath(p), n) = IF n <= MAX_BODY_LEN THEN NeedMore ELSE refusal
        BY <4>1, <4>2 DEF EarlyRejection, refusal
      <4> QED BY <4>3, <4>4
    <3> QED BY <2>5, <3>1, <3>2
  <2>7. refusal # NeedMore
    <3>1. refusal.kind # NeedMore.kind
      BY DEF refusal, Reject, NeedMore
    <3> QED BY <3>1
  <2>8. d = IF long THEN refusal ELSE IF got < whole THEN NeedMore ELSE Complete(p, whole)
    <3>1. d = LET early == EarlyRejection(Method(p), RequestPath(p), n)
                  end == N + n
              IN IF early # NeedMore \/ Len(p) < end THEN early ELSE Complete(p, end)
      BY <1>9, <2>1, <2>4 DEF ParseRequest, d
    <3> QED BY <1>3, <2>6, <2>7, <3>1 DEF got
  <2>9. Complete(p, whole) = taken
    <3>1. Method(p)[1] = r.method
      BY <2>4
    <3> QED BY <2>1, <2>4, <3>1, Zenon DEF Complete, taken
  <2>10. got >= N
    BY <1>3, <2>1
  <2>11. d = IF got >= N /\ long THEN refusal ELSE IF got < whole THEN NeedMore ELSE taken
    BY <2>8, <2>9, <2>10
  <2> QED BY <2>11 DEF whole, N, h, d, got, taken, long, refusal
<1> QED BY <1>8, <1>9

LEMMA CutIsFramed == Cut => FramedAsSent
<1> DEFINE s == Stream
           p == SubSeq(s, 1, arrived)
           long == IsTooLong(sent)
           refusal == Reject("bad_request")
           head == Len(HeadOf(sent))
           whole == Len(Encoded(sent))
           taken == [kind |-> "complete", method |-> sent.method,
                     from |-> Len(HeadOf(sent)), to |-> Len(Encoded(sent)),
                     keepAlive |-> AssumeKeepAlive \/ ~Means(sent, "close")]
<1> SUFFICES ASSUME Cut, sent.legal, IsUnderstood(sent)
             PROVE  decision = IF arrived >= BUF_SIZE \/ (arrived >= head /\ long) THEN refusal
                               ELSE IF arrived < whole THEN NeedMore ELSE taken
  BY DEF FramedAsSent
<1>1. sent \in Requests /\ IsLegal(sent) /\ arrived \in 0 .. Len(s)
  BY LegalAssumption DEF Cut
<1>2. s \in Seq(STRING) /\ Len(s) \in Nat /\ Begins(HeadOf(sent), s)
  BY <1>1, StreamType DEF Stream
<1>3. decision = IF arrived >= BUF_SIZE THEN refusal ELSE ParseRequest(p)
  BY DEF Cut
<1> HIDE DEF s, refusal, long, head, whole, taken
<1>4. Begins(p, s) /\ p \in Seq(STRING) /\ Len(p) = arrived
  <2>1. Begins(p, s)
    BY <1>1, <1>2, StreamBegins
  <2>2. Len(p) = arrived
    <3>1. arrived = 0 \/ arrived \in 1 .. Len(s)
      BY <1>1, <1>2
    <3>2. CASE arrived = 0
      <4>1. p = << >>
        BY <3>2, SubSeqEmpty
      <4> QED BY <3>2, <4>1
    <3>3. CASE arrived \in 1 .. Len(s)
      BY <1>2, <3>3
    <3> QED BY <3>1, <3>2, <3>3
  <2> QED BY <2>1, <2>2 DEF Begins
<1> HIDE DEF p
<1>5. ParseRequest(p) = IF Len(p) >= head /\ long THEN refusal
                        ELSE IF Len(p) < whole THEN NeedMore ELSE taken
  BY <1>1, <1>2, <1>4, BeginningIsFramed DEF head, whole, taken, long, refusal
<1> QED BY <1>3, <1>4, <1>5

(* A legal request whose head the parser reads as it is meant is taken     *)
(* when its last byte is there and not before, with the body and the wish  *)
(* to close its client means (parse_request_result of                      *)
(* src/src/http/parser.rs), and refused if its body is too long or the     *)
(* buffer is full (evented.rs:286): for every such request, of any number  *)
(* of headers in any order and of any length, whatever follows it,         *)
(* wherever its stream is cut, and for every size of the buffer. Which     *)
(* legal heads the parser does not read as they are meant, IsUnderstood    *)
(* says.                                                                   *)
THEOREM LegalRequestsAreTaken == FrontSpec => []FramedAsSent
  BY OnlyABeginningIsRead, CutIsFramed, PTL
=============================================================================
