--------------------------- MODULE RoutingProofs ---------------------------
(***************************************************************************)
(* Routing for every text an operator or a sender may write.  Each trim,   *)
(* find and split of the code returns a slice of its argument; the lemmas  *)
(* say which one, and slices compose.                                      *)
(***************************************************************************)
EXTENDS Routing, Integers, SequenceTheorems, WellFoundedInduction, TLAPS

-----------------------------------------------------------------------------
(* The least and the greatest of a set of positions. *)

LEMMA LeastPosition ==
  ASSUME NEW S \in SUBSET Nat, S # {}
  PROVE  Min(S) \in S /\ \A i \in S : Min(S) <= i
<1> DEFINE R == OpToRel(<, Nat)
<1>1. IsWellFoundedOn(R, Nat)
  BY NatLessThanWellFounded
<1>2. \A x, y \in Nat : y < x => <<y, x>> \in R
  BY DEF OpToRel
<1> HIDE DEF R
<1>3. PICK x \in S : \A y \in S : ~ (<<y, x>> \in R)
  BY <1>1, WFMin
<1>4. \A y \in S : ~ (y < x)
  BY <1>2, <1>3
<1>5. \A y \in S : x =< y
  BY <1>4
<1> QED BY <1>5 DEF Min

LEMMA GreatestPosition ==
  ASSUME NEW n \in Nat, NEW S \in SUBSET (1 .. n), S # {}
  PROVE  Max(S) \in S /\ \A i \in S : i <= Max(S)
<1> DEFINE T == {n - i : i \in S}
<1>1. T \in SUBSET Nat /\ T # {}
  OBVIOUS
<1>2. Min(T) \in T /\ \A t \in T : Min(T) <= t
  BY <1>1, LeastPosition
<1>3. PICK x \in S : Min(T) = n - x
  BY <1>2
<1>4. \A y \in S : n - x <= n - y
  BY <1>2, <1>3
<1>5. \A y \in S : x >= y
  BY <1>4
<1>6. Max(S) \in S /\ \A y \in S : Max(S) >= y
  BY <1>5 DEF Max
<1> QED BY <1>6

-----------------------------------------------------------------------------
(* Slices. *)

\* t is s without its first k characters and some of its last ones.
IsSlice(t, s, k) ==
  /\ t \in Texts /\ k \in Nat /\ k + Len(t) <= Len(s)
  /\ \A i \in 1 .. Len(t) : t[i] = s[k + i]

LEMMA Positions ==
  ASSUME NEW s \in Texts
  PROVE  /\ Len(s) \in Nat /\ DOMAIN s = 1 .. Len(s)
         /\ \A i \in 1 .. Len(s) : s[i] \in Characters
         /\ s = <<>> <=> Len(s) = 0
BY DEF Texts

LEMMA SubSeqIsSlice ==
  ASSUME NEW s \in Texts, NEW m \in Nat \ {0}, NEW n \in Nat, n <= Len(s), m <= n + 1
  PROVE  /\ IsSlice(SubSeq(s, m, n), s, m - 1)
         /\ Len(SubSeq(s, m, n)) = n - m + 1
<1>1. \A i \in m .. n : s[i] \in Characters
  BY Positions
<1>2. /\ SubSeq(s, m, n) \in Seq(Characters)
      /\ Len(SubSeq(s, m, n)) = IF m <= n THEN n - m + 1 ELSE 0
      /\ \A i \in 1 .. n - m + 1 : SubSeq(s, m, n)[i] = s[m + i - 1]
  BY <1>1, SubSeqProperties
<1>3. Len(SubSeq(s, m, n)) = n - m + 1
  BY <1>2
<1>4. \A i \in 1 .. n - m + 1 : m + i - 1 = (m - 1) + i
  OBVIOUS
<1> QED BY <1>2, <1>3, <1>4, Positions DEF IsSlice, Texts

\* A text with the characters of a slice is that slice.
LEMMA SliceIsSubSeq ==
  ASSUME NEW s \in Texts, NEW t, NEW k, IsSlice(t, s, k)
  PROVE  t = SubSeq(s, k + 1, k + Len(t))
<1>1. t \in Texts /\ k \in Nat /\ Len(t) \in Nat /\ k + Len(t) <= Len(s)
  BY Positions DEF IsSlice
<1> DEFINE u == SubSeq(s, k + 1, k + Len(t))
<1>2. IsSlice(u, s, (k + 1) - 1) /\ Len(u) = (k + Len(t)) - (k + 1) + 1
  BY <1>1, SubSeqIsSlice
<1> HIDE DEF u
<1>3. Len(u) = Len(t) /\ (k + 1) - 1 = k /\ u \in Texts
  BY <1>1, <1>2 DEF IsSlice
<1>4. \A i \in 1 .. Len(t) : t[i] = u[i]
  BY <1>2, <1>3 DEF IsSlice
<1> QED BY <1>1, <1>3, <1>4, SeqEqual DEF Texts, u

LEMMA SliceOfItself ==
  ASSUME NEW s \in Texts
  PROVE  IsSlice(s, s, 0)
BY Positions DEF IsSlice

LEMMA SliceOfSlice ==
  ASSUME NEW s \in Texts, NEW t, NEW u, NEW k, NEW l, IsSlice(t, s, k), IsSlice(u, t, l)
  PROVE  IsSlice(u, s, k + l)
<1>1. /\ t \in Texts /\ u \in Texts /\ k \in Nat /\ l \in Nat
      /\ Len(s) \in Nat /\ Len(t) \in Nat /\ Len(u) \in Nat
      /\ k + Len(t) <= Len(s) /\ l + Len(u) <= Len(t)
  BY Positions DEF IsSlice
<1>2. ASSUME NEW i \in 1 .. Len(u) PROVE u[i] = s[(k + l) + i]
  <2>1. u[i] = t[l + i] /\ l + i \in 1 .. Len(t)
    BY <1>1 DEF IsSlice
  <2>2. t[l + i] = s[k + (l + i)]
    BY <2>1 DEF IsSlice
  <2>3. k + (l + i) = (k + l) + i
    BY <1>1
  <2> QED BY <2>1, <2>2, <2>3
<1> QED BY <1>1, <1>2 DEF IsSlice

LEMMA LowerText ==
  ASSUME NEW s \in Texts
  PROVE  /\ Lower(s) \in Texts /\ Len(Lower(s)) = Len(s)
         /\ \A i \in 1 .. Len(s) : Lower(s)[i] = IF s[i] = "A" THEN "a" ELSE s[i]
<1>1. DOMAIN s = 1 .. Len(s) /\ Len(s) \in Nat /\ \A i \in 1 .. Len(s) : s[i] \in Characters
  BY Positions
<1>2. Lower(s) = [i \in 1 .. Len(s) |-> IF s[i] = "A" THEN "a" ELSE s[i]]
  BY <1>1 DEF Lower
<1>3. Lower(s) \in [1 .. Len(s) -> Characters]
  <2>1. "a" \in Characters
    BY RoutingAssumption
  <2>2. \A i \in 1 .. Len(s) : (IF s[i] = "A" THEN "a" ELSE s[i]) \in Characters
    BY <1>1, <2>1
  <2> QED BY <1>2, <2>2
<1>4. Lower(s) \in Seq(Characters) /\ Len(Lower(s)) = Len(s)
  BY <1>1, <1>3
<1> QED BY <1>2, <1>4 DEF Texts

-----------------------------------------------------------------------------
(* The trims and splits. *)

LEMMA FirstOf ==
  ASSUME NEW s \in Texts, NEW S \in SUBSET DOMAIN s, S # {}
  PROVE  /\ Min(S) \in S /\ Min(S) \in 1 .. Len(s)
         /\ \A i \in 1 .. Min(S) - 1 : i \in DOMAIN s /\ i \notin S
<1>1. Len(s) \in Nat /\ DOMAIN s = 1 .. Len(s)
  BY Positions
<1>2. S \in SUBSET Nat
  BY <1>1
<1>3. Min(S) \in S /\ \A i \in S : Min(S) <= i
  BY <1>2, LeastPosition
<1>4. Min(S) \in 1 .. Len(s)
  BY <1>1, <1>3
<1>5. ASSUME NEW i \in 1 .. Min(S) - 1 PROVE i \in DOMAIN s /\ i \notin S
  <2>1. ~ (Min(S) <= i) /\ i \in 1 .. Len(s)
    BY <1>1, <1>4
  <2> QED BY <1>1, <1>3, <2>1
<1> QED BY <1>3, <1>4, <1>5

LEMMA LastOf ==
  ASSUME NEW s \in Texts, NEW S \in SUBSET DOMAIN s, S # {}
  PROVE  /\ Max(S) \in S /\ Max(S) \in 1 .. Len(s)
         /\ \A i \in Max(S) + 1 .. Len(s) : i \in DOMAIN s /\ i \notin S
<1>1. Len(s) \in Nat /\ DOMAIN s = 1 .. Len(s)
  BY Positions
<1>2. S \in SUBSET (1 .. Len(s))
  BY <1>1
<1>3. Max(S) \in S /\ \A i \in S : i <= Max(S)
  BY <1>1, <1>2, GreatestPosition
<1>4. Max(S) \in 1 .. Len(s)
  BY <1>1, <1>3
<1>5. ASSUME NEW i \in Max(S) + 1 .. Len(s) PROVE i \in DOMAIN s /\ i \notin S
  <2>1. ~ (i <= Max(S)) /\ i \in 1 .. Len(s)
    BY <1>1, <1>4
  <2> QED BY <1>1, <1>3, <2>1
<1> QED BY <1>3, <1>4, <1>5

\* trim_start_matches: exactly the leading characters of that kind go.
LEMMA TrimStartSlice ==
  ASSUME NEW s \in Texts, NEW char
  PROVE  \E k \in 0 .. Len(s) :
           /\ IsSlice(TrimStart(s, char), s, k)
           /\ Len(TrimStart(s, char)) = Len(s) - k
           /\ \A i \in 1 .. k : s[i] = char
           /\ k < Len(s) => s[k + 1] # char
<1> DEFINE kept == {i \in DOMAIN s : s[i] # char}
<1>1. Len(s) \in Nat /\ kept \subseteq 1 .. Len(s)
  BY Positions
<1>2. CASE kept = {}
  <2>1. TrimStart(s, char) = <<>>
    BY <1>2 DEF TrimStart
  <2>2. <<>> \in Texts /\ Len(<<>>) = 0
    BY EmptySeq DEF Texts
  <2>3. \A i \in 1 .. Len(s) : s[i] = char
    BY <1>2, Positions
  <2> QED BY <1>1, <2>1, <2>2, <2>3 DEF IsSlice
<1>3. CASE kept # {}
  <2>1. PICK m : m = Min(kept)
    OBVIOUS
  <2>2. /\ m \in 1 .. Len(s) /\ m \in kept
        /\ \A i \in 1 .. m - 1 : i \in DOMAIN s /\ i \notin kept
    BY <1>3, <2>1, FirstOf
  <2>3. TrimStart(s, char) = SubSeq(s, m, Len(s))
    BY <1>3, <2>1 DEF TrimStart
  <2>4. /\ IsSlice(SubSeq(s, m, Len(s)), s, m - 1)
        /\ Len(SubSeq(s, m, Len(s))) = Len(s) - m + 1
    BY <1>1, <2>2, SubSeqIsSlice
  <2>5. \A i \in 1 .. m - 1 : s[i] = char
    BY <2>2
  <2>6. m - 1 \in 0 .. Len(s) /\ (m - 1) + 1 = m /\ Len(s) - m + 1 = Len(s) - (m - 1)
    BY <1>1, <2>2
  <2> QED BY <2>2, <2>3, <2>4, <2>5, <2>6
<1> QED BY <1>2, <1>3

\* trim_end_matches: exactly the trailing characters of that kind go.
LEMMA TrimEndSlice ==
  ASSUME NEW s \in Texts, NEW char
  PROVE  /\ IsSlice(TrimEnd(s, char), s, 0)
         /\ \A i \in Len(TrimEnd(s, char)) + 1 .. Len(s) : s[i] = char
         /\ TrimEnd(s, char) # <<>> => s[Len(TrimEnd(s, char))] # char
<1> DEFINE kept == {i \in DOMAIN s : s[i] # char}
<1>1. Len(s) \in Nat /\ kept \subseteq 1 .. Len(s)
  BY Positions
<1>2. CASE kept = {}
  <2>1. TrimEnd(s, char) = <<>>
    BY <1>2 DEF TrimEnd
  <2>2. <<>> \in Texts /\ Len(<<>>) = 0
    BY EmptySeq DEF Texts
  <2>3. \A i \in 1 .. Len(s) : s[i] = char
    BY <1>2, Positions
  <2> QED BY <1>1, <2>1, <2>2, <2>3 DEF IsSlice
<1>3. CASE kept # {}
  <2>1. PICK m : m = Max(kept)
    OBVIOUS
  <2>2. /\ m \in 1 .. Len(s) /\ m \in kept
        /\ \A i \in m + 1 .. Len(s) : i \in DOMAIN s /\ i \notin kept
    BY <1>3, <2>1, LastOf
  <2>3. TrimEnd(s, char) = SubSeq(s, 1, m)
    BY <1>3, <2>1 DEF TrimEnd
  <2>4. /\ IsSlice(SubSeq(s, 1, m), s, 1 - 1)
        /\ Len(SubSeq(s, 1, m)) = m - 1 + 1
    BY <1>1, <2>2, SubSeqIsSlice
  <2>5. \A i \in m + 1 .. Len(s) : s[i] = char
    BY <2>2
  <2>6. m - 1 + 1 = m /\ 1 - 1 = 0
    BY <2>2
  <2> QED BY <2>2, <2>3, <2>4, <2>5, <2>6
<1> QED BY <1>2, <1>3

\* t is s without such characters at both ends, the first k among them.
IsTrimmed(t, s, char, k) ==
  /\ k \in 0 .. Len(s) /\ IsSlice(t, s, k)
  /\ \A i \in 1 .. k : s[i] = char
  /\ \A i \in k + Len(t) + 1 .. Len(s) : s[i] = char
  /\ t # <<>> => t[1] # char /\ t[Len(t)] # char
  /\ k < Len(s) => s[k + 1] # char

\* trim and trim_matches: characters of that kind go at both ends.
LEMMA TrimBothSlice ==
  ASSUME NEW s \in Texts, NEW char, NEW t, t = TrimBoth(s, char)
  PROVE  \E k : IsTrimmed(t, s, char, k)
<1> DEFINE u == TrimStart(s, char)
<1>0. t = TrimEnd(u, char)
  BY DEF TrimBoth
<1>1. PICK k \in 0 .. Len(s) :
        /\ IsSlice(u, s, k)
        /\ Len(u) = Len(s) - k
        /\ \A i \in 1 .. k : s[i] = char
        /\ k < Len(s) => s[k + 1] # char
  BY TrimStartSlice
<1>2. u \in Texts /\ Len(s) \in Nat
  BY <1>1, Positions DEF IsSlice
<1>3. /\ IsSlice(t, u, 0)
      /\ \A i \in Len(t) + 1 .. Len(u) : u[i] = char
      /\ t # <<>> => u[Len(t)] # char
  BY <1>0, <1>2, TrimEndSlice
<1> HIDE DEF u
<1>4. IsSlice(t, s, k)
  <2>1. IsSlice(t, s, k + 0)
    BY <1>1, <1>3, SliceOfSlice
  <2> QED BY <2>1
<1>5. t \in Texts /\ Len(t) \in Nat /\ Len(t) <= Len(u) /\ Len(u) \in Nat
  BY <1>2, <1>3, Positions DEF IsSlice
<1>6. ASSUME NEW i \in k + Len(t) + 1 .. Len(s) PROVE s[i] = char
  <2>1. i - k \in Len(t) + 1 .. Len(u) /\ i - k \in 1 .. Len(u) /\ k + (i - k) = i
    BY <1>1, <1>2, <1>5
  <2>2. u[i - k] = char
    BY <1>3, <2>1
  <2>3. u[i - k] = s[k + (i - k)]
    BY <1>1, <2>1 DEF IsSlice
  <2> QED BY <2>1, <2>2, <2>3
<1>7. ASSUME t # <<>> PROVE t[1] # char /\ t[Len(t)] # char
  <2>1. Len(t) # 0 /\ Len(t) \in 1 .. Len(u) /\ 1 \in 1 .. Len(t) /\ Len(t) \in 1 .. Len(t)
    BY <1>5, <1>7, Positions
  <2>2. t[1] = u[1] /\ t[Len(t)] = u[Len(t)]
    BY <1>3, <2>1 DEF IsSlice
  <2>3. u[1] = s[k + 1] /\ k < Len(s)
    BY <1>1, <1>2, <2>1 DEF IsSlice
  <2> QED BY <1>1, <1>3, <1>7, <2>2, <2>3
<1> QED BY <1>1, <1>4, <1>6, <1>7 DEF IsTrimmed

\* find, or split and next: the text up to the first of these characters.
LEMMA BeforeSlice ==
  ASSUME NEW s \in Texts, NEW chars
  PROVE  /\ IsSlice(Before(s, chars), s, 0)
         /\ \A i \in 1 .. Len(Before(s, chars)) : s[i] \notin chars
         /\ Len(Before(s, chars)) < Len(s) => s[Len(Before(s, chars)) + 1] \in chars
<1> DEFINE at == {i \in DOMAIN s : s[i] \in chars}
<1>1. Len(s) \in Nat /\ at \subseteq 1 .. Len(s)
  BY Positions
<1>2. CASE at = {}
  <2>1. Before(s, chars) = s
    BY <1>2 DEF Before
  <2> QED BY <1>1, <1>2, <2>1, Positions, SliceOfItself
<1>3. CASE at # {}
  <2>1. PICK m : m = Min(at)
    OBVIOUS
  <2>2. /\ m \in 1 .. Len(s) /\ m \in at
        /\ \A i \in 1 .. m - 1 : i \in DOMAIN s /\ i \notin at
    BY <1>3, <2>1, FirstOf
  <2>3. Before(s, chars) = SubSeq(s, 1, m - 1)
    BY <1>3, <2>1 DEF Before
  <2>4. /\ IsSlice(SubSeq(s, 1, m - 1), s, 1 - 1)
        /\ Len(SubSeq(s, 1, m - 1)) = (m - 1) - 1 + 1
    BY <1>1, <2>2, SubSeqIsSlice
  <2>5. \A i \in 1 .. m - 1 : s[i] \notin chars
    BY <2>2
  <2>6. (m - 1) - 1 + 1 = m - 1 /\ 1 - 1 = 0 /\ (m - 1) + 1 = m
    BY <2>2
  <2> QED BY <2>2, <2>3, <2>4, <2>5, <2>6
<1> QED BY <1>2, <1>3

\* rfind: the text after the last "@", if there is one.
LEMMA AfterAtSlice ==
  ASSUME NEW s \in Texts
  PROVE  \/ AfterAt(s) = <<>> /\ \A i \in 1 .. Len(s) : s[i] # "@"
         \/ \E k \in 1 .. Len(s) :
              /\ AfterAt(s) = SubSeq(s, k + 1, Len(s))
              /\ IsSlice(AfterAt(s), s, k)
              /\ Len(AfterAt(s)) = Len(s) - k
              /\ s[k] = "@"
              /\ \A i \in k + 1 .. Len(s) : s[i] # "@"
<1> DEFINE at == {i \in DOMAIN s : s[i] = "@"}
<1>1. Len(s) \in Nat /\ at \subseteq 1 .. Len(s)
  BY Positions
<1>2. CASE at = {}
  BY <1>2, Positions DEF AfterAt
<1>3. CASE at # {}
  <2>1. PICK m : m = Max(at)
    OBVIOUS
  <2>2. /\ m \in 1 .. Len(s) /\ m \in at
        /\ \A i \in m + 1 .. Len(s) : i \in DOMAIN s /\ i \notin at
    BY <1>3, <2>1, LastOf
  <2>3. AfterAt(s) = SubSeq(s, m + 1, Len(s))
    BY <1>3, <2>1 DEF AfterAt
  <2>4. /\ IsSlice(SubSeq(s, m + 1, Len(s)), s, (m + 1) - 1)
        /\ Len(SubSeq(s, m + 1, Len(s))) = Len(s) - (m + 1) + 1
    BY <1>1, <2>2, SubSeqIsSlice
  <2>5. \A i \in m + 1 .. Len(s) : s[i] # "@"
    BY <2>2
  <2>6. (m + 1) - 1 = m /\ Len(s) - (m + 1) + 1 = Len(s) - m
    BY <1>1, <2>2
  <2> QED BY <2>2, <2>3, <2>4, <2>5, <2>6
<1> QED BY <1>2, <1>3

\* The text of the angle brackets, or all of it.
LEMMA AngledSlice ==
  ASSUME NEW s \in Texts
  PROVE  \/ Angled(s) = s /\ \A i \in 1 .. Len(s) : s[i] # "<"
         \/ \E k \in 1 .. Len(s) :
              /\ IsSlice(Angled(s), s, k)
              /\ s[k] = "<" /\ \A i \in 1 .. k - 1 : s[i] # "<"
              /\ \A i \in 1 .. Len(Angled(s)) : s[k + i] # ">"
              /\ k + Len(Angled(s)) < Len(s) => s[k + Len(Angled(s)) + 1] = ">"
<1> DEFINE open == {i \in DOMAIN s : s[i] = "<"}
<1>1. Len(s) \in Nat /\ DOMAIN s = 1 .. Len(s)
  BY Positions
<1>2. CASE open = {}
  BY <1>1, <1>2 DEF Angled
<1>3. CASE open # {}
  <2>1. PICK k : k = Min(open)
    OBVIOUS
  <2>2. /\ k \in 1 .. Len(s) /\ k \in open
        /\ \A i \in 1 .. k - 1 : i \in DOMAIN s /\ i \notin open
    BY <1>3, <2>1, FirstOf
  <2>3. PICK rest : rest = SubSeq(s, k + 1, Len(s))
    OBVIOUS
  <2>4. IsSlice(rest, s, k) /\ Len(rest) = Len(s) - k
    <3>1. /\ IsSlice(rest, s, (k + 1) - 1)
          /\ Len(rest) = Len(s) - (k + 1) + 1
      BY <1>1, <2>2, <2>3, SubSeqIsSlice
    <3>2. (k + 1) - 1 = k /\ Len(s) - (k + 1) + 1 = Len(s) - k
      BY <1>1, <2>2
    <3> QED BY <3>1, <3>2
  <2>5. PICK t : t = Before(rest, {">"}) /\ Angled(s) = t
    BY <1>3, <2>1, <2>3 DEF Angled
  <2>6. /\ IsSlice(t, rest, 0)
        /\ \A i \in 1 .. Len(t) : rest[i] \notin {">"}
        /\ Len(t) < Len(rest) => rest[Len(t) + 1] \in {">"}
    BY <2>4, <2>5, BeforeSlice DEF IsSlice
  <2>7. IsSlice(t, s, k)
    <3>1. IsSlice(t, s, k + 0)
      BY <2>4, <2>6, SliceOfSlice
    <3> QED BY <2>2, <3>1
  <2>8. Len(t) \in Nat /\ Len(t) <= Len(rest) /\ Len(rest) \in Nat
    BY <2>4, <2>6, Positions DEF IsSlice
  <2>9. \A i \in 1 .. Len(t) : s[k + i] # ">"
    BY <2>4, <2>6, <2>8 DEF IsSlice
  <2>10. ASSUME k + Len(t) < Len(s) PROVE s[k + Len(t) + 1] = ">"
    <3>1. Len(t) < Len(rest) /\ Len(t) + 1 \in 1 .. Len(rest)
      BY <1>1, <2>2, <2>4, <2>8, <2>10
    <3>2. rest[Len(t) + 1] = s[k + (Len(t) + 1)]
      BY <2>4, <3>1 DEF IsSlice
    <3>3. k + (Len(t) + 1) = k + Len(t) + 1
      BY <2>2, <2>8
    <3> QED BY <2>6, <3>1, <3>2, <3>3
  <2> QED BY <2>2, <2>5, <2>7, <2>9, <2>10
<1> QED BY <1>2, <1>3

-----------------------------------------------------------------------------
(* The form of a domain. *)

\* A domain as events have it: no white space or "@" before it, no white space or
\* dot after it, and no capital letters.
IsNormal(d) ==
  /\ d \in Texts /\ d # <<>>
  /\ d[1] \notin {" ", "@"}
  /\ d[Len(d)] \notin {" ", "."}
  /\ \A i \in 1 .. Len(d) : d[i] # "A"

LEMMA NormalIsLower ==
  ASSUME NEW d, IsNormal(d)
  PROVE  Lower(d) = d
<1>1. d \in Texts
  BY DEF IsNormal
<1>2. /\ Lower(d) \in Texts /\ Len(Lower(d)) = Len(d)
      /\ \A i \in 1 .. Len(d) : Lower(d)[i] = d[i]
  BY <1>1, LowerText DEF IsNormal
<1> QED BY <1>1, <1>2, SeqEqual DEF Texts

\* Three trims in a row return a slice.
LEMMA TrimsSlice ==
  ASSUME NEW s \in Texts, NEW c1, NEW c2, NEW c3
  PROVE  \E k : IsSlice(TrimBoth(TrimBoth(TrimBoth(s, c1), c2), c3), s, k)
<1>1. \A c : \A t \in Texts : \E k : IsSlice(TrimBoth(t, c), t, k) /\ TrimBoth(t, c) \in Texts
  <2> SUFFICES ASSUME NEW t \in Texts, NEW c
               PROVE  \E k : IsSlice(TrimBoth(t, c), t, k) /\ TrimBoth(t, c) \in Texts
    OBVIOUS
  <2>1. PICK k : IsSlice(TrimBoth(t, c), t, k)
    BY TrimBothSlice DEF IsTrimmed
  <2> QED BY <2>1 DEF IsSlice
<1>2. PICK t1 : t1 = TrimBoth(s, c1)
  OBVIOUS
<1>3. PICK t2 : t2 = TrimBoth(t1, c2)
  OBVIOUS
<1>4. PICK k1 : IsSlice(t1, s, k1) /\ t1 \in Texts
  BY <1>1, <1>2
<1>5. PICK k2 : IsSlice(t2, t1, k2) /\ t2 \in Texts
  BY <1>1, <1>3, <1>4
<1>6. PICK k3 : IsSlice(TrimBoth(t2, c3), t2, k3)
  BY <1>1, <1>5
<1>7. IsSlice(t2, s, k1 + k2)
  BY <1>4, <1>5, SliceOfSlice
<1>8. IsSlice(TrimBoth(t2, c3), s, (k1 + k2) + k3)
  BY <1>6, <1>7, SliceOfSlice
<1> QED BY <1>2, <1>3, <1>8

\* Nothing that normal form forbids is left of the text after the last "@".
LEMMA DomainTextIsNormal ==
  ASSUME NEW s \in Texts, \A i \in 1 .. Len(s) : s[i] # "@", DomainText(s) # <<>>
  PROVE  IsNormal(DomainText(s))
<1>1. PICK t : t = TrimBoth(TrimBoth(TrimBoth(s, " "), ">"), ";")
  OBVIOUS
<1>2. PICK u : u = Before(t, {",", " "})
  OBVIOUS
<1>3. PICK d : d = TrimEnd(u, ".")
  OBVIOUS
<1>4. PICK k : IsSlice(t, s, k)
  BY <1>1, TrimsSlice
<1>5. t \in Texts
  BY <1>4 DEF IsSlice
<1>6. /\ IsSlice(u, t, 0)
      /\ \A i \in 1 .. Len(u) : t[i] \notin {",", " "}
  BY <1>2, <1>5, BeforeSlice
<1>7. u \in Texts
  BY <1>6 DEF IsSlice
<1>8. IsSlice(d, u, 0) /\ (d # <<>> => u[Len(d)] # ".")
  BY <1>3, <1>7, TrimEndSlice
<1>9. DomainText(s) = Lower(d)
  BY <1>1, <1>2, <1>3 DEF DomainText
<1>10. d \in Texts /\ k \in Nat /\ k + Len(t) <= Len(s) /\ 0 + Len(u) <= Len(t)
       /\ 0 + Len(d) <= Len(u)
  BY <1>4, <1>6, <1>8 DEF IsSlice
<1>11. Len(d) \in Nat /\ Len(u) \in Nat /\ Len(t) \in Nat /\ Len(s) \in Nat
  BY <1>5, <1>7, <1>10, Positions
<1>12. /\ Lower(d) \in Texts /\ Len(Lower(d)) = Len(d)
       /\ \A i \in 1 .. Len(d) : Lower(d)[i] = IF d[i] = "A" THEN "a" ELSE d[i]
  BY <1>10, LowerText
<1>13. Len(d) \in Nat \ {0} /\ d # <<>>
  BY <1>9, <1>10, <1>11, <1>12, Positions
<1>14. ASSUME NEW i \in 1 .. Len(d) PROVE d[i] = u[i] /\ d[i] \notin {" ", "@"}
  <2>1. i \in 1 .. Len(u) /\ i \in 1 .. Len(t) /\ k + i \in 1 .. Len(s) /\ 0 + i = i
    BY <1>10, <1>11
  <2>2. d[i] = u[0 + i] /\ u[i] = t[0 + i] /\ t[i] = s[k + i]
    BY <1>4, <1>6, <1>8, <2>1 DEF IsSlice
  <2>3. d[i] = u[i] /\ d[i] = t[i] /\ d[i] = s[k + i]
    BY <2>1, <2>2
  <2> QED BY <1>6, <2>1, <2>3
<1>15. 1 \in 1 .. Len(d) /\ Len(d) \in 1 .. Len(d)
  BY <1>13
<1>16. d[1] \notin {" ", "@"} /\ d[Len(d)] \notin {" ", "."}
  BY <1>8, <1>13, <1>14, <1>15
<1>17. Lower(d) # <<>> /\ \A i \in 1 .. Len(d) : Lower(d)[i] # "A"
  BY <1>12, <1>13, Positions
<1>18. Lower(d)[1] \notin {" ", "@"} /\ Lower(d)[Len(d)] \notin {" ", "."}
  BY <1>12, <1>15, <1>16
<1> QED BY <1>9, <1>12, <1>17, <1>18 DEF IsNormal

\* What extract_email_domain returns is in normal form; its test for an "@" in the
\* domain never fires.
LEMMA ExtractedForm ==
  ASSUME NEW s \in Texts, ExtractEmailDomain(s) # Null
  PROVE  IsNormal(ExtractEmailDomain(s))
<1>1. PICK t : t = TrimBoth(s, " ")
  OBVIOUS
<1>2. t \in Texts
  BY <1>1, TrimBothSlice DEF IsTrimmed, IsSlice
<1>3. PICK a : a = Angled(t)
  OBVIOUS
<1>4. a \in Texts
  BY <1>2, <1>3, AngledSlice DEF IsSlice
<1>5. PICK c : c = TrimBoth(TrimBoth(TrimBoth(a, " "), "\""), "'")
  OBVIOUS
<1>6. c \in Texts
  BY <1>4, <1>5, TrimsSlice DEF IsSlice
<1>7. PICK d : d = AfterAt(c)
  OBVIOUS
<1>8. d \in Texts /\ \A i \in 1 .. Len(d) : d[i] # "@"
  <2>1. CASE d = <<>>
    BY <2>1, EmptySeq DEF Texts
  <2>2. CASE d # <<>>
    <3>1. PICK k \in 1 .. Len(c) :
            /\ IsSlice(d, c, k) /\ Len(d) = Len(c) - k
            /\ \A i \in k + 1 .. Len(c) : c[i] # "@"
      BY <1>6, <1>7, <2>2, AfterAtSlice
    <3>2. ASSUME NEW i \in 1 .. Len(d) PROVE d[i] # "@"
      <4>1. k + i \in k + 1 .. Len(c)
        BY <1>6, <3>1, Positions
      <4>2. d[i] = c[k + i]
        BY <3>1 DEF IsSlice
      <4> QED BY <3>1, <4>1, <4>2
    <3> QED BY <3>1, <3>2 DEF IsSlice
  <2> QED BY <2>1, <2>2
<1>9. ExtractEmailDomain(s) = IF DomainText(d) = <<>> THEN Null ELSE DomainText(d)
  BY <1>1, <1>3, <1>5, <1>7 DEF ExtractEmailDomain
<1> QED BY <1>8, <1>9, DomainTextIsNormal

-----------------------------------------------------------------------------
(* The configured text that names a domain. *)

\* The domain an operator's text names is what normalize_domain makes of it.
LEMMA BareIsNamed ==
  ASSUME NEW s \in Texts
  PROVE  /\ Bare(s) \in Texts
         /\ \A d : IsNormal(d) => (Lower(Bare(s)) = d <=> Names(s, d))
<1>1. PICK t : t = TrimBoth(s, " ")
  OBVIOUS
<1>2. PICK u : u = TrimStart(t, "@")
  OBVIOUS
<1>3. PICK b : b = TrimEnd(u, ".") /\ b = Bare(s)
  BY <1>1, <1>2 DEF Bare
<1>4. PICK k1 \in 0 .. Len(s) :
        /\ IsSlice(t, s, k1)
        /\ \A i \in 1 .. k1 : s[i] = " "
        /\ \A i \in k1 + Len(t) + 1 .. Len(s) : s[i] = " "
        /\ t # <<>> => t[1] # " " /\ t[Len(t)] # " "
        /\ k1 < Len(s) => s[k1 + 1] # " "
  <2>1. PICK k1 : IsTrimmed(t, s, " ", k1)
    BY <1>1, TrimBothSlice
  <2> QED BY <2>1 DEF IsTrimmed
<1>5. t \in Texts
  BY <1>4 DEF IsSlice
<1>6. PICK k2 \in 0 .. Len(t) :
        /\ IsSlice(u, t, k2)
        /\ Len(u) = Len(t) - k2
        /\ \A i \in 1 .. k2 : t[i] = "@"
        /\ k2 < Len(t) => t[k2 + 1] # "@"
  BY <1>2, <1>5, TrimStartSlice
<1>7. u \in Texts
  BY <1>6 DEF IsSlice
<1>8. /\ IsSlice(b, u, 0)
      /\ \A i \in Len(b) + 1 .. Len(u) : u[i] = "."
      /\ b # <<>> => u[Len(b)] # "."
  BY <1>3, <1>7, TrimEndSlice
<1>9. b \in Texts
  BY <1>8 DEF IsSlice
<1>10. /\ Len(s) \in Nat /\ Len(t) \in Nat /\ Len(u) \in Nat /\ Len(b) \in Nat
       /\ k1 \in Nat /\ k2 \in Nat
       /\ k1 + Len(t) <= Len(s) /\ Len(b) <= Len(u)
  <2>1. Len(s) \in Nat /\ Len(t) \in Nat /\ Len(u) \in Nat /\ Len(b) \in Nat
    BY <1>5, <1>7, <1>9, Positions
  <2>2. k1 \in 0 .. Len(s) /\ k2 \in 0 .. Len(t)
    OBVIOUS
  <2>3. k1 + Len(t) <= Len(s) /\ 0 + Len(b) <= Len(u)
    BY <1>4, <1>8 DEF IsSlice
  <2> QED BY <2>1, <2>2, <2>3
<1>11. PICK k, e : k = k1 + k2 /\ e = k1 + Len(t)
  OBVIOUS
<1>12. k \in Nat /\ e \in Nat /\ k + Len(u) = e /\ e <= Len(s) /\ k1 <= k
  BY <1>6, <1>10, <1>11
<1>13. \A i \in 1 .. Len(t) : t[i] = s[k1 + i]
  BY <1>4 DEF IsSlice
<1>14. \A i \in 1 .. Len(u) : u[i] = s[k + i]
  <2>1. IsSlice(u, s, k)
    BY <1>4, <1>6, <1>11, SliceOfSlice
  <2> QED BY <2>1 DEF IsSlice
<1>15. IsSlice(b, s, k)
  <2>1. IsSlice(u, s, k)
    BY <1>4, <1>6, <1>11, SliceOfSlice
  <2>2. IsSlice(b, s, k + 0)
    BY <1>8, <2>1, SliceOfSlice
  <2> QED BY <1>12, <2>2
\* The five parts of s: white space, "@", the bare text, dots, white space.
<1>16. /\ \A i \in 1 .. k1 : s[i] = " "
       /\ \A i \in k1 + 1 .. k : s[i] = "@"
       /\ \A i \in k + Len(b) + 1 .. e : s[i] = "."
       /\ \A i \in e + 1 .. Len(s) : s[i] = " "
  <2>1. ASSUME NEW i \in k1 + 1 .. k PROVE s[i] = "@"
    <3>1. i - k1 \in 1 .. k2 /\ i - k1 \in 1 .. Len(t) /\ k1 + (i - k1) = i
      BY <1>6, <1>10, <1>11
    <3>2. t[i - k1] = "@" /\ t[i - k1] = s[k1 + (i - k1)]
      BY <1>6, <1>13, <3>1
    <3> QED BY <3>1, <3>2
  <2>2. ASSUME NEW i \in k + Len(b) + 1 .. e PROVE s[i] = "."
    <3>1. i - k \in Len(b) + 1 .. Len(u) /\ i - k \in 1 .. Len(u) /\ k + (i - k) = i
      BY <1>10, <1>12
    <3>2. u[i - k] = "." /\ u[i - k] = s[k + (i - k)]
      BY <1>8, <1>14, <3>1
    <3> QED BY <3>1, <3>2
  <2> QED BY <1>4, <1>11, <2>1, <2>2
\* Each part ends where the code stops trimming.
<1>17. /\ k1 < Len(s) => s[k1 + 1] # " "
       /\ k < e => s[k + 1] # "@"
       /\ b # <<>> => s[k + Len(b)] # "."
       /\ k1 < e => s[e] # " "
  <2>1. ASSUME k < e PROVE s[k + 1] # "@"
    <3>1. k2 < Len(t) /\ k2 + 1 \in 1 .. Len(t) /\ k1 + (k2 + 1) = k + 1
      BY <1>6, <1>10, <1>11, <2>1
    <3>2. t[k2 + 1] = s[k1 + (k2 + 1)]
      BY <1>13, <3>1
    <3> QED BY <1>6, <3>1, <3>2
  <2>2. ASSUME b # <<>> PROVE s[k + Len(b)] # "."
    <3>1. Len(b) \in 1 .. Len(u)
      BY <1>9, <1>10, <2>2, Positions
    <3> QED BY <1>8, <1>14, <2>2, <3>1
  <2>3. ASSUME k1 < e PROVE s[e] # " "
    <3>1. Len(t) \in 1 .. Len(t) /\ Len(t) # 0
      BY <1>10, <1>11, <2>3
    <3>2. t # <<>>
      BY <1>5, <3>1, Positions
    <3> QED BY <1>4, <1>11, <1>13, <3>1, <3>2
  <2> QED BY <1>4, <2>1, <2>2, <2>3
<1>18. b = SubSeq(s, k + 1, k + Len(b))
  BY <1>15, SliceIsSubSeq
<1>19. ASSUME NEW d, IsNormal(d), Lower(b) = d PROVE Names(s, d)
  <2>1. Len(d) = Len(b)
    BY <1>9, <1>19, LowerText
  <2>2. /\ k \in 0 .. Len(s) - Len(d) /\ k1 \in 0 .. k /\ e \in k + Len(d) .. Len(s)
    BY <1>10, <1>12, <2>1
  <2>3. Lower(SubSeq(s, k + 1, k + Len(d))) = d
    BY <1>18, <1>19, <2>1
  <2> QED BY <1>16, <2>1, <2>2, <2>3 DEF Names, Repeats
<1>20. ASSUME NEW d, IsNormal(d), Names(s, d) PROVE Lower(b) = d
  <2>1. Len(d) \in Nat \ {0} /\ d \in Texts
    BY <1>20, Positions DEF IsNormal
  <2>2. PICK l, m, n :
          /\ l \in 0 .. Len(s) - Len(d) /\ m \in 0 .. l /\ n \in l + Len(d) .. Len(s)
          /\ Lower(SubSeq(s, l + 1, l + Len(d))) = d
          /\ \A i \in 1 .. m : s[i] = " "
          /\ \A i \in m + 1 .. l : s[i] = "@"
          /\ \A i \in l + Len(d) + 1 .. n : s[i] = "."
          /\ \A i \in n + 1 .. Len(s) : s[i] = " "
    <3>1. PICK l \in 0 .. Len(s) - Len(d) :
            /\ Lower(SubSeq(s, l + 1, l + Len(d))) = d
            /\ \E m \in 0 .. l : Repeats(s, 1, m, " ") /\ Repeats(s, m + 1, l, "@")
            /\ \E n \in l + Len(d) .. Len(s) :
                 Repeats(s, l + Len(d) + 1, n, ".") /\ Repeats(s, n + 1, Len(s), " ")
      BY <1>20 DEF Names
    <3>2. PICK m \in 0 .. l : Repeats(s, 1, m, " ") /\ Repeats(s, m + 1, l, "@")
      BY <3>1
    <3>3. PICK n \in l + Len(d) .. Len(s) :
            Repeats(s, l + Len(d) + 1, n, ".") /\ Repeats(s, n + 1, Len(s), " ")
      BY <3>1
    <3> QED BY <3>1, <3>2, <3>3 DEF Repeats
  <2>3. l \in Nat /\ m \in Nat /\ n \in Nat /\ m <= l /\ l + Len(d) <= n /\ n <= Len(s)
    <3>1. l \in 0 .. Len(s) - Len(d) /\ m \in 0 .. l /\ n \in l + Len(d) .. Len(s)
      BY <2>2
    <3>2. Len(s) \in Nat /\ Len(d) \in Nat
      BY <1>10, <2>1
    <3> QED BY <3>1, <3>2
  \* The ends of the named domain are no characters that are trimmed.
  <2>4. /\ s[l + 1] \notin {" ", "@"}
        /\ s[l + Len(d)] \notin {" ", "."}
    <3>1. PICK x : x = SubSeq(s, l + 1, l + Len(d))
      OBVIOUS
    <3>2. IsSlice(x, s, (l + 1) - 1) /\ Len(x) = (l + Len(d)) - (l + 1) + 1
      BY <2>1, <2>3, <3>1, SubSeqIsSlice, <1>10
    <3>3. x \in Texts /\ Len(x) = Len(d) /\ \A i \in 1 .. Len(d) : x[i] = s[l + i]
      <4>1. (l + 1) - 1 = l /\ (l + Len(d)) - (l + 1) + 1 = Len(d)
        BY <2>1, <2>3
      <4> QED BY <3>2, <4>1 DEF IsSlice
    <3>4. \A i \in 1 .. Len(d) : d[i] = IF x[i] = "A" THEN "a" ELSE x[i]
      <4>1. Lower(x) = d
        BY <2>2, <3>1
      <4> QED BY <3>3, <4>1, LowerText
    <3>5. 1 \in 1 .. Len(d) /\ Len(d) \in 1 .. Len(d)
      BY <2>1
    <3>6. d[1] \notin {" ", "@"} /\ d[Len(d)] \notin {" ", "."}
      BY <1>20 DEF IsNormal
    <3>7. x[1] \notin {" ", "@"} /\ x[Len(d)] \notin {" ", "."}
      BY <3>4, <3>5, <3>6
    <3> QED BY <3>3, <3>5, <3>7
  <2>5. s[m + 1] # " "
    <3>1. m = l \/ m + 1 \in m + 1 .. l
      BY <2>3
    <3> QED BY <2>2, <2>4, <3>1
  <2>6. k1 = m
    <3>1. ~ (m < k1)
      <4>1. m < k1 => m + 1 \in 1 .. k1
        BY <1>10, <2>3
      <4> QED BY <1>16, <2>5, <4>1
    <3>2. ~ (k1 < m)
      <4>1. k1 < m => k1 + 1 \in 1 .. m /\ k1 < Len(s)
        BY <1>10, <2>1, <2>3
      <4> QED BY <1>17, <2>2, <4>1
    <3> QED BY <1>10, <2>3, <3>1, <3>2
  <2>7. s[n] # " "
    <3>1. n = l + Len(d) \/ n \in l + Len(d) + 1 .. n
      BY <2>1, <2>3
    <3> QED BY <2>2, <2>4, <3>1
  <2>8. e = n
    <3>1. ~ (e < n)
      <4>1. e < n => n \in e + 1 .. Len(s)
        BY <1>12, <2>3
      <4> QED BY <1>16, <2>7, <4>1
    <3>2. ~ (n < e)
      <4>1. n < e => e \in n + 1 .. Len(s) /\ k1 < e
        BY <1>12, <2>1, <2>3, <2>6
      <4> QED BY <1>17, <2>2, <4>1
    <3> QED BY <1>12, <2>3, <3>1, <3>2
  <2>9. k = l
    <3>1. ~ (l < k)
      <4>1. l < k => l + 1 \in k1 + 1 .. k
        BY <1>12, <2>3, <2>6
      <4> QED BY <1>16, <2>4, <4>1
    <3>2. ~ (k < l)
      <4>1. k < l => k + 1 \in m + 1 .. l /\ k < e
        BY <1>12, <2>1, <2>3, <2>6, <2>8
      <4> QED BY <1>17, <2>2, <4>1
    <3> QED BY <1>12, <2>3, <3>1, <3>2
  <2>10. Len(b) = Len(d)
    <3>1. ~ (Len(b) < Len(d))
      <4>1. Len(b) < Len(d) => l + Len(d) \in k + Len(b) + 1 .. e
        BY <1>10, <2>1, <2>3, <2>8, <2>9
      <4> QED BY <1>16, <2>4, <4>1
    <3>2. ~ (Len(d) < Len(b))
      <4>1. Len(d) < Len(b) => k + Len(b) \in l + Len(d) + 1 .. n /\ Len(b) # 0
        BY <1>10, <1>12, <2>1, <2>3, <2>8, <2>9
      <4>2. Len(b) # 0 => b # <<>>
        BY <1>9, Positions
      <4> QED BY <1>17, <2>2, <4>1, <4>2
    <3> QED BY <1>10, <2>1, <3>1, <3>2
  <2> QED BY <1>18, <2>2, <2>9, <2>10
<1> QED BY <1>3, <1>9, <1>19, <1>20

-----------------------------------------------------------------------------
(* The inductive invariant: the stored destination is the normalised one, and the *)
(* decision is that of destination_matches on it.                                 *)

RouteInv ==
  /\ raw \in Destinations
  /\ route # Null => route = Normalize(raw) /\ IsValid(raw)
  /\ payload # Null =>
       /\ route # Null
       /\ payload \in Payloads(raw)
       /\ matched <=> Matches(route, payload)

\* The router matches with the destination it normalised, and only one that was
\* accepted (router.rs RouteMatcher::new, web.rs resend_webhook).
THEOREM RouteInvHolds == Spec => []RouteInv
<1>1. Init => RouteInv
  BY DEF Init, RouteInv
<1>2. RouteInv /\ [Next]_vars => RouteInv'
  <2> SUFFICES ASSUME RouteInv, [Next]_vars PROVE RouteInv'
    OBVIOUS
  <2>1. CASE Load
    <3>1. payload' = Null
      BY <2>1 DEF Load, RouteInv
    <3> QED BY <2>1, <3>1 DEF Load, RouteInv
  <2>2. CASE Route
    <3>1. /\ raw' = raw /\ route' = route /\ payload' \in Payloads(raw) /\ route # Null
          /\ matched' = Matches(route, payload')
      BY <2>2 DEF Route
    <3>2. matched' <=> Matches(route, payload')
      BY <3>1
    <3> QED BY <3>1, <3>2 DEF RouteInv
  <2>3. CASE UNCHANGED vars
    BY <2>3 DEF vars, RouteInv
  <2> QED BY <2>1, <2>2, <2>3 DEF Next
<1> QED BY <1>1, <1>2, PTL DEF Spec

\* What a payload is: texts, whose domains are in normal form.
LEMMA PayloadDomains ==
  ASSUME RouteInv, payload # Null
  PROVE  /\ raw.from \subseteq Texts /\ raw.to \subseteq Texts /\ raw.catchAll \in BOOLEAN
         /\ payload.from \in Texts \cup {Null} /\ payload.to \subseteq Texts
         /\ FromDomain(payload) # Null => IsNormal(FromDomain(payload))
         /\ \A d \in ToDomains(payload) : IsNormal(d)
<1>1. /\ raw.from \subseteq Texts /\ raw.to \subseteq Texts /\ raw.catchAll \in BOOLEAN
      /\ payload.from \in Texts \cup {Null} /\ payload.to \subseteq Texts
  BY RoutingAssumption DEF RouteInv
<1>2. FromDomain(payload) # Null => IsNormal(FromDomain(payload))
  BY <1>1, ExtractedForm DEF FromDomain
<1>3. \A d \in ToDomains(payload) : IsNormal(d)
  BY <1>1, ExtractedForm DEF ToDomains
<1> QED BY <1>1, <1>2, <1>3

\* Normalisation loses no criterion that passed validation, and adds no domain.
LEMMA CriterionIsKept ==
  ASSUME NEW texts \in SUBSET Texts, \A s \in texts : ~ IsEmptyDomain(s),
         NEW domains, \A d \in domains : IsNormal(d)
  PROVE  /\ NormalizeDomains(texts) = {} <=> texts = {}
         /\ NormalizeDomains(texts) \subseteq Texts
         /\ Satisfied(texts, domains)
              <=> (NormalizeDomains(texts) # {} => domains \cap NormalizeDomains(texts) # {})
<1>1. ASSUME NEW s \in texts
      PROVE  Lower(Bare(s)) \in NormalizeDomains(texts) /\ Lower(Bare(s)) \in Texts
  <2>1. Bare(s) \in Texts
    BY BareIsNamed
  <2>2. Bare(s) # <<>>
    BY DEF IsEmptyDomain, Bare
  <2>3. Lower(Bare(s)) \in Texts /\ Lower(Bare(s)) # <<>>
    BY <2>1, <2>2, LowerText, Positions
  <2> QED BY <2>3 DEF NormalizeDomains
<1>2. \A d \in NormalizeDomains(texts) : \E s \in texts : Lower(Bare(s)) = d
  BY DEF NormalizeDomains
<1>3. NormalizeDomains(texts) = {} <=> texts = {}
  BY <1>1, <1>2
<1>4. NormalizeDomains(texts) \subseteq Texts
  BY <1>1, <1>2
<1>5. \A d \in domains : d \in NormalizeDomains(texts) <=> \E s \in texts : Names(s, d)
  <2> TAKE d \in domains
  <2>1. \A s \in texts : Lower(Bare(s)) = d <=> Names(s, d)
    BY BareIsNamed
  <2> QED BY <1>1, <1>2, <2>1
<1>6. Satisfied(texts, domains)
        <=> (NormalizeDomains(texts) # {} => domains \cap NormalizeDomains(texts) # {})
  BY <1>3, <1>5 DEF Satisfied
<1> QED BY <1>3, <1>4, <1>6

\* An event is delivered exactly where the operator's own text asks for it, whatever
\* that text and the event are (router.rs destination_matches over normalize_domain,
\* config.rs validate_domains, resend.rs extract_email_domain).
THEOREM RoutesRight == Spec => []RoutesAsConfigured
<1>1. ASSUME RouteInv PROVE RoutesAsConfigured
  <2> SUFFICES ASSUME payload # Null
               PROVE  matched <=>
                        \/ raw.catchAll
                        \/ /\ raw.types = {} \/ payload.type \in raw.types
                           /\ Satisfied(raw.from, {FromDomain(payload)} \ {Null})
                           /\ Satisfied(raw.to, ToDomains(payload))
    BY DEF RoutesAsConfigured
  <2>1. /\ route = Normalize(raw) /\ IsValid(raw)
        /\ matched <=> Matches(route, payload)
    BY <1>1 DEF RouteInv
  <2>2. /\ raw.from \subseteq Texts /\ raw.to \subseteq Texts /\ raw.catchAll \in BOOLEAN
        /\ FromDomain(payload) # Null => IsNormal(FromDomain(payload))
        /\ \A d \in ToDomains(payload) : IsNormal(d)
    BY <1>1, PayloadDomains
  <2>3. \A s \in raw.from \cup raw.to : ~ IsEmptyDomain(s)
    BY <2>1 DEF IsValid
  <2>4. PICK d : d = FromDomain(payload)
    OBVIOUS
  <2>5. Satisfied(raw.from, {d} \ {Null})
          <=> (NormalizeDomains(raw.from) # {} => d \in NormalizeDomains(raw.from))
    <3>1. \A x \in {d} \ {Null} : IsNormal(x)
      BY <2>2, <2>4
    <3>2. /\ NormalizeDomains(raw.from) \subseteq Texts
          /\ Satisfied(raw.from, {d} \ {Null})
               <=> (NormalizeDomains(raw.from) # {}
                      => ({d} \ {Null}) \cap NormalizeDomains(raw.from) # {})
      BY <2>2, <2>3, <3>1, CriterionIsKept
    <3>3. Null \notin NormalizeDomains(raw.from)
      BY <3>2, RoutingAssumption
    <3> QED BY <3>2, <3>3
  <2>6. Satisfied(raw.to, ToDomains(payload))
          <=> (NormalizeDomains(raw.to) # {}
                 => ToDomains(payload) \cap NormalizeDomains(raw.to) # {})
    BY <2>2, <2>3, CriterionIsKept
  <2>7. /\ route.from = NormalizeDomains(raw.from) /\ route.to = NormalizeDomains(raw.to)
        /\ route.types = raw.types /\ route.catchAll = raw.catchAll
    BY <2>1 DEF Normalize
  <2>8. Matches(route, payload) <=>
          \/ raw.catchAll
          \/ /\ raw.types # {} => payload.type \in raw.types
             /\ NormalizeDomains(raw.from) # {} => d \in NormalizeDomains(raw.from)
             /\ NormalizeDomains(raw.to) # {}
                  => ToDomains(payload) \cap NormalizeDomains(raw.to) # {}
    BY <2>4, <2>7 DEF Matches
  <2> QED BY <2>1, <2>4, <2>5, <2>6, <2>8
<1> QED BY <1>1, RouteInvHolds, PTL

\* The domains of events and those of the configuration are compared in one form:
\* the trims of normalize_domain leave what extract_email_domain returns as it is.
THEOREM OneForm == Spec => []ExtractedIsNormal
<1>1. ASSUME RouteInv PROVE ExtractedIsNormal
  <2> SUFFICES ASSUME payload # Null
               PROVE  NormalizeDomains(Domains(payload)) = Domains(payload)
    BY DEF ExtractedIsNormal
  <2>1. \A d \in Domains(payload) : IsNormal(d)
    BY <1>1, PayloadDomains DEF Domains
  <2>2. ASSUME NEW d \in Domains(payload) PROVE Lower(Bare(d)) = d /\ d # <<>>
    <3>1. IsNormal(d) /\ d \in Texts /\ d # <<>>
      BY <2>1 DEF IsNormal
    <3>2. Len(d) \in Nat
      BY <3>1, Positions
    <3>3. Names(d, d)
      <4>1. SubSeq(d, 0 + 1, 0 + Len(d)) = d
        BY <3>1, SliceOfItself, SliceIsSubSeq
      <4>2. Lower(SubSeq(d, 0 + 1, 0 + Len(d))) = d
        BY <3>1, <4>1, NormalIsLower
      <4>3. 0 \in 0 .. Len(d) - Len(d) /\ 0 \in 0 .. 0 /\ Len(d) \in 0 + Len(d) .. Len(d)
        BY <3>2
      <4>4. Repeats(d, 1, 0, " ") /\ Repeats(d, 0 + 1, 0, "@")
        BY DEF Repeats
      <4>5. /\ Repeats(d, 0 + Len(d) + 1, Len(d), ".")
            /\ Repeats(d, Len(d) + 1, Len(d), " ")
        <5>1. 0 + Len(d) + 1 .. Len(d) = {} /\ Len(d) + 1 .. Len(d) = {}
          BY <3>2
        <5> QED BY <5>1 DEF Repeats
      <4> QED BY <4>2, <4>3, <4>4, <4>5 DEF Names
    <3> QED BY <3>1, <3>3, BareIsNamed
  <2> QED BY <2>2 DEF NormalizeDomains
<1> QED BY <1>1, RouteInvHolds, PTL

-----------------------------------------------------------------------------
(* The domain of a mailbox. *)

\* t is the part of s that ends at e and begins at k or before.
Reaches(t, s, k, e) == \E l \in Nat : IsSlice(t, s, l) /\ l < k /\ l + Len(t) = e

LEMMA TrimReaches ==
  ASSUME NEW s \in Texts, NEW k \in 1 .. Len(s), NEW e \in k .. Len(s), NEW char,
         s[k] # char, s[e] # char, NEW t, Reaches(t, s, k, e)
  PROVE  Reaches(TrimBoth(t, char), s, k, e)
<1>1. PICK l \in Nat : IsSlice(t, s, l) /\ l < k /\ l + Len(t) = e
  BY DEF Reaches
<1>2. t \in Texts
  BY <1>1 DEF IsSlice
<1>3. PICK u : u = TrimBoth(t, char)
  OBVIOUS
<1>4. PICK j \in 0 .. Len(t) :
        /\ IsSlice(u, t, j)
        /\ \A i \in 1 .. j : t[i] = char
        /\ \A i \in j + Len(u) + 1 .. Len(t) : t[i] = char
  BY <1>2, <1>3, TrimBothSlice DEF IsTrimmed
<1>5. u \in Texts /\ j + Len(u) <= Len(t)
  BY <1>4 DEF IsSlice
<1>6. Len(s) \in Nat /\ Len(t) \in Nat /\ Len(u) \in Nat
  BY <1>2, <1>5, Positions
<1>7. k - l \in 1 .. Len(t) /\ Len(t) \in 1 .. Len(t) /\ l + (k - l) = k
  BY <1>1, <1>6
<1>8. t[k - l] = s[l + (k - l)] /\ t[Len(t)] = s[l + Len(t)]
  BY <1>1, <1>7 DEF IsSlice
<1>9. ~ (k - l <= j)
  <2>1. k - l <= j => k - l \in 1 .. j
    BY <1>6, <1>7
  <2> QED BY <1>4, <1>7, <1>8, <2>1
<1>10. ~ (j + Len(u) < Len(t))
  <2>1. j + Len(u) < Len(t) => Len(t) \in j + Len(u) + 1 .. Len(t)
    BY <1>6
  <2> QED BY <1>1, <1>4, <1>8, <2>1
<1>11. IsSlice(u, s, l + j)
  BY <1>1, <1>4, SliceOfSlice
<1>12. l + j \in Nat /\ l + j < k /\ (l + j) + Len(u) = e
  BY <1>1, <1>5, <1>6, <1>9, <1>10
<1> QED BY <1>3, <1>11, <1>12 DEF Reaches

LEMMA AfterAtOfReach ==
  ASSUME NEW s \in Texts, NEW k \in 1 .. Len(s), NEW e \in k .. Len(s), s[k] = "@",
         \A i \in k + 1 .. e : s[i] # "@", NEW t, Reaches(t, s, k, e)
  PROVE  AfterAt(t) = SubSeq(s, k + 1, e)
<1>1. PICK l \in Nat : IsSlice(t, s, l) /\ l < k /\ l + Len(t) = e
  BY DEF Reaches
<1>2. t \in Texts
  BY <1>1 DEF IsSlice
<1>3. Len(s) \in Nat /\ Len(t) \in Nat
  BY <1>2, Positions
<1>4. k - l \in 1 .. Len(t) /\ l + (k - l) = k
  BY <1>1, <1>3
<1>5. t[k - l] = "@"
  <2>1. t[k - l] = s[l + (k - l)]
    BY <1>1, <1>4 DEF IsSlice
  <2> QED BY <1>4, <2>1
<1>6. PICK j \in 1 .. Len(t) :
        /\ IsSlice(AfterAt(t), t, j)
        /\ Len(AfterAt(t)) = Len(t) - j
        /\ t[j] = "@"
        /\ \A i \in j + 1 .. Len(t) : t[i] # "@"
  BY <1>2, <1>4, <1>5, AfterAtSlice
<1>7. j = k - l
  <2>1. ~ (j < k - l)
    <3>1. j < k - l => k - l \in j + 1 .. Len(t)
      BY <1>3, <1>4
    <3> QED BY <1>5, <1>6, <3>1
  <2>2. ~ (k - l < j)
    <3>1. k - l < j => l + j \in k + 1 .. e
      BY <1>1, <1>3
    <3>2. t[j] = s[l + j]
      BY <1>1, <1>6 DEF IsSlice
    <3> QED BY <1>6, <3>1, <3>2
  <2> QED BY <1>3, <1>4, <2>1, <2>2
<1>8. IsSlice(AfterAt(t), s, l + j)
  BY <1>1, <1>6, SliceOfSlice
<1>9. l + j = k /\ k + Len(AfterAt(t)) = e
  BY <1>1, <1>3, <1>4, <1>6, <1>7
<1> QED BY <1>8, <1>9, SliceIsSubSeq

\* A text that does not end in the character is trimmed of nothing.
LEMMA TrimNothing ==
  ASSUME NEW s \in Texts, s # <<>>, NEW char, s[Len(s)] # char
  PROVE  TrimEnd(s, char) = s /\ (s[1] # char => TrimBoth(s, char) = s)
<1>1. Len(s) \in Nat \ {0} /\ Len(s) \in 1 .. Len(s)
  BY Positions
<1>2. \A t : IsSlice(t, s, 0) /\ Len(t) = Len(s) => t = s
  <2> TAKE t
  <2> HAVE IsSlice(t, s, 0) /\ Len(t) = Len(s)
  <2>1. t = SubSeq(s, 0 + 1, 0 + Len(s))
    BY SliceIsSubSeq
  <2>2. s = SubSeq(s, 0 + 1, 0 + Len(s))
    BY SliceOfItself, SliceIsSubSeq
  <2> QED BY <2>1, <2>2
<1>3. TrimEnd(s, char) = s
  <2>1. PICK t : t = TrimEnd(s, char)
    OBVIOUS
  <2>2. IsSlice(t, s, 0) /\ \A i \in Len(t) + 1 .. Len(s) : s[i] = char
    BY <2>1, TrimEndSlice
  <2>3. Len(t) \in Nat /\ 0 + Len(t) <= Len(s)
    BY <2>2, Positions DEF IsSlice
  <2>4. Len(t) < Len(s) => Len(s) \in Len(t) + 1 .. Len(s)
    BY <1>1, <2>3
  <2>5. Len(t) = Len(s)
    BY <1>1, <2>2, <2>3, <2>4
  <2> QED BY <1>2, <2>1, <2>2, <2>5
<1>4. ASSUME s[1] # char PROVE TrimStart(s, char) = s
  <2>1. PICK t : t = TrimStart(s, char)
    OBVIOUS
  <2>2. PICK k \in 0 .. Len(s) :
          IsSlice(t, s, k) /\ Len(t) = Len(s) - k /\ \A i \in 1 .. k : s[i] = char
    BY <2>1, TrimStartSlice
  <2>3. k # 0 => 1 \in 1 .. k
    OBVIOUS
  <2>4. k = 0
    BY <1>4, <2>2, <2>3
  <2>5. IsSlice(t, s, 0) /\ Len(t) = Len(s)
    BY <1>1, <2>2, <2>4
  <2> QED BY <1>2, <2>1, <2>5
<1> QED BY <1>3, <1>4 DEF TrimBoth

LEMMA PlainDomainText ==
  ASSUME NEW s \in Texts, IsDomain(s)
  PROVE  DomainText(s) = Lower(s)
<1>1. s # <<>> /\ Len(s) \in 1 .. Len(s) /\ 1 \in 1 .. Len(s)
  BY Positions DEF IsDomain
<1>2. \A i \in 1 .. Len(s) : s[i] \in {"a", "A", "."}
  BY Positions DEF IsDomain, Range
<1>3. TrimBoth(s, " ") = s /\ TrimBoth(s, ">") = s /\ TrimBoth(s, ";") = s
  BY <1>1, <1>2, TrimNothing
<1>4. Before(s, {",", " "}) = s
  <2>1. {i \in DOMAIN s : s[i] \in {",", " "}} = {}
    BY <1>2, Positions
  <2> QED BY <2>1 DEF Before
<1>5. TrimEnd(s, ".") = s
  BY <1>1, TrimNothing DEF IsDomain
<1> QED BY <1>3, <1>4, <1>5 DEF DomainText

\* Once the candidate reaches over the "@" to the end of the domain, the trims of
\* white space and quotes do not touch the domain, and rfind finds the "@".
LEMMA ExtractsReached ==
  ASSUME NEW s \in Texts, NEW k \in 1 .. Len(s), NEW e \in k .. Len(s), s[k] = "@",
         NEW d, IsSlice(d, s, k), k + Len(d) = e, IsDomain(d),
         NEW a, Reaches(a, s, k, e)
  PROVE  a = Angled(TrimBoth(s, " ")) => ExtractEmailDomain(s) = Lower(d)
<1>1. d \in Texts /\ d # <<>> /\ \A i \in 1 .. Len(d) : d[i] = s[k + i]
  BY DEF IsSlice, IsDomain
<1>2. Len(s) \in Nat /\ Len(d) \in Nat \ {0}
  BY <1>1, Positions
<1>3. \A i \in 1 .. Len(d) : d[i] \in {"a", "A", "."}
  BY <1>1, Positions DEF IsDomain, Range
<1>4. \A i \in k + 1 .. e : s[i] \in {"a", "A", "."}
  <2>1. \A i \in k + 1 .. e : i - k \in 1 .. Len(d) /\ k + (i - k) = i
    BY <1>2
  <2> QED BY <1>1, <1>3, <2>1
<1>5. s[e] \notin {" ", "\"", "'"} /\ s[k] \notin {" ", "\"", "'"}
  <2>1. e \in k + 1 .. e
    BY <1>2
  <2> QED BY <1>4, <2>1
<1>6. PICK c1 : c1 = TrimBoth(a, " ")
  OBVIOUS
<1>7. PICK c2 : c2 = TrimBoth(c1, "\"")
  OBVIOUS
<1>8. PICK c : c = TrimBoth(c2, "'")
  OBVIOUS
<1>9. Reaches(c1, s, k, e)
  BY <1>5, <1>6, TrimReaches
<1>10. Reaches(c2, s, k, e)
  BY <1>5, <1>7, <1>9, TrimReaches
<1>11. Reaches(c, s, k, e)
  BY <1>5, <1>8, <1>10, TrimReaches
<1>12. AfterAt(c) = d
  <2>1. \A i \in k + 1 .. e : s[i] # "@"
    BY <1>4
  <2>2. AfterAt(c) = SubSeq(s, k + 1, e)
    BY <1>11, <2>1, AfterAtOfReach
  <2>3. d = SubSeq(s, k + 1, k + Len(d))
    BY SliceIsSubSeq
  <2> QED BY <2>2, <2>3
<1>13. DomainText(d) = Lower(d)
  BY <1>1, PlainDomainText
<1>14. Lower(d) # <<>>
  <2>1. Len(Lower(d)) = Len(d) /\ Len(d) # 0 /\ Lower(d) \in Texts
    BY <1>1, <1>2, LowerText
  <2> QED BY <2>1, Positions
<1>15. a = Angled(TrimBoth(s, " ")) =>
         ExtractEmailDomain(s) =
           IF DomainText(AfterAt(c)) = <<>> THEN Null ELSE DomainText(AfterAt(c))
  BY <1>6, <1>7, <1>8 DEF ExtractEmailDomain
<1> QED BY <1>12, <1>13, <1>14, <1>15

\* "local@domain": without a "<" the candidate is all that follows the white space.
LEMMA BareAddress ==
  ASSUME NEW s \in Texts, NEW k \in 1 .. Len(s), s[k] = "@",
         NEW d, d = SubSeq(s, k + 1, Len(s)), IsDomain(d),
         \A i \in 1 .. k - 1 : s[i] # "<"
  PROVE  ExtractEmailDomain(s) = Lower(d)
<1>1. Len(s) \in Nat /\ k \in Nat \ {0} /\ k + 1 <= Len(s) + 1
  BY Positions
<1>2. IsSlice(d, s, k) /\ k + Len(d) = Len(s)
  <2>1. IsSlice(d, s, (k + 1) - 1) /\ Len(d) = Len(s) - (k + 1) + 1
    BY <1>1, SubSeqIsSlice
  <2>2. (k + 1) - 1 = k /\ k + (Len(s) - (k + 1) + 1) = Len(s)
    BY <1>1
  <2> QED BY <2>1, <2>2
<1>3. \A i \in 1 .. Len(d) : s[k + i] \in {"a", "A", "."}
  BY <1>2, Positions DEF IsSlice, IsDomain, Range
<1>4. Len(d) \in Nat \ {0}
  BY <1>2, Positions DEF IsSlice, IsDomain
<1>5. s[Len(s)] # " "
  <2>1. Len(d) \in 1 .. Len(d)
    BY <1>4
  <2> QED BY <1>2, <1>3, <2>1
<1>6. \A i \in 1 .. Len(s) : s[i] # "<"
  <2>1. \A i \in 1 .. Len(s) :
          i \in 1 .. k - 1 \/ i = k \/ (i - k \in 1 .. Len(d) /\ k + (i - k) = i)
    BY <1>1, <1>2, <1>4
  <2> QED BY <1>3, <2>1
<1>7. Reaches(s, s, k, Len(s))
  <2>1. 0 \in Nat /\ 0 < k /\ 0 + Len(s) = Len(s)
    BY <1>1
  <2> QED BY <2>1, SliceOfItself DEF Reaches
<1>8. PICK t : t = TrimBoth(s, " ")
  OBVIOUS
<1>9. Reaches(t, s, k, Len(s))
  <2>1. Len(s) \in k .. Len(s)
    BY <1>1, <1>2, <1>4
  <2> QED BY <1>5, <1>7, <1>8, <2>1, TrimReaches
<1>10. Angled(t) = t
  <2>1. PICK l \in Nat : IsSlice(t, s, l) /\ l + Len(t) = Len(s)
    BY <1>9 DEF Reaches
  <2>2. \A i \in 1 .. Len(t) : t[i] = s[l + i] /\ l + i \in 1 .. Len(s)
    <3>1. t \in Texts /\ Len(t) \in Nat
      BY <2>1, Positions DEF IsSlice
    <3>2. \A i \in 1 .. Len(t) : l + i \in 1 .. Len(s)
      BY <1>1, <2>1, <3>1
    <3> QED BY <2>1, <3>2 DEF IsSlice
  <2>3. {i \in DOMAIN t : t[i] = "<"} = {}
    BY <1>6, <2>1, <2>2, Positions DEF IsSlice
  <2> QED BY <2>3 DEF Angled
<1>11. Len(s) \in k .. Len(s)
  BY <1>1, <1>2, <1>4
<1> QED BY <1>2, <1>8, <1>9, <1>10, <1>11, ExtractsReached

\* "name <local@domain>": the candidate begins after the first "<", at o, and ends
\* where the text does.
LEMMA AngledAddress ==
  ASSUME NEW s \in Texts, NEW k \in 1 .. Len(s), s[k] = "@", s[Len(s)] = ">",
         NEW d, d = SubSeq(s, k + 1, Len(s) - 1), IsDomain(d),
         NEW o \in 1 .. k - 1, s[o] = "<",
         \A i \in 1 .. o - 1 : s[i] # "<", \A i \in o + 1 .. k - 1 : s[i] # ">"
  PROVE  ExtractEmailDomain(s) = Lower(d)
<1>1. /\ Len(s) \in Nat /\ k \in Nat \ {0} /\ o \in Nat \ {0}
      /\ k <= Len(s) /\ k # Len(s) /\ o < k
  <2>1. Len(s) \in Nat
    BY Positions
  <2>2. k # Len(s)
    OBVIOUS
  <2> QED BY <2>1, <2>2
<1>2. PICK e : e = Len(s) - 1
  OBVIOUS
<1>3. e \in Nat /\ k <= e /\ e + 1 = Len(s) /\ k + 1 <= e + 1 /\ e <= Len(s) /\ k + 1 \in Nat \ {0}
  BY <1>1, <1>2
<1>4. IsSlice(d, s, k) /\ k + Len(d) = e
  <2>1. IsSlice(d, s, (k + 1) - 1) /\ Len(d) = e - (k + 1) + 1
    BY <1>2, <1>3, SubSeqIsSlice
  <2>2. (k + 1) - 1 = k /\ k + (e - (k + 1) + 1) = e
    BY <1>1, <1>3
  <2> QED BY <2>1, <2>2
<1>5. \A i \in 1 .. Len(d) : s[k + i] \in {"a", "A", "."}
  BY <1>4, Positions DEF IsSlice, IsDomain, Range
<1>6. Len(d) \in Nat
  BY <1>4, Positions DEF IsSlice
<1>7. \A i \in o + 1 .. e : s[i] # ">"
  <2>1. \A i \in o + 1 .. e :
          i \in o + 1 .. k - 1 \/ i = k \/ (i - k \in 1 .. Len(d) /\ k + (i - k) = i)
    BY <1>1, <1>3, <1>4, <1>6
  <2> QED BY <1>5, <2>1
<1>8. Reaches(s, s, o, Len(s))
  <2>1. 0 \in Nat /\ 0 < o /\ 0 + Len(s) = Len(s)
    BY <1>1
  <2> QED BY <2>1, SliceOfItself DEF Reaches
<1>9. PICK t : t = TrimBoth(s, " ")
  OBVIOUS
<1>10. Reaches(t, s, o, Len(s))
  <2>1. o \in 1 .. Len(s) /\ Len(s) \in o .. Len(s)
    BY <1>1
  <2> QED BY <1>8, <1>9, <2>1, TrimReaches
<1>11. PICK l \in Nat : IsSlice(t, s, l) /\ l < o /\ l + Len(t) = Len(s)
  BY <1>10 DEF Reaches
<1>12. t \in Texts /\ Len(t) \in Nat /\ \A i \in 1 .. Len(t) : t[i] = s[l + i]
  BY <1>11, Positions DEF IsSlice
<1>13. o - l \in 1 .. Len(t) /\ t[o - l] = "<"
  <2>1. o - l \in 1 .. Len(t) /\ l + (o - l) = o
    BY <1>1, <1>11, <1>12
  <2> QED BY <1>12, <2>1
<1>14. PICK a : a = Angled(t)
  OBVIOUS
<1>15. PICK j \in 1 .. Len(t) :
         /\ IsSlice(a, t, j)
         /\ t[j] = "<" /\ \A i \in 1 .. j - 1 : t[i] # "<"
         /\ \A i \in 1 .. Len(a) : t[j + i] # ">"
         /\ j + Len(a) < Len(t) => t[j + Len(a) + 1] = ">"
  BY <1>12, <1>13, <1>14, AngledSlice
<1>16. Len(a) \in Nat /\ j + Len(a) <= Len(t)
  BY <1>15, Positions DEF IsSlice
<1>17. l + j = o
  <2>1. ~ (o - l < j)
    <3>1. o - l < j => o - l \in 1 .. j - 1
      BY <1>12, <1>13
    <3> QED BY <1>13, <1>15, <3>1
  <2>2. ~ (l + j < o)
    <3>1. l + j < o => l + j \in 1 .. o - 1
      BY <1>1, <1>11, <1>12
    <3>2. s[l + j] = "<"
      BY <1>12, <1>15
    <3> QED BY <3>1, <3>2
  <2> QED BY <1>1, <1>11, <1>12, <2>1, <2>2
<1>18. (l + j) + Len(a) = e
  <2>1. CASE j + Len(a) < Len(t)
    <3>1. PICK n : n = j + Len(a)
      OBVIOUS
    <3>2. n \in Nat /\ n < Len(t)
      BY <1>12, <1>16, <2>1, <3>1
    <3>3. PICK p : p = l + (n + 1)
      OBVIOUS
    <3>4. n + 1 \in 1 .. Len(t) /\ p \in 1 .. Len(s)
      BY <1>1, <1>11, <1>12, <3>2, <3>3
    <3>5. s[p] = ">"
      BY <1>12, <1>15, <2>1, <3>1, <3>3, <3>4
    <3>6. p \notin o + 1 .. e
      BY <1>7, <3>5
    <3>7. p = e + 1
      <4>1. o + 1 <= p
        BY <1>1, <1>11, <1>12, <1>16, <1>17, <3>1, <3>3
      <4> QED BY <1>1, <1>3, <3>4, <3>6, <4>1
    <3>8. l + n = e
      BY <1>3, <3>2, <3>3, <3>7
    <3> QED BY <1>12, <1>16, <3>1, <3>8
  <2>2. CASE j + Len(a) = Len(t)
    <3>1. j < Len(t)
      BY <1>1, <1>11, <1>12, <1>17
    <3>2. Len(a) \in 1 .. Len(a)
      BY <1>12, <1>16, <2>2, <3>1
    <3>3. t[Len(t)] # ">"
      BY <1>15, <2>2, <3>2
    <3>4. Len(t) \in 1 .. Len(t)
      BY <1>12, <3>1
    <3> QED BY <1>11, <1>12, <3>3, <3>4
  <2> QED BY <1>12, <1>16, <2>1, <2>2
<1>19. Reaches(a, s, k, e)
  <2>1. IsSlice(a, s, l + j)
    BY <1>11, <1>15, SliceOfSlice
  <2>2. l + j \in Nat /\ l + j < k
    BY <1>1, <1>11, <1>12, <1>17
  <2> QED BY <1>18, <2>1, <2>2 DEF Reaches
<1>20. e \in k .. Len(s)
  BY <1>1, <1>3
<1> QED BY <1>4, <1>9, <1>14, <1>19, <1>20, ExtractsReached

\* The domain of "local@domain" and of "name <local@domain>" is found, for parts of any
\* length: the name may hold anything but "<", the local part anything but ">"
\* (resend.rs extract_email_domain).
THEOREM MailboxFound == Spec => []MailboxDomainIsExtracted
<1>1. ASSUME RouteInv PROVE MailboxDomainIsExtracted
  <2> SUFFICES ASSUME payload # Null, payload.from # Null,
                      NEW s, s = payload.from,
                      NEW k \in {i \in DOMAIN s : s[i] = "@"}
               PROVE  LET bare == SubSeq(s, k + 1, Len(s))
                          angled == SubSeq(s, k + 1, Len(s) - 1)
                      IN  /\ IsDomain(bare) /\ (\A i \in 1 .. k - 1 : s[i] # "<")
                               => FromDomain(payload) = Lower(bare)
                          /\ \A o \in 1 .. k - 1 :
                               /\ s[o] = "<" /\ \A i \in 1 .. o - 1 : s[i] # "<"
                               /\ \A i \in o + 1 .. k - 1 : s[i] # ">"
                               /\ IsDomain(angled) /\ s[Len(s)] = ">"
                               => FromDomain(payload) = Lower(angled)
    BY DEF MailboxDomainIsExtracted
  <2>1. s \in Texts /\ FromDomain(payload) = ExtractEmailDomain(s)
    BY <1>1, PayloadDomains DEF FromDomain
  <2>2. k \in 1 .. Len(s) /\ s[k] = "@"
    BY <2>1, Positions
  <2>3. ASSUME NEW bare, bare = SubSeq(s, k + 1, Len(s)), IsDomain(bare),
               \A i \in 1 .. k - 1 : s[i] # "<"
        PROVE  ExtractEmailDomain(s) = Lower(bare)
    BY <2>1, <2>2, <2>3, BareAddress
  <2>4. ASSUME NEW angled, angled = SubSeq(s, k + 1, Len(s) - 1), IsDomain(angled),
               NEW o \in 1 .. k - 1, s[o] = "<", s[Len(s)] = ">",
               \A i \in 1 .. o - 1 : s[i] # "<", \A i \in o + 1 .. k - 1 : s[i] # ">"
        PROVE  ExtractEmailDomain(s) = Lower(angled)
    BY <2>1, <2>2, <2>4, AngledAddress
  <2> QED BY <2>1, <2>3, <2>4
<1> QED BY <1>1, RouteInvHolds, PTL
=============================================================================
