--------------------------- MODULE BuilderProofs ---------------------------
(***************************************************************************)
(* Proofs about the statements of the query builders: whatever a caller    *)
(* builds, each placeholder of each statement is bound to the value that   *)
(* stands in its place when the statement is written out, and the rows     *)
(* that the WHERE text selects when a database reads it are the rows the   *)
(* calls asked for.                                                        *)
(***************************************************************************)
EXTENDS BuilderTerms, FiniteSetTheorems, WellFoundedInduction, TLAPS

-----------------------------------------------------------------------------
(* Induction over the natural numbers, for a set; sequences.               *)

\* A set with 0 that has with each number the next one has all of them.
LEMMA Induction ==
  ASSUME NEW S, 0 \in S, \A n \in Nat : n \in S => n + 1 \in S
  PROVE  \A n \in Nat : n \in S
<1> DEFINE R == {ss \in Nat \X Nat : ss[1] < ss[2]}
           T == Nat \ S
<1>1. IsWellFoundedOn(R, Nat)
  BY NatLessThanWellFounded DEF OpToRel
<1>2. SUFFICES ASSUME T # {}
               PROVE  FALSE
  OBVIOUS
<1>3. \E x \in T : \A y \in T : ~(<<y, x>> \in R)
  <2> HIDE DEF R
  <2>1. T \subseteq Nat
    OBVIOUS
  <2>2. QED BY <1>1, <1>2, <2>1, WFMin
<1>4. PICK x \in T : \A y \in T : ~(<<y, x>> \in R)
  BY <1>3
<1>5. x \in Nat /\ x # 0
  OBVIOUS
<1>6. x - 1 \in Nat /\ x - 1 \notin T
  <2>1. x - 1 \in Nat /\ <<x - 1, x>> \in R
    BY <1>5
  <2>2. QED BY <1>4, <2>1
<1>7. x - 1 \in S
  BY <1>6
<1>8. (x - 1) + 1 \in S
  BY <1>6, <1>7
<1>9. x \in S
  BY <1>5, <1>8
<1>10. QED BY <1>9

\* Two sequences of the same length with the same members are the same.
LEMMA SeqSame ==
  ASSUME NEW S, NEW s \in Seq(S), NEW t \in Seq(S),
         Len(s) = Len(t), \A i \in 1 .. Len(s) : s[i] = t[i]
  PROVE  s = t
<1>1. /\ s = [i \in 1 .. Len(s) |-> s[i]]
      /\ t = [i \in 1 .. Len(t) |-> t[i]]
  OBVIOUS
<1>2. QED BY <1>1

\* One sequence after another.
LEMMA Concat ==
  ASSUME NEW S, NEW s \in Seq(S), NEW t \in Seq(S)
  PROVE  /\ s \o t \in Seq(S)
         /\ Len(s) \in Nat /\ Len(t) \in Nat /\ Len(s \o t) = Len(s) + Len(t)
         /\ \A i \in 1 .. Len(s) : (s \o t)[i] = s[i]
         /\ \A i \in 1 .. Len(t) : (s \o t)[Len(s) + i] = t[i]
OBVIOUS

-----------------------------------------------------------------------------
(* Texts and their anonymous placeholders.                                 *)

\* What is known of a token of a text, and of its slots.
LEMMA TokenOfText ==
  ASSUME NEW text \in Texts, NEW i \in 1 .. Len(text)
  PROVE  /\ text[i] \in Tokens
         /\ text[i] = Leaf(text[i].t, text[i].col, text[i].args)
         /\ text[i].t \in Names /\ text[i].col \in Names
         /\ text[i].args \in Seq(Slots)
         /\ Len(text[i].args) \in Nat
         /\ DOMAIN text[i].args = 1 .. Len(text[i].args)
         /\ \A j \in 1 .. Len(text[i].args) : text[i].args[j] \in Slots
<1>1. text[i] \in Tokens
  BY DEF Texts
<1>2. QED BY <1>1 DEF Tokens, Leaf

\* A slot is one of the three kinds.
LEMMA SlotKinds ==
  ASSUME NEW s \in Slots
  PROVE  \/ s[1] = "$" /\ s[2] \in Nat /\ s = <<"$", s[2]>>
         \/ s[1] = "?" /\ s = <<"?", 0>>
         \/ s[1] = "v" /\ s[2] \in Values /\ s = <<"v", s[2]>>
BY DEF Slots, Literals

\* Anonymous, member by member.
LEMMA InAnonymous ==
  ASSUME NEW text, NEW n \in Nat, NEW p
  PROVE  p \in Anonymous(text, n)
            <=> \E i \in 1 .. n : \E j \in DOMAIN text[i].args :
                    text[i].args[j][1] = "?" /\ p = <<i, j>>
BY DEF Anonymous

\* The anonymous placeholders of one more token.
LEMMA AnonymousNext ==
  ASSUME NEW text, NEW n \in Nat
  PROVE  Anonymous(text, n + 1) =
            Anonymous(text, n)
                \cup ({n + 1} \X {k \in DOMAIN text[n + 1].args : text[n + 1].args[k][1] = "?"})
<1> DEFINE K == {k \in DOMAIN text[n + 1].args : text[n + 1].args[k][1] = "?"}
<1>1. ASSUME NEW p \in Anonymous(text, n + 1)
      PROVE  p \in Anonymous(text, n) \cup ({n + 1} \X K)
  <2>1. PICK i \in 1 .. (n + 1) : \E j \in DOMAIN text[i].args :
                    text[i].args[j][1] = "?" /\ p = <<i, j>>
    BY <1>1, InAnonymous
  <2>2. PICK j \in DOMAIN text[i].args : text[i].args[j][1] = "?" /\ p = <<i, j>>
    BY <2>1
  <2>3. CASE i = n + 1
    BY <2>2, <2>3
  <2>4. CASE i # n + 1
    <3>1. i \in 1 .. n
      BY <2>4
    <3>2. p \in Anonymous(text, n)
      BY <2>2, <3>1, InAnonymous
    <3>3. QED BY <3>2
  <2>5. QED BY <2>3, <2>4
<1>2. ASSUME NEW p \in Anonymous(text, n)
      PROVE  p \in Anonymous(text, n + 1)
  <2>1. PICK i \in 1 .. n : \E j \in DOMAIN text[i].args :
                    text[i].args[j][1] = "?" /\ p = <<i, j>>
    BY <1>2, InAnonymous
  <2>2. i \in 1 .. (n + 1) /\ n + 1 \in Nat
    OBVIOUS
  <2>3. QED BY <2>1, <2>2, InAnonymous
<1>3. ASSUME NEW p \in {n + 1} \X K
      PROVE  p \in Anonymous(text, n + 1)
  <2>1. PICK k \in K : p = <<n + 1, k>>
    OBVIOUS
  <2>2. n + 1 \in 1 .. (n + 1) /\ n + 1 \in Nat
    OBVIOUS
  <2>3. k \in DOMAIN text[n + 1].args /\ text[n + 1].args[k][1] = "?"
    OBVIOUS
  <2>4. QED BY <2>1, <2>2, <2>3, InAnonymous
<1>4. QED BY <1>1, <1>2, <1>3

\* There are finitely many.
LEMMA AnonymousFinite ==
  ASSUME NEW text \in Texts
  PROVE  \A n \in 0 .. Len(text) : /\ IsFiniteSet(Anonymous(text, n))
                                   /\ Cardinality(Anonymous(text, n)) \in Nat
<1> DEFINE S == {n \in Nat : n <= Len(text) => IsFiniteSet(Anonymous(text, n))}
<1>0. Len(text) \in Nat
  BY DEF Texts
<1>1. 0 \in S
  <2>1. Anonymous(text, 0) = {}
    BY DEF Anonymous
  <2>2. QED BY <2>1, FS_EmptySet
<1>2. ASSUME NEW n \in Nat, n \in S
      PROVE  n + 1 \in S
  <2>1. SUFFICES ASSUME n + 1 <= Len(text)
                 PROVE  IsFiniteSet(Anonymous(text, n + 1))
    OBVIOUS
  <2> DEFINE m == Len(text[n + 1].args)
             K == {k \in DOMAIN text[n + 1].args : text[n + 1].args[k][1] = "?"}
  <2>2. n + 1 \in 1 .. Len(text)
    BY <1>0, <2>1
  <2>3. m \in Nat /\ DOMAIN text[n + 1].args = 1 .. m
    BY <2>2, TokenOfText
  <2>4. IsFiniteSet(1 .. m)
    <3>1. \A j \in Nat : IsFiniteSet(1 .. j)
      BY FS_Interval
    <3> HIDE DEF m
    <3>2. QED BY <2>3, <3>1
  <2>5. IsFiniteSet(K)
    <3>1. K \in SUBSET (1 .. m)
      BY <2>3
    <3> HIDE DEF K, m
    <3>2. QED BY <2>4, <3>1, FS_Subset
  <2>6. IsFiniteSet({n + 1} \X K)
    <3> HIDE DEF K
    <3>1. IsFiniteSet({n + 1})
      BY FS_Singleton
    <3>2. QED BY <2>5, <3>1, FS_Product
  <2>7. IsFiniteSet(Anonymous(text, n))
    BY <1>0, <1>2, <2>1
  <2>8. Anonymous(text, n + 1) = Anonymous(text, n) \cup ({n + 1} \X K)
    BY AnonymousNext
  <2>9. QED
    <3> HIDE DEF K
    <3>1. IsFiniteSet(Anonymous(text, n) \cup ({n + 1} \X K))
      BY <2>6, <2>7, FS_Union
    <3>2. QED BY <2>8, <3>1
<1>3. \A n \in Nat : n \in S
  <2> HIDE DEF S
  <2>1. QED BY <1>1, <1>2, Induction
<1>4. ASSUME NEW n \in 0 .. Len(text)
      PROVE  /\ IsFiniteSet(Anonymous(text, n))
             /\ Cardinality(Anonymous(text, n)) \in Nat
  <2>1. n \in Nat /\ n <= Len(text)
    BY <1>0
  <2>2. IsFiniteSet(Anonymous(text, n))
    BY <1>3, <2>1
  <2>3. QED BY <2>2, FS_CardinalityType
<1>5. QED BY <1>4

\* Two texts that agree on their first tokens have the same placeholders there.
LEMMA AnonymousSame ==
  ASSUME NEW s, NEW t, NEW n \in Nat,
         \A i \in 1 .. n : /\ DOMAIN s[i].args = DOMAIN t[i].args
                           /\ \A j \in DOMAIN t[i].args : s[i].args[j][1] = "?" <=> t[i].args[j][1] = "?"
  PROVE  Anonymous(s, n) = Anonymous(t, n)
<1>1. \A p : p \in Anonymous(s, n) <=> p \in Anonymous(t, n)
  BY InAnonymous
<1>2. QED BY <1>1

\* The placeholders of one text after another: those of the first, and those of
\* the second moved by its length.
LEMMA AnonymousAfter ==
  ASSUME NEW s \in Texts, NEW t \in Texts, NEW n \in 0 .. Len(t)
  PROVE  Cardinality(Anonymous(s \o t, Len(s) + n)) =
            Cardinality(Anonymous(s, Len(s))) + Cardinality(Anonymous(t, n))
<1> DEFINE st == s \o t
           m == Len(s)
           A == Anonymous(s, m)
           B == Anonymous(t, n)
           C == {<<p[1] + m, p[2]>> : p \in B}
           f == [p \in B |-> <<p[1] + m, p[2]>>]
<1>1. /\ m \in Nat /\ n \in Nat /\ m + n \in Nat
      /\ \A i \in 1 .. m : st[i] = s[i]
      /\ \A i \in 1 .. n : st[m + i] = t[i]
  BY DEF Texts
<1>2. IsFiniteSet(A) /\ Cardinality(A) \in Nat /\ IsFiniteSet(B) /\ Cardinality(B) \in Nat
  BY <1>1, AnonymousFinite
<1>3. \A p \in B : p[1] \in 1 .. n /\ p = <<p[1], p[2]>>
  BY <1>1, InAnonymous
<1>4. Anonymous(st, m + n) = A \cup C
  <2>1. ASSUME NEW p \in Anonymous(st, m + n)
        PROVE  p \in A \cup C
    <3>0. PICK i \in 1 .. (m + n) : \E j \in DOMAIN st[i].args : st[i].args[j][1] = "?" /\ p = <<i, j>>
      <4> HIDE DEF st, m
      <4>1. QED BY <1>1, <2>1, InAnonymous
    <3>1. PICK j \in DOMAIN st[i].args : st[i].args[j][1] = "?" /\ p = <<i, j>>
      BY <3>0
    <3>2. CASE i <= m
      <4>1. i \in 1 .. m /\ st[i] = s[i]
        BY <1>1, <3>2
      <4>2. p \in A
        BY <1>1, <3>1, <4>1, InAnonymous
      <4>3. QED BY <4>2
    <3>3. CASE i > m
      <4>1. i - m \in 1 .. n /\ m + (i - m) = i
        BY <1>1, <3>3
      <4>2. st[i] = t[i - m]
        BY <1>1, <4>1
      <4>3. <<i - m, j>> \in B
        BY <1>1, <3>1, <4>1, <4>2, InAnonymous
      <4>4. p = <<(i - m) + m, j>>
        BY <1>1, <3>1, <4>1
      <4>5. p \in C
        BY <4>3, <4>4
      <4>6. QED BY <4>5
    <3>4. QED BY <1>1, <3>2, <3>3
  <2>2. ASSUME NEW p \in A
        PROVE  p \in Anonymous(st, m + n)
    <3>0. PICK i \in 1 .. m : \E j \in DOMAIN s[i].args : s[i].args[j][1] = "?" /\ p = <<i, j>>
      BY <1>1, InAnonymous
    <3>1. PICK j \in DOMAIN s[i].args : s[i].args[j][1] = "?" /\ p = <<i, j>>
      BY <3>0
    <3>2. i \in 1 .. (m + n) /\ st[i] = s[i]
      BY <1>1
    <3>3. QED BY <1>1, <3>1, <3>2, InAnonymous
  <2>3. ASSUME NEW p \in B
        PROVE  <<p[1] + m, p[2]>> \in Anonymous(st, m + n)
    <3>0. PICK i \in 1 .. n : \E j \in DOMAIN t[i].args : t[i].args[j][1] = "?" /\ p = <<i, j>>
      BY <1>1, InAnonymous
    <3>1. PICK j \in DOMAIN t[i].args : t[i].args[j][1] = "?" /\ p = <<i, j>>
      BY <3>0
    <3>2. p[1] = i /\ p[2] = j
      BY <3>1
    <3>3. i + m \in 1 .. (m + n) /\ st[i + m] = t[i]
      BY <1>1
    <3>4. <<i + m, j>> \in Anonymous(st, m + n)
      BY <1>1, <3>1, <3>3, InAnonymous
    <3>5. QED BY <3>2, <3>4
  <2>4. QED BY <2>1, <2>2, <2>3
<1>5. f \in Bijection(B, C)
  <2>1. f \in [B -> C]
    OBVIOUS
  <2>2. ASSUME NEW p \in B, NEW r \in B, f[p] = f[r]
        PROVE  p = r
    <3>1. p[1] + m = r[1] + m /\ p[2] = r[2]
      BY <2>2
    <3>2. p[1] = r[1]
      BY <1>1, <1>3, <3>1
    <3>3. QED BY <1>3, <3>1, <3>2
  <2>3. \A c \in C : \E p \in B : f[p] = c
    OBVIOUS
  <2>4. QED BY <2>1, <2>2, <2>3 DEF Bijection, Injection, Surjection, IsInjective
<1>6. IsFiniteSet(C) /\ Cardinality(C) = Cardinality(B)
  <2>1. ExistsBijection(B, C)
    <3> HIDE DEF f, B, C
    <3>1. QED BY <1>5 DEF ExistsBijection
  <2>2. QED BY <1>2, <2>1, FS_Bijection
<1>7. A \cap C = {}
  <2>1. ASSUME NEW c \in C
        PROVE  c \notin A
    <3>1. PICK p \in B : c = <<p[1] + m, p[2]>>
      OBVIOUS
    <3>2. p[1] + m > m
      BY <1>1, <1>3
    <3>3. \A r \in A : r[1] \in 1 .. m
      BY <1>1, InAnonymous
    <3>4. c[1] = p[1] + m
      BY <3>1
    <3>5. QED BY <1>1, <3>2, <3>3, <3>4
  <2>2. QED BY <2>1
<1>8. Cardinality(A \cup C) = Cardinality(A) + Cardinality(C)
  <2> HIDE DEF A, B, C
  <2>1. Cardinality(A \cap C) = 0
    BY <1>7, FS_EmptySet
  <2>2. Cardinality(A \cup C) = Cardinality(A) + Cardinality(C) - Cardinality(A \cap C)
    BY <1>2, <1>6, FS_Union
  <2>3. QED BY <1>2, <1>6, <2>1, <2>2
<1>9. QED BY <1>4, <1>6, <1>8

-----------------------------------------------------------------------------
(* A statement that meets the same one written out.                        *)

\* A fragment has a text and parameters.
LEMMA FragmentParts ==
  ASSUME NEW r \in Fragments
  PROVE  /\ r = Fragment(r.sql, r.ps)
         /\ r.sql \in Texts /\ Len(r.sql) \in Nat /\ DOMAIN r.sql = 1 .. Len(r.sql)
         /\ r.ps \in Seq(Values) /\ Len(r.ps) \in Nat /\ DOMAIN r.ps = 1 .. Len(r.ps)
BY DEF Fragments, Fragment, Texts

\* The value that Bind puts into a slot that meets a literal is that literal.
LEMMA SlotBinds ==
  ASSUME NEW d \in {"$", "?"}, NEW ps \in Seq(Values), NEW k \in Nat, NEW s \in Slots, NEW l,
         SlotMeets(d, ps, k, s, l)
  PROVE  LET n == IF s[1] = "$" THEN s[2] ELSE k
         IN  (IF s[1] = "v" THEN s
              ELSE IF n \in DOMAIN ps THEN <<"v", ps[n]>> ELSE <<"unbound", n>>) = l
BY DEF SlotMeets, Literals

\* The kind of a slot that meets a literal.
LEMMA SlotOfKind ==
  ASSUME NEW d, NEW ps \in Seq(Values), NEW k, NEW s, NEW l, SlotMeets(d, ps, k, s, l)
  PROVE  \/ s[1] = "v"
         \/ d = "$" /\ s[1] = "$" /\ s[2] \in 1 .. Len(ps)
         \/ d = "?" /\ s[1] = "?"
BY DEF SlotMeets, Literals

\* Every parameter is asked for, and no other.
LEMMA AskedByMeeting ==
  ASSUME NEW d \in {"$", "?"}, NEW r, NEW l, Meets(d, r, l)
  PROVE  Asked(r.sql) = DOMAIN r.ps
<1> DEFINE A == Anonymous(r.sql, Len(r.sql))
<1>1. /\ r.sql \in Texts /\ r.ps \in Seq(Values)
      /\ DOMAIN r.sql = 1 .. Len(r.sql) /\ Len(r.sql) \in Nat
      /\ DOMAIN r.ps = 1 .. Len(r.ps) /\ Len(r.ps) \in Nat
  BY FragmentParts DEF Meets
<1>2. ASSUME NEW i \in 1 .. Len(r.sql)
      PROVE  /\ DOMAIN r.sql[i].args = 1 .. Len(r.sql[i].args)
             /\ \A j \in 1 .. Len(r.sql[i].args) :
                    SlotMeets(d, r.ps, Places(r.sql, i - 1) + j, r.sql[i].args[j], l.sql[i].args[j])
  BY <1>1, TokenOfText DEF Meets, TokenMeets
<1>3. IsFiniteSet(A) /\ (Cardinality(A) = 0 <=> A = {})
  BY <1>1, AnonymousFinite, FS_EmptySet
<1>4. CASE d = "$"
  <2>1. A = {}
    <3>1. ASSUME NEW p \in A
          PROVE  FALSE
      <4>1. PICK i \in 1 .. Len(r.sql) : \E j \in DOMAIN r.sql[i].args :
                        r.sql[i].args[j][1] = "?" /\ p = <<i, j>>
        BY <1>1, InAnonymous
      <4>2. PICK j \in DOMAIN r.sql[i].args : r.sql[i].args[j][1] = "?"
        BY <4>1
      <4>3. SlotMeets(d, r.ps, Places(r.sql, i - 1) + j, r.sql[i].args[j], l.sql[i].args[j])
        BY <1>2, <4>2
      <4>4. QED BY <1>1, <1>4, <4>2, <4>3, SlotOfKind
    <3>2. QED BY <3>1
  <2>2. ASSUME NEW n \in Numbers(r.sql)
        PROVE  n \in 1 .. Len(r.ps)
    <3>1. PICK i \in DOMAIN r.sql : \E j \in DOMAIN r.sql[i].args :
                    r.sql[i].args[j][1] = "$" /\ n = r.sql[i].args[j][2]
      BY DEF Numbers
    <3>2. PICK j \in DOMAIN r.sql[i].args : r.sql[i].args[j][1] = "$" /\ n = r.sql[i].args[j][2]
      BY <3>1
    <3>3. SlotMeets(d, r.ps, Places(r.sql, i - 1) + j, r.sql[i].args[j], l.sql[i].args[j])
      BY <1>1, <1>2, <3>2
    <3>4. QED BY <1>1, <1>4, <3>2, <3>3, SlotOfKind
  <2>3. ASSUME NEW n \in 1 .. Len(r.ps)
        PROVE  n \in Numbers(r.sql)
    <3>1. PICK i \in 1 .. Len(r.sql) : \E j \in 1 .. Len(r.sql[i].args) : r.sql[i].args[j] = <<"$", n>>
      BY <1>4 DEF Meets
    <3>2. PICK j \in 1 .. Len(r.sql[i].args) : r.sql[i].args[j] = <<"$", n>>
      BY <3>1
    <3>3. i \in DOMAIN r.sql /\ j \in DOMAIN r.sql[i].args
      BY <1>1, <1>2
    <3>4. r.sql[i].args[j][1] = "$" /\ r.sql[i].args[j][2] = n
      BY <3>2
    <3>5. QED BY <3>3, <3>4 DEF Numbers
  <2>4. QED BY <1>1, <2>1, <2>2, <2>3 DEF Asked
<1>5. CASE d = "?"
  <2>1. Cardinality(A) = Len(r.ps)
    BY <1>5 DEF Meets, Places
  <2>2. CASE A # {}
    BY <1>1, <2>1, <2>2 DEF Asked
  <2>3. CASE A = {}
    <3>1. Len(r.ps) = 0
      BY <1>3, <2>1, <2>3
    <3>2. ASSUME NEW n \in Numbers(r.sql)
          PROVE  FALSE
      <4>1. PICK i \in DOMAIN r.sql : \E j \in DOMAIN r.sql[i].args : r.sql[i].args[j][1] = "$"
        BY DEF Numbers
      <4>2. PICK j \in DOMAIN r.sql[i].args : r.sql[i].args[j][1] = "$"
        BY <4>1
      <4>3. SlotMeets(d, r.ps, Places(r.sql, i - 1) + j, r.sql[i].args[j], l.sql[i].args[j])
        BY <1>1, <1>2, <4>2
      <4>4. QED BY <1>1, <1>5, <4>2, <4>3, SlotOfKind
    <3>3. QED BY <1>1, <2>3, <3>1, <3>2 DEF Asked
  <2>4. QED BY <2>2, <2>3
<1>6. QED BY <1>4, <1>5

\* A bound text is the text with the values in their places (Bind).
LEMMA BoundIs ==
  ASSUME NEW d \in {"$", "?"}, NEW r, NEW l, Meets(d, r, l)
  PROVE  /\ DOMAIN Bind(r.sql, r.ps) = 1 .. Len(r.sql)
         /\ \A i \in 1 .. Len(r.sql) :
                Bind(r.sql, r.ps)[i] = Leaf(r.sql[i].t, r.sql[i].col, l.sql[i].args)
<1> DEFINE B == Bind(r.sql, r.ps)
<1>1. /\ r \in Fragments /\ l \in Fragments /\ Len(r.sql) = Len(l.sql)
      /\ r.sql \in Texts /\ l.sql \in Texts /\ r.ps \in Seq(Values)
      /\ DOMAIN r.sql = 1 .. Len(r.sql) /\ DOMAIN l.sql = 1 .. Len(r.sql)
      /\ DOMAIN r.ps = 1 .. Len(r.ps) /\ Len(r.ps) \in Nat /\ Len(r.sql) \in Nat
  BY FragmentParts DEF Meets
<1>2. DOMAIN B = 1 .. Len(r.sql)
  BY <1>1 DEF Bind
<1>3. ASSUME NEW i \in 1 .. Len(r.sql)
      PROVE  B[i] = Leaf(r.sql[i].t, r.sql[i].col, l.sql[i].args)
  <2> DEFINE t == r.sql[i]
             k == Places(r.sql, i - 1)
             Fill(slot, p) == LET n == IF slot[1] = "$" THEN slot[2] ELSE p
                              IN  IF slot[1] = "v" THEN slot
                                  ELSE IF n \in DOMAIN r.ps THEN <<"v", r.ps[n]>> ELSE <<"unbound", n>>
             args == [j \in DOMAIN t.args |-> Fill(t.args[j], k + j)]
  <2>1. B[i] = Leaf(t.t, t.col, args)
    BY <1>1 DEF Bind, Places
  <2>2. TokenMeets(d, r.ps, k, t, l.sql[i])
    BY DEF Meets
  <2>3. /\ DOMAIN t.args = 1 .. Len(t.args) /\ Len(t.args) \in Nat
        /\ \A j \in 1 .. Len(t.args) : t.args[j] \in Slots
    BY <1>1, TokenOfText
  <2>4. /\ l.sql[i].args \in Seq(Slots) /\ Len(l.sql[i].args) = Len(t.args)
        /\ DOMAIN l.sql[i].args = 1 .. Len(t.args)
    BY <1>1, <2>2, TokenOfText DEF TokenMeets
  <2>5. k \in Nat
    BY <1>1, AnonymousFinite DEF Places
  <2>6. ASSUME NEW j \in 1 .. Len(t.args)
        PROVE  args[j] = l.sql[i].args[j]
    <3>1. SlotMeets(d, r.ps, k + j, t.args[j], l.sql[i].args[j])
      BY <2>2 DEF TokenMeets
    <3>2. k + j \in Nat
      <4> HIDE DEF k
      <4>1. QED BY <2>3, <2>5
    <3>3. Fill(t.args[j], k + j) = l.sql[i].args[j]
      <4> HIDE DEF k, t
      <4>1. QED BY <1>1, <2>3, <3>1, <3>2, SlotBinds
    <3>4. QED BY <2>3, <3>3
  <2>7. args = l.sql[i].args
    <3>1. DOMAIN args = 1 .. Len(t.args)
      BY <2>3
    <3>2. args = [j \in 1 .. Len(t.args) |-> args[j]]
      BY <3>1
    <3>3. l.sql[i].args = [j \in 1 .. Len(t.args) |-> l.sql[i].args[j]]
      BY <2>4
    <3> HIDE DEF args
    <3>4. QED BY <2>6, <3>2, <3>3
  <2>8. QED BY <2>1, <2>7
<1>4. QED BY <1>2, <1>3

\* A statement that meets another binds to it (Binds of Sql).
LEMMA MeetsBinds ==
  ASSUME NEW d \in {"$", "?"}, NEW r, NEW l, Meets(d, r, l)
  PROVE  Binds(r, l)
<1> DEFINE B == Bind(r.sql, r.ps)
<1>1. /\ r \in Fragments /\ l \in Fragments /\ Len(r.sql) = Len(l.sql)
      /\ r.sql \in Texts /\ l.sql \in Texts
      /\ DOMAIN r.sql = 1 .. Len(r.sql) /\ DOMAIN l.sql = 1 .. Len(r.sql)
  BY FragmentParts DEF Meets
<1>2. DOMAIN B = 1 .. Len(r.sql)
  BY BoundIs
<1>3. ASSUME NEW i \in 1 .. Len(r.sql)
      PROVE  B[i] = Leaf(r.sql[i].t, r.sql[i].col, l.sql[i].args)
  BY BoundIs
<1>4. Plain(B) = Plain(l.sql)
  <2>1. ASSUME NEW i \in 1 .. Len(r.sql)
        PROVE  Plain(B)[i] = Plain(l.sql)[i]
    <3>1. /\ r.sql[i].col = l.sql[i].col
          /\ r.sql[i].t = l.sql[i].t \/ (r.sql[i].t = "IN" /\ l.sql[i].t = "= ANY")
      BY DEF Meets, TokenMeets, SameWord
    <3>2. l.sql[i] = Leaf(l.sql[i].t, l.sql[i].col, l.sql[i].args)
      BY <1>1, TokenOfText
    <3>3. Plain(B)[i] = [B[i] EXCEPT !.t = IF @ = "= ANY" THEN "IN" ELSE @]
      BY <1>2 DEF Plain
    <3>4. Plain(l.sql)[i] = [l.sql[i] EXCEPT !.t = IF @ = "= ANY" THEN "IN" ELSE @]
      BY <1>1 DEF Plain
    <3> HIDE DEF B
    <3>5. Plain(B)[i] = Leaf(IF r.sql[i].t = "= ANY" THEN "IN" ELSE r.sql[i].t, r.sql[i].col, l.sql[i].args)
      <4> DEFINE y == IF r.sql[i].t = "= ANY" THEN "IN" ELSE r.sql[i].t
      <4>1. B[i] = Leaf(r.sql[i].t, r.sql[i].col, l.sql[i].args)
        BY <1>3
      <4>2. B[i].t = r.sql[i].t
        BY <4>1 DEF Leaf
      <4>3. Plain(B)[i] = [B[i] EXCEPT !.t = y]
        BY <3>3, <4>2
      <4> HIDE DEF y
      <4>4. [B[i] EXCEPT !.t = y] = Leaf(y, r.sql[i].col, l.sql[i].args)
        BY <4>1 DEF Leaf
      <4>5. Plain(B)[i] = Leaf(y, r.sql[i].col, l.sql[i].args)
        BY <4>3, <4>4
      <4>6. QED BY <4>5 DEF y
    <3>6. Plain(l.sql)[i] = Leaf(IF l.sql[i].t = "= ANY" THEN "IN" ELSE l.sql[i].t, l.sql[i].col, l.sql[i].args)
      BY <3>2, <3>4 DEF Leaf
    <3>7. QED BY <3>1, <3>5, <3>6
  <2>2. DOMAIN Plain(B) = 1 .. Len(r.sql) /\ DOMAIN Plain(l.sql) = 1 .. Len(r.sql)
    BY <1>1, <1>2 DEF Plain
  <2>3. Plain(B) = [i \in DOMAIN Plain(B) |-> Plain(B)[i]]
    BY DEF Plain
  <2>4. Plain(l.sql) = [i \in DOMAIN Plain(l.sql) |-> Plain(l.sql)[i]]
    BY DEF Plain
  <2> HIDE DEF B
  <2>5. QED BY <2>1, <2>2, <2>3, <2>4
<1>5. Asked(r.sql) = DOMAIN r.ps
  BY <1>1, AskedByMeeting
<1>6. QED BY <1>4, <1>5 DEF Binds

-----------------------------------------------------------------------------
(* Putting one text after another.                                         *)

\* Renumbering changes the numbers and nothing else (renumber_params).
LEMMA Renumbered ==
  ASSUME NEW text \in Texts, NEW n \in Nat
  PROVE  LET new == RenumberParams(text, n)
         IN  /\ new \in Texts /\ Len(new) = Len(text)
             /\ \A i \in 1 .. Len(text) :
                    /\ new[i].t = text[i].t /\ new[i].col = text[i].col
                    /\ Len(new[i].args) = Len(text[i].args)
                    /\ DOMAIN new[i].args = DOMAIN text[i].args
                    /\ \A j \in 1 .. Len(text[i].args) :
                            new[i].args[j] = IF text[i].args[j][1] = "$"
                                             THEN <<"$", text[i].args[j][2] + n>> ELSE text[i].args[j]
<1> DEFINE new == RenumberParams(text, n)
           Shift(s) == IF s[1] = "$" THEN <<"$", s[2] + n>> ELSE s
<1>1. Len(text) \in Nat /\ DOMAIN text = 1 .. Len(text)
  BY DEF Texts
<1>2. ASSUME NEW i \in 1 .. Len(text)
      PROVE  /\ new[i] \in Tokens
             /\ new[i].t = text[i].t /\ new[i].col = text[i].col
             /\ Len(new[i].args) = Len(text[i].args)
             /\ DOMAIN new[i].args = DOMAIN text[i].args
             /\ \A j \in 1 .. Len(text[i].args) : new[i].args[j] = Shift(text[i].args[j])
  <2> DEFINE k == text[i]
             args == [j \in DOMAIN k.args |-> Shift(k.args[j])]
  <2>1. /\ k.t \in Names /\ k.col \in Names
        /\ Len(k.args) \in Nat /\ DOMAIN k.args = 1 .. Len(k.args)
        /\ \A j \in 1 .. Len(k.args) : k.args[j] \in Slots
    BY TokenOfText
  <2>2. new[i] = Leaf(k.t, k.col, args)
    BY <1>1 DEF RenumberParams
  <2>3. ASSUME NEW s \in Slots
        PROVE  Shift(s) \in Slots
    <3>1. CASE s[1] = "$"
      BY <3>1, SlotKinds DEF Slots
    <3>2. CASE s[1] # "$"
      BY <3>2
    <3>3. QED BY <3>1, <3>2
  <2>4. args \in [1 .. Len(k.args) -> Slots]
    <3>1. DOMAIN args = 1 .. Len(k.args)
      BY <2>1
    <3>2. \A j \in 1 .. Len(k.args) : args[j] = Shift(k.args[j])
      BY <2>1
    <3> HIDE DEF Shift
    <3>3. \A j \in 1 .. Len(k.args) : args[j] \in Slots
      BY <2>1, <2>3, <3>2
    <3>4. QED BY <3>1, <3>3
  <2>5. args \in Seq(Slots) /\ Len(args) = Len(k.args) /\ DOMAIN args = DOMAIN k.args
    <3> HIDE DEF args, k
    <3>1. QED BY <2>1, <2>4
  <2>6. \A j \in 1 .. Len(k.args) : args[j] = Shift(k.args[j])
    BY <2>1
  <2> HIDE DEF args, new
  <2>7. QED BY <2>1, <2>2, <2>5, <2>6 DEF Tokens, Leaf
<1>3. DOMAIN new = 1 .. Len(text)
  BY <1>1 DEF RenumberParams
<1>4. new \in [1 .. Len(text) -> Tokens]
  <2>1. new = [i \in DOMAIN new |-> new[i]]
    BY DEF RenumberParams
  <2> HIDE DEF new
  <2>2. QED BY <1>2, <1>3, <2>1
<1>5. new \in Texts /\ Len(new) = Len(text)
  <2> HIDE DEF new
  <2>1. QED BY <1>1, <1>4 DEF Texts
<1>6. QED BY <1>2, <1>5

\* The same of each token.
LEMMA EachIsShifted ==
  ASSUME NEW text \in Texts, NEW n \in Nat, NEW i \in 1 .. Len(text)
  PROVE  IsShifted(RenumberParams(text, n)[i], text[i], n)
BY Renumbered DEF IsShifted

\* The text with no numbers in it is left as it is.
LEMMA NothingToRenumber ==
  ASSUME NEW text \in Texts, NEW n \in Nat,
         n = 0 \/ \A i \in 1 .. Len(text) : \A j \in 1 .. Len(text[i].args) : text[i].args[j][1] # "$"
  PROVE  RenumberParams(text, n) = text
<1> DEFINE new == RenumberParams(text, n)
<1>1. /\ new \in Texts /\ Len(new) = Len(text) /\ Len(text) \in Nat
  BY Renumbered DEF Texts
<1>2. ASSUME NEW i \in 1 .. Len(text)
      PROVE  new[i] = text[i]
  <2>1. /\ Len(text[i].args) \in Nat /\ DOMAIN text[i].args = 1 .. Len(text[i].args)
        /\ text[i].args \in Seq(Slots)
        /\ \A j \in 1 .. Len(text[i].args) : text[i].args[j] \in Slots
        /\ text[i] = Leaf(text[i].t, text[i].col, text[i].args)
    BY TokenOfText
  <2>2. i \in 1 .. Len(new)
    BY <1>1
  <2>3. new[i].args \in Seq(Slots) /\ new[i] = Leaf(new[i].t, new[i].col, new[i].args)
    BY <1>1, <2>2, TokenOfText
  <2>4. /\ new[i].t = text[i].t /\ new[i].col = text[i].col
        /\ Len(new[i].args) = Len(text[i].args)
    BY Renumbered
  <2>5. ASSUME NEW j \in 1 .. Len(text[i].args)
        PROVE  new[i].args[j] = text[i].args[j]
    <3>1. new[i].args[j] = IF text[i].args[j][1] = "$"
                           THEN <<"$", text[i].args[j][2] + n>> ELSE text[i].args[j]
      BY Renumbered
    <3>2. text[i].args[j] \in Slots
      BY <2>1
    <3>3. CASE text[i].args[j][1] = "$"
      <4>1. n = 0
        BY <3>3
      <4>2. text[i].args[j][2] \in Nat /\ text[i].args[j] = <<"$", text[i].args[j][2]>>
        BY <3>2, <3>3, SlotKinds
      <4>3. text[i].args[j][2] + n = text[i].args[j][2]
        BY <4>1, <4>2
      <4> HIDE DEF new
      <4>4. QED BY <3>1, <3>3, <4>2, <4>3
    <3>4. CASE text[i].args[j][1] # "$"
      BY <3>1, <3>4
    <3>5. QED BY <3>3, <3>4
  <2>6. new[i].args = text[i].args
    <3> HIDE DEF new
    <3>1. QED BY <2>1, <2>3, <2>4, <2>5, SeqSame
  <2>7. QED BY <2>1, <2>3, <2>4, <2>6
<1>3. QED
  <2> HIDE DEF new
  <2>1. new = text
    BY <1>1, <1>2, SeqSame DEF Texts
  <2>2. QED BY <2>1 DEF new

\* A text put after others is a text.
LEMMA PutShiftedType ==
  ASSUME NEW a \in Fragments, NEW r \in Fragments, NEW text \in Texts
  PROVE  PutShifted(a, r, text) \in Fragments
<1>1. RenumberParams(text, Len(a.ps)) \in Texts
  BY FragmentParts, Renumbered
<1>2. a.sql \in Texts /\ a.ps \in Seq(Values) /\ r.ps \in Seq(Values)
  BY FragmentParts
<1>3. a.sql \o RenumberParams(text, Len(a.ps)) \in Texts
  BY <1>1, <1>2 DEF Texts
<1>4. a.ps \o r.ps \in Seq(Values)
  BY <1>2
<1>5. QED BY <1>3, <1>4 DEF PutShifted, Fragment, Fragments

\* What meets a literal still meets it when more parameters follow.
LEMMA SlotExtends ==
  ASSUME NEW d, NEW ps \in Seq(Values), NEW more \in Seq(Values), NEW k, NEW s, NEW l,
         SlotMeets(d, ps, k, s, l)
  PROVE  SlotMeets(d, ps \o more, k, s, l)
<1>1. /\ Len(ps) \in Nat /\ Len(more) \in Nat /\ Len(ps \o more) = Len(ps) + Len(more)
      /\ \A n \in 1 .. Len(ps) : n \in 1 .. Len(ps \o more) /\ (ps \o more)[n] = ps[n]
  OBVIOUS
<1>2. QED BY <1>1 DEF SlotMeets

\* And when as many parameters come before as its number is moved by.
LEMMA SlotMoves ==
  ASSUME NEW d \in {"$", "?"}, NEW ps \in Seq(Values), NEW first \in Seq(Values), NEW k \in Nat, NEW m \in Nat,
         NEW s \in Slots, NEW l, SlotMeets(d, ps, k, s, l), d = "?" => m = Len(first) + k
  PROVE  SlotMeets(d, first \o ps, m, IF s[1] = "$" THEN <<"$", s[2] + Len(first)>> ELSE s, l)
<1> DEFINE new == IF s[1] = "$" THEN <<"$", s[2] + Len(first)>> ELSE s
<1>1. /\ Len(first) \in Nat /\ Len(ps) \in Nat /\ Len(first \o ps) = Len(first) + Len(ps)
      /\ \A n \in 1 .. Len(ps) : /\ n + Len(first) \in 1 .. Len(first \o ps)
                                 /\ (first \o ps)[n + Len(first)] = ps[n]
  OBVIOUS
<1>2. l \in Literals
  BY DEF SlotMeets
<1>3. CASE s = l
  <2>1. s[1] = "v"
    BY <1>2, <1>3 DEF Literals
  <2>2. QED BY <1>2, <1>3, <2>1 DEF SlotMeets
<1>4. CASE d = "$" /\ s # l
  <2>1. PICK n \in 1 .. Len(ps) : s = <<"$", n>> /\ l = <<"v", ps[n]>>
    BY <1>4 DEF SlotMeets
  <2>2. new = <<"$", n + Len(first)>>
    BY <2>1
  <2>3. n + Len(first) \in 1 .. Len(first \o ps) /\ (first \o ps)[n + Len(first)] = ps[n]
    BY <1>1
  <2> HIDE DEF new
  <2>4. SlotMeets(d, first \o ps, m, new, l)
    BY <1>2, <1>4, <2>1, <2>2, <2>3 DEF SlotMeets
  <2>5. QED BY <2>4 DEF new
<1>5. CASE d = "?" /\ s # l
  <2>1. s = <<"?", 0>> /\ k \in 1 .. Len(ps) /\ l = <<"v", ps[k]>>
    BY <1>5 DEF SlotMeets
  <2>2. new = <<"?", 0>>
    BY <2>1
  <2>3. m = k + Len(first)
    BY <1>1, <1>5
  <2>4. m \in 1 .. Len(first \o ps) /\ (first \o ps)[m] = ps[k]
    BY <1>1, <2>1, <2>3
  <2> HIDE DEF new
  <2>5. SlotMeets(d, first \o ps, m, new, l)
    BY <1>2, <1>5, <2>1, <2>2, <2>4 DEF SlotMeets
  <2>6. QED BY <2>5 DEF new
<1>6. QED BY <1>3, <1>4, <1>5

\* A statement put after another one meets when both do (PutShifted).
LEMMA PutMeets ==
  ASSUME NEW d \in {"$", "?"}, NEW a, NEW al, NEW r, NEW rl, Meets(d, a, al), Meets(d, r, rl)
  PROVE  Meets(d, PutShifted(a, r, r.sql), PutShifted(al, rl, rl.sql))
<1> DEFINE n == Len(a.ps)
           m == Len(a.sql)
           new == RenumberParams(r.sql, n)
           text == a.sql \o new
           ps == a.ps \o r.ps
           ltext == al.sql \o rl.sql
           put == PutShifted(a, r, r.sql)
           lput == PutShifted(al, rl, rl.sql)
<1>1. /\ a \in Fragments /\ al \in Fragments /\ r \in Fragments /\ rl \in Fragments
      /\ Len(al.sql) = m /\ Len(rl.sql) = Len(r.sql)
  BY DEF Meets
<1>2. /\ a.sql \in Texts /\ al.sql \in Texts /\ r.sql \in Texts /\ rl.sql \in Texts
      /\ a.ps \in Seq(Values) /\ r.ps \in Seq(Values) /\ n \in Nat /\ m \in Nat
      /\ Len(r.sql) \in Nat /\ Len(r.ps) \in Nat /\ Len(al.ps) \in Nat
  BY <1>1, FragmentParts
<1>3. new \in Texts /\ Len(new) = Len(r.sql)
  BY <1>2, Renumbered
<1>16. \A i \in 1 .. Len(r.sql) : IsShifted(new[i], r.sql[i], n)
  BY <1>2, EachIsShifted
<1>4. put.sql = text /\ put.ps = ps
  BY DEF PutShifted, Fragment
<1>5. lput.sql = ltext
  <2>1. ASSUME NEW i \in 1 .. Len(rl.sql), NEW j \in 1 .. Len(rl.sql[i].args)
        PROVE  rl.sql[i].args[j][1] # "$"
    <3>1. TokenMeets(d, r.ps, Places(r.sql, i - 1), r.sql[i], rl.sql[i])
      BY <1>1 DEF Meets
    <3>2. rl.sql[i].args \in Seq(Literals)
      BY <3>1 DEF TokenMeets, Words
    <3>3. rl.sql[i].args[j] \in Literals
      BY <3>2
    <3>4. QED BY <3>3 DEF Literals
  <2>2. RenumberParams(rl.sql, Len(al.ps)) = rl.sql
    BY <1>2, <2>1, NothingToRenumber
  <2>3. QED BY <2>2 DEF PutShifted, Fragment
<1>6. put \in Fragments /\ lput \in Fragments
  BY <1>1, <1>2, PutShiftedType
<1>7. /\ Len(text) = m + Len(r.sql) /\ Len(ltext) = m + Len(r.sql)
      /\ \A i \in 1 .. m : text[i] = a.sql[i] /\ ltext[i] = al.sql[i]
      /\ \A i \in 1 .. Len(r.sql) : text[m + i] = new[i] /\ ltext[m + i] = rl.sql[i]
      /\ text \in Texts
  <2>1. /\ text \in Texts
        /\ Len(text) = Len(a.sql) + Len(new)
        /\ \A i \in 1 .. Len(a.sql) : text[i] = a.sql[i]
        /\ \A i \in 1 .. Len(new) : text[Len(a.sql) + i] = new[i]
    <3> HIDE DEF new
    <3>1. a.sql \in Seq(Tokens) /\ new \in Seq(Tokens)
      BY <1>2, <1>3 DEF Texts
    <3>2. text \in Seq(Tokens)
      BY <3>1
    <3>3. /\ Len(text) = Len(a.sql) + Len(new)
          /\ \A i \in 1 .. Len(a.sql) : text[i] = a.sql[i]
          /\ \A i \in 1 .. Len(new) : text[Len(a.sql) + i] = new[i]
      BY <3>1
    <3>4. QED BY <3>2, <3>3 DEF Texts
  <2>2. /\ Len(ltext) = Len(al.sql) + Len(rl.sql)
        /\ \A i \in 1 .. Len(al.sql) : ltext[i] = al.sql[i]
        /\ \A i \in 1 .. Len(rl.sql) : ltext[Len(al.sql) + i] = rl.sql[i]
    <3>1. al.sql \in Seq(Tokens) /\ rl.sql \in Seq(Tokens)
      BY <1>2 DEF Texts
    <3>2. ltext \in Seq(Tokens) /\ Len(ltext) = Len(al.sql) + Len(rl.sql)
      BY <3>1, Concat
    <3>3. \A i \in 1 .. Len(al.sql) : ltext[i] = al.sql[i]
      BY <3>1, Concat
    <3>4. \A i \in 1 .. Len(rl.sql) : ltext[Len(al.sql) + i] = rl.sql[i]
      <4>1. \A s, t \in Seq(Tokens) : \A i \in 1 .. Len(t) : (s \o t)[Len(s) + i] = t[i]
        BY Concat
      <4>2. QED BY <3>1, <4>1, Zenon
    <3>5. QED BY <3>2, <3>3, <3>4
  <2> HIDE DEF new, text, ltext
  <2>3. QED BY <1>1, <1>3, <2>1, <2>2
<1>8. /\ Len(ps) = n + Len(r.ps)
      /\ ps \in Seq(Values)
  BY <1>2, Concat
<1>0. m = Len(a.sql) /\ n = Len(a.ps)
  OBVIOUS
<1> HIDE DEF n, m, new, text, ps, ltext, put, lput
<1>9. ASSUME NEW i \in 0 .. m
      PROVE  Places(text, i) = Places(a.sql, i)
  <2>1. i \in Nat /\ \A k \in 1 .. i : text[k] = a.sql[k]
    BY <1>2, <1>7
  <2>2. QED BY <2>1, AnonymousSame DEF Places
<1>10. ASSUME NEW i \in 0 .. Len(r.sql)
       PROVE  /\ Places(text, m + i) = Places(a.sql, m) + Places(r.sql, i)
              /\ Places(r.sql, i) \in Nat /\ Places(text, m + i) \in Nat
  <2>1. Cardinality(Anonymous(text, m + i)) =
            Cardinality(Anonymous(a.sql, m)) + Cardinality(Anonymous(new, i))
    <3>1. a.sql \in Texts /\ new \in Texts /\ i \in 0 .. Len(new)
      BY <1>2, <1>3
    <3> HIDE DEF new, m
    <3>2. Cardinality(Anonymous(a.sql \o new, Len(a.sql) + i)) =
            Cardinality(Anonymous(a.sql, Len(a.sql))) + Cardinality(Anonymous(new, i))
      BY <3>1, AnonymousAfter
    <3>3. QED BY <3>2 DEF text, m
  <2>2. i \in Nat
    BY <1>2
  <2>3. ASSUME NEW k \in 1 .. i
        PROVE  /\ DOMAIN new[k].args = DOMAIN r.sql[k].args
               /\ \A j \in DOMAIN r.sql[k].args : new[k].args[j][1] = "?" <=> r.sql[k].args[j][1] = "?"
    <3>1. k \in 1 .. Len(r.sql)
      BY <1>2
    <3>2. DOMAIN r.sql[k].args = 1 .. Len(r.sql[k].args)
      BY <1>2, <3>1, TokenOfText
    <3>3. /\ DOMAIN new[k].args = DOMAIN r.sql[k].args
          /\ \A j \in 1 .. Len(r.sql[k].args) :
                new[k].args[j] = IF r.sql[k].args[j][1] = "$"
                                 THEN <<"$", r.sql[k].args[j][2] + n>> ELSE r.sql[k].args[j]
      BY <1>16, <3>1 DEF IsShifted
    <3>4. ASSUME NEW j \in DOMAIN r.sql[k].args
          PROVE  new[k].args[j][1] = "?" <=> r.sql[k].args[j][1] = "?"
      <4>1. CASE r.sql[k].args[j][1] = "$"
        <5>1. new[k].args[j] = <<"$", r.sql[k].args[j][2] + n>>
          BY <3>2, <3>3, <4>1
        <5>2. QED BY <4>1, <5>1
      <4>2. CASE r.sql[k].args[j][1] # "$"
        BY <3>2, <3>3, <4>2
      <4>3. QED BY <4>1, <4>2
    <3>5. QED BY <3>3, <3>4
  <2>4. Anonymous(new, i) = Anonymous(r.sql, i)
    BY <2>2, <2>3, AnonymousSame
  <2>5. /\ Cardinality(Anonymous(r.sql, i)) \in Nat
        /\ Cardinality(Anonymous(a.sql, m)) \in Nat
    BY <1>0, <1>2, AnonymousFinite
  <2>6. QED BY <2>1, <2>4, <2>5 DEF Places
<1>11. ASSUME NEW i \in 1 .. Len(text)
       PROVE  TokenMeets(d, ps, Places(text, i - 1), text[i], ltext[i])
  <2>1. CASE i <= m
    <3>1. i \in 1 .. m /\ i - 1 \in 0 .. m
      BY <1>2, <2>1
    <3>2. TokenMeets(d, a.ps, Places(a.sql, i - 1), a.sql[i], al.sql[i])
      BY <1>0, <3>1 DEF Meets
    <3>3. text[i] = a.sql[i] /\ ltext[i] = al.sql[i] /\ Places(text, i - 1) = Places(a.sql, i - 1)
      BY <1>7, <1>9, <3>1
    <3>4. ASSUME NEW k, NEW s, NEW l, SlotMeets(d, a.ps, k, s, l)
          PROVE  SlotMeets(d, ps, k, s, l)
      BY <1>2, <3>4, SlotExtends DEF ps
    <3>5. QED BY <3>2, <3>3, <3>4 DEF TokenMeets
  <2>2. CASE i > m
    <3> DEFINE p == i - m
               t == r.sql[p]
    <3>1. p \in 1 .. Len(r.sql) /\ i = m + p /\ p - 1 \in 0 .. Len(r.sql) /\ i - 1 = m + (p - 1)
      BY <1>2, <1>7, <2>2
    <3>2. TokenMeets(d, r.ps, Places(r.sql, p - 1), t, rl.sql[p])
      BY <3>1 DEF Meets
    <3>3. text[i] = new[p] /\ ltext[i] = rl.sql[p]
      BY <1>7, <3>1
    <3>4. Places(text, i - 1) = Places(a.sql, m) + Places(r.sql, p - 1) /\ Places(r.sql, p - 1) \in Nat
          /\ Places(text, i - 1) \in Nat
      BY <1>10, <3>1
    <3>5. d = "?" => Places(a.sql, m) = n
      BY <1>0 DEF Meets
    <3>6. Len(t.args) \in Nat /\ \A j \in 1 .. Len(t.args) : t.args[j] \in Slots
      BY <1>2, <3>1, TokenOfText
    <3>7. /\ new[p].t = t.t /\ new[p].col = t.col /\ Len(new[p].args) = Len(t.args)
          /\ \A j \in 1 .. Len(t.args) :
                new[p].args[j] = IF t.args[j][1] = "$" THEN <<"$", t.args[j][2] + n>> ELSE t.args[j]
      <4>1. IsShifted(new[p], t, n)
        BY <1>16, <3>1
      <4> HIDE DEF p, t
      <4>2. QED BY <4>1 DEF IsShifted
    <3>8. ASSUME NEW j \in 1 .. Len(t.args)
          PROVE  SlotMeets(d, ps, Places(text, i - 1) + j, new[p].args[j], rl.sql[p].args[j])
      <4>1. SlotMeets(d, r.ps, Places(r.sql, p - 1) + j, t.args[j], rl.sql[p].args[j])
        BY <3>2 DEF TokenMeets
      <4> HIDE DEF p, t
      <4>2. /\ Places(r.sql, p - 1) + j \in Nat /\ Places(text, i - 1) + j \in Nat
            /\ d = "?" => Places(text, i - 1) + j = n + (Places(r.sql, p - 1) + j)
        BY <1>2, <3>4, <3>5, <3>6, SMTT(30)
      <4>3. SlotMeets(d, ps, Places(text, i - 1) + j,
                      IF t.args[j][1] = "$" THEN <<"$", t.args[j][2] + n>> ELSE t.args[j],
                      rl.sql[p].args[j])
        BY <1>0, <1>2, <3>6, <4>1, <4>2, SlotMoves DEF ps
      <4>4. QED BY <3>7, <4>3
    <3> HIDE DEF p, t
    <3>9. QED BY <3>2, <3>3, <3>7, <3>8 DEF TokenMeets
  <2>3. QED BY <1>2, <1>7, <2>1, <2>2
<1>12. ASSUME d = "$", NEW k \in 1 .. Len(ps)
       PROVE  \E i \in 1 .. Len(text) : \E j \in 1 .. Len(text[i].args) : text[i].args[j] = <<"$", k>>
  <2>1. CASE k <= n
    <3>1. k \in 1 .. Len(a.ps)
      BY <1>0, <1>2, <1>8, <2>1
    <3>2. PICK i \in 1 .. m : \E j \in 1 .. Len(a.sql[i].args) : a.sql[i].args[j] = <<"$", k>>
      BY <1>0, <1>12, <3>1 DEF Meets
    <3>3. i \in 1 .. Len(text) /\ text[i] = a.sql[i]
      BY <1>2, <1>7
    <3>4. PICK j \in 1 .. Len(a.sql[i].args) : a.sql[i].args[j] = <<"$", k>>
      BY <3>2
    <3>5. j \in 1 .. Len(text[i].args) /\ text[i].args[j] = <<"$", k>>
      BY <3>3, <3>4
    <3>6. QED BY <3>3, <3>5
  <2>2. CASE k > n
    <3>1. k - n \in 1 .. Len(r.ps)
      BY <1>2, <1>8, <2>2
    <3>2. PICK i \in 1 .. Len(r.sql) : \E j \in 1 .. Len(r.sql[i].args) : r.sql[i].args[j] = <<"$", k - n>>
      BY <1>12, <3>1 DEF Meets
    <3>3. PICK j \in 1 .. Len(r.sql[i].args) : r.sql[i].args[j] = <<"$", k - n>>
      BY <3>2
    <3>4. /\ Len(new[i].args) = Len(r.sql[i].args)
          /\ new[i].args[j] = IF r.sql[i].args[j][1] = "$"
                              THEN <<"$", r.sql[i].args[j][2] + n>> ELSE r.sql[i].args[j]
      BY <1>16 DEF IsShifted
    <3>5. m + i \in 1 .. Len(text) /\ text[m + i] = new[i]
      <4>1. Len(text) = m + Len(r.sql) /\ text[m + i] = new[i]
        BY <1>7
      <4>2. \A x, y \in Nat : \A z \in 1 .. y : x + z \in 1 .. x + y
        OBVIOUS
      <4>3. m + i \in 1 .. m + Len(r.sql)
        BY <1>2, <4>2
      <4>4. QED BY <4>1, <4>3
    <3>6. r.sql[i].args[j][1] = "$" /\ r.sql[i].args[j][2] = k - n
      BY <3>3
    <3>7. (k - n) + n = k
      BY <1>2, <1>8
    <3>8. new[i].args[j] = <<"$", k>>
      BY <3>4, <3>6, <3>7
    <3>9. QED BY <3>4, <3>5, <3>8
  <2>3. QED BY <1>2, <1>8, <2>1, <2>2
<1>13. d = "?" => Places(text, Len(text)) = Len(ps)
  <2>1. Len(r.sql) \in 0 .. Len(r.sql)
    BY <1>2
  <2>2. Places(text, m + Len(r.sql)) = Places(a.sql, m) + Places(r.sql, Len(r.sql))
    BY <1>10, <2>1
  <2>3. d = "?" => Places(a.sql, m) = n /\ Places(r.sql, Len(r.sql)) = Len(r.ps)
    BY <1>0 DEF Meets
  <2>4. QED BY <1>7, <1>8, <2>2, <2>3
<1>14. QED
  <2>1. Meets(d, put, lput)
    BY <1>4, <1>5, <1>6, <1>7, <1>11, <1>12, <1>13 DEF Meets
  <2>2. QED BY <2>1 DEF put, lput

-----------------------------------------------------------------------------
(* What a part puts: a text, a token with values, a query without SELECT.  *)

\* A text without placeholders meets itself.
LEMMA WordsMeet ==
  ASSUME NEW d \in {"$", "?"}, NEW text \in Seq(Words)
  PROVE  Meets(d, Fragment(text, <<>>), Fragment(text, <<>>))
<1> DEFINE r == Fragment(text, <<>>)
<1>1. /\ text \in Texts /\ Len(text) \in Nat /\ <<>> \in Seq(Values)
      /\ r \in Fragments /\ r.sql = text /\ r.ps = <<>> /\ Len(r.ps) = 0
  <2>1. text \in Texts
    BY DEF Words, Texts
  <2>2. QED BY <2>1 DEF Fragments, Fragment
<1>2. ASSUME NEW i \in 1 .. Len(text)
      PROVE  /\ text[i] \in Words
             /\ Len(text[i].args) \in Nat /\ DOMAIN text[i].args = 1 .. Len(text[i].args)
             /\ \A j \in 1 .. Len(text[i].args) : text[i].args[j] \in Literals
  <2>1. text[i] \in Words
    OBVIOUS
  <2>2. text[i].args \in Seq(Literals)
    BY <2>1 DEF Words
  <2>3. QED BY <2>1, <2>2
<1>3. ASSUME NEW i \in 1 .. Len(text)
      PROVE  TokenMeets(d, <<>>, Places(text, i - 1), text[i], text[i])
  BY <1>2 DEF TokenMeets, SlotMeets, SameWord
<1>4. Places(text, Len(text)) = 0
  <2>1. ASSUME NEW p \in Anonymous(text, Len(text))
        PROVE  FALSE
    <3>1. PICK i \in 1 .. Len(text) : \E j \in DOMAIN text[i].args : text[i].args[j][1] = "?" /\ p = <<i, j>>
      BY <1>1, InAnonymous
    <3>2. PICK j \in 1 .. Len(text[i].args) : text[i].args[j][1] = "?"
      BY <1>2, <3>1
    <3>3. text[i].args[j] \in Literals
      BY <1>2, <3>2
    <3>4. QED BY <3>2, <3>3 DEF Literals
  <2>2. Anonymous(text, Len(text)) = {}
    BY <2>1
  <2>3. QED BY <2>2, FS_EmptySet DEF Places
<1>5. QED
  <2> HIDE DEF r
  <2>1. Meets(d, r, r)
    BY <1>1, <1>3, <1>4 DEF Meets
  <2>2. QED BY <2>1 DEF r

\* The empty statement meets itself.
LEMMA BlankMeets ==
  ASSUME NEW d \in {"$", "?"}
  PROVE  Meets(d, Blank, Blank)
<1>1. <<>> \in Seq(Words)
  OBVIOUS
<1>2. QED BY <1>1, WordsMeet DEF Blank

\* A text put after a statement meets when the statement does (Put).
LEMMA PutTextMeets ==
  ASSUME NEW d \in {"$", "?"}, NEW a, NEW al, Meets(d, a, al), NEW text \in Seq(Words)
  PROVE  Meets(d, Put(a, text), Put(al, text))
<1>1. text \in Texts
  BY DEF Words, Texts
<1>2. ASSUME NEW f \in Fragments
      PROVE  Put(f, text) = PutShifted(f, Fragment(text, <<>>), text)
  <2>1. ASSUME NEW i \in 1 .. Len(text), NEW j \in 1 .. Len(text[i].args)
        PROVE  text[i].args[j][1] # "$"
    <3>1. text[i] \in Words
      OBVIOUS
    <3>2. text[i].args \in Seq(Literals)
      BY <3>1 DEF Words
    <3>3. text[i].args[j] \in Literals
      BY <3>2
    <3>4. QED BY <3>3 DEF Literals
  <2>2. Len(f.ps) \in Nat /\ f.ps \in Seq(Values)
    BY FragmentParts
  <2>3. RenumberParams(text, Len(f.ps)) = text
    BY <1>1, <2>1, <2>2, NothingToRenumber
  <2>4. f.ps \o <<>> = f.ps
    BY <2>2
  <2>5. QED BY <2>3, <2>4 DEF Put, PutShifted, Fragment
<1>3. a \in Fragments /\ al \in Fragments
  BY DEF Meets
<1>4. Fragment(text, <<>>).sql = text
  BY DEF Fragment
<1>5. Meets(d, PutShifted(a, Fragment(text, <<>>), text), PutShifted(al, Fragment(text, <<>>), text))
  BY <1>4, WordsMeet, PutMeets
<1>6. QED BY <1>2, <1>3, <1>5

\* The slot of a value, dialect by dialect.
LEMMA SlotIs ==
  ASSUME NEW n, NEW v
  PROVE  /\ Slot("$", n, v) = <<"$", n>>
         /\ Slot("?", n, v) = <<"?", 0>>
         /\ Slot("v", n, v) = <<"v", v>>
BY Zenon DEF Slot

\* A token with values, alone: its slots are numbered from 1.
LEMMA LeafParts ==
  ASSUME NEW d \in Kinds, NEW t \in Names, NEW col \in Names, NEW vals \in Seq(Values)
  PROVE  LET r == LeafAlone(t, col, vals, d)
         IN  /\ r \in Fragments /\ r.ps = vals /\ Len(r.sql) = 1
             /\ r.sql[1].t = t /\ r.sql[1].col = col
             /\ DOMAIN r.sql[1].args = 1 .. Len(vals) /\ Len(r.sql[1].args) = Len(vals)
             /\ \A i \in 1 .. Len(vals) : r.sql[1].args[i] = Slot(d, i, vals[i])
<1> DEFINE args == [i \in DOMAIN vals |-> Slot(d, i, vals[i])]
           k == Leaf(t, col, args)
           r == LeafAlone(t, col, vals, d)
<1>1. DOMAIN vals = 1 .. Len(vals) /\ Len(vals) \in Nat
  OBVIOUS
<1>2. ASSUME NEW i \in 1 .. Len(vals)
      PROVE  args[i] = Slot(d, i, vals[i]) /\ args[i] \in Slots
  <2>1. vals[i] \in Values /\ i \in Nat
    BY <1>1
  <2>2. Slot(d, i, vals[i]) \in Slots
    BY <2>1, SlotIs DEF Slots, Literals, Kinds
  <2>3. QED BY <1>1, <2>2
<1>3. args \in [1 .. Len(vals) -> Slots]
  <2>1. DOMAIN args = 1 .. Len(vals)
    BY <1>1
  <2>2. args = [i \in DOMAIN args |-> args[i]]
    OBVIOUS
  <2> HIDE DEF args
  <2>3. QED BY <1>2, <2>1, <2>2
<1>4. args \in Seq(Slots) /\ Len(args) = Len(vals) /\ DOMAIN args = 1 .. Len(vals)
  <2> HIDE DEF args
  <2>1. QED BY <1>1, <1>3
<1>5. r.sql = <<k>> /\ r.ps = vals /\ r = Fragment(<<k>>, vals)
  BY DEF LeafAlone, Fragment
<1>6. k \in Tokens /\ k.t = t /\ k.col = col /\ k.args = args
  <2> HIDE DEF args
  <2>1. QED BY <1>4 DEF Tokens, Leaf
<1> HIDE DEF args, k, r
<1>7. <<k>> \in Texts /\ <<k>>[1] = k /\ Len(<<k>>) = 1
  BY <1>6 DEF Texts
<1>8. r \in Fragments
  BY <1>5, <1>7 DEF Fragments, Fragment
<1>9. QED BY <1>2, <1>4, <1>5, <1>6, <1>7, <1>8 DEF r

\* A token with values meets the same token with its values written out.
LEMMA LeafMeets ==
  ASSUME NEW d \in {"$", "?"}, NEW t \in Names, NEW tl \in Names, NEW col \in Names, NEW vals \in Seq(Values),
         tl # "SELECT", SameWord(t, tl)
  PROVE  Meets(d, LeafAlone(t, col, vals, d), LeafAlone(tl, col, vals, "v"))
<1> DEFINE r == LeafAlone(t, col, vals, d)
           l == LeafAlone(tl, col, vals, "v")
           n == Len(vals)
<1>0. n \in Nat /\ \A i \in 1 .. n : vals[i] \in Values
  OBVIOUS
<1>1. /\ r \in Fragments /\ r.ps = vals /\ Len(r.sql) = 1
      /\ r.sql[1].t = t /\ r.sql[1].col = col
      /\ DOMAIN r.sql[1].args = 1 .. n /\ Len(r.sql[1].args) = n
      /\ \A i \in 1 .. n : r.sql[1].args[i] = Slot(d, i, vals[i])
  BY LeafParts DEF Kinds
<1>2. /\ l \in Fragments /\ l.ps = vals /\ Len(l.sql) = 1
      /\ l.sql[1].t = tl /\ l.sql[1].col = col
      /\ DOMAIN l.sql[1].args = 1 .. n /\ Len(l.sql[1].args) = n
      /\ \A i \in 1 .. n : l.sql[1].args[i] = <<"v", vals[i]>>
  <2>1. /\ l \in Fragments /\ l.ps = vals /\ Len(l.sql) = 1
        /\ l.sql[1].t = tl /\ l.sql[1].col = col
        /\ DOMAIN l.sql[1].args = 1 .. n /\ Len(l.sql[1].args) = n
        /\ \A i \in 1 .. n : l.sql[1].args[i] = Slot("v", i, vals[i])
    BY LeafParts DEF Kinds
  <2>2. \A i \in 1 .. n : Slot("v", i, vals[i]) = <<"v", vals[i]>>
    BY SlotIs
  <2> HIDE DEF l, n
  <2>3. QED BY <2>1, <2>2
<1> HIDE DEF r, l, n
<1>3. l.sql[1] \in Words
  <2>1. l.sql \in Texts /\ 1 \in 1 .. Len(l.sql)
    BY <1>2, FragmentParts
  <2>2. l.sql[1] \in Tokens /\ l.sql[1].args \in Seq(Slots)
    BY <2>1, TokenOfText
  <2>3. ASSUME NEW i \in 1 .. n
        PROVE  l.sql[1].args[i] \in Literals
    <3>1. l.sql[1].args[i] = <<"v", vals[i]>> /\ vals[i] \in Values
      BY <1>0, <1>2
    <3>2. <<"v", vals[i]>> \in Literals
      BY <3>1 DEF Literals
    <3>3. QED BY <3>1, <3>2
  <2>4. l.sql[1].args \in Seq(Literals)
    BY <1>0, <1>2, <2>2, <2>3
  <2>5. QED BY <1>2, <2>2, <2>4 DEF Words
<1>4. Anonymous(r.sql, 0) = {} /\ Places(r.sql, 0) = 0
  <2>1. Anonymous(r.sql, 0) = {}
    BY DEF Anonymous
  <2>2. QED BY <2>1, FS_EmptySet DEF Places
<1>5. vals \in Seq(Values) /\ Len(vals) = n
  BY DEF n
<1>6. TokenMeets(d, vals, 0, r.sql[1], l.sql[1])
  <2>1. ASSUME NEW j \in 1 .. n
        PROVE  SlotMeets(d, vals, 0 + j, r.sql[1].args[j], l.sql[1].args[j])
    <3>1. /\ r.sql[1].args[j] = Slot(d, j, vals[j]) /\ l.sql[1].args[j] = <<"v", vals[j]>>
          /\ <<"v", vals[j]>> \in Literals /\ 0 + j = j
      BY <1>0, <1>1, <1>2 DEF Literals
    <3>2. CASE d = "$"
      <4>1. Slot(d, j, vals[j]) = <<"$", j>>
        BY <3>2, SlotIs
      <4>2. QED BY <1>5, <3>1, <3>2, <4>1 DEF SlotMeets
    <3>3. CASE d = "?"
      <4>1. Slot(d, j, vals[j]) = <<"?", 0>>
        BY <3>3, SlotIs
      <4>2. QED BY <1>5, <3>1, <3>3, <4>1 DEF SlotMeets
    <3>4. QED BY <3>2, <3>3
  <2>2. QED BY <1>1, <1>2, <1>3, <2>1 DEF TokenMeets
<1>7. ASSUME d = "$", NEW k \in 1 .. n
      PROVE  r.sql[1].args[k] = <<"$", k>>
  BY <1>1, <1>7, SlotIs
<1>8. ASSUME d = "?"
      PROVE  Places(r.sql, 1) = n
  <2> DEFINE K == {k \in DOMAIN r.sql[0 + 1].args : r.sql[0 + 1].args[k][1] = "?"}
  <2>1. K = 1 .. n
    <3>1. 0 + 1 = 1
      OBVIOUS
    <3>2. \A i \in 1 .. n : r.sql[1].args[i] = <<"?", 0>>
      BY <1>1, <1>8, SlotIs
    <3>3. QED BY <1>1, <3>1, <3>2
  <2>2. Anonymous(r.sql, 0 + 1) = Anonymous(r.sql, 0) \cup ({0 + 1} \X K)
    BY AnonymousNext
  <2>3. Anonymous(r.sql, 1) = {1} \X (1 .. n)
    BY <1>4, <2>1, <2>2
  <2>4. IsFiniteSet({1}) /\ Cardinality({1}) = 1
    BY FS_Singleton
  <2>5. IsFiniteSet(1 .. n) /\ Cardinality(1 .. n) = n
    BY <1>0, FS_Interval
  <2>6. Cardinality({1} \X (1 .. n)) = 1 * n
    BY <2>4, <2>5, FS_Product
  <2>7. 1 * n = n
    BY <1>0
  <2>8. QED BY <2>3, <2>6, <2>7 DEF Places
<1>9. QED
  <2>1. \A i \in 1 .. Len(r.sql) : i = 1 /\ i - 1 = 0
    BY <1>1
  <2>2. \A i \in 1 .. Len(r.sql) : TokenMeets(d, r.ps, Places(r.sql, i - 1), r.sql[i], l.sql[i])
    BY <1>1, <1>4, <1>6, <2>1
  <2>3. d = "$" => \A k \in 1 .. Len(r.ps) :
                        \E i \in 1 .. Len(r.sql) : \E j \in 1 .. Len(r.sql[i].args) :
                            r.sql[i].args[j] = <<"$", k>>
    BY <1>1, <1>5, <1>7
  <2>4. Meets(d, r, l)
    BY <1>1, <1>2, <1>5, <1>8, <2>2, <2>3 DEF Meets
  <2>5. QED BY <2>4 DEF r, l

\* A token with values put after a statement is that token alone, put after it.
LEMMA PutLeafIs ==
  ASSUME NEW d \in Kinds, NEW a \in Fragments, NEW t \in Names, NEW col \in Names, NEW vals \in Seq(Values)
  PROVE  PutLeaf(a, t, col, vals, d)
            = PutShifted(a, LeafAlone(t, col, vals, d), LeafAlone(t, col, vals, d).sql)
<1> DEFINE r == LeafAlone(t, col, vals, d)
           n == Len(a.ps)
           new == RenumberParams(r.sql, n)
           args == [i \in DOMAIN vals |-> Slot(d, n + i, vals[i])]
<1>1. /\ r.ps = vals /\ Len(r.sql) = 1 /\ r.sql \in Texts
      /\ r.sql[1].t = t /\ r.sql[1].col = col
      /\ DOMAIN r.sql[1].args = 1 .. Len(vals) /\ Len(r.sql[1].args) = Len(vals)
      /\ \A i \in 1 .. Len(vals) : r.sql[1].args[i] = Slot(d, i, vals[i])
  BY LeafParts, FragmentParts
<1>2. /\ a.sql \in Texts /\ n \in Nat /\ DOMAIN vals = 1 .. Len(vals) /\ Len(vals) \in Nat
  BY FragmentParts
<1> HIDE DEF r, n
<1>3. /\ new \in Texts /\ Len(new) = 1 /\ new[1].t = t /\ new[1].col = col
      /\ DOMAIN new[1].args = 1 .. Len(vals)
      /\ \A j \in 1 .. Len(vals) :
            new[1].args[j] = IF r.sql[1].args[j][1] = "$"
                             THEN <<"$", r.sql[1].args[j][2] + n>> ELSE r.sql[1].args[j]
  BY <1>1, <1>2, Renumbered
<1> HIDE DEF new
<1>4. ASSUME NEW j \in 1 .. Len(vals)
      PROVE  new[1].args[j] = Slot(d, n + j, vals[j])
  <2>1. r.sql[1].args[j] = Slot(d, j, vals[j])
    BY <1>1
  <2>2. CASE d = "$"
    <3>1. r.sql[1].args[j] = <<"$", j>> /\ Slot(d, n + j, vals[j]) = <<"$", n + j>>
      BY <2>1, <2>2, SlotIs
    <3>2. r.sql[1].args[j][1] = "$" /\ r.sql[1].args[j][2] = j
      BY <3>1
    <3>3. j + n = n + j
      BY <1>2
    <3>4. new[1].args[j] = <<"$", r.sql[1].args[j][2] + n>>
      BY <1>3, <3>2
    <3>5. QED BY <3>1, <3>2, <3>3, <3>4
  <2>3. CASE d = "?"
    <3>1. r.sql[1].args[j] = <<"?", 0>> /\ Slot(d, n + j, vals[j]) = <<"?", 0>>
      BY <2>1, <2>3, SlotIs
    <3>2. r.sql[1].args[j][1] # "$"
      BY <3>1
    <3>3. QED BY <1>3, <3>1, <3>2
  <2>4. CASE d = "v"
    <3>1. r.sql[1].args[j] = <<"v", vals[j]>> /\ Slot(d, n + j, vals[j]) = <<"v", vals[j]>>
      BY <2>1, <2>4, SlotIs
    <3>2. r.sql[1].args[j][1] # "$"
      BY <3>1
    <3>3. QED BY <1>3, <3>1, <3>2
  <2>5. QED BY <2>2, <2>3, <2>4 DEF Kinds
<1>5. new[1] = Leaf(t, col, args)
  <2>1. /\ new[1] = Leaf(t, col, new[1].args)
        /\ new[1].args \in Seq(Slots)
    <3>1. 1 \in 1 .. Len(new)
      BY <1>3
    <3>2. new[1] = Leaf(new[1].t, new[1].col, new[1].args) /\ new[1].args \in Seq(Slots)
      BY <1>3, <3>1, TokenOfText
    <3>3. QED BY <1>3, <3>2
  <2>2. DOMAIN args = 1 .. Len(vals) /\ \A j \in 1 .. Len(vals) : args[j] = Slot(d, n + j, vals[j])
    BY <1>2
  <2>3. args = [j \in DOMAIN args |-> args[j]]
    OBVIOUS
  <2>4. new[1].args = [j \in DOMAIN new[1].args |-> new[1].args[j]]
    BY <2>1
  <2> HIDE DEF args
  <2>5. new[1].args = args
    BY <1>3, <1>4, <2>2, <2>3, <2>4
  <2>6. QED BY <2>1, <2>5
<1>6. new = <<Leaf(t, col, args)>>
  <2> DEFINE k == Leaf(t, col, args)
  <2>1. new[1] = k
    BY <1>5
  <2> HIDE DEF k
  <2>2. new \in Seq(Tokens) /\ k \in Tokens
    <3>1. new \in Seq(Tokens)
      BY <1>3 DEF Texts
    <3>2. \A s \in Seq(Tokens) : Len(s) = 1 => s[1] \in Tokens
      OBVIOUS
    <3>3. new[1] \in Tokens
      BY <1>3, <3>1, <3>2, Zenon
    <3>4. QED BY <2>1, <3>1, <3>3
  <2>3. <<k>> \in Seq(Tokens) /\ Len(<<k>>) = 1 /\ <<k>>[1] = k
    BY <2>2
  <2>4. \A i \in 1 .. Len(new) : new[i] = <<k>>[i]
    BY <1>3, <2>1, <2>3
  <2>5. new = <<k>>
    BY <1>3, <2>2, <2>3, <2>4, SeqSame
  <2>6. QED BY <2>5 DEF k
<1>7. PutLeaf(a, t, col, vals, d) = Fragment(Append(a.sql, Leaf(t, col, args)), a.ps \o vals)
  BY DEF PutLeaf, n
<1>8. PutShifted(a, r, r.sql) = Fragment(a.sql \o new, a.ps \o vals)
  BY <1>1 DEF PutShifted, new, n
<1>9. Append(a.sql, Leaf(t, col, args)) = a.sql \o <<Leaf(t, col, args)>>
  <2> HIDE DEF args
  <2>1. a.sql \in Seq(Tokens)
    BY <1>2 DEF Texts
  <2>2. new[1] \in Tokens
    <3>1. new \in Seq(Tokens)
      BY <1>3 DEF Texts
    <3>2. \A s \in Seq(Tokens) : Len(s) = 1 => s[1] \in Tokens
      OBVIOUS
    <3>3. QED BY <1>3, <3>1, <3>2, Zenon
  <2>3. QED BY <1>5, <2>1, <2>2
<1>10. QED BY <1>6, <1>7, <1>8, <1>9 DEF r

\* A token with values put after a statement meets when the statement does
\* (PutLeaf, of ToParamSql and its dialects).
LEMMA PutLeafMeets ==
  ASSUME NEW d \in {"$", "?"}, NEW a, NEW al, Meets(d, a, al),
         NEW t \in Names, NEW tl \in Names, NEW col \in Names, NEW vals \in Seq(Values),
         tl # "SELECT", SameWord(t, tl)
  PROVE  Meets(d, PutLeaf(a, t, col, vals, d), PutLeaf(al, tl, col, vals, "v"))
<1>1. a \in Fragments /\ al \in Fragments
  BY DEF Meets
<1>2. d \in Kinds /\ "v" \in Kinds
  BY DEF Kinds
<1>3. PutLeaf(a, t, col, vals, d) = PutShifted(a, LeafAlone(t, col, vals, d), LeafAlone(t, col, vals, d).sql)
  BY <1>1, <1>2, PutLeafIs
<1>4. PutLeaf(al, tl, col, vals, "v")
        = PutShifted(al, LeafAlone(tl, col, vals, "v"), LeafAlone(tl, col, vals, "v").sql)
  BY <1>1, <1>2, PutLeafIs
<1>5. Meets(d, LeafAlone(t, col, vals, d), LeafAlone(tl, col, vals, "v"))
  BY LeafMeets
<1>6. QED BY <1>3, <1>4, <1>5, PutMeets

\* The types of what is put.
LEMMA PutTypes ==
  ASSUME NEW a \in Fragments
  PROVE  /\ \A text \in Texts : Put(a, text) \in Fragments
         /\ \A d \in Kinds, t \in Names, col \in Names, vals \in Seq(Values) :
                PutLeaf(a, t, col, vals, d) \in Fragments
<1>1. ASSUME NEW text \in Texts
      PROVE  Put(a, text) \in Fragments
  <2>1. a.sql \o text \in Texts /\ a.ps \in Seq(Values)
    BY FragmentParts DEF Texts
  <2>2. QED BY <2>1 DEF Put, Fragment, Fragments
<1>2. ASSUME NEW d \in Kinds, NEW t \in Names, NEW col \in Names, NEW vals \in Seq(Values)
      PROVE  PutLeaf(a, t, col, vals, d) \in Fragments
  <2>1. LeafAlone(t, col, vals, d) \in Fragments
    BY LeafParts
  <2>2. LeafAlone(t, col, vals, d).sql \in Texts
    BY <2>1, FragmentParts
  <2>3. QED BY <2>1, <2>2, PutLeafIs, PutShiftedType
<1>3. QED BY <1>1, <1>2

\* A query keeps meeting without its leading SELECT (WithoutSelect).
LEMMA WithoutSelectMeets ==
  ASSUME NEW d \in {"$", "?"}, NEW r, NEW l, Meets(d, r, l)
  PROVE  Meets(d, Fragment(WithoutSelect(r.sql), r.ps), Fragment(WithoutSelect(l.sql), l.ps))
<1> DEFINE m == Len(r.sql)
           rt == Tail(r.sql)
           lt == Tail(l.sql)
<1>1. /\ r \in Fragments /\ l \in Fragments /\ Len(l.sql) = m
      /\ r.sql \in Texts /\ l.sql \in Texts /\ r.ps \in Seq(Values) /\ l.ps \in Seq(Values) /\ m \in Nat
      /\ Len(r.ps) \in Nat
      /\ r = Fragment(r.sql, r.ps) /\ l = Fragment(l.sql, l.ps)
  BY FragmentParts DEF Meets
<1>2. CASE r.sql = <<>>
  <2>1. l.sql = <<>>
    BY <1>1, <1>2 DEF Texts
  <2>2. QED BY <1>1, <1>2, <2>1 DEF WithoutSelect
<1>3. CASE r.sql # <<>>
  <2>1. m > 0 /\ l.sql # <<>> /\ 1 \in 1 .. m
    BY <1>1, <1>3 DEF Texts
  <2>2. TokenMeets(d, r.ps, Places(r.sql, 1 - 1), r.sql[1], l.sql[1])
    BY <2>1 DEF Meets
  <2>3. r.sql[1].t = "SELECT" <=> l.sql[1].t = "SELECT"
    BY <2>2 DEF TokenMeets, SameWord
  <2>4. CASE r.sql[1].t # "SELECT"
    BY <1>1, <2>3, <2>4 DEF WithoutSelect
  <2>5. CASE r.sql[1].t = "SELECT"
    <3>1. Len(r.sql[1].args) = 0
      <4>1. l.sql[1].args = <<>>
        BY <2>2, <2>3, <2>5 DEF TokenMeets, Words
      <4>2. QED BY <2>2, <4>1 DEF TokenMeets
    <3>2. r.sql[1] \in Tokens /\ DOMAIN r.sql[1].args = {}
      <4>1. r.sql[1] \in Tokens /\ DOMAIN r.sql[1].args = 1 .. Len(r.sql[1].args)
        BY <1>1, <2>1, TokenOfText
      <4>2. QED BY <3>1, <4>1
    <3>3. /\ rt \in Texts /\ Len(rt) = m - 1 /\ \A i \in 1 .. (m - 1) : rt[i] = r.sql[i + 1]
          /\ lt \in Texts /\ Len(lt) = m - 1 /\ \A i \in 1 .. (m - 1) : lt[i] = l.sql[i + 1]
      BY <1>1, <1>3, <2>1 DEF Texts
    <3> HIDE DEF rt, lt
    <3>4. ASSUME NEW i \in 0 .. Len(rt)
          PROVE  Places(r.sql, 1 + i) = Places(rt, i)
      <4> DEFINE h == <<r.sql[1]>>
      <4>1. h \in Texts /\ Len(h) = 1 /\ h[1] = r.sql[1]
        BY <3>2 DEF Texts
      <4>2. r.sql = h \o rt
        <5>1. /\ h \o rt \in Seq(Tokens)
              /\ Len(h \o rt) = 1 + (m - 1)
              /\ (h \o rt)[1] = h[1]
              /\ \A k \in 1 .. (m - 1) : (h \o rt)[1 + k] = rt[k]
          <6> HIDE DEF h
          <6>1. h \in Seq(Tokens) /\ rt \in Seq(Tokens)
            BY <3>3, <4>1 DEF Texts
          <6>2. /\ h \o rt \in Seq(Tokens)
                /\ Len(h \o rt) = Len(h) + Len(rt)
                /\ \A k \in 1 .. Len(h) : (h \o rt)[k] = h[k]
                /\ \A k \in 1 .. Len(rt) : (h \o rt)[Len(h) + k] = rt[k]
            <7>1. \A s, t \in Seq(Tokens) :
                    /\ s \o t \in Seq(Tokens)
                    /\ Len(s \o t) = Len(s) + Len(t)
                    /\ \A k \in 1 .. Len(s) : (s \o t)[k] = s[k]
                    /\ \A k \in 1 .. Len(t) : (s \o t)[Len(s) + k] = t[k]
              BY Concat
            <7>2. QED BY <6>1, <7>1
          <6>3. QED BY <3>3, <4>1, <6>2
        <5>2. ASSUME NEW k \in 1 .. m
              PROVE  r.sql[k] = (h \o rt)[k]
          <6>1. CASE k = 1
            BY <4>1, <5>1, <6>1
          <6>2. CASE k # 1
            <7>1. k - 1 \in 1 .. (m - 1) /\ 1 + (k - 1) = k /\ (k - 1) + 1 = k
              BY <1>1, <6>2
            <7>2. (h \o rt)[1 + (k - 1)] = rt[k - 1] /\ rt[k - 1] = r.sql[(k - 1) + 1]
              BY <3>3, <5>1, <7>1
            <7>3. QED BY <7>1, <7>2
          <6>3. QED BY <6>1, <6>2
        <5>3. Len(h \o rt) = m /\ r.sql \in Seq(Tokens)
          BY <1>1, <2>1, <5>1 DEF Texts
        <5> HIDE DEF h
        <5>4. QED BY <5>1, <5>2, <5>3, SeqSame
      <4>3. Anonymous(h, 1) = {}
        <5>1. ASSUME NEW p \in Anonymous(h, 1)
              PROVE  FALSE
          <6>1. PICK k \in 1 .. 1 : \E j \in DOMAIN h[k].args : h[k].args[j][1] = "?" /\ p = <<k, j>>
            <7> HIDE DEF h
            <7>1. QED BY <5>1, InAnonymous
          <6>2. k = 1
            OBVIOUS
          <6> HIDE DEF h
          <6>3. QED BY <3>2, <4>1, <6>1, <6>2
        <5>2. QED BY <5>1
      <4> HIDE DEF h
      <4>4. Cardinality(Anonymous(h \o rt, Len(h) + i)) = Cardinality(Anonymous(h, Len(h))) + Cardinality(Anonymous(rt, i))
        BY <3>3, <4>1, AnonymousAfter
      <4>5. Cardinality(Anonymous(h, 1)) = 0
        BY <4>3, FS_EmptySet
      <4>6. Cardinality(Anonymous(rt, i)) \in Nat
        BY <3>3, AnonymousFinite
      <4>7. QED BY <4>1, <4>2, <4>4, <4>5, <4>6 DEF Places
    <3>5. ASSUME NEW i \in 1 .. Len(rt)
          PROVE  TokenMeets(d, r.ps, Places(rt, i - 1), rt[i], lt[i])
      <4>1. i + 1 \in 1 .. m /\ i - 1 \in 0 .. Len(rt) /\ (i + 1) - 1 = 1 + (i - 1) /\ i \in 1 .. (m - 1)
        BY <1>1, <2>1, <3>3
      <4>2. TokenMeets(d, r.ps, Places(r.sql, (i + 1) - 1), r.sql[i + 1], l.sql[i + 1])
        BY <4>1 DEF Meets
      <4>3. Places(r.sql, 1 + (i - 1)) = Places(rt, i - 1)
        BY <3>4, <4>1
      <4>4. QED BY <3>3, <4>1, <4>2, <4>3
    <3>6. ASSUME d = "$", NEW k \in 1 .. Len(r.ps)
          PROVE  \E i \in 1 .. Len(rt) : \E j \in 1 .. Len(rt[i].args) : rt[i].args[j] = <<"$", k>>
      <4>1. PICK i \in 1 .. m : \E j \in 1 .. Len(r.sql[i].args) : r.sql[i].args[j] = <<"$", k>>
        BY <3>6 DEF Meets
      <4>2. PICK j \in 1 .. Len(r.sql[i].args) : r.sql[i].args[j] = <<"$", k>>
        BY <4>1
      <4>3. i # 1
        BY <3>1, <4>2
      <4>4. i - 1 \in 1 .. (m - 1) /\ (i - 1) + 1 = i
        BY <1>1, <4>3
      <4>5. i - 1 \in 1 .. Len(rt) /\ rt[i - 1] = r.sql[i]
        BY <3>3, <4>4
      <4>6. QED BY <4>2, <4>5
    <3>7. d = "?" => Places(rt, Len(rt)) = Len(r.ps)
      <4>1. Len(rt) \in 0 .. Len(rt) /\ 1 + Len(rt) = m
        BY <1>1, <2>1, <3>3
      <4>2. Places(r.sql, m) = Places(rt, Len(rt))
        BY <3>4, <4>1
      <4>3. d = "?" => Places(r.sql, m) = Len(r.ps)
        BY DEF Meets
      <4>4. QED BY <4>2, <4>3
    <3> DEFINE rf == Fragment(rt, r.ps)
               lf == Fragment(lt, l.ps)
    <3>8. rf \in Fragments /\ lf \in Fragments /\ rf.sql = rt /\ lf.sql = lt /\ rf.ps = r.ps
      BY <1>1, <3>3 DEF Fragments, Fragment
    <3> HIDE DEF rf, lf
    <3>9. Meets(d, rf, lf)
      BY <3>3, <3>5, <3>6, <3>7, <3>8 DEF Meets
    <3>10. WithoutSelect(r.sql) = rt /\ WithoutSelect(l.sql) = lt
      BY <1>3, <2>1, <2>3, <2>5 DEF WithoutSelect, rt, lt
    <3>11. QED BY <3>9, <3>10 DEF rf, lf
  <2>6. QED BY <2>4, <2>5
<1>4. QED BY <1>2, <1>3

\* A text put as it is meets when nothing is before it, or nothing is numbered
\* (SET after the CTEs of an UPDATE).
LEMMA PutAsIsMeets ==
  ASSUME NEW d \in {"$", "?"}, NEW a, NEW al, NEW r, NEW rl, Meets(d, a, al), Meets(d, r, rl),
         d = "?" \/ a.ps = <<>>
  PROVE  Meets(d, PutAsIs(a, r), PutAsIs(al, rl))
<1>1. /\ a \in Fragments /\ al \in Fragments /\ r \in Fragments /\ rl \in Fragments
      /\ r.sql \in Texts /\ rl.sql \in Texts /\ Len(a.ps) \in Nat /\ Len(al.ps) \in Nat /\ r.ps \in Seq(Values)
  BY FragmentParts DEF Meets
<1>2. RenumberParams(r.sql, Len(a.ps)) = r.sql
  <2>1. CASE a.ps = <<>>
    <3>1. Len(a.ps) = 0
      BY <2>1
    <3>2. QED BY <1>1, <3>1, NothingToRenumber
  <2>2. CASE d = "?"
    <3>1. ASSUME NEW i \in 1 .. Len(r.sql), NEW j \in 1 .. Len(r.sql[i].args)
          PROVE  r.sql[i].args[j][1] # "$"
      <4>1. SlotMeets(d, r.ps, Places(r.sql, i - 1) + j, r.sql[i].args[j], rl.sql[i].args[j])
        BY DEF Meets, TokenMeets
      <4>2. QED BY <1>1, <2>2, <4>1, SlotOfKind
    <3>2. QED BY <1>1, <3>1, NothingToRenumber
  <2>3. QED BY <2>1, <2>2
<1>3. RenumberParams(rl.sql, Len(al.ps)) = rl.sql
  <2>1. ASSUME NEW i \in 1 .. Len(rl.sql), NEW j \in 1 .. Len(rl.sql[i].args)
        PROVE  rl.sql[i].args[j][1] # "$"
    <3>1. rl.sql[i] \in Words
      BY DEF Meets, TokenMeets
    <3>2. rl.sql[i].args \in Seq(Literals)
      BY <3>1 DEF Words
    <3>3. rl.sql[i].args[j] \in Literals
      BY <3>2
    <3>4. QED BY <3>3 DEF Literals
  <2>2. QED BY <1>1, <2>1, NothingToRenumber
<1>4. PutAsIs(a, r) = PutShifted(a, r, r.sql) /\ PutAsIs(al, rl) = PutShifted(al, rl, rl.sql)
  BY <1>2, <1>3 DEF PutAsIs, PutShifted
<1>5. QED BY <1>4, PutMeets

-----------------------------------------------------------------------------
(* The run that writes a statement (Run in Written).                       *)

\* There is a beginning of the run of each length.
LEMMA BeginningExists ==
  ASSUME NEW w, NEW d
  PROVE  \A n \in Nat : \E f : RunsTo(f, w, d, n)
<1> DEFINE S == {n \in Nat : \E f : RunsTo(f, w, d, n)}
<1>1. 0 \in S
  <2> DEFINE f == [k \in {0} |-> w]
  <2>1. RunsTo(f, w, d, 0)
    BY DEF RunsTo
  <2>2. QED BY <2>1
<1>2. ASSUME NEW n \in Nat, n \in S
      PROVE  n + 1 \in S
  <2>1. PICK f : RunsTo(f, w, d, n)
    BY <1>2
  <2> DEFINE g == [k \in 0 .. (n + 1) |-> IF k = n + 1 THEN After(f[n], d) ELSE f[k]]
  <2>2. \A k \in 0 .. n : g[k] = f[k]
    OBVIOUS
  <2>3. g[n + 1] = After(f[n], d)
    OBVIOUS
  <2> HIDE DEF g
  <2>4. ASSUME NEW k \in 0 .. (n + 1)
        PROVE  g[k] = IF k = 0 THEN w ELSE After(g[k - 1], d)
    <3>1. CASE k = n + 1
      <4>1. k # 0 /\ k - 1 = n /\ n \in 0 .. n
        BY <3>1
      <4>2. QED BY <2>2, <2>3, <3>1, <4>1
    <3>2. CASE k # n + 1 /\ k # 0
      <4>1. k \in 0 .. n /\ k - 1 \in 0 .. n
        BY <3>2
      <4>2. f[k] = After(f[k - 1], d)
        BY <2>1, <3>2, <4>1 DEF RunsTo
      <4>3. QED BY <2>2, <3>2, <4>1, <4>2
    <3>3. CASE k = 0
      <4>1. 0 \in 0 .. n
        OBVIOUS
      <4>2. f[0] = w
        BY <2>1, <4>1 DEF RunsTo
      <4>3. QED BY <2>2, <3>3, <4>1, <4>2
    <3>4. QED BY <3>1, <3>2, <3>3
  <2>5. RunsTo(g, w, d, n + 1)
    BY <2>4 DEF RunsTo
  <2>6. QED BY <2>5
<1>3. \A n \in Nat : n \in S
  <2> HIDE DEF S
  <2>1. QED BY <1>1, <1>2, Induction
<1>4. QED BY <1>3

\* Two beginnings agree as far as both go.
LEMMA BeginningUnique ==
  ASSUME NEW w, NEW d
  PROVE  \A k \in Nat : \A f, g : \A n, m \in Nat :
            RunsTo(f, w, d, n) /\ RunsTo(g, w, d, m) /\ k <= n /\ k <= m => f[k] = g[k]
<1> DEFINE Same(k) == \A f, g : \A n, m \in Nat :
                        RunsTo(f, w, d, n) /\ RunsTo(g, w, d, m) /\ k <= n /\ k <= m => f[k] = g[k]
           S == {k \in Nat : Same(k)}
<1>1. 0 \in S
  <2>1. ASSUME NEW f, NEW g, NEW n \in Nat, NEW m \in Nat, RunsTo(f, w, d, n), RunsTo(g, w, d, m)
        PROVE  f[0] = g[0]
    <3>1. 0 \in 0 .. n /\ 0 \in 0 .. m
      OBVIOUS
    <3>2. f[0] = w /\ g[0] = w
      BY <2>1, <3>1 DEF RunsTo
    <3>3. QED BY <3>2
  <2>2. QED BY <2>1
<1>2. ASSUME NEW k \in Nat, k \in S
      PROVE  k + 1 \in S
  <2>1. ASSUME NEW f, NEW g, NEW n \in Nat, NEW m \in Nat, RunsTo(f, w, d, n), RunsTo(g, w, d, m),
               k + 1 <= n, k + 1 <= m
        PROVE  f[k + 1] = g[k + 1]
    <3>1. /\ k + 1 \in 0 .. n /\ k + 1 \in 0 .. m /\ k + 1 # 0 /\ (k + 1) - 1 = k
          /\ k <= n /\ k <= m
      BY <2>1
    <3>2. f[k + 1] = After(f[k], d) /\ g[k + 1] = After(g[k], d)
      BY <2>1, <3>1 DEF RunsTo
    <3>3. f[k] = g[k]
      BY <1>2, <2>1, <3>1
    <3>4. QED BY <3>2, <3>3
  <2>2. Same(k + 1)
    BY <2>1
  <2>3. QED BY <2>2
<1>3. \A k \in Nat : k \in S
  <2> HIDE DEF S
  <2>1. QED BY <1>1, <1>2, Induction
<1>4. QED BY <1>3

\* There is a run.
LEMMA RunExists ==
  ASSUME NEW w, NEW d
  PROVE  \E f : IsRun(f, w, d)
<1> DEFINE F(n) == CHOOSE f : RunsTo(f, w, d, n)
           h == [n \in Nat |-> F(n)[n]]
<1>1. ASSUME NEW n \in Nat
      PROVE  RunsTo(F(n), w, d, n)
  <2>1. \E f : RunsTo(f, w, d, n)
    BY BeginningExists
  <2>2. QED BY <2>1
<1> HIDE DEF F
<1>2. ASSUME NEW n \in Nat
      PROVE  h[n] = IF n = 0 THEN w ELSE After(h[n - 1], d)
  <2>1. RunsTo(F(n), w, d, n) /\ n \in 0 .. n
    BY <1>1
  <2>2. F(n)[n] = IF n = 0 THEN w ELSE After(F(n)[n - 1], d)
    BY <2>1 DEF RunsTo
  <2>3. CASE n = 0
    BY <2>2, <2>3
  <2>4. CASE n # 0
    <3>1. n - 1 \in Nat /\ n - 1 <= n /\ n - 1 <= n - 1
      BY <2>4
    <3>2. RunsTo(F(n - 1), w, d, n - 1)
      BY <1>1, <3>1
    <3>3. F(n)[n - 1] = F(n - 1)[n - 1]
      BY <2>1, <3>1, <3>2, BeginningUnique
    <3>4. h[n] = F(n)[n] /\ h[n - 1] = F(n - 1)[n - 1]
      BY <3>1
    <3> HIDE DEF h
    <3>5. QED BY <2>2, <2>4, <3>3, <3>4
  <2>5. QED BY <2>3, <2>4
<1>3. h = [n \in Nat |-> h[n]]
  OBVIOUS
<1> HIDE DEF h
<1>4. h = [n \in Nat |-> IF n = 0 THEN w ELSE After(h[n - 1], d)]
  BY <1>2, <1>3
<1>5. QED BY <1>4 DEF IsRun

\* Step by step.
LEMMA RunSteps ==
  ASSUME NEW w, NEW d, NEW f, IsRun(f, w, d)
  PROVE  /\ f[0] = w
         /\ \A n \in Nat : f[n + 1] = After(f[n], d)
<1>1. f = [n \in Nat |-> IF n = 0 THEN w ELSE After(f[n - 1], d)]
  BY DEF IsRun
<1>2. f[0] = w
  BY <1>1
<1>3. ASSUME NEW n \in Nat
      PROVE  f[n + 1] = After(f[n], d)
  <2>1. n + 1 \in Nat /\ n + 1 # 0 /\ (n + 1) - 1 = n
    OBVIOUS
  <2>2. f[n + 1] = IF n + 1 = 0 THEN w ELSE After(f[(n + 1) - 1], d)
    BY <1>1, <2>1, Zenon
  <2>3. QED BY <2>1, <2>2
<1>4. QED BY <1>2, <1>3

\* What has nothing left to do stays as it is.
LEMMA RunStops ==
  ASSUME NEW w, NEW d, NEW f, IsRun(f, w, d), NEW n \in Nat, f[n].todo = <<>>
  PROVE  \A k \in Nat : f[n + k] = f[n]
<1> DEFINE S == {k \in Nat : f[n + k] = f[n]}
<1>1. 0 \in S
  OBVIOUS
<1>2. ASSUME NEW k \in Nat, k \in S
      PROVE  k + 1 \in S
  <2>1. f[n + k] = f[n] /\ n + k \in Nat /\ n + (k + 1) = (n + k) + 1
    BY <1>2
  <2>2. f[(n + k) + 1] = After(f[n + k], d)
    BY <2>1, RunSteps
  <2>3. QED BY <2>1, <2>2 DEF After
<1>3. \A k \in Nat : k \in S
  <2> HIDE DEF S
  <2>1. QED BY <1>1, <1>2, Induction
<1>4. QED BY <1>3

\* What is written is where some run ends, or stops for its length.
LEMMA WrittenIs ==
  ASSUME NEW acc, NEW parts, NEW d
  PROVE  \E f : /\ IsRun(f, At(acc, parts), d)
                /\ \E n \in Nat : /\ n <= MaxParts
                                  /\ f[n].todo = <<>> \/ n = MaxParts
                                  /\ Written(acc, parts, d) = f[n].acc
<1> DEFINE w0 == At(acc, parts)
           Body(f) == [n \in Nat |-> IF n = 0 THEN At(acc, parts)
                                     ELSE LET w == f[n - 1] IN IF w.todo = <<>> THEN w ELSE Step(w, d)]
           Run == CHOOSE f : f = Body(f)
           steps == CHOOSE n \in 0 .. MaxParts : Run[n].todo = <<>> \/ n = MaxParts
<1>1. \E f : f = Body(f)
  <2>1. PICK f : IsRun(f, w0, d)
    BY RunExists
  <2>2. f = Body(f)
    BY <2>1 DEF IsRun, After
  <2>3. QED BY <2>2
<1>2. Run = Body(Run)
  <2> HIDE DEF Body
  <2>1. QED BY <1>1
<1>3. IsRun(Run, w0, d)
  <2> HIDE DEF Run
  <2>1. QED BY <1>2 DEF IsRun, After
<1>4. Written(acc, parts, d) = Run[steps].acc
  BY DEF Written
<1> HIDE DEF Run
<1>5. steps \in 0 .. MaxParts /\ (Run[steps].todo = <<>> \/ steps = MaxParts)
  BY MaxPartsAssumption
<1>6. steps \in Nat /\ steps <= MaxParts
  BY <1>5, MaxPartsAssumption
<1>7. QED BY <1>3, <1>4, <1>5, <1>6

-----------------------------------------------------------------------------
(* What there is to write: the parts of conditions, expressions, queries.  *)

\* Sequences over a set are sequences over a larger one.
LEMMA SeqGrows ==
  ASSUME NEW S, NEW T, S \subseteq T
  PROVE  Seq(S) \subseteq Seq(T)
OBVIOUS

\* The parts without placeholders are parts.
LEMMA GivenArePartsToo == Given \subseteq Parts
<1>1. Words \subseteq Tokens
  BY DEF Words
<1>2. Seq(Words) \subseteq Texts
  BY <1>1, SeqGrows DEF Texts
<1>3. QED BY <1>2 DEF Given, Parts

\* The words of the statements and the columns of the calls are names.
LEMMA Known ==
  ASSUME NEW k \in Keywords \cup {"a", "t", "rel", NoColumn}
  PROVE  k \in Names
BY CallerAssumption

\* A word alone.
LEMMA TokIsWord ==
  ASSUME NEW t \in Names
  PROVE  Tok(t) \in Words /\ <<Tok(t)>> \in Seq(Words)
<1>1. Tok(t) \in Words
  <2>1. NoColumn \in Names
    BY Known
  <2>2. <<>> \in Seq(Slots) /\ <<>> \in Seq(Literals)
    OBVIOUS
  <2>3. Tok(t) \in Tokens /\ Tok(t).args = <<>>
    BY <2>1, <2>2 DEF Tok, Leaf, Tokens
  <2>4. QED BY <2>2, <2>3 DEF Words
<1>2. QED BY <1>1

\* The kinds of parts, made of a text and what comes after it.
LEMMA PartsMade ==
  ASSUME NEW text \in Seq(Words)
  PROVE  /\ Word(text) \in Given
         /\ \A c \in Nodes : Cond(text, c) \in Given /\ Expr(text, c) \in Given
         /\ \A b \in Builders : Part("cte", text, b) \in Given /\ Part("right", text, b) \in Given
BY DEF Word, Cond, Expr, Part, Given

\* One word, as a part.
LEMMA WordMade ==
  ASSUME NEW t \in Names
  PROVE  <<Word(<<Tok(t)>>)>> \in Seq(Given)
<1>1. Word(<<Tok(t)>>) \in Given
  BY TokIsWord, PartsMade
<1>2. QED BY <1>1

\* A raw text has no placeholders.
LEMMA RawIsWords == RawTexts \subseteq Seq(Words)
<1>1. Seq(Literals) \subseteq Seq(Slots)
  <2>1. Literals \subseteq Slots
    BY DEF Slots
  <2>2. QED BY <2>1, SeqGrows
<1>2. RawTokens \subseteq Words
  BY <1>1 DEF RawTokens, Words, Tokens
<1>3. QED BY <1>2, SeqGrows DEF RawTexts

\* The nodes have inside them what their rendering looks for, and are closed.
LEMMA NodesWellFormed == \A c \in Nodes : WellFormed(c, Nodes)
<1>1. Trees \subseteq Nodes
  BY DEF Nodes
<1>2. CondsOf(Trees) \subseteq CondsOf(Nodes) /\ Seq(Trees) \subseteq Seq(Nodes)
  <2>1. [join : Names, cond : Trees] \subseteq [join : Names, cond : Nodes]
    BY <1>1
  <2>2. QED BY <1>1, <2>1, SeqGrows DEF CondsOf
<1>3. ASSUME NEW c \in Trees
      PROVE  WellFormed(c, Nodes)
  <2>1. WellFormed(c, Trees)
    BY CallerAssumption
  <2>2. c.sub \in Trees \X Trees => c.sub \in Nodes \X Nodes
    BY <1>1
  <2>3. c.sub \in {<<e>> : e \in Trees} => c.sub \in {<<e>> : e \in Nodes}
    BY <1>1
  <2>4. c.sub \in CondsOf(Trees) => c.sub \in CondsOf(Nodes)
    BY <1>2
  <2>5. c.sub \in Seq(Trees) => c.sub \in Seq(Nodes)
    BY <1>2
  <2>6. QED BY <2>1, <2>2, <2>3, <2>4, <2>5 DEF WellFormed
<1>4. <<>> \in RawTexts /\ <<>> \in CondsOf(Nodes) /\ <<>> \in Seq(Nodes) /\ <<>> \in Data /\ <<>> \in Seq(Values)
  BY DEF RawTexts, CondsOf, Data
<1>5. Keywords \subseteq Names /\ NoColumn \in Names
  BY CallerAssumption
<1>6. ASSUME NEW c \in Leaves
      PROVE  WellFormed(c, Nodes)
  <2>1. c = Condition(c.op, c.col, c.vals, c.sub) /\ c.sub = <<>> /\ c.col \in Names /\ c.vals \in Seq(Values)
    BY DEF Leaves, Condition
  <2>2. c.op \in Names /\ c.op # "SELECT" /\ c.op \notin {"AND", "OR"} /\ c.op \notin {"NOT", "WHEN"}
    BY DEF Leaves
  <2>3. QED BY <1>4, <2>1, <2>2 DEF WellFormed
<1>7. ASSUME NEW c \in Groups
      PROVE  WellFormed(c, Nodes)
  <2>1. /\ c = Condition(c.op, c.col, c.vals, c.sub) /\ c.sub \in CondsOf(Trees)
        /\ c.col \in Names /\ c.vals = <<>>
    BY DEF Groups, Condition
  <2>2. c.op \in {"GROUP", "EXISTS", "NOT EXISTS"}
    BY DEF Groups
  <2>3. c.op \in Names
    BY <1>5, <2>2 DEF Keywords
  <2>4. c.sub \in CondsOf(Nodes)
    BY <1>2, <2>1
  <2>5. /\ c.op # "SELECT" /\ c.op # "RAW" /\ c.op \notin {"AND", "OR"} /\ c.op \notin {"NOT", "WHEN"}
        /\ c.op # "CASE" /\ c.op # "ROW"
    BY <2>2
  <2>6. QED BY <1>4, <2>1, <2>2, <2>3, <2>4, <2>5 DEF WellFormed
<1>8. ASSUME NEW c \in Rows
      PROVE  WellFormed(c, Nodes)
  <2>1. c = Condition(c.op, c.col, c.vals, c.sub) /\ c.sub \in Data /\ c.op = "ROW" /\ c.col \in Names /\ c.vals = <<>>
    BY <1>5 DEF Rows, Condition
  <2>2. c.op \in Names
    BY <1>5, <2>1 DEF Keywords
  <2>3. QED BY <1>4, <2>1, <2>2 DEF WellFormed
<1>9. ASSUME NEW c \in Raws
      PROVE  WellFormed(c, Nodes)
  <2>1. c = Condition(c.op, c.col, c.vals, c.sub) /\ c.sub \in RawTexts /\ c.op = "RAW" /\ c.col \in Names /\ c.vals = <<>>
    BY <1>5 DEF Raws, Condition
  <2>2. c.op \in Names
    BY <1>5, <2>1 DEF Keywords
  <2>3. QED BY <1>4, <2>1, <2>2 DEF WellFormed
<1>10. QED BY <1>3, <1>6, <1>7, <1>8, <1>9 DEF Nodes

\* Leaves that the calls and the renderings make are nodes.
LEMMA MadeNodes ==
  ASSUME NEW col \in Names, NEW vals \in Seq(Values)
  PROVE  /\ \A op \in {"SET", "THEN", "ELSE", "IS NULL", "IS NOT NULL", "=", "!=", ">", ">=", "<", "<="} :
                Condition(op, col, vals, <<>>) \in Nodes
         /\ \A sub \in Data : Condition("ROW", NoColumn, <<>>, sub) \in Nodes
<1>1. ASSUME NEW op \in {"SET", "THEN", "ELSE", "IS NULL", "IS NOT NULL", "=", "!=", ">", ">=", "<", "<="}
      PROVE  Condition(op, col, vals, <<>>) \in Leaves
  <2>1. op \in Keywords
    BY DEF Keywords
  <2>2. op \in Names \ {"SELECT", "AND", "OR", "NOT", "WHEN"}
    BY <2>1, Known
  <2>3. QED BY <2>2 DEF Condition, Leaves
<1>2. \A sub \in Data : Condition("ROW", NoColumn, <<>>, sub) \in Rows
  BY DEF Condition, Rows
<1>3. QED BY <1>1, <1>2 DEF Nodes

\* The builders put into others are builders.
LEMMA QueriesAreBuilders == Queries \subseteq Builders
<1>1. Trees \subseteq Nodes
  BY DEF Nodes
<1>2. CondsOf(Trees) \subseteq CondsOf(Nodes)
  <2>1. [join : Names, cond : Trees] \subseteq [join : Names, cond : Nodes]
    BY <1>1
  <2>2. QED BY <2>1, SeqGrows DEF CondsOf
<1>3. QED BY <1>2, CallerAssumption DEF Builders, BuildersOf

\* A sequence made member by member of another one.
LEMMA MadeSeq ==
  ASSUME NEW S, NEW s \in Seq(S), NEW T, NEW f, DOMAIN f = DOMAIN s, f = [i \in DOMAIN s |-> f[i]],
         \A i \in 1 .. Len(s) : f[i] \in T
  PROVE  f \in Seq(T) /\ Len(f) = Len(s)
<1>1. Len(s) \in Nat /\ DOMAIN s = 1 .. Len(s)
  OBVIOUS
<1>2. f \in [1 .. Len(s) -> T]
  BY <1>1
<1>3. QED BY <1>1, <1>2

\* The parts of a list of conditions.
LEMMA ChainedGiven ==
  ASSUME NEW conds \in CondsOf(Nodes), NEW first \in Seq(Words)
  PROVE  Chained(conds, first) \in Seq(Given)
<1> DEFINE S == [join : Names, cond : Nodes]
           f == Chained(conds, first)
<1>1. conds \in Seq(S)
  BY DEF CondsOf
<1>2. DOMAIN f = DOMAIN conds /\ f = [i \in DOMAIN conds |-> f[i]]
  BY DEF Chained
<1>3. ASSUME NEW i \in 1 .. Len(conds)
      PROVE  f[i] \in Given
  <2>1. conds[i] \in S
    <3> HIDE DEF S
    <3>1. QED BY <1>1
  <2>2. conds[i].join \in Names /\ conds[i].cond \in Nodes
    BY <2>1
  <2>3. <<Tok(conds[i].join)>> \in Seq(Words)
    BY <2>2, TokIsWord
  <2>4. f[i] = Cond(IF i = 1 THEN first ELSE <<Tok(conds[i].join)>>, conds[i].cond)
    BY <1>1 DEF Chained
  <2>5. QED BY <2>2, <2>3, <2>4, PartsMade
<1> HIDE DEF f, S
<1>4. f \in Seq(Given)
  BY <1>1, <1>2, <1>3, MadeSeq
<1>5. QED BY <1>4 DEF f

\* The pairs of an INSERT or a SET.
LEMMA SetPartsGiven ==
  ASSUME NEW data \in Data
  PROVE  SetParts(data) \in Seq(Given)
<1> DEFINE f == SetParts(data)
<1>1. data \in Seq(Names \X Values)
  BY DEF Data
<1>2. DOMAIN f = DOMAIN data /\ f = [i \in DOMAIN data |-> f[i]]
  BY DEF SetParts
<1>3. ASSUME NEW i \in 1 .. Len(data)
      PROVE  f[i] \in Given
  <2>1. data[i][1] \in Names /\ data[i][2] \in Values
    BY <1>1
  <2>2. <<data[i][2]>> \in Seq(Values) /\ <<>> \in Seq(Words)
    BY <2>1
  <2>3. Condition("SET", data[i][1], <<data[i][2]>>, <<>>) \in Nodes
    BY <2>1, <2>2, MadeNodes
  <2>4. f[i] = Expr(<<>>, Condition("SET", data[i][1], <<data[i][2]>>, <<>>))
    BY <1>1 DEF SetParts
  <2>5. QED BY <2>2, <2>3, <2>4, PartsMade
<1> HIDE DEF f
<1>4. f \in Seq(Given)
  BY <1>1, <1>2, <1>3, MadeSeq
<1>5. QED BY <1>4 DEF f

\* The parts of a condition (CondParts).
LEMMA CondPartsGiven ==
  ASSUME NEW c \in Nodes, ~CondIsLeaf(c)
  PROVE  CondParts(c) \in Seq(Given)
<1>1. WellFormed(c, Nodes)
  BY NodesWellFormed
<1>2. CASE c.op = "RAW"
  <2>1. CondParts(c) = <<Word(c.sub)>>
    BY <1>2, Zenon DEF CondParts
  <2>2. c.sub \in Seq(Words)
    BY <1>1, <1>2, RawIsWords DEF WellFormed
  <2>3. Word(c.sub) \in Given
    BY <2>2, PartsMade
  <2>4. QED BY <2>1, <2>3
<1>3. CASE c.op = "GROUP"
  <2>1. CondParts(c) = <<Word(<<Tok("(")>>)>> \o Chained(c.sub, <<>>) \o <<Word(<<Tok(")")>>)>>
    BY <1>3, Zenon DEF CondParts
  <2>2. c.sub \in CondsOf(Nodes)
    BY <1>1, <1>3 DEF WellFormed
  <2>3. Chained(c.sub, <<>>) \in Seq(Given)
    <3>1. <<>> \in Seq(Words)
      OBVIOUS
    <3>2. QED BY <2>2, <3>1, ChainedGiven
  <2>4. "(" \in Names /\ ")" \in Names
    BY Known DEF Keywords
  <2>5. <<Word(<<Tok("(")>>)>> \in Seq(Given) /\ <<Word(<<Tok(")")>>)>> \in Seq(Given)
    BY <2>4, WordMade
  <2>6. QED BY <2>1, <2>3, <2>5
<1>4. CASE c.op \in {"EXISTS", "NOT EXISTS"}
  <2>1. CondParts(c)
            = <<Word(<<Tok(c.op), Tok("FK")>>)>> \o Chained(c.sub, <<Tok("AND")>>) \o <<Word(<<Tok(")")>>)>>
    BY <1>4, Zenon DEF CondParts
  <2>2. c.sub \in CondsOf(Nodes) /\ c.op \in Names
    BY <1>1, <1>4 DEF WellFormed
  <2>3. "AND" \in Names /\ ")" \in Names /\ "FK" \in Names
    BY Known DEF Keywords
  <2>4. <<Tok("AND")>> \in Seq(Words)
    BY <2>3, TokIsWord
  <2>5. Chained(c.sub, <<Tok("AND")>>) \in Seq(Given)
    BY <2>2, <2>4, ChainedGiven
  <2>6. <<Word(<<Tok(")")>>)>> \in Seq(Given)
    BY <2>3, WordMade
  <2>7. Tok(c.op) \in Words /\ Tok("FK") \in Words
    BY <2>2, <2>3, TokIsWord
  <2>8. <<Tok(c.op), Tok("FK")>> \in Seq(Words)
    BY <2>7
  <2>9. Word(<<Tok(c.op), Tok("FK")>>) \in Given
    BY <2>8, PartsMade
  <2>10. <<Word(<<Tok(c.op), Tok("FK")>>)>> \in Seq(Given)
    BY <2>9
  <2>11. QED BY <2>1, <2>5, <2>6, <2>10
<1>5. CASE c.op \notin {"RAW", "GROUP", "EXISTS", "NOT EXISTS"}
  <2>1. CondParts(c) = <<Word(<<Tok(EmptyList(c.op))>>)>>
    BY <1>5, Zenon DEF CondParts
  <2>2. EmptyList(c.op) = "TRUE" \/ EmptyList(c.op) = "FALSE"
    BY DEF EmptyList
  <2>3. "TRUE" \in Names /\ "FALSE" \in Names
    BY Known DEF Keywords
  <2>4. EmptyList(c.op) \in Names
    BY <2>2, <2>3
  <2>5. QED BY <2>1, <2>4, WordMade
<1>6. QED BY <1>2, <1>3, <1>4, <1>5

\* The parts of an expression (ExprParts).
LEMMA ExprPartsGiven ==
  ASSUME NEW e \in Nodes, ~ExprIsLeaf(e)
  PROVE  ExprParts(e) \in Seq(Given)
<1>1. WellFormed(e, Nodes)
  BY NodesWellFormed
<1>2. /\ "(" \in Names /\ ")" \in Names /\ "NOT" \in Names /\ "CASE" \in Names /\ "WHEN" \in Names
      /\ "END" \in Names /\ "FALSE" \in Names /\ NoColumn \in Names
  BY Known DEF Keywords
<1>3. <<>> \in Seq(Words)
  OBVIOUS
<1>4. CASE e.op = "RAW"
  <2>1. ExprParts(e) = <<Word(e.sub)>>
    BY <1>4, Zenon DEF ExprParts
  <2>2. e.sub \in Seq(Words)
    BY <1>1, <1>4, RawIsWords DEF WellFormed
  <2>3. Word(e.sub) \in Given
    BY <2>2, PartsMade
  <2>4. QED BY <2>1, <2>3
<1>5. CASE e.op \in {"AND", "OR"}
  <2>1. ExprParts(e)
            = <<Expr(<<Tok("(")>>, e.sub[1]), Expr(<<Tok(e.op)>>, e.sub[2]), Word(<<Tok(")")>>)>>
    BY <1>5, Zenon DEF ExprParts
  <2>2. e.sub \in Nodes \X Nodes /\ e.op \in Names
    BY <1>1, <1>5 DEF WellFormed
  <2>3. e.sub[1] \in Nodes /\ e.sub[2] \in Nodes
    BY <2>2
  <2>4. /\ <<Tok("(")>> \in Seq(Words) /\ <<Tok(e.op)>> \in Seq(Words) /\ <<Tok(")")>> \in Seq(Words)
    BY <1>2, <2>2, TokIsWord
  <2>5. /\ Expr(<<Tok("(")>>, e.sub[1]) \in Given
        /\ Expr(<<Tok(e.op)>>, e.sub[2]) \in Given
        /\ Word(<<Tok(")")>>) \in Given
    BY <2>3, <2>4, PartsMade
  <2>6. QED BY <2>1, <2>5
<1>6. CASE e.op = "NOT"
  <2>1. ExprParts(e) = <<Expr(<<Tok("NOT"), Tok("(")>>, e.sub[1]), Word(<<Tok(")")>>)>>
    BY <1>6, Zenon DEF ExprParts
  <2>2. e.sub[1] \in Nodes
    BY <1>1, <1>6 DEF WellFormed
  <2>3. Tok("NOT") \in Words /\ Tok("(") \in Words /\ <<Tok(")")>> \in Seq(Words)
    BY <1>2, TokIsWord
  <2>4. <<Tok("NOT"), Tok("(")>> \in Seq(Words)
    BY <2>3
  <2>5. Expr(<<Tok("NOT"), Tok("(")>>, e.sub[1]) \in Given /\ Word(<<Tok(")")>>) \in Given
    BY <2>2, <2>3, <2>4, PartsMade
  <2>6. QED BY <2>1, <2>5
<1>7. CASE e.op = "CASE"
  <2> DEFINE f == [i \in DOMAIN e.sub |-> Expr(<<Tok("WHEN")>>, e.sub[i])]
             g == [i \in DOMAIN e.vals |-> Expr(<<>>, Condition("ELSE", NoColumn, <<e.vals[i]>>, <<>>))]
  <2>1. ExprParts(e) = <<Word(<<Tok("CASE")>>)>> \o f \o g \o <<Word(<<Tok("END")>>)>>
    BY <1>7, Zenon DEF ExprParts
  <2>2. e.sub \in Seq(Nodes) /\ e.vals \in Seq(Values)
    BY <1>1, <1>7 DEF WellFormed
  <2>3. DOMAIN e.sub = 1 .. Len(e.sub) /\ DOMAIN e.vals = 1 .. Len(e.vals)
    BY <2>2
  <2>4. ASSUME NEW i \in 1 .. Len(e.sub)
        PROVE  f[i] \in Given
    <3>1. f[i] = Expr(<<Tok("WHEN")>>, e.sub[i])
      BY <2>3
    <3>2. e.sub[i] \in Nodes /\ <<Tok("WHEN")>> \in Seq(Words)
      BY <1>2, <2>2, TokIsWord
    <3>3. QED BY <3>1, <3>2, PartsMade
  <2>5. ASSUME NEW i \in 1 .. Len(e.vals)
        PROVE  g[i] \in Given
    <3>1. g[i] = Expr(<<>>, Condition("ELSE", NoColumn, <<e.vals[i]>>, <<>>))
      BY <2>3
    <3>2. <<e.vals[i]>> \in Seq(Values)
      BY <2>2
    <3>3. Condition("ELSE", NoColumn, <<e.vals[i]>>, <<>>) \in Nodes
      BY <1>2, <3>2, MadeNodes
    <3>4. QED BY <1>3, <3>1, <3>3, PartsMade
  <2>6. DOMAIN f = DOMAIN e.sub /\ f = [i \in DOMAIN e.sub |-> f[i]]
    OBVIOUS
  <2>7. DOMAIN g = DOMAIN e.vals /\ g = [i \in DOMAIN e.vals |-> g[i]]
    OBVIOUS
  <2> HIDE DEF f, g
  <2>8. f \in Seq(Given) /\ g \in Seq(Given)
    BY <2>2, <2>4, <2>5, <2>6, <2>7, MadeSeq
  <2>9. <<Word(<<Tok("CASE")>>)>> \in Seq(Given) /\ <<Word(<<Tok("END")>>)>> \in Seq(Given)
    BY <1>2, WordMade
  <2>10. QED BY <2>1, <2>8, <2>9
<1>8. CASE e.op = "WHEN"
  <2>1. ExprParts(e) = <<Expr(<<>>, e.sub[1]), Expr(<<>>, Condition("THEN", NoColumn, e.vals, <<>>))>>
    BY <1>8, Zenon DEF ExprParts
  <2>2. e.sub[1] \in Nodes /\ e.vals \in Seq(Values)
    BY <1>1, <1>8 DEF WellFormed
  <2>3. Condition("THEN", NoColumn, e.vals, <<>>) \in Nodes
    BY <1>2, <2>2, MadeNodes
  <2>4. Expr(<<>>, e.sub[1]) \in Given /\ Expr(<<>>, Condition("THEN", NoColumn, e.vals, <<>>)) \in Given
    BY <1>3, <2>2, <2>3, PartsMade
  <2>5. QED BY <2>1, <2>4
<1>9. CASE e.op = "ROW"
  <2>1. ExprParts(e) = <<Word(<<Tok("(")>>)>> \o SetParts(e.sub) \o <<Word(<<Tok(")")>>)>>
    BY <1>9, Zenon DEF ExprParts
  <2>2. e.sub \in Data
    BY <1>1, <1>9 DEF WellFormed
  <2>3. SetParts(e.sub) \in Seq(Given)
    BY <2>2, SetPartsGiven
  <2>4. <<Word(<<Tok("(")>>)>> \in Seq(Given) /\ <<Word(<<Tok(")")>>)>> \in Seq(Given)
    BY <1>2, WordMade
  <2>5. QED BY <2>1, <2>3, <2>4
<1>10. CASE e.op \notin {"RAW", "AND", "OR", "NOT", "CASE", "WHEN", "ROW"}
  <2>1. ExprParts(e) = <<Word(<<Tok("FALSE")>>)>>
    BY <1>10, Zenon DEF ExprParts
  <2>2. QED BY <1>2, <2>1, WordMade
<1>11. QED BY <1>4, <1>5, <1>6, <1>7, <1>8, <1>9, <1>10

\* A builder has conditions, CTEs, at most a set operation, and clauses.
LEMMA BuilderFields ==
  ASSUME NEW b \in Builders
  PROVE  /\ b.conds \in CondsOf(Nodes) /\ b.ctes \in Seq(Queries)
         /\ b.setOp \in Seq([op : Names, rhs : Queries]) /\ b.opts \in SUBSET Names
BY DEF Builders, BuildersOf

\* A clause is a word, or nothing.
LEMMA ClauseIsWord ==
  ASSUME NEW b, NEW c \in Names
  PROVE  Clause(b, c) \in Seq(Words)
<1>1. <<Tok(c)>> \in Seq(Words) /\ <<>> \in Seq(Words)
  BY TokIsWord
<1>2. QED BY <1>1 DEF Clause

\* What comes after the WHERE of a query (build_select).
LEMMA EndingIsWords ==
  ASSUME NEW b
  PROVE  Ending(b) \in Seq(Words)
<1>1. /\ "GROUP BY" \in Names /\ "HAVING" \in Names /\ "WINDOW" \in Names /\ "ORDER BY" \in Names
      /\ "LIMIT" \in Names /\ "OFFSET" \in Names /\ "LOCK" \in Names
  BY Known DEF Keywords
<1>2. /\ Clause(b, "GROUP BY") \in Seq(Words) /\ Clause(b, "HAVING") \in Seq(Words)
      /\ Clause(b, "WINDOW") \in Seq(Words) /\ Clause(b, "ORDER BY") \in Seq(Words)
      /\ Clause(b, "LIMIT") \in Seq(Words) /\ Clause(b, "OFFSET") \in Seq(Words)
      /\ Clause(b, "LOCK") \in Seq(Words)
  BY <1>1, ClauseIsWord
<1>3. \A s, t \in Seq(Words) : s \o t \in Seq(Words)
  OBVIOUS
<1>4. QED BY <1>2, <1>3 DEF Ending

\* Parts after parts are parts.
LEMMA GivenAfterGiven ==
  ASSUME NEW s \in Seq(Given), NEW t \in Seq(Given)
  PROVE  s \o t \in Seq(Given)
OBVIOUS

\* The parts of a WHERE, of the CTEs, of a count and of a query.
LEMMA QueryPartsGiven ==
  ASSUME NEW b \in Builders
  PROVE  /\ WhereParts(b) \in Seq(Given) /\ CteParts(b) \in Seq(Given)
         /\ SelectParts(b) \in Seq(Given) /\ QueryParts(b) \in Seq(Given)
<1>1. /\ "WHERE" \in Names /\ "WITH" \in Names /\ "(" \in Names /\ "SELECT" \in Names /\ "JOIN" \in Names
  BY Known DEF Keywords
<1>2. WhereParts(b) \in Seq(Given)
  <2>1. <<Tok("WHERE")>> \in Seq(Words)
    BY <1>1, TokIsWord
  <2>2. QED BY <2>1, BuilderFields, ChainedGiven DEF WhereParts
<1>3. CteParts(b) \in Seq(Given)
  <2> DEFINE f == [i \in DOMAIN b.ctes |-> Part("cte", <<Tok("(")>>, b.ctes[i])]
             with == IF b.ctes = <<>> THEN <<>> ELSE <<Tok("WITH")>>
  <2>1. b.ctes \in Seq(Queries) /\ DOMAIN b.ctes = 1 .. Len(b.ctes)
    BY BuilderFields
  <2>2. ASSUME NEW i \in 1 .. Len(b.ctes)
        PROVE  f[i] \in Given
    <3>1. b.ctes[i] \in Builders
      BY <2>1, QueriesAreBuilders
    <3>2. f[i] = Part("cte", <<Tok("(")>>, b.ctes[i])
      BY <2>1
    <3>3. <<Tok("(")>> \in Seq(Words)
      BY <1>1, TokIsWord
    <3>4. QED BY <3>1, <3>2, <3>3, PartsMade
  <2>3. DOMAIN f = DOMAIN b.ctes /\ f = [i \in DOMAIN b.ctes |-> f[i]]
    OBVIOUS
  <2>4. with \in Seq(Words)
    BY <1>1, TokIsWord
  <2> HIDE DEF f, with
  <2>5. f \in Seq(Given)
    BY <2>1, <2>2, <2>3, MadeSeq
  <2>6. <<Word(with)>> \in Seq(Given)
    BY <2>4, PartsMade
  <2>7. CteParts(b) = <<Word(with)>> \o f
    BY DEF CteParts, f, with
  <2>8. QED BY <2>5, <2>6, <2>7, GivenAfterGiven
<1>4. SelectParts(b) \in Seq(Given)
  <2> DEFINE opens == <<Tok("SELECT")>> \o Clause(b, "JOIN")
  <2>1. opens \in Seq(Words)
    BY <1>1, TokIsWord, ClauseIsWord
  <2> HIDE DEF opens
  <2>2. <<Word(opens)>> \in Seq(Given)
    BY <2>1, PartsMade
  <2>3. SelectParts(b) = CteParts(b) \o <<Word(opens)>> \o WhereParts(b)
    BY DEF SelectParts, opens
  <2>4. QED BY <1>2, <1>3, <2>2, <2>3, GivenAfterGiven
<1>5. QueryParts(b) \in Seq(Given)
  <2> DEFINE f == [i \in DOMAIN b.setOp |->
                        Part("right", <<Tok(b.setOp[i].op), Tok("SELECT")>>, b.setOp[i].rhs)]
             S == [op : Names, rhs : Queries]
  <2>0. b.setOp \in Seq(S)
    BY BuilderFields
  <2>1. b.setOp \in Seq(S) /\ DOMAIN b.setOp = 1 .. Len(b.setOp)
    <3> HIDE DEF S
    <3>1. QED BY <2>0
  <2>2. ASSUME NEW i \in 1 .. Len(b.setOp)
        PROVE  f[i] \in Given
    <3>1. b.setOp[i] \in S
      <4> HIDE DEF S
      <4>1. QED BY <2>1
    <3>2. b.setOp[i].rhs \in Builders /\ b.setOp[i].op \in Names
      BY <3>1, QueriesAreBuilders
    <3>3. f[i] = Part("right", <<Tok(b.setOp[i].op), Tok("SELECT")>>, b.setOp[i].rhs)
      BY <2>1
    <3>4. Tok(b.setOp[i].op) \in Words /\ Tok("SELECT") \in Words
      BY <1>1, <3>2, TokIsWord
    <3>5. <<Tok(b.setOp[i].op), Tok("SELECT")>> \in Seq(Words)
      BY <3>4
    <3> HIDE DEF f
    <3>6. QED BY <3>2, <3>3, <3>5, PartsMade
  <2>3. DOMAIN f = DOMAIN b.setOp /\ f = [i \in DOMAIN b.setOp |-> f[i]]
    OBVIOUS
  <2> HIDE DEF f, S
  <2>4. f \in Seq(Given)
    BY <2>1, <2>2, <2>3, MadeSeq
  <2>5. <<Word(Ending(b))>> \in Seq(Given)
    BY EndingIsWords, PartsMade
  <2>6. QueryParts(b) = SelectParts(b) \o <<Word(Ending(b))>> \o f
    BY DEF QueryParts, f
  <2>7. QED BY <1>4, <2>4, <2>5, <2>6, GivenAfterGiven
<1>6. QED BY <1>2, <1>3, <1>4, <1>5

-----------------------------------------------------------------------------
(* One step of the run, part by part, and the types it keeps.              *)

\* What a step does with each kind of part (Step).
LEMMA StepIs ==
  ASSUME NEW w, NEW d
  PROVE  /\ Now(w).kind = "word" => Step(w, d) = At(Added(w), Rest(w))
         /\ Now(w).kind = "cond" /\ CondIsLeaf(Now(w).node) =>
                Step(w, d) = At(PutLeaf(Added(w), Operator(d, Now(w).node.op), Now(w).node.col, Now(w).node.vals, d), Rest(w))
         /\ Now(w).kind = "cond" /\ ~CondIsLeaf(Now(w).node) =>
                Step(w, d) = At(Added(w), CondParts(Now(w).node) \o Rest(w))
         /\ Now(w).kind = "expr" /\ ExprIsLeaf(Now(w).node) =>
                Step(w, d) = At(PutLeaf(Added(w), Now(w).node.op, Now(w).node.col, Now(w).node.vals, d), Rest(w))
         /\ Now(w).kind = "expr" /\ ~ExprIsLeaf(Now(w).node) =>
                Step(w, d) = At(Added(w), ExprParts(Now(w).node) \o Rest(w))
         /\ Now(w).kind = "cte" =>
                Step(w, d) = At(Blank, QueryParts(Now(w).node) \o <<Part("end", <<>>, Added(w))>>
                                            \o <<Word(<<Tok(")")>>)>> \o Rest(w))
         /\ Now(w).kind = "right" =>
                Step(w, d) = At(Blank, QueryParts(Now(w).node) \o <<Part("end right", <<>>, Added(w))>>
                                            \o <<>> \o Rest(w))
         /\ Now(w).kind = "end" => Step(w, d) = At(PutShifted(Now(w).node, w.acc, w.acc.sql), Rest(w))
         /\ Now(w).kind = "end right" =>
                Step(w, d) = At(PutShifted(Now(w).node, w.acc, WithoutSelect(w.acc.sql)), Rest(w))
<1>1. Now(w).kind = "word" => Step(w, d) = At(Added(w), Rest(w))
  BY Zenon DEF Step, Now, Rest, Added
<1>2. Now(w).kind = "cond" /\ CondIsLeaf(Now(w).node) =>
        Step(w, d) = At(PutLeaf(Added(w), Operator(d, Now(w).node.op), Now(w).node.col, Now(w).node.vals, d), Rest(w))
  BY Zenon DEF Step, Now, Rest, Added
<1>3. Now(w).kind = "cond" /\ ~CondIsLeaf(Now(w).node) => Step(w, d) = At(Added(w), CondParts(Now(w).node) \o Rest(w))
  BY Zenon DEF Step, Now, Rest, Added
<1>4. Now(w).kind = "expr" /\ ExprIsLeaf(Now(w).node) =>
        Step(w, d) = At(PutLeaf(Added(w), Now(w).node.op, Now(w).node.col, Now(w).node.vals, d), Rest(w))
  BY Zenon DEF Step, Now, Rest, Added
<1>5. Now(w).kind = "expr" /\ ~ExprIsLeaf(Now(w).node) => Step(w, d) = At(Added(w), ExprParts(Now(w).node) \o Rest(w))
  BY Zenon DEF Step, Now, Rest, Added
<1>6. Now(w).kind = "cte" =>
        Step(w, d) = At(Blank, QueryParts(Now(w).node) \o <<Part("end", <<>>, Added(w))>>
                                    \o <<Word(<<Tok(")")>>)>> \o Rest(w))
  BY Zenon DEF Step, Now, Rest, Added
<1>7. Now(w).kind = "right" =>
        Step(w, d) = At(Blank, QueryParts(Now(w).node) \o <<Part("end right", <<>>, Added(w))>> \o <<>> \o Rest(w))
  BY Zenon DEF Step, Now, Rest, Added
<1>8. Now(w).kind = "end" => Step(w, d) = At(PutShifted(Now(w).node, w.acc, w.acc.sql), Rest(w))
  BY Zenon DEF Step, Now, Rest, Added
<1>9. Now(w).kind = "end right" =>
        Step(w, d) = At(PutShifted(Now(w).node, w.acc, WithoutSelect(w.acc.sql)), Rest(w))
  BY Zenon DEF Step, Now, Rest, Added
<1>10. QED BY <1>1, <1>2, <1>3, <1>4, <1>5, <1>6, <1>7, <1>8, <1>9

\* The kinds of parts, and what comes with each.
LEMMA PartKinds ==
  ASSUME NEW p \in Parts
  PROVE  /\ p.text \in Texts
         /\ p.kind \in {"word", "cond", "expr", "cte", "right", "end", "end right"}
         /\ p.kind \in {"cond", "expr"} => p.node \in Nodes
         /\ p.kind \in {"cte", "right"} => p.node \in Builders
         /\ p.kind \in {"end", "end right"} => p.node \in Fragments /\ p.text = <<>>
<1>1. <<>> \in Texts
  BY DEF Texts
<1>2. QED BY <1>1 DEF Parts

\* The part that waits for the end of a query.
LEMMA EndIsPart ==
  ASSUME NEW acc \in Fragments
  PROVE  /\ <<Part("end", <<>>, acc)>> \in Seq(Parts)
         /\ <<Part("end right", <<>>, acc)>> \in Seq(Parts)
<1>1. Part("end", <<>>, acc) \in Parts /\ Part("end right", <<>>, acc) \in Parts
  BY DEF Part, Parts
<1>2. \A p \in Parts : <<p>> \in Seq(Parts)
  OBVIOUS
<1>3. QED BY <1>1, <1>2

\* What a text loses by WithoutSelect leaves a text.
LEMMA WithoutSelectType ==
  ASSUME NEW text \in Texts
  PROVE  WithoutSelect(text) \in Texts
<1>1. text # <<>> => Tail(text) \in Texts
  BY DEF Texts
<1>2. QED BY <1>1 DEF WithoutSelect

\* The operator that is written is a name (Operator).
LEMMA OperatorIsName ==
  ASSUME NEW c \in Nodes, NEW d
  PROVE  /\ c.op \in Names /\ c.op # "SELECT" /\ c.col \in Names /\ c.vals \in Seq(Values)
         /\ Operator(d, c.op) \in Names /\ SameWord(Operator(d, c.op), c.op)
         /\ Operator("v", c.op) = c.op
<1>1. WellFormed(c, Nodes)
  BY NodesWellFormed
<1>2. "IN" \in Names
  BY Known DEF Keywords
<1>3. QED BY <1>1, <1>2 DEF WellFormed, Operator, SameWord

\* A step keeps the types of what is written and of what is to do.
LEMMA StepTypes ==
  ASSUME NEW w, NEW d \in Kinds, w.acc \in Fragments, w.todo \in Seq(Parts), w.todo # <<>>
  PROVE  Step(w, d).acc \in Fragments /\ Step(w, d).todo \in Seq(Parts)
<1> DEFINE now == Now(w)
           rest == Rest(w)
           acc == Added(w)
<1>1. now \in Parts /\ rest \in Seq(Parts)
  <2>1. \A s \in Seq(Parts) : s # <<>> => Head(s) \in Parts /\ Tail(s) \in Seq(Parts)
    OBVIOUS
  <2>2. QED BY <2>1 DEF Now, Rest
<1>2. /\ now.text \in Texts
      /\ now.kind \in {"word", "cond", "expr", "cte", "right", "end", "end right"}
      /\ now.kind \in {"cond", "expr"} => now.node \in Nodes
      /\ now.kind \in {"cte", "right"} => now.node \in Builders
      /\ now.kind \in {"end", "end right"} => now.node \in Fragments
  BY <1>1, PartKinds
<1>3. acc \in Fragments
  BY <1>2, PutTypes DEF Now, Added
<1>4. \A s, t \in Seq(Parts) : s \o t \in Seq(Parts)
  OBVIOUS
<1>5. \A s \in Seq(Given) : s \in Seq(Parts)
  BY GivenArePartsToo, SeqGrows
<1>6. \A a, todo : At(a, todo).acc = a /\ At(a, todo).todo = todo
  BY DEF At
<1>7. Blank \in Fragments
  BY DEF Blank, Fragment, Fragments, Texts
<1>8. <<Word(<<Tok(")")>>)>> \in Seq(Parts) /\ <<>> \in Seq(Parts)
  <2>1. ")" \in Names
    BY Known DEF Keywords
  <2>2. <<Word(<<Tok(")")>>)>> \in Seq(Given)
    BY <2>1, WordMade
  <2>3. <<Word(<<Tok(")")>>)>> \in Seq(Parts)
    BY <1>5, <2>2, Zenon
  <2>4. QED BY <2>3
<1>10. CASE now.kind = "word"
  <2>1. Step(w, d) = At(acc, rest)
    BY <1>10, StepIs
  <2>2. QED BY <1>1, <1>3, <1>6, <2>1
<1>11. CASE now.kind = "cond" /\ CondIsLeaf(now.node)
  <2> DEFINE put == PutLeaf(acc, Operator(d, now.node.op), now.node.col, now.node.vals, d)
  <2>1. Step(w, d) = At(put, rest)
    BY <1>11, StepIs
  <2>2. now.node \in Nodes
    BY <1>2, <1>11
  <2>3. put \in Fragments
    BY <1>3, <2>2, OperatorIsName, PutTypes
  <2> HIDE DEF put
  <2>4. QED BY <1>1, <1>6, <2>1, <2>3
<1>12. CASE now.kind = "cond" /\ ~CondIsLeaf(now.node)
  <2> DEFINE todo == CondParts(now.node) \o rest
  <2>1. Step(w, d) = At(acc, todo)
    BY <1>12, StepIs
  <2>2. CondParts(now.node) \in Seq(Parts)
    BY <1>2, <1>5, <1>12, CondPartsGiven
  <2>3. todo \in Seq(Parts)
    BY <1>1, <1>4, <2>2
  <2> HIDE DEF todo
  <2>4. QED BY <1>3, <1>6, <2>1, <2>3
<1>13. CASE now.kind = "expr" /\ ExprIsLeaf(now.node)
  <2> DEFINE put == PutLeaf(acc, now.node.op, now.node.col, now.node.vals, d)
  <2>1. Step(w, d) = At(put, rest)
    BY <1>13, StepIs
  <2>2. now.node \in Nodes
    BY <1>2, <1>13
  <2>3. put \in Fragments
    BY <1>3, <2>2, OperatorIsName, PutTypes
  <2> HIDE DEF put
  <2>4. QED BY <1>1, <1>6, <2>1, <2>3
<1>14. CASE now.kind = "expr" /\ ~ExprIsLeaf(now.node)
  <2> DEFINE todo == ExprParts(now.node) \o rest
  <2>1. Step(w, d) = At(acc, todo)
    BY <1>14, StepIs
  <2>2. ExprParts(now.node) \in Seq(Parts)
    BY <1>2, <1>5, <1>14, ExprPartsGiven
  <2>3. todo \in Seq(Parts)
    BY <1>1, <1>4, <2>2
  <2> HIDE DEF todo
  <2>4. QED BY <1>3, <1>6, <2>1, <2>3
<1>15. CASE now.kind \in {"cte", "right"}
  <2>1. /\ QueryParts(now.node) \in Seq(Parts)
        /\ <<Part("end", <<>>, acc)>> \in Seq(Parts)
        /\ <<Part("end right", <<>>, acc)>> \in Seq(Parts)
    BY <1>2, <1>3, <1>5, <1>15, QueryPartsGiven, EndIsPart
  <2>2. CASE now.kind = "cte"
    <3> DEFINE todo == QueryParts(now.node) \o <<Part("end", <<>>, acc)>> \o <<Word(<<Tok(")")>>)>> \o rest
    <3>1. Step(w, d) = At(Blank, todo)
      BY <2>2, StepIs
    <3>2. todo \in Seq(Parts)
      BY <1>1, <1>4, <1>8, <2>1
    <3> HIDE DEF todo
    <3>3. QED BY <1>6, <1>7, <3>1, <3>2
  <2>3. CASE now.kind = "right"
    <3> DEFINE todo == QueryParts(now.node) \o <<Part("end right", <<>>, acc)>> \o <<>> \o rest
    <3>1. Step(w, d) = At(Blank, todo)
      BY <2>3, StepIs
    <3>2. todo \in Seq(Parts)
      BY <1>1, <1>4, <1>8, <2>1
    <3> HIDE DEF todo
    <3>3. QED BY <1>6, <1>7, <3>1, <3>2
  <2>4. QED BY <1>15, <2>2, <2>3
<1>16. CASE now.kind \in {"end", "end right"}
  <2>1. /\ now.node \in Fragments /\ w.acc.sql \in Texts /\ WithoutSelect(w.acc.sql) \in Texts
    BY <1>2, <1>16, FragmentParts, WithoutSelectType
  <2>2. /\ PutShifted(now.node, w.acc, w.acc.sql) \in Fragments
        /\ PutShifted(now.node, w.acc, WithoutSelect(w.acc.sql)) \in Fragments
    BY <2>1, PutShiftedType
  <2>3. \/ Step(w, d) = At(PutShifted(now.node, w.acc, w.acc.sql), rest)
        \/ Step(w, d) = At(PutShifted(now.node, w.acc, WithoutSelect(w.acc.sql)), rest)
    BY <1>16, StepIs
  <2>4. QED BY <1>1, <1>6, <2>2, <2>3
<1>17. QED BY <1>2, <1>10, <1>11, <1>12, <1>13, <1>14, <1>15, <1>16

\* What is written is a text with its parameters, whatever texts it is made of.
LEMMA WrittenType ==
  ASSUME NEW d \in Kinds, NEW acc \in Fragments, NEW parts \in Seq(Parts)
  PROVE  Written(acc, parts, d) \in Fragments
<1>1. PICK f : /\ IsRun(f, At(acc, parts), d)
               /\ \E n \in Nat : Written(acc, parts, d) = f[n].acc
  BY WrittenIs
<1> DEFINE S == {n \in Nat : f[n].acc \in Fragments /\ f[n].todo \in Seq(Parts)}
<1>2. 0 \in S
  <2>1. f[0] = At(acc, parts)
    BY <1>1, RunSteps
  <2>2. QED BY <2>1 DEF At
<1>3. ASSUME NEW n \in Nat, n \in S
      PROVE  n + 1 \in S
  <2>1. f[n + 1] = After(f[n], d) /\ n + 1 \in Nat
    BY <1>1, RunSteps
  <2>2. f[n].acc \in Fragments /\ f[n].todo \in Seq(Parts)
    BY <1>3
  <2>3. After(f[n], d).acc \in Fragments /\ After(f[n], d).todo \in Seq(Parts)
    BY <2>2, StepTypes DEF After
  <2>4. QED BY <2>1, <2>3
<1>4. \A n \in Nat : n \in S
  <2> HIDE DEF S
  <2>1. QED BY <1>2, <1>3, Induction
<1>5. QED BY <1>1, <1>4

-----------------------------------------------------------------------------
(* The same statement written for d and written out, side by side.         *)

\* Parts without placeholders are their own twins.
LEMMA TwinsSame ==
  ASSUME NEW d, NEW s \in Seq(Given)
  PROVE  Twins(d, s, s)
<1>1. s \in Seq(Parts)
  BY GivenArePartsToo, SeqGrows
<1>2. \A i \in 1 .. Len(s) : s[i] \in Given
  OBVIOUS
<1>3. QED BY <1>1, <1>2 DEF Twins, Twin

\* Twins after twins are twins.
LEMMA TwinsConcat ==
  ASSUME NEW d, NEW s, NEW t, NEW u, NEW v, Twins(d, s, t), Twins(d, u, v)
  PROVE  Twins(d, s \o u, t \o v)
<1>1. /\ s \in Seq(Parts) /\ t \in Seq(Parts) /\ Len(s) = Len(t)
      /\ u \in Seq(Parts) /\ v \in Seq(Parts) /\ Len(u) = Len(v)
      /\ Len(s) \in Nat /\ Len(u) \in Nat
  BY DEF Twins
<1>2. /\ s \o u \in Seq(Parts) /\ t \o v \in Seq(Parts)
      /\ Len(s \o u) = Len(s) + Len(u) /\ Len(t \o v) = Len(s) + Len(u)
  <2>1. \A p, r \in Seq(Parts) : p \o r \in Seq(Parts) /\ Len(p \o r) = Len(p) + Len(r)
    OBVIOUS
  <2>2. s \o u \in Seq(Parts) /\ Len(s \o u) = Len(s) + Len(u)
    BY <1>1, <2>1, Zenon
  <2>3. t \o v \in Seq(Parts) /\ Len(t \o v) = Len(t) + Len(v)
    BY <1>1, <2>1, Zenon
  <2>4. Len(t) + Len(v) = Len(s) + Len(u)
    BY <1>1, Zenon
  <2>5. QED BY <2>2, <2>3, <2>4, Zenon
<1>3. ASSUME NEW i \in 1 .. Len(s \o u)
      PROVE  Twin(d, (s \o u)[i], (t \o v)[i])
  <2>1. CASE i <= Len(s)
    <3>1. i \in 1 .. Len(s) /\ (s \o u)[i] = s[i] /\ (t \o v)[i] = t[i]
      BY <1>1, <1>2, <2>1
    <3>2. QED BY <3>1 DEF Twins
  <2>2. CASE i > Len(s)
    <3>1. i - Len(s) \in 1 .. Len(u) /\ (s \o u)[i] = u[i - Len(s)] /\ (t \o v)[i] = v[i - Len(s)]
      BY <1>1, <1>2, <2>2
    <3>2. Twin(d, u[i - Len(s)], v[i - Len(s)])
      BY <3>1 DEF Twins
    <3>3. QED BY <3>1, <3>2
  <2>3. QED BY <1>1, <1>2, <2>1, <2>2
<1>4. QED BY <1>1, <1>2, <1>3 DEF Twins

\* The statements that wait are twins when they meet.
LEMMA TwinsEnd ==
  ASSUME NEW d, NEW a, NEW al, Meets(d, a, al), NEW mark \in Ends
  PROVE  Twins(d, <<Part(mark, <<>>, a)>>, <<Part(mark, <<>>, al)>>)
<1> DEFINE p == Part(mark, <<>>, a)
           l == Part(mark, <<>>, al)
<1>1. a \in Fragments /\ al \in Fragments
  BY DEF Meets
<1>2. p \in Parts /\ l \in Parts
  BY <1>1 DEF Part, Parts, Ends
<1>3. Twin(d, p, l)
  BY <1>1 DEF Twin
<1> HIDE DEF p, l
<1>4. <<p>> \in Seq(Parts) /\ <<l>> \in Seq(Parts) /\ Len(<<p>>) = 1 /\ Len(<<l>>) = 1 /\ <<p>>[1] = p /\ <<l>>[1] = l
  BY <1>2
<1>5. Twins(d, <<p>>, <<l>>)
  BY <1>3, <1>4 DEF Twins
<1>6. QED BY <1>5 DEF p, l

\* The first of them, and the others.
LEMMA TwinsFirst ==
  ASSUME NEW d, NEW s, NEW t, Twins(d, s, t)
  PROVE  /\ (s = <<>>) <=> (t = <<>>)
         /\ s # <<>> => Twin(d, Head(s), Head(t)) /\ Twins(d, Tail(s), Tail(t))
<1>1. s \in Seq(Parts) /\ t \in Seq(Parts) /\ Len(s) = Len(t) /\ Len(s) \in Nat
  BY DEF Twins
<1>2. (s = <<>>) <=> (t = <<>>)
  BY <1>1
<1>3. ASSUME s # <<>>
      PROVE  Twin(d, Head(s), Head(t)) /\ Twins(d, Tail(s), Tail(t))
  <2>1. /\ 1 \in 1 .. Len(s) /\ Head(s) = s[1] /\ Head(t) = t[1]
        /\ Tail(s) \in Seq(Parts) /\ Tail(t) \in Seq(Parts)
        /\ Len(Tail(s)) = Len(s) - 1 /\ Len(Tail(t)) = Len(s) - 1
    BY <1>1, <1>2, <1>3
  <2>2. ASSUME NEW i \in 1 .. Len(Tail(s))
        PROVE  Twin(d, Tail(s)[i], Tail(t)[i])
    <3>1. i + 1 \in 1 .. Len(s) /\ Tail(s)[i] = s[i + 1] /\ Tail(t)[i] = t[i + 1]
      BY <1>1, <1>2, <1>3, <2>1
    <3>2. QED BY <3>1 DEF Twins
  <2>3. QED BY <2>1, <2>2 DEF Twins
<1>4. QED BY <1>2, <1>3

\* A step keeps the two abreast (Step).
LEMMA StepAbreast ==
  ASSUME NEW d \in {"$", "?"}, NEW w, NEW l, Abreast(d, w, l), w.todo # <<>>
  PROVE  Abreast(d, Step(w, d), Step(l, "v"))
<1> DEFINE now == Now(w)
           rest == Rest(w)
           acc == Added(w)
           lnow == Now(l)
           lrest == Rest(l)
           lacc == Added(l)
<1>1. Meets(d, w.acc, l.acc) /\ Twin(d, now, lnow) /\ Twins(d, rest, lrest)
  BY TwinsFirst DEF Abreast, Now, Rest
<1>2. \A a, al, todo, ltodo :
        Meets(d, a, al) /\ Twins(d, todo, ltodo) => Abreast(d, At(a, todo), At(al, ltodo))
  BY DEF Abreast, At
<1>3. ASSUME now \in Given, lnow = now
      PROVE  Abreast(d, Step(w, d), Step(l, "v"))
  <2>1. /\ now.kind \in {"word", "cond", "expr", "cte", "right"}
        /\ now.text \in Seq(Words)
        /\ now.kind \in {"cond", "expr"} => now.node \in Nodes
        /\ now.kind \in {"cte", "right"} => now.node \in Builders
    <3> HIDE DEF now
    <3>1. QED BY <1>3 DEF Given
  <2>2. Meets(d, acc, lacc)
    BY <1>1, <1>3, <2>1, PutTextMeets DEF Now, Added
  <2> HIDE DEF now, rest, acc, lnow, lrest, lacc
  <2>3. CASE now.kind = "word"
    <3>1. Step(w, d) = At(acc, rest) /\ Step(l, "v") = At(lacc, lrest)
      BY <1>3, <2>3, StepIs DEF now, rest, acc, lnow, lrest, lacc
    <3>2. QED BY <1>1, <1>2, <2>2, <3>1
  <2>4. CASE now.kind = "cond" /\ CondIsLeaf(now.node)
    <3> DEFINE c == now.node
               put == PutLeaf(acc, Operator(d, c.op), c.col, c.vals, d)
               lput == PutLeaf(lacc, c.op, c.col, c.vals, "v")
    <3>1. c \in Nodes
      BY <2>1, <2>4
    <3>2. /\ c.op \in Names /\ c.op # "SELECT" /\ c.col \in Names /\ c.vals \in Seq(Values)
          /\ Operator(d, c.op) \in Names /\ SameWord(Operator(d, c.op), c.op)
          /\ Operator("v", c.op) = c.op
      BY <3>1, OperatorIsName
    <3>3. Step(w, d) = At(put, rest)
      BY <2>4, StepIs DEF now, rest, acc
    <3>4. Step(l, "v") = At(lput, lrest)
      BY <1>3, <2>4, <3>2, StepIs DEF lnow, lrest, lacc
    <3>5. Meets(d, put, lput)
      BY <2>2, <3>2, PutLeafMeets
    <3> HIDE DEF put, lput
    <3>6. QED BY <1>1, <1>2, <3>3, <3>4, <3>5
  <2>5. CASE now.kind = "cond" /\ ~CondIsLeaf(now.node)
    <3> DEFINE more == CondParts(now.node)
    <3>1. Step(w, d) = At(acc, more \o rest)
      BY <2>5, StepIs DEF now, rest, acc
    <3>2. Step(l, "v") = At(lacc, more \o lrest)
      BY <1>3, <2>5, StepIs DEF lnow, lrest, lacc
    <3>3. more \in Seq(Given)
      BY <2>1, <2>5, CondPartsGiven
    <3> HIDE DEF more
    <3>4. Twins(d, more \o rest, more \o lrest)
      BY <1>1, <3>3, TwinsSame, TwinsConcat
    <3>5. QED BY <1>2, <2>2, <3>1, <3>2, <3>4
  <2>6. CASE now.kind = "expr" /\ ExprIsLeaf(now.node)
    <3> DEFINE e == now.node
               put == PutLeaf(acc, e.op, e.col, e.vals, d)
               lput == PutLeaf(lacc, e.op, e.col, e.vals, "v")
    <3>1. e \in Nodes
      BY <2>1, <2>6
    <3>2. e.op \in Names /\ e.op # "SELECT" /\ e.col \in Names /\ e.vals \in Seq(Values) /\ SameWord(e.op, e.op)
      BY <3>1, OperatorIsName DEF SameWord
    <3>3. Step(w, d) = At(put, rest)
      BY <2>6, StepIs DEF now, rest, acc
    <3>4. Step(l, "v") = At(lput, lrest)
      BY <1>3, <2>6, StepIs DEF lnow, lrest, lacc
    <3>5. Meets(d, put, lput)
      BY <2>2, <3>2, PutLeafMeets
    <3> HIDE DEF put, lput
    <3>6. QED BY <1>1, <1>2, <3>3, <3>4, <3>5
  <2>7. CASE now.kind = "expr" /\ ~ExprIsLeaf(now.node)
    <3> DEFINE more == ExprParts(now.node)
    <3>1. Step(w, d) = At(acc, more \o rest)
      BY <2>7, StepIs DEF now, rest, acc
    <3>2. Step(l, "v") = At(lacc, more \o lrest)
      BY <1>3, <2>7, StepIs DEF lnow, lrest, lacc
    <3>3. more \in Seq(Given)
      BY <2>1, <2>7, ExprPartsGiven
    <3> HIDE DEF more
    <3>4. Twins(d, more \o rest, more \o lrest)
      BY <1>1, <3>3, TwinsSame, TwinsConcat
    <3>5. QED BY <1>2, <2>2, <3>1, <3>2, <3>4
  <2>8. CASE now.kind = "cte"
    <3> DEFINE more == QueryParts(now.node)
               close == <<Word(<<Tok(")")>>)>>
               end == <<Part("end", <<>>, acc)>>
               lend == <<Part("end", <<>>, lacc)>>
    <3>1. Step(w, d) = At(Blank, more \o end \o close \o rest)
      BY <2>8, StepIs DEF now, rest, acc
    <3>2. Step(l, "v") = At(Blank, more \o lend \o close \o lrest)
      BY <1>3, <2>8, StepIs DEF lnow, lrest, lacc
    <3>3. more \in Seq(Given)
      BY <2>1, <2>8, QueryPartsGiven
    <3>4. close \in Seq(Given)
      <4>1. ")" \in Names
        BY Known DEF Keywords
      <4>2. QED BY <4>1, WordMade
    <3>5. Twins(d, end, lend)
      BY <2>2, TwinsEnd DEF Ends
    <3> HIDE DEF more, close, end, lend
    <3>6. Twins(d, more, more) /\ Twins(d, close, close)
      BY <3>3, <3>4, TwinsSame
    <3>7. Twins(d, more \o end, more \o lend)
      BY <3>5, <3>6, TwinsConcat
    <3>8. Twins(d, more \o end \o close, more \o lend \o close)
      BY <3>6, <3>7, TwinsConcat
    <3>9. Twins(d, more \o end \o close \o rest, more \o lend \o close \o lrest)
      BY <1>1, <3>8, TwinsConcat
    <3>10. QED BY <1>2, <3>1, <3>2, <3>9, BlankMeets
  <2>9. CASE now.kind = "right"
    <3> DEFINE more == QueryParts(now.node)
               close == <<>>
               end == <<Part("end right", <<>>, acc)>>
               lend == <<Part("end right", <<>>, lacc)>>
    <3>1. Step(w, d) = At(Blank, more \o end \o close \o rest)
      BY <2>9, StepIs DEF now, rest, acc
    <3>2. Step(l, "v") = At(Blank, more \o lend \o close \o lrest)
      BY <1>3, <2>9, StepIs DEF lnow, lrest, lacc
    <3>3. more \in Seq(Given)
      BY <2>1, <2>9, QueryPartsGiven
    <3>4. close \in Seq(Given)
      OBVIOUS
    <3>5. Twins(d, end, lend)
      BY <2>2, TwinsEnd DEF Ends
    <3> HIDE DEF more, close, end, lend
    <3>6. Twins(d, more, more) /\ Twins(d, close, close)
      BY <3>3, <3>4, TwinsSame
    <3>7. Twins(d, more \o end, more \o lend)
      BY <3>5, <3>6, TwinsConcat
    <3>8. Twins(d, more \o end \o close, more \o lend \o close)
      BY <3>6, <3>7, TwinsConcat
    <3>9. Twins(d, more \o end \o close \o rest, more \o lend \o close \o lrest)
      BY <1>1, <3>8, TwinsConcat
    <3>10. QED BY <1>2, <3>1, <3>2, <3>9, BlankMeets
  <2>10. QED BY <2>1, <2>3, <2>4, <2>5, <2>6, <2>7, <2>8, <2>9
<1>4. ASSUME NEW mark \in Ends, NEW r \in Fragments, NEW rl \in Fragments,
             Meets(d, r, rl), now = Part(mark, <<>>, r), lnow = Part(mark, <<>>, rl)
      PROVE  Abreast(d, Step(w, d), Step(l, "v"))
  <2>1. now.kind = mark /\ now.node = r /\ lnow.kind = mark /\ lnow.node = rl
    <3> HIDE DEF now, lnow
    <3>1. QED BY <1>4 DEF Part
  <2> HIDE DEF now, rest, acc, lnow, lrest, lacc
  <2>2. CASE mark = "end"
    <3>1. Step(w, d) = At(PutShifted(r, w.acc, w.acc.sql), rest)
      BY <2>1, <2>2, StepIs DEF now, rest, acc
    <3>2. Step(l, "v") = At(PutShifted(rl, l.acc, l.acc.sql), lrest)
      BY <2>1, <2>2, StepIs DEF lnow, lrest, lacc
    <3>3. Meets(d, PutShifted(r, w.acc, w.acc.sql), PutShifted(rl, l.acc, l.acc.sql))
      BY <1>1, <1>4, PutMeets
    <3>4. QED BY <1>1, <1>2, <3>1, <3>2, <3>3
  <2>3. CASE mark = "end right"
    <3> DEFINE c == Fragment(WithoutSelect(w.acc.sql), w.acc.ps)
               lc == Fragment(WithoutSelect(l.acc.sql), l.acc.ps)
    <3>1. Step(w, d) = At(PutShifted(r, w.acc, WithoutSelect(w.acc.sql)), rest)
      BY <2>1, <2>3, StepIs DEF now, rest, acc
    <3>2. Step(l, "v") = At(PutShifted(rl, l.acc, WithoutSelect(l.acc.sql)), lrest)
      BY <2>1, <2>3, StepIs DEF lnow, lrest, lacc
    <3>3. /\ PutShifted(r, w.acc, WithoutSelect(w.acc.sql)) = PutShifted(r, c, c.sql)
          /\ PutShifted(rl, l.acc, WithoutSelect(l.acc.sql)) = PutShifted(rl, lc, lc.sql)
      BY DEF PutShifted, Fragment
    <3>4. Meets(d, c, lc)
      BY <1>1, WithoutSelectMeets
    <3> HIDE DEF c, lc
    <3>5. Meets(d, PutShifted(r, c, c.sql), PutShifted(rl, lc, lc.sql))
      BY <1>4, <3>4, PutMeets
    <3>6. QED BY <1>1, <1>2, <3>1, <3>2, <3>3, <3>5
  <2>4. QED BY <2>2, <2>3 DEF Ends
<1>5. QED BY <1>1, <1>3, <1>4 DEF Twin

\* A statement that goes on from one that meets, with parts that have no
\* placeholders of their own, meets (Written).
LEMMA WrittenMeets ==
  ASSUME NEW d \in {"$", "?"}, NEW acc, NEW lacc, Meets(d, acc, lacc), NEW parts \in Seq(Given)
  PROVE  Meets(d, Written(acc, parts, d), Written(lacc, parts, "v"))
<1>1. PICK f : /\ IsRun(f, At(acc, parts), d)
               /\ \E n \in Nat : /\ n <= MaxParts
                                 /\ f[n].todo = <<>> \/ n = MaxParts
                                 /\ Written(acc, parts, d) = f[n].acc
  BY WrittenIs
<1>2. PICK n \in Nat : /\ n <= MaxParts
                       /\ f[n].todo = <<>> \/ n = MaxParts
                       /\ Written(acc, parts, d) = f[n].acc
  BY <1>1
<1>3. PICK g : /\ IsRun(g, At(lacc, parts), "v")
               /\ \E m \in Nat : /\ m <= MaxParts
                                 /\ g[m].todo = <<>> \/ m = MaxParts
                                 /\ Written(lacc, parts, "v") = g[m].acc
  BY WrittenIs
<1>4. PICK m \in Nat : /\ m <= MaxParts
                       /\ g[m].todo = <<>> \/ m = MaxParts
                       /\ Written(lacc, parts, "v") = g[m].acc
  BY <1>3
<1> DEFINE S == {k \in Nat : Abreast(d, f[k], g[k])}
<1>5. 0 \in S
  <2>1. f[0] = At(acc, parts) /\ g[0] = At(lacc, parts)
    BY <1>1, <1>3, RunSteps
  <2>2. Twins(d, parts, parts)
    BY TwinsSame
  <2>3. QED BY <2>1, <2>2 DEF At, Abreast
<1>6. \A s, t : Twins(d, s, t) => ((s = <<>>) <=> (t = <<>>))
  BY DEF Twins
<1>7. ASSUME NEW k \in Nat, k \in S
      PROVE  k + 1 \in S
  <2>1. f[k + 1] = After(f[k], d) /\ k + 1 \in Nat
    BY <1>1, RunSteps
  <2>2. g[k + 1] = After(g[k], "v")
    BY <1>3, RunSteps
  <2>3. Abreast(d, f[k], g[k])
    BY <1>7
  <2>4. Twins(d, f[k].todo, g[k].todo)
    BY <2>3 DEF Abreast
  <2>5. (f[k].todo = <<>>) <=> (g[k].todo = <<>>)
    BY <2>4, <1>6
  <2>6. Abreast(d, After(f[k], d), After(g[k], "v"))
    BY <2>3, <2>5, StepAbreast DEF After
  <2>7. QED BY <2>1, <2>2, <2>6
<1>8. \A k \in Nat : k \in S
  <2> HIDE DEF S
  <2>1. QED BY <1>5, <1>7, Induction
<1>9. ASSUME NEW k \in Nat
      PROVE  Meets(d, f[k].acc, g[k].acc) /\ ((f[k].todo = <<>>) <=> (g[k].todo = <<>>))
  <2>1. Abreast(d, f[k], g[k])
    BY <1>8
  <2>2. Meets(d, f[k].acc, g[k].acc) /\ Twins(d, f[k].todo, g[k].todo)
    BY <2>1 DEF Abreast
  <2>3. (f[k].todo = <<>>) <=> (g[k].todo = <<>>)
    BY <2>2, <1>6
  <2>4. QED BY <2>2, <2>3
<1>10. g[m] = g[n] \/ f[m] = f[n]
  <2>1. CASE n = m
    BY <2>1
  <2>2. CASE n < m
    <3>1. f[n].todo = <<>> /\ m - n \in Nat /\ n + (m - n) = m
      BY <1>2, <1>4, <2>2, MaxPartsAssumption
    <3>2. IsRun(f, At(acc, parts), d)
      BY <1>1
    <3>3. \A k \in Nat : f[n + k] = f[n]
      BY <3>1, <3>2, RunStops
    <3>4. QED BY <3>1, <3>3
  <2>3. CASE m < n
    <3>1. g[m].todo = <<>> /\ n - m \in Nat /\ m + (n - m) = n
      BY <1>2, <1>4, <2>3, MaxPartsAssumption
    <3>2. IsRun(g, At(lacc, parts), "v")
      BY <1>3
    <3>3. \A k \in Nat : g[m + k] = g[m]
      BY <3>1, <3>2, RunStops
    <3>4. QED BY <3>1, <3>3
  <2>4. QED BY <2>1, <2>2, <2>3
<1>11. QED BY <1>2, <1>4, <1>9, <1>10

-----------------------------------------------------------------------------
(* The statements of the query builder (core/query.rs).                    *)

\* A text without placeholders, as a statement to go on from.
LEMMA WordsStart ==
  ASSUME NEW d \in {"$", "?"}, NEW t \in Names
  PROVE  Meets(d, Fragment(<<Tok(t)>>, <<>>), Fragment(<<Tok(t)>>, <<>>))
<1>1. <<Tok(t)>> \in Seq(Words)
  BY TokIsWord
<1>2. QED BY <1>1, WordsMeet

\* The pairs of UpdatePairs are data.
LEMMA UpdatePairsAreData == UpdatePairs \in Data
<1>1. "a" \in Names /\ "t" \in Names
  BY Known
<1>2. 7 \in Values /\ 8 \in Values
  BY CallerAssumption
<1>3. QED BY <1>1, <1>2 DEF UpdatePairs, Data

\* The CTEs of a statement (build_ctes), and the statement begun after them.
LEMMA CtesMeet ==
  ASSUME NEW b \in Builders, NEW d \in {"$", "?"}, NEW t \in Names
  PROVE  /\ Meets(d, BuildCtes(b, d), BuildCtes(b, "v"))
         /\ Meets(d, Put(BuildCtes(b, d), <<Tok(t)>>), Put(BuildCtes(b, "v"), <<Tok(t)>>))
<1>1. Meets(d, BuildCtes(b, d), BuildCtes(b, "v"))
  <2>1. CteParts(b) \in Seq(Given)
    BY QueryPartsGiven
  <2>2. Meets(d, Blank, Blank)
    BY BlankMeets
  <2>3. QED BY <2>1, <2>2, WrittenMeets DEF BuildCtes
<1>2. <<Tok(t)>> \in Seq(Words)
  BY TokIsWord
<1>3. QED BY <1>1, <1>2, PutTextMeets

\* A query and its count (to_sql, to_count_sql).
LEMMA QueryMeets ==
  ASSUME NEW b \in Builders, NEW d \in {"$", "?"}
  PROVE  /\ Meets(d, ToSql(b, d), ToSql(b, "v"))
         /\ Meets(d, ToCountSql(b, d), ToCountSql(b, "v"))
<1>1. QueryParts(b) \in Seq(Given) /\ SelectParts(b) \in Seq(Given)
  BY QueryPartsGiven
<1>2. Meets(d, Blank, Blank)
  BY BlankMeets
<1>3. QED BY <1>1, <1>2, WrittenMeets DEF ToSql, ToCountSql

\* The WHERE of a builder, after any statement (build_where).
LEMMA WhereMeets ==
  ASSUME NEW b \in Builders, NEW d \in {"$", "?"}, NEW a, NEW al, Meets(d, a, al)
  PROVE  Meets(d, BuildWhere(a, b, d), BuildWhere(al, b, "v"))
<1>1. WhereParts(b) \in Seq(Given)
  BY QueryPartsGiven
<1>2. QED BY <1>1, WrittenMeets DEF BuildWhere

\* The SET of an UPDATE, the row of an INSERT, after any statement (SetClause).
LEMMA SetMeets ==
  ASSUME NEW data \in Data, NEW d \in {"$", "?"}, NEW a, NEW al, Meets(d, a, al)
  PROVE  Meets(d, SetClause(a, data, d), SetClause(al, data, "v"))
BY SetPartsGiven, WrittenMeets DEF SetClause

\* Each statement of a query builder binds, whatever its conditions, CTEs and
\* set operation are (to_sql, to_count_sql, to_delete_sql, to_update_sql and
\* their dialects): every placeholder gets the value that stands in its place,
\* and no parameter is left over, also in its aggregate.
THEOREM BuildersBind ==
  ASSUME NEW b \in Builders
  PROVE  BuilderBinds(b)
<1>1. ASSUME NEW d \in {"$", "?"}
      PROVE  /\ Binds(ToSql(b, d), ToSql(b, "v"))
             /\ Binds(ToCountSql(b, d), ToCountSql(b, "v"))
  BY QueryMeets, MeetsBinds
<1>2. ASSUME NEW d \in {"$", "?"}
      PROVE  Binds(ToDeleteSql(b, d), ToDeleteSql(b, "v"))
  <2>1. "DELETE" \in Names
    BY Known DEF Keywords
  <2>2. Meets(d, Put(BuildCtes(b, d), <<Tok("DELETE")>>), Put(BuildCtes(b, "v"), <<Tok("DELETE")>>))
    BY <2>1, CtesMeet
  <2>3. Meets(d, ToDeleteSql(b, d), ToDeleteSql(b, "v"))
    BY <2>2, WhereMeets DEF ToDeleteSql
  <2>4. QED BY <2>3, MeetsBinds
<1>3. ASSUME NEW d \in {"$", "?"}, d = "?" \/ BuildCtes(b, "$").ps = <<>>
      PROVE  Binds(ToUpdateSql(b, UpdatePairs, d), ToUpdateSql(b, UpdatePairs, "v"))
  <2> DEFINE a == Put(BuildCtes(b, d), <<Tok("UPDATE")>>)
             al == Put(BuildCtes(b, "v"), <<Tok("UPDATE")>>)
             r == SetClause(Blank, UpdatePairs, d)
             rl == SetClause(Blank, UpdatePairs, "v")
  <2>1. "UPDATE" \in Names
    BY Known DEF Keywords
  <2>2. Meets(d, a, al)
    BY <2>1, CtesMeet
  <2>3. Meets(d, r, rl)
    BY UpdatePairsAreData, BlankMeets, SetMeets
  <2>4. d = "?" \/ a.ps = <<>>
    BY <1>3 DEF Put, Fragment
  <2>5. /\ ToUpdateSql(b, UpdatePairs, d) = BuildWhere(PutAsIs(a, r), b, d)
        /\ ToUpdateSql(b, UpdatePairs, "v") = BuildWhere(PutAsIs(al, rl), b, "v")
    BY DEF ToUpdateSql
  <2> HIDE DEF a, al, r, rl
  <2>6. Meets(d, PutAsIs(a, r), PutAsIs(al, rl))
    BY <2>2, <2>3, <2>4, PutAsIsMeets
  <2>7. Meets(d, BuildWhere(PutAsIs(a, r), b, d), BuildWhere(PutAsIs(al, rl), b, "v"))
    BY <2>6, WhereMeets
  <2>8. QED BY <2>5, <2>7, MeetsBinds
<1>4. Asked(ToAggregateSql(b).sql) = DOMAIN ToAggregateSql(b).ps
  <2> DEFINE c == [b EXCEPT !.ctes = <<>>]
  <2>1. c \in Builders
    <3>1. <<>> \in Seq(Queries)
      OBVIOUS
    <3>2. \A x \in Builders : \A ctes \in Seq(Queries) : [x EXCEPT !.ctes = ctes] \in Builders
      BY DEF Builders, BuildersOf
    <3>3. QED BY <3>1, <3>2
  <2> HIDE DEF c
  <2>2. Meets("$", ToCountSql(c, "$"), ToCountSql(c, "v"))
    BY <2>1, QueryMeets
  <2>3. Asked(ToCountSql(c, "$").sql) = DOMAIN ToCountSql(c, "$").ps
    BY <2>2, AskedByMeeting
  <2>4. QED BY <2>3 DEF c, ToAggregateSql
<1>5. QED BY <1>1, <1>2, <1>3, <1>4 DEF BuilderBinds

-----------------------------------------------------------------------------
(* The statements of the DSL's writes (dsl/insert.rs, update.rs).          *)

\* The column that takes the value that was refused, as a text and as a part.
LEMMA ExcludedGiven ==
  ASSUME NEW col \in Names
  PROVE  Word(Excluded(col)) \in Given
<1>1. "EXCLUDED" \in Names
  BY Known DEF Keywords
<1>2. Leaf("EXCLUDED", col, <<>>) \in Words
  <2>1. <<>> \in Seq(Slots) /\ <<>> \in Seq(Literals)
    OBVIOUS
  <2>2. QED BY <1>1, <2>1 DEF Leaf, Words, Tokens
<1>3. \A k \in Words : <<k>> \in Seq(Words)
  OBVIOUS
<1>4. Excluded(col) \in Seq(Words)
  BY <1>2, <1>3 DEF Excluded
<1>5. QED BY <1>4, PartsMade

\* An INSERT of one row binds, with what its conflict updates (Insert::to_sql).
LEMMA InsertMeets ==
  ASSUME NEW b \in Inserts, NEW d \in {"$", "?"}
  PROVE  Meets(d, InsertToSql(b, d), InsertToSql(b, "v"))
<1> DEFINE f == [i \in DOMAIN b.sets |->
                    IF b.sets[i][2] = <<>> THEN Word(Excluded(b.sets[i][1]))
                    ELSE Expr(<<>>, Condition("SET", b.sets[i][1], b.sets[i][2], <<>>))]
           words == <<Tok("ON CONFLICT")>>
<1>1. b.data \in Data /\ b.sets \in Seq(Updates)
  BY DEF Inserts
<1>2. "INSERT" \in Names /\ "ON CONFLICT" \in Names
  BY Known DEF Keywords
<1>3. Meets(d, InsertSql(b.data, d), InsertSql(b.data, "v"))
  BY <1>1, <1>2, WordsStart, SetMeets DEF InsertSql
<1>4. Meets(d, Put(InsertSql(b.data, d), words), Put(InsertSql(b.data, "v"), words))
  BY <1>2, <1>3, TokIsWord, PutTextMeets
<1>5. ASSUME NEW i \in 1 .. Len(b.sets)
      PROVE  f[i] \in Given
  <2>1. b.sets[i] \in Updates /\ DOMAIN b.sets = 1 .. Len(b.sets)
    BY <1>1
  <2>2. b.sets[i][1] \in Names /\ b.sets[i][2] \in Seq(Values)
    <3>1. b.sets[i][1] \in Names /\ b.sets[i][2] \in {<<>>} \cup {<<v>> : v \in Values}
      BY <2>1 DEF Updates
    <3>2. <<>> \in Seq(Values) /\ \A v \in Values : <<v>> \in Seq(Values)
      OBVIOUS
    <3>3. \A u \in {<<>>} \cup {<<v>> : v \in Values} : u \in Seq(Values)
      BY <3>2, Zenon
    <3>4. QED BY <3>1, <3>3
  <2>3. Condition("SET", b.sets[i][1], b.sets[i][2], <<>>) \in Nodes
    BY <2>2, MadeNodes
  <2>4. <<>> \in Seq(Words)
    OBVIOUS
  <2>5. Expr(<<>>, Condition("SET", b.sets[i][1], b.sets[i][2], <<>>)) \in Given
    BY <2>3, <2>4, PartsMade
  <2>6. Word(Excluded(b.sets[i][1])) \in Given
    BY <2>2, ExcludedGiven
  <2>7. QED BY <2>1, <2>5, <2>6
<1>6. DOMAIN f = DOMAIN b.sets /\ f = [i \in DOMAIN b.sets |-> f[i]]
  OBVIOUS
<1>7. InsertToSql(b, d) = IF b.conflict = "none" THEN InsertSql(b.data, d)
                          ELSE Written(Put(InsertSql(b.data, d), words), f, d)
  BY DEF InsertToSql
<1>8. InsertToSql(b, "v") = IF b.conflict = "none" THEN InsertSql(b.data, "v")
                            ELSE Written(Put(InsertSql(b.data, "v"), words), f, "v")
  BY DEF InsertToSql
<1> HIDE DEF f, words
<1>9. f \in Seq(Given)
  BY <1>1, <1>5, <1>6, MadeSeq
<1>10. QED BY <1>3, <1>4, <1>7, <1>8, <1>9, WrittenMeets

\* Many rows at once (bulk_insert_sql): the placeholders are numbered through.
LEMMA BulkMeets ==
  ASSUME NEW rows \in Seq(Data), NEW d \in {"$", "?"}
  PROVE  Meets(d, BulkInsertSql(rows, d), BulkInsertSql(rows, "v"))
<1> DEFINE f == [i \in DOMAIN rows |-> Expr(<<>>, Condition("ROW", NoColumn, <<>>, rows[i]))]
           start == Fragment(<<Tok("INSERT")>>, <<>>)
<1>1. "INSERT" \in Names /\ NoColumn \in Names
  BY Known DEF Keywords
<1>2. Meets(d, start, start)
  BY <1>1, WordsStart
<1>3. ASSUME NEW i \in 1 .. Len(rows)
      PROVE  f[i] \in Given
  <2>1. rows[i] \in Data /\ DOMAIN rows = 1 .. Len(rows)
    OBVIOUS
  <2>2. <<>> \in Seq(Values) /\ <<>> \in Seq(Words)
    OBVIOUS
  <2>3. Condition("ROW", NoColumn, <<>>, rows[i]) \in Nodes
    BY <1>1, <2>1, <2>2, MadeNodes
  <2>4. Expr(<<>>, Condition("ROW", NoColumn, <<>>, rows[i])) \in Given
    BY <2>2, <2>3, PartsMade
  <2>5. QED BY <2>1, <2>4
<1>4. DOMAIN f = DOMAIN rows /\ f = [i \in DOMAIN rows |-> f[i]]
  OBVIOUS
<1>5. BulkInsertSql(rows, d) = Written(start, f, d) /\ BulkInsertSql(rows, "v") = Written(start, f, "v")
  BY DEF BulkInsertSql
<1> HIDE DEF f, start
<1>6. f \in Seq(Given)
  BY <1>3, <1>4, MadeSeq
<1>7. QED BY <1>2, <1>5, <1>6, WrittenMeets

\* An upsert (upsert_sql).
LEMMA UpsertMeets ==
  ASSUME NEW data \in Data, NEW target, NEW d \in {"$", "?"}
  PROVE  Meets(d, UpsertSql(data, target, d), UpsertSql(data, target, "v"))
<1> DEFINE f == [i \in DOMAIN data |-> Word(IF data[i][1] \in target THEN <<>> ELSE Excluded(data[i][1]))]
           words == <<Tok("ON CONFLICT")>>
<1>1. data \in Seq(Names \X Values)
  BY DEF Data
<1>2. "INSERT" \in Names /\ "ON CONFLICT" \in Names
  BY Known DEF Keywords
<1>3. Meets(d, InsertSql(data, d), InsertSql(data, "v"))
  BY <1>2, WordsStart, SetMeets DEF InsertSql
<1>4. Meets(d, Put(InsertSql(data, d), words), Put(InsertSql(data, "v"), words))
  BY <1>2, <1>3, TokIsWord, PutTextMeets
<1>5. ASSUME NEW i \in 1 .. Len(data)
      PROVE  f[i] \in Given
  <2>1. data[i][1] \in Names /\ DOMAIN data = 1 .. Len(data)
    BY <1>1
  <2>2. <<>> \in Seq(Words)
    OBVIOUS
  <2>3. Word(<<>>) \in Given /\ Word(Excluded(data[i][1])) \in Given
    BY <2>1, <2>2, ExcludedGiven, PartsMade
  <2>4. QED BY <2>1, <2>3
<1>6. DOMAIN f = DOMAIN data /\ f = [i \in DOMAIN data |-> f[i]]
  OBVIOUS
<1>7. /\ UpsertSql(data, target, d) = Written(Put(InsertSql(data, d), words), f, d)
      /\ UpsertSql(data, target, "v") = Written(Put(InsertSql(data, "v"), words), f, "v")
  BY DEF UpsertSql
<1> HIDE DEF f, words
<1>8. f \in Seq(Given)
  BY <1>1, <1>5, <1>6, MadeSeq
<1>9. QED BY <1>4, <1>7, <1>8, WrittenMeets

\* The statements of an insert bind: alone, for many rows, with a conflict.
LEMMA InsertsBind ==
  ASSUME NEW b \in Inserts
  PROVE  InsertBinds(b)
<1>1. b.data \in Data
  BY DEF Inserts
<1>2. <<b.data, b.data>> \in Seq(Data)
  BY <1>1
<1>3. /\ Meets("$", InsertToSql(b, "$"), InsertToSql(b, "v"))
      /\ Meets("$", BulkInsertSql(<<b.data, b.data>>, "$"), BulkInsertSql(<<b.data, b.data>>, "v"))
      /\ Meets("$", UpsertSql(b.data, {"a"}, "$"), UpsertSql(b.data, {"a"}, "v"))
  BY <1>1, <1>2, InsertMeets, BulkMeets, UpsertMeets
<1>4. QED BY <1>3, MeetsBinds DEF InsertBinds

\* Expressions one after the other (All).
LEMMA AllGiven ==
  ASSUME NEW exprs \in Seq(Nodes), NEW first \in Seq(Words), NEW word \in Names
  PROVE  All(exprs, first, word) \in Seq(Given)
<1> DEFINE f == All(exprs, first, word)
<1>1. DOMAIN f = DOMAIN exprs /\ f = [i \in DOMAIN exprs |-> f[i]]
  BY DEF All
<1>2. ASSUME NEW i \in 1 .. Len(exprs)
      PROVE  f[i] \in Given
  <2>1. f[i] = Expr(IF i = 1 THEN first ELSE <<Tok(word)>>, exprs[i])
    BY DEF All
  <2>2. exprs[i] \in Nodes /\ <<Tok(word)>> \in Seq(Words)
    BY TokIsWord
  <2>3. Expr(first, exprs[i]) \in Given /\ Expr(<<Tok(word)>>, exprs[i]) \in Given
    BY <2>2, PartsMade
  <2>4. QED BY <2>1, <2>3
<1> HIDE DEF f
<1>3. f \in Seq(Given)
  BY <1>1, <1>2, MadeSeq
<1>4. QED BY <1>3 DEF f

\* An UPDATE binds, the values of its SET before those of its WHERE.
LEMMA UpdatesBind ==
  ASSUME NEW b \in Upds
  PROVE  UpdateBinds(b)
<1> DEFINE start == Fragment(<<Tok("UPDATE")>>, <<>>)
<1>1. b.data \in Data /\ b.wheres \in Seq(Nodes)
  BY DEF Upds
<1>2. "UPDATE" \in Names /\ "WHERE" \in Names /\ "AND" \in Names
  BY Known DEF Keywords
<1>3. Meets("$", start, start)
  BY <1>2, WordsStart
<1>4. UpdateToSql(b, "$") = WritesWhere(SetClause(start, b.data, "$"), b.wheres, "$")
  BY DEF UpdateToSql
<1>5. UpdateToSql(b, "v") = WritesWhere(SetClause(start, b.data, "v"), b.wheres, "v")
  BY DEF UpdateToSql
<1> HIDE DEF start
<1>6. Meets("$", SetClause(start, b.data, "$"), SetClause(start, b.data, "v"))
  BY <1>1, <1>3, SetMeets
<1>7. All(b.wheres, <<Tok("WHERE")>>, "AND") \in Seq(Given)
  BY <1>1, <1>2, TokIsWord, AllGiven
<1>8. Meets("$", UpdateToSql(b, "$"), UpdateToSql(b, "v"))
  BY <1>4, <1>5, <1>6, <1>7, WrittenMeets DEF WritesWhere
<1>9. QED BY <1>8, MeetsBinds DEF UpdateBinds

-----------------------------------------------------------------------------
(* The statements of a select (dsl/select.rs).                             *)

\* A select has its expressions and the texts that were put into it.
LEMMA SelectFields ==
  ASSUME NEW s \in Selects
  PROVE  /\ s.from \in Texts /\ s.ctes \in Seq(Texts) /\ s.setOps \in Seq([op : Names, sql : Texts])
         /\ s.joins \in Seq(Nodes) /\ s.wheres \in Seq(Nodes) /\ s.orWheres \in Seq(Nodes)
         /\ s.havings \in Seq(Nodes) /\ s.opts \in SUBSET Names
BY DEF Selects, SelectsOf

\* A text in parentheses is a text, and one of words when it was.
LEMMA EnclosedText ==
  ASSUME NEW text \in Texts
  PROVE  /\ Enclosed(text) \in Texts
         /\ text \in Seq(Words) => Enclosed(text) \in Seq(Words)
<1>1. "(" \in Names /\ ")" \in Names
  BY Known DEF Keywords
<1>2. <<Tok("(")>> \in Seq(Words) /\ <<Tok(")")>> \in Seq(Words)
  BY <1>1, TokIsWord
<1>3. \A s, t \in Seq(Words) : s \o t \in Seq(Words)
  OBVIOUS
<1>4. \A s, t \in Texts : s \o t \in Texts
  BY DEF Texts
<1>5. Words \subseteq Tokens
  BY DEF Words
<1>6. \A s \in Seq(Words) : s \in Texts
  BY <1>5, SeqGrows DEF Texts
<1>7. <<Tok("(")>> \in Texts /\ <<Tok(")")>> \in Texts
  BY <1>2, <1>6, Zenon
<1>8. Enclosed(text) \in Texts
  BY <1>4, <1>7 DEF Enclosed
<1>9. text \in Seq(Words) => Enclosed(text) \in Seq(Words)
  BY <1>2, <1>3 DEF Enclosed
<1>10. QED BY <1>8, <1>9

\* The joins and the conditions of a select have no placeholders of their own.
LEMMA JoinPartsGiven ==
  ASSUME NEW s \in Selects
  PROVE  JoinParts(s) \in Seq(Given)
<1> DEFINE f == JoinParts(s)
<1>1. s.joins \in Seq(Nodes) /\ DOMAIN s.joins = 1 .. Len(s.joins)
  BY SelectFields
<1>2. ASSUME NEW i \in 1 .. Len(s.joins)
      PROVE  f[i] \in Given
  <2>1. "JOIN" \in Names
    BY Known DEF Keywords
  <2>2. s.joins[i] \in Nodes /\ <<Tok("JOIN")>> \in Seq(Words)
    BY <1>1, <2>1, TokIsWord
  <2>3. f[i] = Expr(<<Tok("JOIN")>>, s.joins[i])
    BY <1>1 DEF JoinParts
  <2>4. QED BY <2>2, <2>3, PartsMade
<1>3. DOMAIN f = DOMAIN s.joins /\ f = [i \in DOMAIN s.joins |-> f[i]]
  BY DEF JoinParts
<1> HIDE DEF f
<1>4. f \in Seq(Given)
  BY <1>1, <1>2, <1>3, MadeSeq
<1>5. QED BY <1>4 DEF f

\* The WHERE clause of a select is made of conditions and texts, and of no
\* finished statement (SelectWhereParts).
LEMMA WherePartsGiven ==
  ASSUME NEW s \in Selects
  PROVE  SelectWhereParts(s) \in Seq(Given)
<1>1. "WHERE" \in Names /\ "(" \in Names /\ ")" \in Names /\ "OR" \in Names /\ "AND" \in Names
  BY Known DEF Keywords
<1>2. s.wheres \in Seq(Nodes) /\ s.orWheres \in Seq(Nodes)
  BY SelectFields
<1>3. /\ <<Tok("WHERE")>> \in Seq(Words)
      /\ <<Tok("WHERE"), Tok("(")>> \in Seq(Words)
      /\ <<Tok(")"), Tok("OR"), Tok("(")>> \in Seq(Words)
  <2>1. Tok("WHERE") \in Words /\ Tok("(") \in Words /\ Tok(")") \in Words /\ Tok("OR") \in Words
    BY <1>1, TokIsWord
  <2>2. QED BY <2>1
<1>4. /\ All(s.wheres, <<Tok("WHERE")>>, "AND") \in Seq(Given)
      /\ All(s.orWheres, <<Tok("WHERE")>>, "OR") \in Seq(Given)
      /\ All(s.wheres, <<Tok("WHERE"), Tok("(")>>, "AND") \in Seq(Given)
      /\ All(s.orWheres, <<Tok(")"), Tok("OR"), Tok("(")>>, "OR") \in Seq(Given)
  BY <1>1, <1>2, <1>3, AllGiven
<1>5. <<Word(<<Tok(")")>>)>> \in Seq(Given)
  BY <1>1, WordMade
<1>6. All(s.wheres, <<Tok("WHERE"), Tok("(")>>, "AND")
        \o All(s.orWheres, <<Tok(")"), Tok("OR"), Tok("(")>>, "OR") \o <<Word(<<Tok(")")>>)>> \in Seq(Given)
  BY <1>4, <1>5, GivenAfterGiven
<1>7. QED BY <1>4, <1>6 DEF SelectWhereParts

\* So is its HAVING clause.
LEMMA HavingPartsGiven ==
  ASSUME NEW s \in Selects
  PROVE  All(s.havings, <<Tok("HAVING")>>, "AND") \in Seq(Given)
<1>1. "HAVING" \in Names /\ "AND" \in Names
  BY Known DEF Keywords
<1>2. QED BY <1>1, SelectFields, TokIsWord, AllGiven

\* The CTEs and the set operations are parts, and without placeholders when the
\* texts that were put into the select have none.
LEMMA WithPartsAre ==
  ASSUME NEW s \in Selects
  PROVE  /\ WithParts(s) \in Seq(Parts)
         /\ (\A i \in DOMAIN s.ctes : s.ctes[i] \in Seq(Words)) => WithParts(s) \in Seq(Given)
<1> DEFINE f == WithParts(s)
<1>1. s.ctes \in Seq(Texts) /\ DOMAIN s.ctes = 1 .. Len(s.ctes)
  BY SelectFields
<1>2. DOMAIN f = DOMAIN s.ctes /\ f = [i \in DOMAIN s.ctes |-> f[i]]
  BY DEF WithParts
<1>3. ASSUME NEW i \in 1 .. Len(s.ctes)
      PROVE  /\ f[i] \in Parts
             /\ s.ctes[i] \in Seq(Words) => f[i] \in Given
  <2>1. s.ctes[i] \in Texts
    BY <1>1
  <2>2. f[i] = Word(Enclosed(s.ctes[i]))
    BY <1>1 DEF WithParts
  <2>3. Word(Enclosed(s.ctes[i])) \in Parts
    BY <2>1, EnclosedText DEF Word, Part, Parts
  <2>4. s.ctes[i] \in Seq(Words) => Word(Enclosed(s.ctes[i])) \in Given
    BY <2>1, EnclosedText, PartsMade
  <2>5. QED BY <2>2, <2>3, <2>4
<1> HIDE DEF f
<1>4. f \in Seq(Parts)
  BY <1>1, <1>2, <1>3, MadeSeq
<1>5. ASSUME \A i \in DOMAIN s.ctes : s.ctes[i] \in Seq(Words)
      PROVE  f \in Seq(Given)
  <2>1. \A i \in 1 .. Len(s.ctes) : f[i] \in Given
    BY <1>1, <1>3, <1>5
  <2>2. QED BY <1>1, <1>2, <2>1, MadeSeq
<1>6. QED BY <1>4, <1>5 DEF f

\* The set operations are parts, and texts alone when the queries they append
\* have no placeholder (SetOpParts).
LEMMA SetOpPartsAre ==
  ASSUME NEW s \in Selects
  PROVE  /\ SetOpParts(s) \in Seq(Parts)
         /\ (\A i \in DOMAIN s.setOps : s.setOps[i].sql \in Seq(Words)) => SetOpParts(s) \in Seq(Given)
<1> DEFINE f == SetOpParts(s)
           S == [op : Names, sql : Texts]
<1>1. s.setOps \in Seq(S)
  BY SelectFields
<1>2. DOMAIN f = DOMAIN s.setOps /\ f = [i \in DOMAIN s.setOps |-> f[i]]
  BY DEF SetOpParts
<1>3. ASSUME NEW i \in 1 .. Len(s.setOps)
      PROVE  /\ f[i] \in Parts
             /\ s.setOps[i].sql \in Seq(Words) => f[i] \in Given
  <2> DEFINE text == Enclosed(s.setOps[i].sql)
  <2>1. s.setOps[i] \in S /\ DOMAIN s.setOps = 1 .. Len(s.setOps)
    <3> HIDE DEF S
    <3>1. QED BY <1>1
  <2>2. s.setOps[i].op \in Names /\ s.setOps[i].sql \in Texts
    BY <2>1
  <2>3. f[i] = Word(<<Tok(s.setOps[i].op)>> \o text)
    BY <2>1 DEF SetOpParts
  <2>4. <<Tok(s.setOps[i].op)>> \in Seq(Words) /\ <<Tok(s.setOps[i].op)>> \in Texts
    <3>1. <<Tok(s.setOps[i].op)>> \in Seq(Words)
      BY <2>2, TokIsWord
    <3>2. Words \subseteq Tokens
      BY DEF Words
    <3>3. \A t \in Seq(Words) : t \in Texts
      BY <3>2, SeqGrows DEF Texts
    <3>4. QED BY <3>1, <3>3, Zenon
  <2>5. /\ text \in Texts
        /\ s.setOps[i].sql \in Seq(Words) => text \in Seq(Words)
    BY <2>2, EnclosedText
  <2>6. \A t, u \in Texts : t \o u \in Texts
    BY DEF Texts
  <2>7. \A t, u \in Seq(Words) : t \o u \in Seq(Words)
    OBVIOUS
  <2> HIDE DEF text
  <2>8. Word(<<Tok(s.setOps[i].op)>> \o text) \in Parts
    BY <2>4, <2>5, <2>6 DEF Word, Part, Parts
  <2>9. s.setOps[i].sql \in Seq(Words) => Word(<<Tok(s.setOps[i].op)>> \o text) \in Given
    BY <2>4, <2>5, <2>7, PartsMade
  <2>10. QED BY <2>3, <2>8, <2>9
<1>4. DOMAIN s.setOps = 1 .. Len(s.setOps)
  <2> HIDE DEF S
  <2>1. QED BY <1>1
<1> HIDE DEF f, S
<1>5. f \in Seq(Parts)
  BY <1>1, <1>2, <1>3, MadeSeq
<1>6. ASSUME \A i \in DOMAIN s.setOps : s.setOps[i].sql \in Seq(Words)
      PROVE  f \in Seq(Given)
  <2>1. \A i \in 1 .. Len(s.setOps) : f[i] \in Given
    BY <1>3, <1>4, <1>6
  <2>2. QED BY <1>1, <1>2, <2>1, MadeSeq
<1>7. QED BY <1>5, <1>6 DEF f

\* The start of a select and its unparameterised clauses are words.
LEMMA SelectWords ==
  ASSUME NEW s
  PROVE  /\ Start(s).sql \in Seq(Words) /\ Start(s) = Fragment(Start(s).sql, <<>>)
         /\ Clause(s, "GROUP BY") \in Seq(Words) /\ Closing(s) \in Seq(Words)
         /\ <<Tok("SELECT")>> \in Seq(Words)
<1>1. /\ "WITH" \in Names /\ "GROUP BY" \in Names /\ "ORDER BY" \in Names /\ "LIMIT" \in Names
      /\ "OFFSET" \in Names /\ "LOCK" \in Names /\ "SELECT" \in Names
  BY Known DEF Keywords
<1>2. <<>> \in Seq(Words) /\ <<Tok("WITH")>> \in Seq(Words) /\ <<Tok("SELECT")>> \in Seq(Words)
  <2>1. <<>> \in Seq(Words)
    OBVIOUS
  <2>2. QED BY <1>1, <2>1, TokIsWord
<1>3. \A t, u \in Seq(Words) : t \o u \in Seq(Words)
  OBVIOUS
<1>4. /\ Clause(s, "GROUP BY") \in Seq(Words) /\ Clause(s, "ORDER BY") \in Seq(Words)
      /\ Clause(s, "LIMIT") \in Seq(Words) /\ Clause(s, "OFFSET") \in Seq(Words)
      /\ Clause(s, "LOCK") \in Seq(Words)
  BY <1>1, ClauseIsWord
<1>5. Closing(s) \in Seq(Words)
  BY <1>3, <1>4 DEF Closing
<1>6. Start(s).sql \in Seq(Words) /\ Start(s) = Fragment(Start(s).sql, <<>>)
  BY <1>2 DEF Start, Fragment
<1>7. QED BY <1>2, <1>4, <1>5, <1>6

\* How a select is put together (render).
LEMMA RenderSelectIs ==
  ASSUME NEW s, NEW d
  PROVE  /\ Opened(s, d) = Put(Written(Start(s), WithParts(s), d), <<Tok("SELECT")>> \o s.from)
         /\ \A a : RenderJoins(a, s, d) = Written(a, JoinParts(s), d)
         /\ \A a : SetOps(a, s, d) = Written(a, SetOpParts(s), d)
         /\ RenderSelect(s, d)
                = SetOps(Put(RenderHaving(Put(RenderWhere(RenderJoins(Opened(s, d), s, d), s, d),
                                              Clause(s, "GROUP BY")), s, d), Closing(s)), s, d)
<1>1. Opened(s, d) = Put(Written(Start(s), WithParts(s), d), <<Tok("SELECT")>> \o s.from)
  BY DEF Opened, Start, WithParts
<1>2. \A a : RenderJoins(a, s, d) = Written(a, JoinParts(s), d)
  BY DEF RenderJoins, JoinParts
<1>3. \A a : SetOps(a, s, d) = Written(a, SetOpParts(s), d)
  BY DEF SetOps, SetOpParts
<1>4. RenderSelect(s, d)
        = SetOps(Put(RenderHaving(Put(RenderWhere(RenderJoins(Opened(s, d), s, d), s, d),
                                      Clause(s, "GROUP BY")), s, d), Closing(s)), s, d)
  BY DEF RenderSelect, Closing
<1>5. QED BY <1>1, <1>2, <1>3, <1>4

\* A select begins as a text, whatever was put into it.
LEMMA OpenedType ==
  ASSUME NEW s \in Selects, NEW d \in Kinds
  PROVE  Opened(s, d) \in Fragments
<1>1. \A t \in Seq(Words) : t \in Texts
  <2>1. Words \subseteq Tokens
    BY DEF Words
  <2>2. QED BY <2>1, SeqGrows DEF Texts
<1>2. Start(s).sql \in Texts /\ <<Tok("SELECT")>> \in Texts
  BY <1>1, SelectWords, Zenon
<1>3. Start(s) \in Fragments
  <2>1. <<>> \in Seq(Values)
    OBVIOUS
  <2>2. \A text \in Texts : Fragment(text, <<>>) \in Fragments
    BY <2>1 DEF Fragment, Fragments
  <2>3. Start(s) = Fragment(Start(s).sql, <<>>)
    BY SelectWords
  <2>4. Fragment(Start(s).sql, <<>>) \in Fragments
    BY <1>2, <2>2
  <2>5. QED BY <2>3, <2>4
<1>4. <<Tok("SELECT")>> \o s.from \in Texts
  <2>1. \A t, u \in Texts : t \o u \in Texts
    BY DEF Texts
  <2>2. QED BY <1>2, <2>1, SelectFields
<1>5. QED BY <1>3, <1>4, WithPartsAre, WrittenType, PutTypes, RenderSelectIs

\* A select is rendered as a text with its parameters, whatever was put into it.
LEMMA RenderSelectType ==
  ASSUME NEW s \in Selects, NEW d \in Kinds
  PROVE  RenderSelect(s, d) \in Fragments
<1>1. \A t \in Seq(Given) : t \in Seq(Parts)
  BY GivenArePartsToo, SeqGrows
<1>2. \A t \in Seq(Words) : t \in Texts
  <2>1. Words \subseteq Tokens
    BY DEF Words
  <2>2. QED BY <2>1, SeqGrows DEF Texts
<1>3. /\ JoinParts(s) \in Seq(Parts)
      /\ SelectWhereParts(s) \in Seq(Parts)
      /\ All(s.havings, <<Tok("HAVING")>>, "AND") \in Seq(Parts)
  BY <1>1, JoinPartsGiven, WherePartsGiven, HavingPartsGiven, Zenon
<1>4. SetOpParts(s) \in Seq(Parts)
  BY SetOpPartsAre
<1>5. Clause(s, "GROUP BY") \in Texts /\ Closing(s) \in Texts
  BY <1>2, SelectWords, Zenon
<1>6. Opened(s, d) \in Fragments
  BY OpenedType
<1>7. RenderJoins(Opened(s, d), s, d) \in Fragments
  BY <1>3, <1>6, WrittenType, RenderSelectIs
<1>8. RenderWhere(RenderJoins(Opened(s, d), s, d), s, d) \in Fragments
  BY <1>3, <1>7, WrittenType DEF RenderWhere
<1> DEFINE chosen == Put(RenderWhere(RenderJoins(Opened(s, d), s, d), s, d), Clause(s, "GROUP BY"))
<1>9. chosen \in Fragments
  BY <1>5, <1>8, PutTypes
<1>10. RenderSelect(s, d) = SetOps(Put(RenderHaving(chosen, s, d), Closing(s)), s, d)
  BY RenderSelectIs
<1> HIDE DEF chosen
<1>11. RenderHaving(chosen, s, d) \in Fragments
  BY <1>3, <1>9, WrittenType DEF RenderHaving
<1>12. Put(RenderHaving(chosen, s, d), Closing(s)) \in Fragments
  BY <1>5, <1>11, PutTypes
<1>13. QED BY <1>4, <1>10, <1>12, WrittenType, RenderSelectIs

\* The texts that were put into a select that takes no parameters are words.
LEMMA NoParamsWords ==
  ASSUME NEW s \in Selects, TakesNoParams(s)
  PROVE  /\ s.from \in Seq(Words)
         /\ \A i \in DOMAIN s.ctes : s.ctes[i] \in Seq(Words)
         /\ \A i \in DOMAIN s.setOps : s.setOps[i].sql \in Seq(Words)
<1>1. ASSUME NEW text \in Texts, \A i \in DOMAIN text : text[i].args = <<>>
      PROVE  text \in Seq(Words)
  <2>1. text \in Seq(Tokens) /\ DOMAIN text = 1 .. Len(text)
    BY DEF Texts
  <2>2. ASSUME NEW i \in 1 .. Len(text)
        PROVE  text[i] \in Words
    <3>1. text[i] \in Tokens /\ text[i].args = <<>>
      BY <1>1, <2>1
    <3>2. <<>> \in Seq(Literals)
      OBVIOUS
    <3>3. QED BY <3>1, <3>2 DEF Words
  <2>3. text = [i \in DOMAIN text |-> text[i]]
    BY <2>1
  <2>4. QED BY <2>1, <2>2, <2>3, MadeSeq
<1>2. \A i \in DOMAIN s.from : s.from[i].args = <<>>
  BY DEF TakesNoParams
<1>3. ASSUME NEW i \in DOMAIN s.ctes
      PROVE  s.ctes[i] \in Seq(Words)
  <2>1. s.ctes[i] \in Range(s.ctes)
    BY DEF Range
  <2>2. \A k \in DOMAIN s.ctes[i] : s.ctes[i][k].args = <<>>
    BY <2>1 DEF TakesNoParams
  <2>3. s.ctes[i] \in Texts
    BY SelectFields
  <2>4. QED BY <1>1, <2>2, <2>3
<1>4. ASSUME NEW i \in DOMAIN s.setOps
      PROVE  s.setOps[i].sql \in Seq(Words)
  <2> DEFINE S == [op : Names, sql : Texts]
  <2>1. \A k \in DOMAIN s.setOps[i].sql : s.setOps[i].sql[k].args = <<>>
    BY DEF TakesNoParams
  <2>2. s.setOps \in Seq(S)
    BY SelectFields
  <2>3. s.setOps[i] \in S
    <3> HIDE DEF S
    <3>1. QED BY <2>2
  <2>4. s.setOps[i].sql \in Texts
    BY <2>3
  <2>5. QED BY <1>1, <2>1, <2>4
<1>5. s.from \in Texts
  BY SelectFields
<1>6. QED BY <1>1, <1>2, <1>3, <1>4, <1>5

\* The start of a select with its CTEs and joins (render).
LEMMA JoinsMeet ==
  ASSUME NEW s \in Selects, TakesNoParams(s), NEW d \in {"$", "?"}
  PROVE  Meets(d, RenderJoins(Opened(s, d), s, d), RenderJoins(Opened(s, "v"), s, "v"))
<1>1. WithParts(s) \in Seq(Given)
  BY NoParamsWords, WithPartsAre
<1>2. Meets(d, Start(s), Start(s))
  BY SelectWords, WordsMeet
<1>3. <<Tok("SELECT")>> \o s.from \in Seq(Words)
  <2>1. \A t, u \in Seq(Words) : t \o u \in Seq(Words)
    OBVIOUS
  <2>2. QED BY <2>1, NoParamsWords, SelectWords
<1>4. Meets(d, Written(Start(s), WithParts(s), d), Written(Start(s), WithParts(s), "v"))
  BY <1>1, <1>2, WrittenMeets
<1>5. Meets(d, Opened(s, d), Opened(s, "v"))
  BY <1>3, <1>4, PutTextMeets, RenderSelectIs
<1>6. /\ RenderJoins(Opened(s, d), s, d) = Written(Opened(s, d), JoinParts(s), d)
      /\ RenderJoins(Opened(s, "v"), s, "v") = Written(Opened(s, "v"), JoinParts(s), "v")
  BY RenderSelectIs
<1>7. Meets(d, Written(Opened(s, d), JoinParts(s), d), Written(Opened(s, "v"), JoinParts(s), "v"))
  BY <1>5, JoinPartsGiven, WrittenMeets
<1>8. QED BY <1>6, <1>7

\* The statements of a select bind, when none of the builders that were put
\* into it had parameters (render, count_sql).
LEMMA SelectsBind ==
  ASSUME NEW s \in Selects
  PROVE  SelectBinds(s)
<1> SUFFICES ASSUME TakesNoParams(s), NEW d \in {"$", "?"}
             PROVE  /\ Binds(RenderSelect(s, d), RenderSelect(s, "v"))
                    /\ Binds(CountSql(s, d), CountSql(s, "v"))
  BY DEF SelectBinds
<1> DEFINE joined == RenderJoins(Opened(s, d), s, d)
           ljoined == RenderJoins(Opened(s, "v"), s, "v")
           chosen == Put(RenderWhere(joined, s, d), Clause(s, "GROUP BY"))
           lchosen == Put(RenderWhere(ljoined, s, "v"), Clause(s, "GROUP BY"))
           bare == [s EXCEPT !.orWheres = <<>>]
<1>1. Meets(d, joined, ljoined)
  BY JoinsMeet
<1>2. /\ RenderSelect(s, d) = SetOps(Put(RenderHaving(chosen, s, d), Closing(s)), s, d)
      /\ RenderSelect(s, "v") = SetOps(Put(RenderHaving(lchosen, s, "v"), Closing(s)), s, "v")
  BY RenderSelectIs
<1>3. /\ CountSql(s, d) = RenderWhere(joined, bare, d)
      /\ CountSql(s, "v") = RenderWhere(ljoined, bare, "v")
  BY DEF CountSql
<1>4. bare \in Selects
  <2>1. <<>> \in Seq(Nodes)
    OBVIOUS
  <2>2. \A x \in Selects : \A e \in Seq(Nodes) : [x EXCEPT !.orWheres = e] \in Selects
    BY DEF Selects, SelectsOf
  <2>3. QED BY <2>1, <2>2
<1> HIDE DEF joined, ljoined, bare
<1>5. Binds(CountSql(s, d), CountSql(s, "v"))
  <2>1. SelectWhereParts(bare) \in Seq(Given)
    BY <1>4, WherePartsGiven
  <2>2. Meets(d, RenderWhere(joined, bare, d), RenderWhere(ljoined, bare, "v"))
    BY <1>1, <2>1, WrittenMeets DEF RenderWhere
  <2>3. QED BY <1>3, <2>2, MeetsBinds
<1>6. Meets(d, chosen, lchosen)
  <2>1. Meets(d, RenderWhere(joined, s, d), RenderWhere(ljoined, s, "v"))
    BY <1>1, WherePartsGiven, WrittenMeets DEF RenderWhere
  <2>2. QED BY <2>1, SelectWords, PutTextMeets
<1> HIDE DEF chosen, lchosen
<1>7. Meets(d, RenderHaving(chosen, s, d), RenderHaving(lchosen, s, "v"))
  BY <1>6, HavingPartsGiven, WrittenMeets DEF RenderHaving
<1> DEFINE closed == Put(RenderHaving(chosen, s, d), Closing(s))
           lclosed == Put(RenderHaving(lchosen, s, "v"), Closing(s))
<1>8. Meets(d, closed, lclosed)
  BY <1>7, SelectWords, PutTextMeets
<1> HIDE DEF closed, lclosed
<1>9. SetOpParts(s) \in Seq(Given)
  BY NoParamsWords, SetOpPartsAre
<1>10. Meets(d, SetOps(closed, s, d), SetOps(lclosed, s, "v"))
  <2>1. /\ SetOps(closed, s, d) = Written(closed, SetOpParts(s), d)
        /\ SetOps(lclosed, s, "v") = Written(lclosed, SetOpParts(s), "v")
    BY RenderSelectIs
  <2>2. Meets(d, Written(closed, SetOpParts(s), d), Written(lclosed, SetOpParts(s), "v"))
    BY <1>8, <1>9, WrittenMeets
  <2>3. QED BY <2>1, <2>2
<1>11. Binds(RenderSelect(s, d), RenderSelect(s, "v"))
  BY <1>2, <1>10, MeetsBinds DEF closed, lclosed
<1>12. QED BY <1>5, <1>11

-----------------------------------------------------------------------------
(* What a caller can build, call by call.                                  *)

\* One more condition in a builder (where_* of core/query.rs).
LEMMA PushBuilder ==
  ASSUME NEW b \in Builders, NEW join \in Names, NEW c \in Nodes
  PROVE  Push(b, join, c) \in Builders
<1> DEFINE S == [join : Names, cond : Nodes]
<1>1. Joined(join, c) \in S
  BY DEF Joined
<1>2. b.conds \in Seq(S)
  BY BuilderFields DEF CondsOf
<1>3. \A x \in Builders : \A conds \in CondsOf(Nodes) : [x EXCEPT !.conds = conds] \in Builders
  BY DEF Builders, BuildersOf
<1>4. Append(b.conds, Joined(join, c)) \in CondsOf(Nodes)
  <2> HIDE DEF S
  <2>1. Append(b.conds, Joined(join, c)) \in Seq(S)
    BY <1>1, <1>2
  <2>2. QED BY <2>1 DEF CondsOf, S
<1>5. Push(b, join, c) = [b EXCEPT !.conds = Append(b.conds, Joined(join, c))]
  BY DEF Push
<1>6. QED BY <1>3, <1>4, <1>5

\* The conditions a caller adds are nodes, and those the calls make of them.
LEMMA CallerNodes ==
  /\ Conds \subseteq Nodes /\ Exprs \subseteq Nodes /\ Joins \subseteq Nodes /\ Havings \subseteq Nodes
  /\ IsNull(SoftColumn) \in Nodes /\ IsNotNull(SoftColumn) \in Nodes
  /\ \A inner \in Inners : Group(inner) \in Nodes
  /\ \A inner \in Inners, exists \in BOOLEAN : Subquery(exists, "rel", inner) \in Nodes
<1>1. Conds \subseteq Nodes /\ Exprs \subseteq Nodes /\ Joins \subseteq Nodes /\ Havings \subseteq Nodes
  BY CallerAssumption DEF Nodes
<1>2. IsNull(SoftColumn) \in Nodes /\ IsNotNull(SoftColumn) \in Nodes
  <2>1. SoftColumn \in Names
    BY CallerAssumption
  <2>2. <<>> \in Seq(Values)
    OBVIOUS
  <2>3. QED BY <2>1, <2>2, MadeNodes DEF IsNull, IsNotNull
<1>3. ASSUME NEW inner \in Inners
      PROVE  Group(inner) \in Nodes
  <2>1. inner \in CondsOf(Trees)
    BY CallerAssumption
  <2>2. NoColumn \in Names
    BY Known
  <2>3. Group(inner) \in Groups
    BY <2>1, <2>2 DEF Group, Condition, Groups
  <2>4. QED BY <2>3 DEF Nodes
<1>4. ASSUME NEW inner \in Inners, NEW exists \in BOOLEAN
      PROVE  Subquery(exists, "rel", inner) \in Nodes
  <2>1. inner \in CondsOf(Trees)
    BY CallerAssumption
  <2>2. "rel" \in Names
    BY Known
  <2>3. Subquery(exists, "rel", inner) \in Groups
    BY <2>1, <2>2 DEF Subquery, Condition, Groups
  <2>4. QED BY <2>3 DEF Nodes
<1>5. QED BY <1>1, <1>2, <1>3, <1>4

\* What is sent is a builder too: the scopes and the soft delete filter are
\* conditions like any other (into_final_builder, scopes.rs).
LEMMA FinalBuilder ==
  ASSUME q \in Builders
  PROVE  IntoFinalBuilder \in Builders
<1> DEFINE S == [join : Names, cond : Nodes]
           f == [i \in DOMAIN Scopes |-> Joined("AND", Scopes[i])]
<1>1. "AND" \in Names
  BY Known DEF Keywords
<1>2. Scopes \in Seq(Trees) /\ DOMAIN Scopes = 1 .. Len(Scopes)
  BY CallerAssumption
<1>3. ASSUME NEW i \in 1 .. Len(Scopes)
      PROVE  f[i] \in S
  <2>1. Scopes[i] \in Nodes
    BY <1>2 DEF Nodes
  <2>2. f[i] = Joined("AND", Scopes[i])
    BY <1>2
  <2> HIDE DEF f
  <2>3. QED BY <1>1, <2>1, <2>2 DEF Joined
<1>4. DOMAIN f = DOMAIN Scopes /\ f = [i \in DOMAIN Scopes |-> f[i]]
  OBVIOUS
<1>5. ApplyScopes(q) = [q EXCEPT !.conds = q.conds \o f]
  BY DEF ApplyScopes
<1>6. q.conds \in Seq(S)
  BY BuilderFields DEF CondsOf
<1> HIDE DEF f, S
<1>7. f \in Seq(S)
  BY <1>2, <1>3, <1>4, MadeSeq
<1>8. q.conds \o f \in Seq(S)
  BY <1>6, <1>7
<1>9. q.conds \o f \in CondsOf(Nodes)
  BY <1>8 DEF CondsOf, S
<1>10. \A x \in Builders : \A conds \in CondsOf(Nodes) : [x EXCEPT !.conds = conds] \in Builders
  BY DEF Builders, BuildersOf
<1>11. ApplyScopes(q) \in Builders
  BY <1>5, <1>9, <1>10
<1>12. QED BY <1>1, <1>11, CallerNodes, PushBuilder DEF IntoFinalBuilder

\* A clause more, in a builder or a select.
LEMMA ClauseAdded ==
  ASSUME NEW c \in Keywords
  PROVE  /\ \A b \in Builders : WithClause(b, c) \in Builders
         /\ \A s \in Selects : WithClause(s, c) \in Selects
<1>1. c \in Names
  BY Known
<1>2. \A x \in Builders : \A opts \in SUBSET Names : [x EXCEPT !.opts = opts] \in Builders
  BY DEF Builders, BuildersOf
<1>3. \A x \in Selects : \A opts \in SUBSET Names : [x EXCEPT !.opts = opts] \in Selects
  BY DEF Selects, SelectsOf
<1>4. ASSUME NEW b \in Builders
      PROVE  WithClause(b, c) \in Builders
  <2>1. b.opts \cup {c} \in SUBSET Names
    BY <1>1, BuilderFields
  <2>2. QED BY <1>2, <2>1 DEF WithClause
<1>5. ASSUME NEW s \in Selects
      PROVE  WithClause(s, c) \in Selects
  <2>1. s.opts \cup {c} \in SUBSET Names
    BY <1>1, SelectFields
  <2>2. QED BY <1>3, <2>1 DEF WithClause
<1>6. QED BY <1>4, <1>5

\* The caller starts with empty builders.
LEMMA BuiltInit == Init => Built
<1>1. <<>> \in CondsOf(Nodes)
  BY DEF CondsOf
<1>2. <<>> \in Seq(Queries) /\ <<>> \in Seq([op : Names, rhs : Queries]) /\ {} \in SUBSET Names
  OBVIOUS
<1>3. QueryBuilder \in Builders
  BY <1>1, <1>2 DEF QueryBuilder, Builders, BuildersOf
<1>4. /\ <<>> \in Texts /\ <<>> \in Seq(Texts) /\ <<>> \in Seq([op : Names, sql : Texts])
      /\ <<>> \in Seq(Nodes)
  BY DEF Texts
<1>5. SelectBuilder \in Selects
  BY <1>2, <1>4 DEF SelectBuilder, Selects, SelectsOf
<1>6. <<>> \in Data /\ <<>> \in Seq(Updates)
  BY DEF Data
<1>7. InsertBuilder \in Inserts
  BY <1>6 DEF InsertBuilder, Inserts
<1>8. UpdateBuilder \in Upds
  BY <1>4, <1>6 DEF UpdateBuilder, Upds
<1>9. QED BY <1>3, <1>5, <1>7, <1>8 DEF Init, Built

\* The calls of a model query keep its builder one.
LEMMA ModelCalls ==
  ASSUME Built, NEW b \in Builders, OnModel(b)
  PROVE  Built'
BY DEF OnModel, Call, Built

\* The calls of a select, an insert and an update keep theirs.
LEMMA DslCalls ==
  ASSUME Built
  PROVE  /\ \A s \in Selects : OnSelect(s) => Built'
         /\ \A b \in Inserts : OnInsert(b) => Built'
         /\ \A b \in Upds : OnUpdate(b) => Built'
BY DEF OnSelect, OnInsert, OnUpdate, Call, Built

\* Each call of a model query keeps the builders.
LEMMA ModelNext ==
  ASSUME Built
  PROVE  /\ \A j \in {"AND", "OR"}, c \in Conds : Where(j, c) => Built'
         /\ \A j \in {"AND", "OR"}, inner \in Inners : WhereInGroup(j, inner) => Built'
         /\ \A op \in {">=", "LIKE"} : WhereColumn(op, 2) => Built'
         /\ \A inner \in Inners, exists \in BOOLEAN : WhereHas(exists, inner) => Built'
         /\ WithTrashed \/ OnlyTrashed \/ WithoutGlobalScopes => Built'
         /\ AddClause => Built'
         /\ \A sub \in SubQueries : AddCte(sub) \/ AddSetOp("UNION", sub) => Built'
<1>1. q \in Builders
  BY DEF Built
<1>2. "AND" \in Names /\ "OR" \in Names /\ "UNION" \in Names
  BY Known DEF Keywords
<1>3. ASSUME NEW j \in {"AND", "OR"}, NEW c \in Conds, Where(j, c)
      PROVE  Built'
  <2>1. Push(q, "AND", c) \in Builders /\ Push(q, "OR", c) \in Builders
    BY <1>1, <1>2, CallerNodes, PushBuilder
  <2>2. QED BY <1>3, <2>1, ModelCalls DEF Where, AndWhere, OrWhere
<1>4. ASSUME NEW j \in {"AND", "OR"}, NEW inner \in Inners, WhereInGroup(j, inner)
      PROVE  Built'
  <2>1. Push(q, j, Group(inner)) \in Builders
    BY <1>1, <1>2, CallerNodes, PushBuilder
  <2>2. WhereGroup(q, j, inner) \in Builders
    BY <1>1, <2>1 DEF WhereGroup
  <2>3. QED BY <1>4, <2>2, ModelCalls DEF WhereInGroup
<1>5. ASSUME NEW op \in {">=", "LIKE"}, WhereColumn(op, 2)
      PROVE  Built'
  <2>1. "a" \in Names /\ 2 \in Values /\ "LIKE" \in Names /\ NoColumn \in Names
    BY Known, CallerAssumption DEF Keywords
  <2>2. <<2>> \in Seq(Values)
    BY <2>1
  <2>3. Compare(">=", "a", 2) \in Nodes
    BY <2>1, <2>2, MadeNodes DEF Compare
  <2>4. Raw(<<Leaf("LIKE", "a", <<<<"v", 2>>>>)>>) \in Nodes
    <3>1. <<"v", 2>> \in Literals
      BY <2>1 DEF Literals
    <3>2. <<<<"v", 2>>>> \in Seq(Literals)
      BY <3>1
    <3>3. Leaf("LIKE", "a", <<<<"v", 2>>>>) \in RawTokens
      BY <2>1, <3>2 DEF Leaf, RawTokens
    <3>4. <<Leaf("LIKE", "a", <<<<"v", 2>>>>)>> \in RawTexts
      BY <3>3 DEF RawTexts
    <3>5. Raw(<<Leaf("LIKE", "a", <<<<"v", 2>>>>)>>) \in Raws
      BY <3>4 DEF Raw, Condition, Raws
    <3>6. QED BY <3>5 DEF Nodes
  <2>5. WhereOp(q, "a", op, 2) = Push(q, "AND", IF op = ">=" THEN Compare(">=", "a", 2)
                                                ELSE Raw(<<Leaf("LIKE", "a", <<<<"v", 2>>>>)>>))
    BY DEF WhereOp, AndWhere
  <2>6. WhereOp(q, "a", op, 2) \in Builders
    BY <1>1, <1>2, <2>3, <2>4, <2>5, PushBuilder
  <2>7. QED BY <1>5, <2>6, ModelCalls DEF WhereColumn
<1>6. ASSUME NEW inner \in Inners, NEW exists \in BOOLEAN, WhereHas(exists, inner)
      PROVE  Built'
  <2>1. Push(q, "AND", Subquery(exists, "rel", inner)) \in Builders
    BY <1>1, <1>2, CallerNodes, PushBuilder
  <2>2. QED BY <1>6, <2>1, ModelCalls DEF WhereHas
<1>7. ASSUME WithTrashed \/ OnlyTrashed \/ WithoutGlobalScopes
      PROVE  Built'
  <2>1. Push(q, "AND", IsNotNull(SoftColumn)) \in Builders
    BY <1>1, <1>2, CallerNodes, PushBuilder
  <2>2. QED BY <1>1, <1>7, <2>1, ModelCalls DEF WithTrashed, OnlyTrashed, WithoutGlobalScopes
<1>8. ASSUME AddClause
      PROVE  Built'
  <2>1. {"JOIN", "ORDER BY", "WINDOW", "LOCK", "GROUP BY", "HAVING", "LIMIT", "OFFSET"} \subseteq Keywords
    BY DEF Keywords
  <2>2. \A c \in {"JOIN", "ORDER BY", "WINDOW", "LOCK", "GROUP BY", "HAVING", "LIMIT", "OFFSET"} :
            WithClause(q, c) \in Builders
    BY <1>1, <2>1, ClauseAdded
  <2>3. PICK b \in {WithJoin(q), WithOrder(q), WithWindow(q), WithLock(q)}
                        \cup WithGroup(q) \cup WithLimit(q) : OnModel(b)
    BY <1>8 DEF AddClause
  <2>4. b \in Builders
    BY <2>2, <2>3 DEF WithJoin, WithOrder, WithWindow, WithLock, WithGroup, WithLimit
  <2>5. QED BY <2>3, <2>4, ModelCalls
<1>9. ASSUME NEW sub \in SubQueries, AddCte(sub) \/ AddSetOp("UNION", sub)
      PROVE  Built'
  <2> DEFINE S == [op : Names, rhs : Queries]
  <2>1. sub \in Queries
    BY CallerAssumption
  <2>2. Append(q.ctes, sub) \in Seq(Queries)
    BY <1>1, <2>1, BuilderFields
  <2>3. \A x \in Builders : \A ctes \in Seq(Queries) : [x EXCEPT !.ctes = ctes] \in Builders
    BY DEF Builders, BuildersOf
  <2>4. WithCte(q, sub) \in Builders
    BY <1>1, <2>2, <2>3 DEF WithCte
  <2>5. <<[op |-> "UNION", rhs |-> sub]>> \in Seq(S)
    <3>1. [op |-> "UNION", rhs |-> sub] \in S
      BY <1>2, <2>1
    <3>2. \A p \in S : <<p>> \in Seq(S)
      <4> HIDE DEF S
      <4>1. QED OBVIOUS
    <3> HIDE DEF S
    <3>3. QED BY <3>1, <3>2
  <2>6. \A x \in Builders : \A s \in Seq(S) : [x EXCEPT !.setOp = s] \in Builders
    BY DEF Builders, BuildersOf
  <2> HIDE DEF S
  <2>7. WithSetOp(q, "UNION", sub) \in Builders
    BY <1>1, <2>5, <2>6 DEF WithSetOp
  <2>8. QED BY <1>9, <2>4, <2>7, ModelCalls DEF AddCte, AddSetOp
<1>10. QED BY <1>3, <1>4, <1>5, <1>6, <1>7, <1>8, <1>9

\* Each call of a DSL builder keeps the builders.
LEMMA DslNext ==
  ASSUME Built
  PROVE  /\ \A e \in Exprs : SelWhere(e) \/ SelOrWhere(e) \/ UpdWhere(e) => Built'
         /\ \A e \in Havings : SelHaving(e) => Built'
         /\ \A e \in Joins : SelJoin(e) => Built'
         /\ SelClause => Built'
         /\ \A sub \in SubSelects : SelFrom(sub) \/ SelCte(sub) \/ SelSetOp("UNION", sub) => Built'
         /\ \A data \in Pairs : InsValues(data) \/ UpdSet(data) => Built'
         /\ \A sets \in Sets : InsDoUpdate(sets) => Built'
         /\ InsDoNothing \/ InsOnConflict => Built'
<1>1. sel \in Selects /\ ins \in Inserts /\ upd \in Upds
  BY DEF Built
<1>2. \A s \in Seq(Nodes), e \in Nodes : Append(s, e) \in Seq(Nodes)
  OBVIOUS
<1>3. /\ \A x \in Selects, e \in Seq(Nodes) :
            /\ [x EXCEPT !.wheres = e] \in Selects /\ [x EXCEPT !.orWheres = e] \in Selects
            /\ [x EXCEPT !.havings = e] \in Selects /\ [x EXCEPT !.joins = e] \in Selects
      /\ \A x \in Selects, text \in Texts : [x EXCEPT !.from = text] \in Selects
      /\ \A x \in Selects, ctes \in Seq(Texts) : [x EXCEPT !.ctes = ctes] \in Selects
      /\ \A x \in Selects, ops \in Seq([op : Names, sql : Texts]) : [x EXCEPT !.setOps = ops] \in Selects
  BY DEF Selects, SelectsOf
<1>4. /\ sel.wheres \in Seq(Nodes) /\ sel.orWheres \in Seq(Nodes) /\ sel.havings \in Seq(Nodes)
      /\ sel.joins \in Seq(Nodes) /\ sel.ctes \in Seq(Texts)
      /\ sel.setOps \in Seq([op : Names, sql : Texts])
  BY <1>1, SelectFields
<1>5. upd.data \in Data /\ upd.wheres \in Seq(Nodes)
  BY <1>1 DEF Upds
<1>6. \A s, t \in Data : s \o t \in Data
  BY DEF Data
<1>7. ASSUME NEW e \in Exprs, SelWhere(e) \/ SelOrWhere(e) \/ UpdWhere(e)
      PROVE  Built'
  <2>1. e \in Nodes
    BY CallerNodes
  <2>2. /\ [sel EXCEPT !.wheres = Append(sel.wheres, e)] \in Selects
        /\ [sel EXCEPT !.orWheres = Append(sel.orWheres, e)] \in Selects
    BY <1>1, <1>2, <1>3, <1>4, <2>1
  <2>3. [upd EXCEPT !.wheres = Append(upd.wheres, e)] \in Upds
    <3>1. Append(upd.wheres, e) \in Seq(Nodes)
      BY <1>2, <1>5, <2>1
    <3>2. QED BY <1>1, <3>1 DEF Upds
  <2>4. QED BY <1>7, <2>2, <2>3, DslCalls DEF SelWhere, SelOrWhere, UpdWhere
<1>8. ASSUME NEW e \in Havings, SelHaving(e)
      PROVE  Built'
  <2>1. [sel EXCEPT !.havings = Append(sel.havings, e)] \in Selects
    BY <1>1, <1>2, <1>3, <1>4, CallerNodes
  <2>2. QED BY <1>8, <2>1, DslCalls DEF SelHaving
<1>9. ASSUME NEW e \in Joins, SelJoin(e)
      PROVE  Built'
  <2>1. [sel EXCEPT !.joins = Append(sel.joins, e)] \in Selects
    BY <1>1, <1>2, <1>3, <1>4, CallerNodes
  <2>2. QED BY <1>9, <2>1, DslCalls DEF SelJoin
<1>10. ASSUME SelClause
       PROVE  Built'
  <2>1. {"GROUP BY", "ORDER BY", "LIMIT", "OFFSET", "LOCK"} \subseteq Keywords
    BY DEF Keywords
  <2>2. \A c \in {"GROUP BY", "ORDER BY", "LIMIT", "OFFSET", "LOCK"} : WithClause(sel, c) \in Selects
    BY <1>1, <2>1, ClauseAdded
  <2>3. QED BY <1>10, <2>2, DslCalls DEF SelClause
<1>11. ASSUME NEW sub \in SubSelects, SelFrom(sub) \/ SelCte(sub) \/ SelSetOp("UNION", sub)
       PROVE  Built'
  <2> DEFINE text == RenderSelect(sub, "$").sql
             S == [op : Names, sql : Texts]
  <2>1. sub \in Selects
    <3>1. sub \in SelectsOf(Trees)
      BY CallerAssumption
    <3>2. Seq(Trees) \subseteq Seq(Nodes)
      <4>1. Trees \subseteq Nodes
        BY DEF Nodes
      <4>2. QED BY <4>1, SeqGrows
    <3>3. QED BY <3>1, <3>2 DEF Selects, SelectsOf
  <2>2. text \in Texts
    <3>1. "$" \in Kinds
      BY DEF Kinds
    <3>2. RenderSelect(sub, "$") \in Fragments
      BY <2>1, <3>1, RenderSelectType
    <3>3. QED BY <3>2, FragmentParts
  <2> HIDE DEF text
  <2>3. FromSubquery(sel, sub) \in Selects
    BY <1>1, <1>3, <2>2, EnclosedText DEF FromSubquery, text
  <2>4. SelectWithCte(sel, sub) \in Selects
    <3>1. \A s \in Seq(Texts), t \in Texts : Append(s, t) \in Seq(Texts)
      OBVIOUS
    <3>2. Append(sel.ctes, text) \in Seq(Texts)
      BY <1>4, <2>2, <3>1
    <3>3. SelectWithCte(sel, sub) = [sel EXCEPT !.ctes = Append(sel.ctes, text)]
      BY DEF SelectWithCte, text
    <3>4. QED BY <1>1, <1>3, <3>2, <3>3
  <2>5. SelectSetOp(sel, "UNION", sub) \in Selects
    <3>1. "UNION" \in Names
      BY Known DEF Keywords
    <3>2. [op |-> "UNION", sql |-> text] \in S
      BY <2>2, <3>1
    <3>3. \A s \in Seq(S), t \in S : Append(s, t) \in Seq(S)
      <4> HIDE DEF S
      <4>1. QED OBVIOUS
    <3>4. sel.setOps \in Seq(S)
      BY <1>4
    <3>5. SelectSetOp(sel, "UNION", sub)
            = [sel EXCEPT !.setOps = Append(sel.setOps, [op |-> "UNION", sql |-> text])]
      BY DEF SelectSetOp, text
    <3>6. \A x \in Selects, ops \in Seq(S) : [x EXCEPT !.setOps = ops] \in Selects
      BY <1>3
    <3> HIDE DEF S
    <3>7. Append(sel.setOps, [op |-> "UNION", sql |-> text]) \in Seq(S)
      BY <3>2, <3>3, <3>4
    <3>8. QED BY <1>1, <3>5, <3>6, <3>7
  <2>6. QED BY <1>11, <2>3, <2>4, <2>5, DslCalls DEF SelFrom, SelCte, SelSetOp
<1>12. ASSUME NEW data \in Pairs, InsValues(data) \/ UpdSet(data)
       PROVE  Built'
  <2>1. data \in Data
    BY CallerAssumption
  <2>2. InsertValues(ins, data) \in Inserts
    <3>1. ins.data \o data \in Data
      BY <1>1, <1>6, <2>1 DEF Inserts
    <3>2. \A x \in Inserts, new \in Data : [x EXCEPT !.data = new] \in Inserts
      BY DEF Inserts
    <3>3. QED BY <1>1, <3>1, <3>2 DEF InsertValues
  <2>3. [upd EXCEPT !.data = upd.data \o data] \in Upds
    <3>1. upd.data \o data \in Data
      BY <1>5, <1>6, <2>1
    <3>2. \A x \in Upds, new \in Data : [x EXCEPT !.data = new] \in Upds
      BY DEF Upds
    <3>3. QED BY <1>1, <3>1, <3>2
  <2>4. QED BY <1>12, <2>2, <2>3, DslCalls DEF InsValues, UpdSet
<1>13. ASSUME NEW sets \in Sets, InsDoUpdate(sets)
       PROVE  Built'
  <2>1. sets \in Seq(Updates)
    BY CallerAssumption DEF Updates
  <2>2. \A s, t \in Seq(Updates) : s \o t \in Seq(Updates)
    OBVIOUS
  <2>3. ins.sets \o sets \in Seq(Updates)
    BY <1>1, <2>1, <2>2 DEF Inserts
  <2>4. \A x \in Inserts, new \in Seq(Updates) : [x EXCEPT !.sets = new] \in Inserts
    BY DEF Inserts
  <2>5. DoUpdate(ins, sets) \in Inserts
    BY <1>1, <2>3, <2>4 DEF DoUpdate
  <2>6. QED BY <1>13, <2>5, DslCalls DEF InsDoUpdate
<1>14. ASSUME InsDoNothing \/ InsOnConflict
       PROVE  Built'
  <2>1. <<>> \in Seq(Updates)
    OBVIOUS
  <2>2. OnConflictDoNothing(ins) \in Inserts /\ OnConflict(ins) \in Inserts
    BY <1>1, <2>1 DEF OnConflictDoNothing, OnConflict, Inserts
  <2>3. QED BY <1>14, <2>2, DslCalls DEF InsDoNothing, InsOnConflict
<1>15. QED BY <1>7, <1>8, <1>9, <1>10, <1>11, <1>12, <1>13, <1>14

\* No call of either builder leaves the builders.
LEMMA BuiltNext == Built /\ [Next]_vars => Built'
<1>1. ASSUME Built, Next
      PROVE  Built'
  BY <1>1, ModelNext, DslNext DEF Next
<1>2. ASSUME Built, UNCHANGED vars
      PROVE  Built'
  BY <1>2 DEF Built, vars
<1>3. QED BY <1>1, <1>2

\* Whatever is called, the builders are builders of well-formed trees.
THEOREM BuildersStayBuilders == Spec => []Built
<1>1. QED BY BuiltInit, BuiltNext, PTL DEF Spec

\* Whatever is called, each placeholder of each statement is bound to the value
\* given for its place, and no parameter is left over: for every tree of
\* conditions and every builder put into another (PlaceholdersBound).
THEOREM ParametersMeetTheirPlaceholders == Spec => []PlaceholdersBound
<1>1. Built => PlaceholdersBound
  <2> SUFFICES ASSUME Built
               PROVE  PlaceholdersBound
    OBVIOUS
  <2>1. BuilderBinds(IntoFinalBuilder) /\ SelectBinds(sel) /\ InsertBinds(ins) /\ UpdateBinds(upd)
    BY FinalBuilder, BuildersBind, SelectsBind, InsertsBind, UpdatesBind DEF Built
  <2>2. kind \in {"model", "select", "insert", "update"}
    BY DEF Built
  <2>3. CASE kind = "model"
    BY <2>1, <2>3, Zenon DEF PlaceholdersBound
  <2>4. CASE kind = "select"
    BY <2>1, <2>4, Zenon DEF PlaceholdersBound
  <2>5. CASE kind = "insert"
    BY <2>1, <2>5, Zenon DEF PlaceholdersBound
  <2>6. CASE kind = "update"
    BY <2>1, <2>6, Zenon DEF PlaceholdersBound
  <2>7. QED BY <2>2, <2>3, <2>4, <2>5, <2>6
<1>2. QED BY <1>1, BuildersStayBuilders, PTL

-----------------------------------------------------------------------------
(* The count of a select and the select (CountAgrees).                     *)

\* Nothing more to write leaves a statement as it is.
LEMMA WrittenNothing ==
  ASSUME NEW acc, NEW d
  PROVE  Written(acc, <<>>, d) = acc
<1>1. PICK f : /\ IsRun(f, At(acc, <<>>), d)
               /\ \E n \in Nat : Written(acc, <<>>, d) = f[n].acc
  BY WrittenIs
<1>2. PICK n \in Nat : Written(acc, <<>>, d) = f[n].acc
  BY <1>1
<1>3. f[0] = At(acc, <<>>)
  BY <1>1, RunSteps
<1>4. f[0].todo = <<>> /\ f[0].acc = acc
  BY <1>3 DEF At
<1>5. f[0 + n] = f[0]
  BY <1>1, <1>4, RunStops
<1>6. QED BY <1>2, <1>4, <1>5

\* No text, likewise.
LEMMA PutNothing ==
  ASSUME NEW a \in Fragments
  PROVE  Put(a, <<>>) = a
<1>1. a.sql \o <<>> = a.sql
  BY FragmentParts DEF Texts
<1>2. QED BY <1>1, FragmentParts DEF Put

\* Without or_wheres, groups, set operations and limits a select's count has
\* the rows of the select (count_sql, render): what paginate divides into
\* pages is what it then reads.
THEOREM CountsCountTheRows == Spec => []CountAgrees
<1>1. Built => CountAgrees
  <2> SUFFICES ASSUME Built, kind = "select",
                      sel.orWheres = <<>>, sel.havings = <<>>, sel.setOps = <<>>
               PROVE  RenderSelect([sel EXCEPT !.opts = {}], "$") = CountSql(sel, "$")
    BY DEF CountAgrees
  <2> DEFINE s == [sel EXCEPT !.opts = {}]
             counted == RenderWhere(RenderJoins(Opened(sel, "$"), sel, "$"), sel, "$")
  <2>1. sel \in Selects /\ "$" \in Kinds
    BY DEF Built, Kinds
  <2>2. s \in Selects
    BY <2>1 DEF Selects, SelectsOf
  <2>3. /\ s.ctes = sel.ctes /\ s.from = sel.from /\ s.joins = sel.joins /\ s.wheres = sel.wheres
        /\ s.orWheres = <<>> /\ s.havings = <<>> /\ s.setOps = <<>> /\ s.opts = {}
    BY <2>1 DEF Selects, SelectsOf
  <2>4. [sel EXCEPT !.orWheres = <<>>] = sel
    BY <2>1 DEF Selects, SelectsOf
  <2> HIDE DEF s
  <2>5. RenderWhere(RenderJoins(Opened(s, "$"), s, "$"), s, "$") = counted
    <3>1. Opened(s, "$") = Opened(sel, "$")
      BY <2>3 DEF Opened
    <3>2. \A a : RenderJoins(a, s, "$") = RenderJoins(a, sel, "$")
      BY <2>3 DEF RenderJoins
    <3>3. SelectWhereParts(s) = SelectWhereParts(sel)
      BY <2>3 DEF SelectWhereParts
    <3>4. QED BY <3>1, <3>2, <3>3 DEF RenderWhere
  <2>6. CountSql(sel, "$") = counted
    BY <2>4 DEF CountSql
  <2>7. \A c : Clause(s, c) = <<>>
    BY <2>3 DEF Clause
  <2>8. Closing(s) = <<>>
    <3>1. <<>> \o <<>> = <<>>
      OBVIOUS
    <3>2. QED BY <2>7, <3>1 DEF Closing
  <2>9. /\ All(s.havings, <<Tok("HAVING")>>, "AND") = <<>>
        /\ SetOpParts(s) = <<>>
    BY <2>3 DEF All, SetOpParts
  <2>10. counted \in Fragments
    <3>1. \A t \in Seq(Given) : t \in Seq(Parts)
      BY GivenArePartsToo, SeqGrows
    <3>2. JoinParts(sel) \in Seq(Parts) /\ SelectWhereParts(sel) \in Seq(Parts)
      BY <2>1, <3>1, JoinPartsGiven, WherePartsGiven, Zenon
    <3>3. Opened(sel, "$") \in Fragments
      BY <2>1, OpenedType
    <3>4. RenderJoins(Opened(sel, "$"), sel, "$") \in Fragments
      BY <2>1, <3>2, <3>3, WrittenType, RenderSelectIs
    <3>5. QED BY <2>1, <3>2, <3>4, WrittenType DEF RenderWhere
  <2>11. RenderSelect(s, "$")
            = SetOps(Put(RenderHaving(Put(RenderWhere(RenderJoins(Opened(s, "$"), s, "$"), s, "$"),
                                          Clause(s, "GROUP BY")), s, "$"), Closing(s)), s, "$")
    BY RenderSelectIs
  <2> HIDE DEF counted
  <2>12. Put(RenderWhere(RenderJoins(Opened(s, "$"), s, "$"), s, "$"), Clause(s, "GROUP BY")) = counted
    BY <2>5, <2>7, <2>10, PutNothing
  <2>13. RenderHaving(counted, s, "$") = counted
    BY <2>9, WrittenNothing DEF RenderHaving
  <2>14. Put(counted, Closing(s)) = counted
    BY <2>8, <2>10, PutNothing
  <2>15. SetOps(counted, s, "$") = counted
    <3>1. SetOps(counted, s, "$") = Written(counted, SetOpParts(s), "$")
      BY RenderSelectIs
    <3>2. QED BY <2>9, <3>1, WrittenNothing
  <2>16. RenderSelect(s, "$") = CountSql(sel, "$")
    BY <2>6, <2>11, <2>12, <2>13, <2>14, <2>15
  <2>17. QED BY <2>16 DEF s
<1>2. QED BY <1>1, BuildersStayBuilders, PTL

-----------------------------------------------------------------------------
(* Functions defined by recursion over the numbers.                        *)

\* There is such a sequence.
LEMMA RecursionExists ==
  ASSUME NEW S, NEW b \in S, NEW G \in [S \X Nat -> S]
  PROVE  \E f : Recurs(f, S, b, G)
<1> DEFINE Begins(f, n) == f \in [0 .. n -> S] /\ f[0] = b /\ \A k \in 0 .. n - 1 : f[k + 1] = G[<<f[k], k + 1>>]
           E == {n \in Nat : \E f : Begins(f, n)}
           U == {k \in Nat : \A n, m \in Nat : \A f, g :
                    Begins(f, n) /\ Begins(g, m) /\ k <= n /\ k <= m => f[k] = g[k]}
           F == [n \in Nat |-> CHOOSE f : Begins(f, n)]
           h == [n \in Nat |-> F[n][n]]
<1>1. \A n \in Nat : n \in E
  <2>1. 0 \in E
    <3>1. Begins([k \in 0 .. 0 |-> b], 0)
      OBVIOUS
    <3>2. QED BY <3>1
  <2>2. ASSUME NEW n \in Nat, n \in E
        PROVE  n + 1 \in E
    <3>1. PICK f : Begins(f, n)
      BY <2>2
    <3> DEFINE g == [k \in 0 .. n + 1 |-> IF k = n + 1 THEN G[<<f[n], n + 1>>] ELSE f[k]]
    <3>2. f[n] \in S /\ <<f[n], n + 1>> \in S \X Nat
      BY <3>1
    <3>3. g \in [0 .. n + 1 -> S]
      BY <3>1, <3>2
    <3>4. g[0] = b
      BY <3>1
    <3>5. ASSUME NEW k \in 0 .. (n + 1) - 1
          PROVE  g[k + 1] = G[<<g[k], k + 1>>]
      <4>1. k \in 0 .. n /\ k + 1 \in 0 .. n + 1 /\ g[k] = f[k]
        OBVIOUS
      <4>2. CASE k = n
        <5>1. g[k + 1] = G[<<f[n], n + 1>>]
          BY <4>1, <4>2
        <5> HIDE DEF g
        <5>2. QED BY <4>1, <4>2, <5>1
      <4>3. CASE k # n
        <5>1. k \in 0 .. n - 1 /\ g[k + 1] = f[k + 1]
          BY <4>1, <4>3
        <5> HIDE DEF g
        <5>2. f[k + 1] = G[<<f[k], k + 1>>]
          BY <3>1, <5>1
        <5>3. QED BY <4>1, <5>1, <5>2
      <4>4. QED BY <4>2, <4>3
    <3>6. Begins(g, n + 1)
      BY <3>3, <3>4, <3>5
    <3> HIDE DEF g, Begins
    <3>7. QED BY <3>6
  <2> HIDE DEF E
  <2>3. QED BY <2>1, <2>2, Induction
<1>2. \A k \in Nat : k \in U
  <2>1. 0 \in U
    OBVIOUS
  <2>2. ASSUME NEW k \in Nat, k \in U
        PROVE  k + 1 \in U
    <3>1. ASSUME NEW n \in Nat, NEW m \in Nat, NEW f, NEW g, Begins(f, n), Begins(g, m), k + 1 <= n, k + 1 <= m
          PROVE  f[k + 1] = g[k + 1]
      <4>1. k <= n /\ k <= m /\ k \in 0 .. n - 1 /\ k \in 0 .. m - 1
        BY <3>1
      <4>2. f[k] = g[k]
        BY <2>2, <3>1, <4>1
      <4>3. QED BY <3>1, <4>1, <4>2
    <3> HIDE DEF Begins
    <3>2. QED BY <3>1
  <2> HIDE DEF U
  <2>3. QED BY <2>1, <2>2, Induction
<1>3. ASSUME NEW n \in Nat
      PROVE  Begins(F[n], n)
  <2>1. \E f : Begins(f, n)
    BY <1>1
  <2> HIDE DEF Begins
  <2>2. QED BY <2>1
<1> HIDE DEF F
<1>4. ASSUME NEW n \in Nat
      PROVE  h[n] \in S /\ h[n] = F[n][n]
  BY <1>3
<1>5. h[0] = b
  BY <1>3
<1>6. ASSUME NEW n \in Nat
      PROVE  h[n + 1] = G[<<h[n], n + 1>>]
  <2>1. Begins(F[n + 1], n + 1) /\ Begins(F[n], n)
    BY <1>3
  <2>2. F[n + 1][n] = F[n][n]
    <3>1. n \in U /\ n + 1 \in Nat /\ n <= n + 1 /\ n <= n
      BY <1>2
    <3> HIDE DEF Begins
    <3>2. QED BY <2>1, <3>1
  <2>3. F[n + 1][n + 1] = G[<<F[n + 1][n], n + 1>>]
    <3>1. n \in 0 .. (n + 1) - 1
      OBVIOUS
    <3>2. QED BY <2>1, <3>1
  <2>4. h[n + 1] = F[n + 1][n + 1] /\ h[n] = F[n][n]
    OBVIOUS
  <2>5. QED BY <2>2, <2>3, <2>4
<1>7. h \in [Nat -> S]
  BY <1>4
<1> HIDE DEF h
<1>8. Recurs(h, S, b, G)
  BY <1>5, <1>6, <1>7 DEF Recurs
<1>9. QED BY <1>8

-----------------------------------------------------------------------------
(* Reading a WHERE text.                                                   *)

\* What is known of what is open.
LEMMA FrameFields ==
  ASSUME NEW f \in Frames
  PROVE  /\ f.word \in Opening /\ f.ors \in SUBSET EveryRow /\ f.ands \in SUBSET EveryRow
         /\ f.not \in BOOLEAN /\ f.ended \in BOOLEAN
         /\ f = [word |-> f.word, ors |-> f.ors, ands |-> f.ands, not |-> f.not, ended |-> f.ended]
BY DEF Frames

\* What a condition makes of it (Factor).
LEMMA FactorIs ==
  ASSUME NEW f \in Frames, NEW x \in SUBSET EveryRow
  PROVE  /\ Factor(f, x) \in Frames
         /\ Factor(f, x) = [word |-> f.word, ors |-> f.ors,
                            ands |-> f.ands \cap (IF f.not THEN EveryRow \ x ELSE x),
                            not |-> FALSE, ended |-> TRUE]
<1> DEFINE ands == f.ands \cap (IF f.not THEN EveryRow \ x ELSE x)
           g == [word |-> f.word, ors |-> f.ors, ands |-> ands, not |-> FALSE, ended |-> TRUE]
<1>1. ands \in SUBSET EveryRow
  BY FrameFields
<1>2. Factor(f, x) = [f EXCEPT !.ands = ands, !.not = FALSE, !.ended = TRUE]
  BY DEF Factor
<1> HIDE DEF ands
<1>3. Factor(f, x) = g
  BY <1>2 DEF Frames
<1>4. g \in Frames
  BY <1>1, FrameFields DEF Frames
<1>5. QED BY <1>3, <1>4 DEF ands

\* The rows are rows.
LEMMA RowSets ==
  /\ \A tok : LeafRows(tok) \in SUBSET EveryRow
  /\ \A x : Exist(x) \in SUBSET EveryRow
  /\ \A f \in Frames : Holds(f) \in SUBSET EveryRow /\ Closed(f) \in SUBSET EveryRow
<1>1. \A tok : LeafRows(tok) \in SUBSET EveryRow
  BY DEF LeafRows
<1>2. \A x : Exist(x) \in SUBSET EveryRow
  BY DEF Exist
<1>3. ASSUME NEW f \in Frames
      PROVE  Holds(f) \in SUBSET EveryRow /\ Closed(f) \in SUBSET EveryRow
  <2>1. Holds(f) \in SUBSET EveryRow
    BY FrameFields DEF Holds
  <2>2. f.word \in {"(", "EXISTS", "NOT EXISTS"}
    BY FrameFields DEF Opening
  <2>3. Closed(f) \in SUBSET EveryRow
    BY <1>2, <2>1, <2>2 DEF Closed
  <2>4. QED BY <2>1, <2>3
<1>4. QED BY <1>1, <1>2, <1>3

\* The beginning of a text, or of a parenthesis (Open).
LEMMA OpenIs ==
  ASSUME NEW word \in Opening
  PROVE  /\ Open(word) \in Frames
         /\ Open(word).word = word /\ Open(word).ors = {} /\ Open(word).ands = EveryRow
         /\ Open(word).not = FALSE /\ Open(word).ended = FALSE
BY DEF Open, Frames

\* What NOT, AND and OR make of it.
LEMMA FramesMade ==
  ASSUME NEW f \in Frames
  PROVE  /\ Negated(f) \in Frames /\ Continued(f) \in Frames /\ Alternative(f) \in Frames
         /\ Negated(f).word = f.word /\ Negated(f).ors = f.ors /\ Negated(f).ands = f.ands
         /\ Negated(f).ended = f.ended /\ Negated(f).not = IF f.not THEN FALSE ELSE TRUE
         /\ Continued(f) = [word |-> f.word, ors |-> f.ors, ands |-> f.ands, not |-> f.not, ended |-> FALSE]
         /\ Alternative(f) = [word |-> f.word, ors |-> Holds(f), ands |-> EveryRow, not |-> FALSE, ended |-> FALSE]
<1>1. Negated(f) = [f EXCEPT !.not = IF f.not THEN FALSE ELSE TRUE]
  BY Zenon DEF Negated
<1>2. Negated(f) \in Frames
  BY <1>1 DEF Frames
<1>3. Continued(f) = [word |-> f.word, ors |-> f.ors, ands |-> f.ands, not |-> f.not, ended |-> FALSE]
  <2>1. \A no : [f EXCEPT !.ended = no]
                   = [word |-> f.word, ors |-> f.ors, ands |-> f.ands, not |-> f.not, ended |-> no]
    BY DEF Frames
  <2>2. QED BY <2>1, Zenon DEF Continued
<1>4. Alternative(f) = [word |-> f.word, ors |-> Holds(f), ands |-> EveryRow, not |-> FALSE, ended |-> FALSE]
  <2>1. \A g \in Frames : \A h : [g EXCEPT !.ors = h]
                   = [word |-> g.word, ors |-> h, ands |-> g.ands, not |-> g.not, ended |-> g.ended]
    BY DEF Frames
  <2> DEFINE o == Open(f.word)
  <2>2. o \in Frames /\ o.word = f.word /\ o.ands = EveryRow /\ o.not = FALSE /\ o.ended = FALSE
    BY FrameFields, OpenIs
  <2>3. Alternative(f) = [o EXCEPT !.ors = Holds(f)]
    BY Zenon DEF Alternative
  <2> HIDE DEF o
  <2>4. QED BY <2>1, <2>2, <2>3
<1>5. Holds(f) \in SUBSET EveryRow
  BY RowSets
<1>6. Continued(f) \in Frames
  BY <1>3, FrameFields DEF Frames
<1>7. Alternative(f) \in Frames
  BY <1>4, <1>5, FrameFields DEF Frames
<1>8. /\ Negated(f).word = f.word /\ Negated(f).ors = f.ors /\ Negated(f).ands = f.ands
      /\ Negated(f).ended = f.ended /\ Negated(f).not = IF f.not THEN FALSE ELSE TRUE
  BY <1>1 DEF Frames
<1>9. QED BY <1>2, <1>3, <1>4, <1>6, <1>7, <1>8

\* After AND and after OR a condition has yet to come.
LEMMA NotEnded ==
  ASSUME NEW f \in Frames
  PROVE  /\ Continued(f) \in Frames /\ Alternative(f) \in Frames
         /\ ~Continued(f).ended /\ ~Alternative(f).ended
<1>1. /\ Continued(f) = [word |-> f.word, ors |-> f.ors, ands |-> f.ands, not |-> f.not, ended |-> FALSE]
      /\ Alternative(f) = [word |-> f.word, ors |-> Holds(f), ands |-> EveryRow, not |-> FALSE, ended |-> FALSE]
  BY FramesMade, Zenon
<1>2. Continued(f) \in Frames /\ Alternative(f) \in Frames
  BY FramesMade
<1>3. QED BY <1>1, <1>2

\* A stack, from its first on.
LEMMA StackIs ==
  ASSUME NEW f \in Frames, NEW around \in Stacks
  PROVE  /\ Onto(around, f) \in Stacks /\ Onto(around, f) # <<>>
         /\ Head(Onto(around, f)) = f /\ Tail(Onto(around, f)) = around
BY DEF Stacks, Onto

\* What each token does to a stack (Read).
LEMMA ReadIs ==
  ASSUME NEW f \in Frames, NEW around \in Stacks, NEW tok
  PROVE  /\ ~f.ended /\ Compares(tok) => Read(Onto(around, f), tok) = Onto(around, Factor(f, LeafRows(tok)))
         /\ ~f.ended /\ tok.t \in Opening => Read(Onto(around, f), tok) = Onto(Onto(around, f), Open(tok.t))
         /\ ~f.ended /\ tok.t = "NOT" => Read(Onto(around, f), tok) = Onto(around, Negated(f))
         /\ f.ended /\ tok.t = "AND" => Read(Onto(around, f), tok) = Onto(around, Continued(f))
         /\ f.ended /\ tok.t = "OR" => Read(Onto(around, f), tok) = Onto(around, Alternative(f))
         /\ f.ended /\ tok.t = ")" /\ around # <<>> =>
                    Read(Onto(around, f), tok) = Onto(Tail(around), Factor(Head(around), Closed(f)))
         /\ ~(\/ ~f.ended /\ (Compares(tok) \/ tok.t \in Opening \cup {"NOT"})
              \/ f.ended /\ (tok.t \in {"AND", "OR"} \/ (tok.t = ")" /\ around # <<>>))) => Read(Onto(around, f), tok) = <<>>
<1> DEFINE open == Onto(around, f)
<1>1. open # <<>> /\ Head(open) = f /\ Tail(open) = around
  BY StackIs
<1>2. Compares(tok) => tok.t \notin Opening /\ tok.t \notin {"NOT", "AND", "OR", ")"}
  BY DEF Compares, Comparisons, Opening
<1>3. tok.t \in Opening => tok.t \notin {"NOT", "AND", "OR", ")"}
  BY DEF Opening
<1> HIDE DEF open
<1>4. ~f.ended /\ Compares(tok) => Read(open, tok) = Onto(around, Factor(f, LeafRows(tok)))
  BY <1>1, <1>2, Zenon DEF Read
<1>5. ~f.ended /\ tok.t \in Opening => Read(open, tok) = Onto(open, Open(tok.t))
  BY <1>1, <1>2, <1>3, Zenon DEF Read
<1>6. ~f.ended /\ tok.t = "NOT" => Read(open, tok) = Onto(around, Negated(f))
  BY <1>1, <1>2, <1>3, Zenon DEF Read
<1>7. f.ended /\ tok.t = "AND" => Read(open, tok) = Onto(around, Continued(f))
  BY <1>1, Zenon DEF Read
<1>8. f.ended /\ tok.t = "OR" => Read(open, tok) = Onto(around, Alternative(f))
  BY <1>1, Zenon DEF Read
<1>9. f.ended /\ tok.t = ")" /\ around # <<>> =>
        Read(open, tok) = Onto(Tail(around), Factor(Head(around), Closed(f)))
  BY <1>1, Zenon DEF Read
<1>10. ~(\/ ~f.ended /\ (Compares(tok) \/ tok.t \in Opening \cup {"NOT"})
         \/ f.ended /\ (tok.t \in {"AND", "OR"} \/ (tok.t = ")" /\ around # <<>>))) => Read(open, tok) = <<>>
  BY <1>1, Zenon DEF Read
<1>11. QED BY <1>4, <1>5, <1>6, <1>7, <1>8, <1>9, <1>10 DEF open

\* A refused text stays refused, and a stack stays one.
LEMMA ReadType ==
  ASSUME NEW open \in Stacks, NEW tok
  PROVE  /\ Read(open, tok) \in Stacks
         /\ open = <<>> => Read(open, tok) = <<>>
<1>1. open = <<>> => Read(open, tok) = <<>>
  BY Zenon DEF Read
<1>2. <<>> \in Stacks
  BY DEF Stacks
<1>3. CASE open # <<>>
  <2>1. PICK f \in Frames : \E around \in Stacks : open = Onto(around, f)
    <3>1. \A s \in Seq(Frames) : s # <<>> => Head(s) \in Frames /\ Tail(s) \in Seq(Frames) /\ s = <<Head(s)>> \o Tail(s)
      OBVIOUS
    <3>2. QED BY <1>3, <3>1 DEF Stacks, Onto
  <2>2. PICK around \in Stacks : open = Onto(around, f)
    BY <2>1
  <2>3. \A g \in Frames : Onto(around, g) \in Stacks /\ Onto(open, g) \in Stacks
    BY StackIs
  <2>4. Factor(f, LeafRows(tok)) \in Frames
    BY RowSets, FactorIs
  <2>5. tok.t \in Opening => Open(tok.t) \in Frames
    BY OpenIs
  <2>6. Negated(f) \in Frames /\ Continued(f) \in Frames /\ Alternative(f) \in Frames
    BY FramesMade
  <2>8. around # <<>> => Onto(Tail(around), Factor(Head(around), Closed(f))) \in Stacks
    <3>1. around # <<>> => Head(around) \in Frames /\ Tail(around) \in Stacks
      BY DEF Stacks
    <3>2. Closed(f) \in SUBSET EveryRow
      BY RowSets
    <3>3. QED BY <3>1, <3>2, FactorIs, StackIs
  <2>9. QED
    <3>1. CASE ~f.ended /\ Compares(tok)
      BY <2>1, <2>2, <2>3, <2>4, <3>1, <1>3, ReadIs
    <3>2. CASE ~f.ended /\ tok.t \in Opening
      BY <2>1, <2>2, <2>3, <2>5, <3>2, <1>3, ReadIs
    <3>3. CASE ~f.ended /\ tok.t = "NOT"
      BY <2>1, <2>2, <2>3, <2>6, <3>3, <1>3, ReadIs
    <3>4. CASE f.ended /\ tok.t = "AND"
      BY <2>1, <2>2, <2>3, <2>6, <3>4, <1>3, ReadIs
    <3>5. CASE f.ended /\ tok.t = "OR"
      BY <2>1, <2>2, <2>3, <2>6, <3>5, <1>3, ReadIs
    <3>6. CASE f.ended /\ tok.t = ")" /\ around # <<>>
      BY <2>1, <2>2, <2>8, <3>6, <1>3, ReadIs
    <3>7. CASE ~(\/ ~f.ended /\ (Compares(tok) \/ tok.t \in Opening \cup {"NOT"})
                 \/ f.ended /\ (tok.t \in {"AND", "OR"} \/ (tok.t = ")" /\ around # <<>>)))
      BY <2>1, <2>2, <3>7, <1>2, <1>3, ReadIs
    <3>8. QED BY <3>1, <3>2, <3>3, <3>4, <3>5, <3>6, <3>7
<1>4. QED BY <1>1, <1>2, <1>3

\* There are such stacks, and the last one is what Parsed is.
LEMMA ReadsExist ==
  ASSUME NEW X, NEW text \in Seq(X), NEW open \in Stacks
  PROVE  \E P : Reads(P, open, text)
<1> DEFINE n == Len(text)
           G == [x \in Stacks \X Nat |-> IF x[2] \in 1 .. n THEN Read(x[1], text[x[2]]) ELSE x[1]]
<1>1. G \in [Stacks \X Nat -> Stacks]
  BY ReadType
<1>2. \E f : Recurs(f, Stacks, open, G)
  <2> HIDE DEF G
  <2>1. QED BY <1>1, RecursionExists
<1>3. PICK f : Recurs(f, Stacks, open, G)
  BY <1>2
<1>4. f \in [Nat -> Stacks] /\ f[0] = open /\ \A k \in Nat : f[k + 1] = G[<<f[k], k + 1>>]
  BY <1>3 DEF Recurs
<1> DEFINE P == [k \in 0 .. n |-> f[k]]
<1>5. n \in Nat
  OBVIOUS
<1>6. P \in [0 .. n -> Stacks] /\ P[0] = open
  BY <1>4, <1>5
<1>7. ASSUME NEW k \in 0 .. n - 1
      PROVE  P[k + 1] = Read(P[k], text[k + 1])
  <2>1. k \in Nat /\ k + 1 \in 1 .. n /\ <<f[k], k + 1>> \in Stacks \X Nat
    BY <1>4, <1>5
  <2>2. f[k + 1] = G[<<f[k], k + 1>>]
    BY <1>4, <2>1
  <2>3. G[<<f[k], k + 1>>] = Read(f[k], text[k + 1])
    BY <2>1
  <2>4. P[k] = f[k] /\ P[k + 1] = f[k + 1]
    BY <1>5
  <2>5. QED BY <2>2, <2>3, <2>4
<1> HIDE DEF P
<1>8. Reads(P, open, text)
  BY <1>6, <1>7 DEF Reads
<1>9. QED BY <1>8

\* The stack after a text is the last one of its readings.
LEMMA ParsedIs ==
  ASSUME NEW X, NEW text \in Seq(X), NEW open \in Stacks, NEW P, Reads(P, open, text)
  PROVE  Parsed(open, text) = P[Len(text)]
<1> DEFINE n == Len(text)
           Body(f) == [k \in 0 .. n |-> IF k = 0 THEN open ELSE Read(f[k - 1], text[k])]
           F == CHOOSE f : f = Body(f)
<1>1. n \in Nat
  OBVIOUS
<1>2. P = Body(P)
  <2>1. P = [k \in 0 .. n |-> P[k]] /\ P[0] = open
    BY DEF Reads
  <2>2. ASSUME NEW k \in 0 .. n, k # 0
        PROVE  P[k] = Read(P[k - 1], text[k])
    <3>1. k - 1 \in 0 .. n - 1 /\ (k - 1) + 1 = k
      BY <1>1, <2>2
    <3>2. P[(k - 1) + 1] = Read(P[k - 1], text[(k - 1) + 1])
      BY <3>1 DEF Reads
    <3>3. QED BY <3>1, <3>2
  <2>3. QED BY <2>1, <2>2
<1>3. F = Body(F)
  <2> HIDE DEF Body
  <2>1. QED BY <1>2
<1>4. Parsed(open, text) = F[n]
  BY DEF Parsed
<1> HIDE DEF F
<1> DEFINE S == {k \in Nat : k <= n => F[k] = P[k]}
<1>5. 0 \in S
  <2>1. F[0] = open
    BY <1>1, <1>3
  <2>2. QED BY <2>1 DEF Reads
<1>6. ASSUME NEW k \in Nat, k \in S
      PROVE  k + 1 \in S
  <2>1. CASE k + 1 <= n
    <3>1. k + 1 \in 0 .. n /\ k + 1 # 0 /\ (k + 1) - 1 = k /\ k \in 0 .. n - 1 /\ k <= n
      BY <1>1, <2>1
    <3>2. F[k + 1] = IF k + 1 = 0 THEN open ELSE Read(F[(k + 1) - 1], text[k + 1])
      BY <1>3, <3>1, Zenon
    <3>3. P[k + 1] = Read(P[k], text[k + 1])
      BY <3>1 DEF Reads
    <3>4. F[k] = P[k]
      BY <1>6, <3>1
    <3>5. QED BY <3>1, <3>2, <3>3, <3>4
  <2>2. QED BY <2>1
<1>7. \A k \in Nat : k \in S
  <2> HIDE DEF S
  <2>1. QED BY <1>5, <1>6, Induction
<1>8. QED BY <1>1, <1>4, <1>7

\* No text leaves all as it is, one token is read, and two texts one after the
\* other.
LEMMA ParsedJoins ==
  ASSUME NEW X, NEW s \in Seq(X), NEW t \in Seq(X), NEW open \in Stacks
  PROVE  /\ Parsed(open, s) \in Stacks
         /\ Parsed(open, s \o t) = Parsed(Parsed(open, s), t)
<1>1. PICK P : Reads(P, open, s)
  BY ReadsExist
<1>2. Parsed(open, s) = P[Len(s)]
  BY <1>1, ParsedIs
<1> DEFINE m == Len(s)
           n == Len(t)
           mid == P[m]
<1>3. m \in Nat /\ n \in Nat /\ mid \in Stacks
  BY <1>1 DEF Reads
<1>4. PICK Q : Reads(Q, mid, t)
  BY <1>3, ReadsExist
<1>5. Parsed(mid, t) = Q[n]
  BY <1>3, <1>4, ParsedIs
<1> DEFINE u == s \o t
           R == [k \in 0 .. m + n |-> IF k <= m THEN P[k] ELSE Q[k - m]]
<1>6. /\ u \in Seq(X) /\ Len(u) = m + n
      /\ \A i \in 1 .. m : u[i] = s[i]
      /\ \A i \in 1 .. n : u[m + i] = t[i]
  BY Concat
<1>7. /\ P \in [0 .. m -> Stacks] /\ P[0] = open
      /\ \A k \in 0 .. m - 1 : P[k + 1] = Read(P[k], s[k + 1])
  BY <1>1 DEF Reads
<1>8. /\ Q \in [0 .. n -> Stacks] /\ Q[0] = mid
      /\ \A k \in 0 .. n - 1 : Q[k + 1] = Read(Q[k], t[k + 1])
  BY <1>4 DEF Reads
<1> HIDE DEF u, mid
<1>9. R \in [0 .. m + n -> Stacks] /\ R[0] = open /\ R[m + n] = Q[n]
  <2>1. ASSUME NEW k \in 0 .. m + n
        PROVE  R[k] \in Stacks
    <3>1. CASE k <= m
      <4>1. k \in 0 .. m
        BY <1>3, <3>1
      <4>2. QED BY <1>7, <3>1, <4>1
    <3>2. CASE ~(k <= m)
      <4>1. k - m \in 0 .. n
        BY <1>3, <3>2
      <4>2. QED BY <1>8, <3>2, <4>1
    <3>3. QED BY <3>1, <3>2
  <2>2. R[0] = open
    BY <1>3, <1>7
  <2>3. R[m + n] = Q[n]
    BY <1>3, <1>8 DEF mid
  <2>4. QED BY <2>1, <2>2, <2>3
<1>10. ASSUME NEW k \in 0 .. (m + n) - 1
       PROVE  R[k + 1] = Read(R[k], u[k + 1])
  <2>1. CASE k < m
    <3>1. k \in 0 .. m - 1 /\ k + 1 \in 1 .. m
      BY <1>3, <2>1
    <3>2. R[k] = P[k] /\ R[k + 1] = P[k + 1] /\ u[k + 1] = s[k + 1]
      BY <1>3, <1>6, <3>1
    <3>3. QED BY <1>7, <3>1, <3>2
  <2>2. CASE k >= m
    <3> DEFINE j == k - m
    <3>1. j \in 0 .. n - 1 /\ j + 1 \in 1 .. n /\ k + 1 = m + (j + 1) /\ (k + 1) - m = j + 1
      BY <1>3, <2>2
    <3>2. R[k + 1] = Q[j + 1]
      BY <1>3, <3>1, <2>2
    <3>3. R[k] = Q[j]
      BY <1>3, <1>8, <3>1, <2>2 DEF mid
    <3>4. u[k + 1] = t[j + 1]
      BY <1>6, <3>1
    <3>5. QED BY <1>8, <3>1, <3>2, <3>3, <3>4
  <2>3. QED BY <1>3, <2>1, <2>2
<1> HIDE DEF R
<1>11. Reads(R, open, u)
  BY <1>6, <1>9, <1>10 DEF Reads
<1>12. Parsed(open, u) = R[m + n]
  BY <1>6, <1>11, ParsedIs
<1>13. QED BY <1>2, <1>3, <1>5, <1>9, <1>12 DEF u, mid

\* Nothing read, and one token read.
LEMMA ParsedToken ==
  ASSUME NEW tok, NEW open \in Stacks
  PROVE  Parsed(open, <<>>) = open /\ Parsed(open, <<tok>>) = Read(open, tok)
<1>1. Parsed(open, <<>>) = open
  <2>1. <<>> \in Seq({tok}) /\ Len(<<>>) = 0
    OBVIOUS
  <2>2. PICK P : Reads(P, open, <<>>)
    BY <2>1, ReadsExist
  <2>3. Parsed(open, <<>>) = P[Len(<<>>)]
    BY <2>1, <2>2, ParsedIs
  <2>4. QED BY <2>1, <2>2, <2>3 DEF Reads
<1>2. Parsed(open, <<tok>>) = Read(open, tok)
  <2>1. <<tok>> \in Seq({tok}) /\ Len(<<tok>>) = 1 /\ <<tok>>[1] = tok
    OBVIOUS
  <2>2. PICK P : Reads(P, open, <<tok>>)
    BY <2>1, ReadsExist
  <2>3. Parsed(open, <<tok>>) = P[1]
    BY <2>1, <2>2, ParsedIs
  <2>4. P[0] = open /\ P[0 + 1] = Read(P[0], <<tok>>[0 + 1])
    BY <2>1, <2>2 DEF Reads
  <2>5. QED BY <2>1, <2>3, <2>4
<1>3. QED BY <1>1, <1>2

\* Two texts, one after the other.
LEMMA TurnsJoin ==
  ASSUME NEW s, NEW t, NEW f, NEW g, NEW h, Turns(s, f, g), Turns(t, g, h)
  PROVE  Turns(s \o t, f, h)
<1>1. s \in Texts /\ t \in Texts /\ f \in Frames /\ g \in Frames /\ h \in Frames
  BY DEF Turns
<1>2. s \o t \in Texts
  BY <1>1, Concat DEF Texts
<1>3. ASSUME NEW around \in Stacks
      PROVE  Parsed(Onto(around, f), s \o t) = Onto(around, h)
  <2>1. Onto(around, f) \in Stacks
    BY <1>1, StackIs
  <2>2. Parsed(Onto(around, f), s \o t) = Parsed(Parsed(Onto(around, f), s), t)
    BY <1>1, <2>1, ParsedJoins DEF Texts
  <2>3. Parsed(Onto(around, f), s) = Onto(around, g) /\ Parsed(Onto(around, g), t) = Onto(around, h)
    BY DEF Turns
  <2>4. QED BY <2>2, <2>3
<1>4. QED BY <1>1, <1>2, <1>3 DEF Turns

\* No text, and one token.
LEMMA TurnsToken ==
  ASSUME NEW f \in Frames
  PROVE  /\ Turns(<<>>, f, f)
         /\ \A tok \in Tokens : \A g \in Frames :
                (\A around \in Stacks : Read(Onto(around, f), tok) = Onto(around, g)) => Turns(<<tok>>, f, g)
<1>1. \A around \in Stacks : Onto(around, f) \in Stacks
  BY StackIs
<1>2. <<>> \in Texts /\ \A tok \in Tokens : <<tok>> \in Texts
  BY DEF Texts
<1>3. Turns(<<>>, f, f)
  <2>1. \A around \in Stacks : Parsed(Onto(around, f), <<>>) = Onto(around, f)
    BY <1>1, ParsedToken
  <2>2. QED BY <1>2, <2>1 DEF Turns
<1>4. ASSUME NEW tok \in Tokens, NEW g \in Frames,
             \A around \in Stacks : Read(Onto(around, f), tok) = Onto(around, g)
      PROVE  Turns(<<tok>>, f, g)
  <2>1. ASSUME NEW around \in Stacks
        PROVE  Parsed(Onto(around, f), <<tok>>) = Onto(around, g)
    <3>1. Parsed(Onto(around, f), <<tok>>) = Read(Onto(around, f), tok)
      BY <1>1, ParsedToken
    <3>2. QED BY <1>4, <3>1
  <2>2. QED BY <1>2, <2>1 DEF Turns
<1>5. QED BY <1>3, <1>4

\* A token that says something of a row is a condition.
LEMMA ReadingLeaf ==
  ASSUME NEW tok \in Tokens, Compares(tok)
  PROVE  Reading(<<tok>>, LeafRows(tok))
<1>1. <<tok>> \in Texts
  BY DEF Texts
<1>2. LeafRows(tok) \in SUBSET EveryRow
  BY RowSets
<1>3. ASSUME NEW f \in Frames, ~f.ended
      PROVE  Turns(<<tok>>, f, Factor(f, LeafRows(tok)))
  <2>1. Factor(f, LeafRows(tok)) \in Frames
    BY <1>2, FactorIs
  <2>2. \A around \in Stacks : Read(Onto(around, f), tok) = Onto(around, Factor(f, LeafRows(tok)))
    BY <1>3, ReadIs
  <2>3. QED BY <2>1, <2>2, TurnsToken
<1>4. QED BY <1>1, <1>2, <1>3 DEF Reading

\* The words between conditions.
LEMMA TurnsWord ==
  ASSUME NEW tok \in Tokens, NEW f \in Frames
  PROVE  /\ f.ended /\ tok.t = "AND" => Turns(<<tok>>, f, Continued(f))
         /\ f.ended /\ tok.t = "OR" => Turns(<<tok>>, f, Alternative(f))
         /\ ~f.ended /\ tok.t = "NOT" => Turns(<<tok>>, f, Negated(f))
<1>1. Continued(f) \in Frames /\ Alternative(f) \in Frames /\ Negated(f) \in Frames
  BY FramesMade
<1>2. f.ended /\ tok.t = "AND" => \A around \in Stacks : Read(Onto(around, f), tok) = Onto(around, Continued(f))
  BY ReadIs
<1>3. f.ended /\ tok.t = "OR" => \A around \in Stacks : Read(Onto(around, f), tok) = Onto(around, Alternative(f))
  BY ReadIs
<1>4. ~f.ended /\ tok.t = "NOT" => \A around \in Stacks : Read(Onto(around, f), tok) = Onto(around, Negated(f))
  BY ReadIs
<1>5. QED BY <1>1, <1>2, <1>3, <1>4, TurnsToken

\* A closing parenthesis ends what its word makes of the rows inside.
LEMMA ClosedIs ==
  ASSUME NEW f \in Frames
  PROVE  Closed(f) = RowsOf(f.word, Holds(f))
<1>1. f.word \in {"(", "EXISTS", "NOT EXISTS"}
  BY FrameFields DEF Opening
<1>2. QED BY <1>1 DEF Closed, RowsOf

\* A parenthesis is a condition, with or without EXISTS before it.
LEMMA ReadingParenthesis ==
  ASSUME NEW open \in Tokens, open.t \in Opening, NEW close \in Tokens, close.t = ")",
         NEW text, NEW g, Turns(text, Open(open.t), g), g.ended, g.word = open.t
  PROVE  Reading(<<open>> \o text \o <<close>>, RowsOf(open.t, Holds(g)))
<1> DEFINE x == RowsOf(open.t, Holds(g))
           whole == <<open>> \o text \o <<close>>
<1>1. text \in Texts /\ g \in Frames /\ Open(open.t) \in Frames
  BY DEF Turns
<1>2. x = Closed(g) /\ x \in SUBSET EveryRow
  BY <1>1, ClosedIs, RowSets
<1>3. <<open>> \in Texts /\ <<close>> \in Texts
  BY DEF Texts
<1>4. <<open>> \o text \in Texts /\ whole \in Texts
  BY <1>1, <1>3, Concat DEF Texts
<1> HIDE DEF x
<1>5. ASSUME NEW f \in Frames, ~f.ended
      PROVE  Turns(whole, f, Factor(f, x))
  <2>1. Factor(f, x) \in Frames
    BY <1>2, FactorIs
  <2>2. ASSUME NEW around \in Stacks
        PROVE  Parsed(Onto(around, f), whole) = Onto(around, Factor(f, x))
    <3> DEFINE base == Onto(around, f)
    <3>1. base \in Stacks /\ base # <<>> /\ Head(base) = f /\ Tail(base) = around
      BY StackIs
    <3>2. Parsed(base, <<open>>) = Read(base, open)
      BY <3>1, ParsedToken
    <3>3. Read(base, open) = Onto(base, Open(open.t))
      BY <1>5, ReadIs
    <3> HIDE DEF base
    <3>4. Parsed(base, <<open>> \o text) = Parsed(Parsed(base, <<open>>), text)
      BY <1>1, <1>3, <3>1, ParsedJoins DEF Texts
    <3>5. Parsed(Onto(base, Open(open.t)), text) = Onto(base, g)
      BY <3>1 DEF Turns
    <3>6. Parsed(base, whole) = Parsed(Parsed(base, <<open>> \o text), <<close>>)
      BY <1>3, <1>4, <3>1, ParsedJoins DEF Texts
    <3>7. Onto(base, g) \in Stacks
      BY <1>1, <3>1, StackIs
    <3>8. Parsed(Onto(base, g), <<close>>) = Read(Onto(base, g), close)
      BY <3>7, ParsedToken
    <3>9. Read(Onto(base, g), close) = Onto(Tail(base), Factor(Head(base), Closed(g)))
      BY <1>1, <3>1, ReadIs
    <3>10. Onto(Tail(base), Factor(Head(base), Closed(g))) = Onto(around, Factor(f, x))
      BY <1>2, <3>1
    <3>11. Parsed(base, whole) = Onto(around, Factor(f, x))
      BY <3>2, <3>3, <3>4, <3>5, <3>6, <3>8, <3>9, <3>10
    <3>12. QED BY <3>11 DEF base
  <2> HIDE DEF whole
  <2>3. QED BY <1>4, <2>1, <2>2 DEF Turns
<1> HIDE DEF whole
<1>6. Reading(whole, x)
  BY <1>2, <1>4, <1>5 DEF Reading
<1>7. QED BY <1>6 DEF whole, x

\* NOT before a parenthesis, or another condition.
LEMMA ReadingNot ==
  ASSUME NEW tok \in Tokens, tok.t = "NOT", NEW text, NEW x, Reading(text, x)
  PROVE  Reading(<<tok>> \o text, EveryRow \ x)
<1>1. text \in Texts /\ x \in SUBSET EveryRow /\ EveryRow \ x \in SUBSET EveryRow
  BY DEF Reading
<1>2. <<tok>> \o text \in Texts
  <2>1. <<tok>> \in Texts
    BY DEF Texts
  <2>2. QED BY <1>1, <2>1, Concat DEF Texts
<1>3. ASSUME NEW f \in Frames, ~f.ended
      PROVE  Turns(<<tok>> \o text, f, Factor(f, EveryRow \ x))
  <2>1. Turns(<<tok>>, f, Negated(f))
    BY <1>3, TurnsWord
  <2>2. Negated(f) \in Frames /\ ~Negated(f).ended
    BY <1>3, FramesMade
  <2>3. Turns(text, Negated(f), Factor(Negated(f), x))
    BY <2>2 DEF Reading
  <2>4. Factor(Negated(f), x) = Factor(f, EveryRow \ x)
    <3>1. EveryRow \ (EveryRow \ x) = x
      BY <1>1
    <3>2. f.not \in BOOLEAN
      BY FrameFields
    <3>3. /\ Negated(f).word = f.word /\ Negated(f).ors = f.ors /\ Negated(f).ands = f.ands
          /\ Negated(f).not = IF f.not THEN FALSE ELSE TRUE
      BY FramesMade
    <3> DEFINE y == IF f.not THEN EveryRow \ (EveryRow \ x) ELSE EveryRow \ x
               z == IF Negated(f).not THEN EveryRow \ x ELSE x
    <3>4. y = z
      BY <3>1, <3>2, <3>3
    <3>5. Factor(f, EveryRow \ x)
            = [word |-> f.word, ors |-> f.ors, ands |-> f.ands \cap y, not |-> FALSE, ended |-> TRUE]
      BY <1>1, FactorIs
    <3>6. Factor(Negated(f), x)
            = [word |-> Negated(f).word, ors |-> Negated(f).ors, ands |-> Negated(f).ands \cap z,
               not |-> FALSE, ended |-> TRUE]
      BY <1>1, <2>2, FactorIs
    <3> HIDE DEF y, z
    <3>7. QED BY <3>3, <3>4, <3>5, <3>6
  <2>5. QED BY <2>1, <2>3, <2>4, TurnsJoin
<1>4. QED BY <1>1, <1>2, <1>3 DEF Reading

-----------------------------------------------------------------------------
(* A raw text that is one condition reads the same wherever it is put.     *)

\* What is known of it.
LEMMA AboveIs ==
  ASSUME NEW u \in Stacks, NEW under \in Stacks
  PROVE  /\ Above(u, under) \in Stacks /\ Len(Above(u, under)) = Len(u) + Len(under)
         /\ Above(<<>>, under) = under
         /\ under # <<>> => Above(u, under) # <<>>
         /\ u # <<>> => Head(u) \in Frames /\ Tail(u) \in Stacks /\ u = Onto(Tail(u), Head(u))
<1>1. \A s, t \in Seq(Frames) : s \o t \in Seq(Frames) /\ Len(s \o t) = Len(s) + Len(t)
  OBVIOUS
<1>2. Above(u, under) \in Stacks /\ Len(Above(u, under)) = Len(u) + Len(under)
  BY <1>1 DEF Above, Stacks
<1>3. Above(<<>>, under) = under
  BY DEF Above, Stacks
<1>4. under # <<>> => Above(u, under) # <<>>
  BY DEF Above, Stacks
<1>5. u # <<>> => Head(u) \in Frames /\ Tail(u) \in Stacks /\ u = Onto(Tail(u), Head(u))
  <2>1. \A s \in Seq(Frames) : s # <<>> => Head(s) \in Frames /\ Tail(s) \in Seq(Frames) /\ s = <<Head(s)>> \o Tail(s)
    OBVIOUS
  <2>2. QED BY <2>1 DEF Onto, Stacks
<1>6. QED BY <1>2, <1>3, <1>4, <1>5

\* One more frame on top, with or without others below.
LEMMA AboveOnto ==
  ASSUME NEW u \in Stacks, NEW under \in Stacks, NEW g \in Frames
  PROVE  Above(Onto(u, g), under) = Onto(Above(u, under), g)
<1>1. \A s, t \in Seq(Frames) : (<<g>> \o s) \o t = <<g>> \o (s \o t)
  OBVIOUS
<1>2. QED BY <1>1 DEF Above, Onto, Stacks

\* A NOT turns both stacks alike.
LEMMA TwistedAgain ==
  ASSUME NEW f \in Frames, NEW b, NEW c, Twisted(b, c, f)
  PROVE  Twisted(Negated(b), Negated(c), f)
<1>1. b \in Frames /\ c \in Frames
  BY DEF Twisted
<1>2. b.not \in BOOLEAN /\ c.not \in BOOLEAN /\ f.not \in BOOLEAN
  BY <1>1, FrameFields
<1>3. /\ Negated(b) \in Frames /\ Negated(c) \in Frames
      /\ Negated(b).word = b.word /\ Negated(b).ors = b.ors /\ Negated(b).ands = b.ands
      /\ Negated(b).ended = b.ended /\ Negated(b).not = IF b.not THEN FALSE ELSE TRUE
      /\ Negated(c).word = c.word /\ Negated(c).ors = c.ors /\ Negated(c).ands = c.ands
      /\ Negated(c).ended = c.ended /\ Negated(c).not = IF c.not THEN FALSE ELSE TRUE
  BY <1>1, FramesMade
<1>4. c.not = IF b.not THEN (IF f.not THEN FALSE ELSE TRUE) ELSE f.not
  BY DEF Twisted
<1>5. Negated(c).not = IF Negated(b).not THEN (IF f.not THEN FALSE ELSE TRUE) ELSE f.not
  BY <1>2, <1>3, <1>4
<1>6. QED BY <1>3, <1>5 DEF Twisted

\* Stacks of the same frames over twisted ones are linked.
LEMMA LinkedWhen ==
  ASSUME NEW u \in Stacks, NEW b, NEW c, NEW f, NEW around \in Stacks, Twisted(b, c, f)
  PROVE  Linked(Above(u, Onto(<<>>, b)), Above(u, Onto(around, c)), f, around)
BY DEF Linked, Twisted

\* The two stay linked while a condition goes on, until it ends (Read).
LEMMA ReadLinked ==
  ASSUME NEW f \in Frames, NEW around \in Stacks, NEW s, NEW r, Linked(s, r, f, around), NEW tok
  PROVE  \/ Read(s, tok) = <<>>
         \/ Linked(Read(s, tok), Read(r, tok), f, around)
         \/ LinkedAtEnd(Read(s, tok), Read(r, tok), f, around)
<1>1. PICK u \in Stacks, b \in Frames, c \in Frames :
            Twisted(b, c, f) /\ s = Above(u, Onto(<<>>, b)) /\ r = Above(u, Onto(around, c))
  BY DEF Linked
<1> DEFINE lone == Onto(<<>>, b)
           here == Onto(around, c)
<1>2. <<>> \in Stacks
  BY DEF Stacks
<1>3. lone \in Stacks /\ here \in Stacks /\ lone # <<>> /\ here # <<>>
  BY <1>2, StackIs
<1>4. b.ended = FALSE /\ c.ended = FALSE
  BY <1>1 DEF Twisted
<1>5. \A x : LeafRows(x) \in SUBSET EveryRow
  BY RowSets
<1>6. CASE u = <<>>
  <2>1. s = Onto(<<>>, b) /\ r = Onto(around, c)
    BY <1>1, <1>3, <1>6, AboveIs
  <2>2. CASE Compares(tok)
    <3>1. /\ Read(Onto(<<>>, b), tok) = Onto(<<>>, Factor(b, LeafRows(tok)))
          /\ Read(Onto(around, c), tok) = Onto(around, Factor(c, LeafRows(tok)))
      BY <1>2, <1>4, <2>2, ReadIs
    <3>2. QED BY <1>1, <1>5, <2>1, <3>1 DEF LinkedAtEnd
  <2>3. CASE tok.t \in Opening
    <3>1. Open(tok.t) \in Frames
      BY <2>3, OpenIs
    <3>2. /\ Read(Onto(<<>>, b), tok) = Onto(lone, Open(tok.t))
          /\ Read(Onto(around, c), tok) = Onto(here, Open(tok.t))
      BY <1>2, <1>4, <2>3, ReadIs
    <3>3. Onto(<<>>, Open(tok.t)) \in Stacks
      BY <1>2, <3>1, StackIs
    <3>4. /\ Onto(lone, Open(tok.t)) = Above(Onto(<<>>, Open(tok.t)), lone)
          /\ Onto(here, Open(tok.t)) = Above(Onto(<<>>, Open(tok.t)), here)
      BY <1>2, <1>3, <3>1, AboveIs, AboveOnto
    <3>5. Linked(Above(Onto(<<>>, Open(tok.t)), lone), Above(Onto(<<>>, Open(tok.t)), here), f, around)
      BY <1>1, <3>3, LinkedWhen
    <3>6. QED BY <2>1, <3>2, <3>4, <3>5
  <2>4. CASE tok.t = "NOT"
    <3>1. /\ Read(Onto(<<>>, b), tok) = Onto(<<>>, Negated(b))
          /\ Read(Onto(around, c), tok) = Onto(around, Negated(c))
      BY <1>2, <1>4, <2>4, ReadIs
    <3>2. Twisted(Negated(b), Negated(c), f)
      BY <1>1, TwistedAgain
    <3>3. Linked(Above(<<>>, Onto(<<>>, Negated(b))), Above(<<>>, Onto(around, Negated(c))), f, around)
      BY <1>2, <3>2, LinkedWhen
    <3>4. Onto(<<>>, Negated(b)) \in Stacks /\ Onto(around, Negated(c)) \in Stacks
      BY <1>2, FramesMade, StackIs
    <3>5. /\ Above(<<>>, Onto(<<>>, Negated(b))) = Onto(<<>>, Negated(b))
          /\ Above(<<>>, Onto(around, Negated(c))) = Onto(around, Negated(c))
      BY <1>2, <3>4, AboveIs
    <3>6. QED BY <2>1, <3>1, <3>3, <3>5
  <2>5. CASE ~Compares(tok) /\ tok.t \notin Opening \cup {"NOT"}
    <3>1. Read(Onto(<<>>, b), tok) = <<>>
      BY <1>2, <1>4, <2>5, ReadIs
    <3>2. QED BY <2>1, <3>1
  <2>6. QED BY <2>2, <2>3, <2>4, <2>5
<1>7. CASE u # <<>>
  <2> DEFINE g == Head(u)
             v == Tail(u)
             low == Above(v, lone)
             high == Above(v, here)
  <2>1. g \in Frames /\ v \in Stacks /\ u = Onto(v, g)
    BY <1>3, <1>7, AboveIs
  <2> HIDE DEF g, v
  <2>2. s = Onto(low, g) /\ r = Onto(high, g)
    BY <1>1, <1>3, <2>1, AboveOnto
  <2>3. low \in Stacks /\ high \in Stacks /\ low # <<>> /\ high # <<>>
    BY <1>3, <2>1, AboveIs
  <2>4. ASSUME NEW h \in Frames
        PROVE  Linked(Onto(low, h), Onto(high, h), f, around)
    <3>1. Onto(v, h) \in Stacks
      BY <2>1, StackIs
    <3>2. Linked(Above(Onto(v, h), lone), Above(Onto(v, h), here), f, around)
      BY <1>1, <3>1, LinkedWhen
    <3>3. Above(Onto(v, h), lone) = Onto(low, h) /\ Above(Onto(v, h), here) = Onto(high, h)
      BY <1>3, <2>1, AboveOnto
    <3>4. QED BY <3>2, <3>3
  <2> HIDE DEF low, high
  <2>5. CASE ~g.ended /\ Compares(tok)
    <3>1. Factor(g, LeafRows(tok)) \in Frames
      BY <1>5, <2>1, FactorIs
    <3>2. /\ Read(Onto(low, g), tok) = Onto(low, Factor(g, LeafRows(tok)))
          /\ Read(Onto(high, g), tok) = Onto(high, Factor(g, LeafRows(tok)))
      BY <2>1, <2>3, <2>5, ReadIs
    <3>3. QED BY <2>2, <2>4, <3>1, <3>2
  <2>6. CASE ~g.ended /\ tok.t \in Opening
    <3>1. Open(tok.t) \in Frames
      BY <2>6, OpenIs
    <3>2. /\ Read(Onto(low, g), tok) = Onto(Onto(low, g), Open(tok.t))
          /\ Read(Onto(high, g), tok) = Onto(Onto(high, g), Open(tok.t))
      BY <2>1, <2>3, <2>6, ReadIs
    <3>3. Onto(u, Open(tok.t)) \in Stacks
      BY <3>1, StackIs
    <3>4. Linked(Above(Onto(u, Open(tok.t)), lone), Above(Onto(u, Open(tok.t)), here), f, around)
      BY <1>1, <3>3, LinkedWhen
    <3>5. Above(Onto(u, Open(tok.t)), lone) = Onto(s, Open(tok.t)) /\ Above(Onto(u, Open(tok.t)), here) = Onto(r, Open(tok.t))
      BY <1>1, <1>3, <3>1, AboveOnto
    <3>6. QED BY <2>2, <3>2, <3>4, <3>5
  <2>7. CASE ~g.ended /\ tok.t = "NOT"
    <3>1. Negated(g) \in Frames
      BY <2>1, FramesMade
    <3>2. /\ Read(Onto(low, g), tok) = Onto(low, Negated(g))
          /\ Read(Onto(high, g), tok) = Onto(high, Negated(g))
      BY <2>1, <2>3, <2>7, ReadIs
    <3>3. QED BY <2>2, <2>4, <3>1, <3>2
  <2>8. CASE g.ended /\ tok.t = "AND"
    <3>1. Continued(g) \in Frames
      BY <2>1, FramesMade
    <3>2. /\ Read(Onto(low, g), tok) = Onto(low, Continued(g))
          /\ Read(Onto(high, g), tok) = Onto(high, Continued(g))
      BY <2>1, <2>3, <2>8, ReadIs
    <3>3. QED BY <2>2, <2>4, <3>1, <3>2
  <2>9. CASE g.ended /\ tok.t = "OR"
    <3>1. Alternative(g) \in Frames
      BY <2>1, FramesMade
    <3>2. /\ Read(Onto(low, g), tok) = Onto(low, Alternative(g))
          /\ Read(Onto(high, g), tok) = Onto(high, Alternative(g))
      BY <2>1, <2>3, <2>9, ReadIs
    <3>3. QED BY <2>2, <2>4, <3>1, <3>2
  <2>10. CASE g.ended /\ tok.t = ")"
    <3> DEFINE x == Closed(g)
    <3>1. x \in SUBSET EveryRow
      BY <2>1, RowSets
    <3>2. /\ Read(Onto(low, g), tok) = Onto(Tail(low), Factor(Head(low), x))
          /\ Read(Onto(high, g), tok) = Onto(Tail(high), Factor(Head(high), x))
      BY <2>1, <2>3, <2>10, ReadIs
    <3> HIDE DEF x
    <3>3. CASE v = <<>>
      <4>1. low = Onto(<<>>, b) /\ high = Onto(around, c)
        BY <1>2, <1>3, <3>3, AboveIs DEF low, high
      <4>2. Head(low) = b /\ Tail(low) = <<>> /\ Head(high) = c /\ Tail(high) = around
        BY <1>2, <4>1, StackIs
      <4>3. Read(s, tok) = Onto(<<>>, Factor(b, x)) /\ Read(r, tok) = Onto(around, Factor(c, x))
        BY <2>2, <3>2, <4>2
      <4>4. QED BY <1>1, <3>1, <4>3 DEF LinkedAtEnd
    <3>4. CASE v # <<>>
      <4> DEFINE h == Head(v)
                 w == Tail(v)
      <4>1. h \in Frames /\ w \in Stacks /\ v = Onto(w, h)
        BY <1>3, <2>1, <3>4, AboveIs
      <4> HIDE DEF h, w
      <4>2. low = Onto(Above(w, lone), h) /\ high = Onto(Above(w, here), h)
        BY <1>3, <4>1, AboveOnto DEF low, high
      <4>3. Above(w, lone) \in Stacks /\ Above(w, here) \in Stacks
        BY <1>3, <4>1, AboveIs
      <4>4. Head(low) = h /\ Tail(low) = Above(w, lone) /\ Head(high) = h /\ Tail(high) = Above(w, here)
        BY <4>1, <4>2, <4>3, StackIs
      <4>5. Factor(h, x) \in Frames
        BY <3>1, <4>1, FactorIs
      <4>6. Onto(w, Factor(h, x)) \in Stacks
        BY <4>1, <4>5, StackIs
      <4>7. Linked(Above(Onto(w, Factor(h, x)), lone), Above(Onto(w, Factor(h, x)), here), f, around)
        BY <1>1, <4>6, LinkedWhen
      <4>8. /\ Above(Onto(w, Factor(h, x)), lone) = Onto(Above(w, lone), Factor(h, x))
            /\ Above(Onto(w, Factor(h, x)), here) = Onto(Above(w, here), Factor(h, x))
        BY <1>3, <4>1, <4>5, AboveOnto
      <4>9. QED BY <2>2, <3>2, <4>4, <4>7, <4>8
    <3>5. QED BY <3>3, <3>4
  <2>11. CASE ~(\/ ~g.ended /\ (Compares(tok) \/ tok.t \in Opening \cup {"NOT"})
                \/ g.ended /\ tok.t \in {"AND", "OR", ")"})
    <3>1. Read(Onto(low, g), tok) = <<>>
      BY <2>1, <2>3, <2>11, ReadIs
    <3>2. QED BY <2>2, <3>1
  <2>12. QED BY <2>5, <2>6, <2>7, <2>8, <2>9, <2>10, <2>11
<1>8. QED BY <1>6, <1>7

\* The stack a WHERE starts with.
LEMMA SoleIs ==
  /\ Sole \in Stacks /\ <<>> \in Stacks /\ Sole = Onto(<<>>, Open("("))
  /\ Open("(") \in Frames
  /\ \A g \in Frames : Onto(<<>>, g) \in Stacks /\ Len(Onto(<<>>, g)) = 1 /\ Onto(<<>>, g)[1] = g
<1>1. "(" \in Opening
  BY DEF Opening
<1>2. Open("(") \in Frames
  BY <1>1, OpenIs
<1> DEFINE o == Open("(")
<1> HIDE DEF o
<1>3. \A g \in Frames : /\ Onto(<<>>, g) = <<g>> /\ <<g>> \in Stacks /\ Len(<<g>>) = 1 /\ <<g>>[1] = g
  BY DEF Onto, Stacks
<1>4. Sole = <<o>>
  BY DEF Sole, o
<1>5. o \in Frames
  BY <1>2 DEF o
<1>6. <<>> \in Stacks
  BY DEF Stacks
<1>7. Sole \in Stacks /\ Sole = Onto(<<>>, o)
  BY <1>3, <1>4, <1>5
<1>8. QED BY <1>3, <1>5, <1>6, <1>7 DEF o

\* The beginnings of a text, while it is read alone.
LEMMA AfterIs ==
  ASSUME NEW X, NEW text \in Seq(X), NEW open \in Stacks, NEW P, Reads(P, open, text), NEW n \in 0 .. Len(text)
  PROVE  Parsed(open, SubSeq(text, 1, n)) = P[n]
<1> DEFINE t == SubSeq(text, 1, n)
           Q == [k \in 0 .. n |-> P[k]]
<1>1. Len(text) \in Nat /\ n \in Nat /\ n <= Len(text)
  OBVIOUS
<1>2. t \in Seq(X) /\ Len(t) = n /\ \A i \in 1 .. n : t[i] = text[i]
  BY <1>1
<1>3. /\ P \in [0 .. Len(text) -> Stacks] /\ P[0] = open
      /\ \A k \in 0 .. Len(text) - 1 : P[k + 1] = Read(P[k], text[k + 1])
  BY DEF Reads
<1> HIDE DEF t
<1>4. Q \in [0 .. n -> Stacks] /\ Q[0] = open
  BY <1>1, <1>3
<1>5. ASSUME NEW k \in 0 .. n - 1
      PROVE  Q[k + 1] = Read(Q[k], t[k + 1])
  <2>1. k \in 0 .. Len(text) - 1 /\ k + 1 \in 1 .. n /\ k \in 0 .. n /\ k + 1 \in 0 .. n
    BY <1>1
  <2>2. QED BY <1>2, <1>3, <2>1
<1>6. Q[n] = P[n]
  BY <1>1
<1> HIDE DEF Q
<1>7. Reads(Q, open, t)
  BY <1>2, <1>4, <1>5 DEF Reads
<1>8. Parsed(open, t) = Q[n]
  BY <1>2, <1>7, ParsedIs
<1>9. QED BY <1>6, <1>8 DEF t

\* Where a condition has ended, alone and in another text, it has read the same.
LEMMA EndIsSame ==
  ASSUME NEW f \in Frames, NEW x \in SUBSET EveryRow, NEW b, NEW c, Twisted(b, c, f)
  PROVE  /\ Holds(Factor(b, x)) \in SUBSET EveryRow
         /\ Factor(c, x) = Factor(f, Holds(Factor(b, x)))
<1> DEFINE y == IF b.not THEN EveryRow \ x ELSE x
           z == IF f.not THEN EveryRow \ y ELSE y
           w == IF c.not THEN EveryRow \ x ELSE x
<1>1. /\ b \in Frames /\ b.word = "(" /\ b.ors = {} /\ b.ands = EveryRow /\ b.ended = FALSE
      /\ c \in Frames /\ c.word = f.word /\ c.ors = f.ors /\ c.ands = f.ands /\ c.ended = FALSE
      /\ c.not = IF b.not THEN (IF f.not THEN FALSE ELSE TRUE) ELSE f.not
  BY DEF Twisted
<1>2. b.not \in BOOLEAN /\ f.not \in BOOLEAN
  BY <1>1, FrameFields
<1>3. EveryRow \ (EveryRow \ x) = x
  OBVIOUS
<1>4. w = z
  <2>1. CASE b.not /\ f.not
    BY <1>1, <1>3, <2>1
  <2>2. CASE b.not /\ ~f.not
    BY <1>1, <2>2
  <2>3. CASE ~b.not
    BY <1>1, <2>3
  <2>4. QED BY <2>1, <2>2, <2>3
<1>5. y \in SUBSET EveryRow
  OBVIOUS
<1>6. Factor(b, x) = [word |-> b.word, ors |-> b.ors, ands |-> b.ands \cap y, not |-> FALSE, ended |-> TRUE]
  BY <1>1, FactorIs
<1>7. Factor(c, x) = [word |-> c.word, ors |-> c.ors, ands |-> c.ands \cap w, not |-> FALSE, ended |-> TRUE]
  BY <1>1, FactorIs
<1> HIDE DEF y
<1>8. Holds(Factor(b, x)) = y
  BY <1>1, <1>5, <1>6 DEF Holds
<1>9. Factor(f, y) = [word |-> f.word, ors |-> f.ors, ands |-> f.ands \cap z, not |-> FALSE, ended |-> TRUE]
  BY <1>5, FactorIs
<1> HIDE DEF z, w
<1>10. Factor(c, x) = Factor(f, y)
  BY <1>1, <1>4, <1>7, <1>9
<1>11. QED BY <1>5, <1>8, <1>10

\* A raw text that is one condition when it stands alone (Atom) is one in any
\* place, and selects there what it selects alone.
LEMMA ReadingAtom ==
  ASSUME NEW text \in Texts, Atom(text)
  PROVE  Reading(text, Selected(text))
<1> DEFINE n == Len(text)
           Ends2(s) == Len(s) = 1 /\ s[1].ended
<1>1. n \in Nat /\ text \in Seq(Tokens)
  BY DEF Texts
<1>2. PICK P : Reads(P, Sole, text)
  BY <1>1, SoleIs, ReadsExist
<1>3. \A k \in 0 .. n : Parsed(Sole, SubSeq(text, 1, k)) = P[k]
  BY <1>1, <1>2, SoleIs, AfterIs
<1>4. Ends2(P[n]) /\ \A k \in 0 .. n - 1 : ~Ends2(P[k])
  <2>1. /\ Ends2(Parsed(Sole, SubSeq(text, 1, n)))
        /\ \A k \in 0 .. n - 1 : ~Ends2(Parsed(Sole, SubSeq(text, 1, k)))
    BY DEF Atom, Sole
  <2>2. n \in 0 .. n /\ \A k \in 0 .. n - 1 : k \in 0 .. n
    BY <1>1
  <2> HIDE DEF Ends2
  <2>3. QED BY <1>3, <2>1, <2>2
<1>5. Parsed(Sole, text) = P[n]
  BY <1>1, <1>2, SoleIs, ParsedIs
<1>6. Selected(text) = Holds(P[n][1])
  BY <1>4, <1>5 DEF Selected, Sole
<1>7. /\ P \in [0 .. n -> Stacks] /\ P[0] = Sole
      /\ \A k \in 0 .. n - 1 : P[k + 1] = Read(P[k], text[k + 1])
  BY <1>2 DEF Reads
<1>8. ASSUME NEW f \in Frames, NEW around \in Stacks, ~f.ended
      PROVE  /\ Holds(P[n][1]) \in SUBSET EveryRow
             /\ Parsed(Onto(around, f), text) = Onto(around, Factor(f, Holds(P[n][1])))
  <2>1. Onto(around, f) \in Stacks
    BY StackIs
  <2>2. PICK R : Reads(R, Onto(around, f), text)
    BY <1>1, <2>1, ReadsExist
  <2>3. Parsed(Onto(around, f), text) = R[n]
    BY <1>1, <2>1, <2>2, ParsedIs
  <2>4. R[0] = Onto(around, f) /\ \A k \in 0 .. n - 1 : R[k + 1] = Read(R[k], text[k + 1])
    BY <2>2 DEF Reads
  <2> DEFINE S == {k \in Nat : k <= n => \/ P[k] = <<>>
                                         \/ Linked(P[k], R[k], f, around)
                                         \/ LinkedAtEnd(P[k], R[k], f, around) /\ k = n}
  <2>5. \A s, r : LinkedAtEnd(s, r, f, around) => Ends2(s)
    <3>1. ASSUME NEW s, NEW r, LinkedAtEnd(s, r, f, around)
          PROVE  Ends2(s)
      <4>1. PICK x \in SUBSET EveryRow, b \in Frames : s = Onto(<<>>, Factor(b, x))
        BY <3>1 DEF LinkedAtEnd
      <4>2. Factor(b, x) \in Frames /\ Factor(b, x).ended
        BY FactorIs
      <4>3. Len(s) = 1 /\ s[1] = Factor(b, x)
        BY <4>1, <4>2, SoleIs
      <4>4. QED BY <4>2, <4>3
    <3>2. QED BY <3>1
  <2>6. 0 \in S
    <3>1. Twisted(Open("("), f, f)
      <4>1. "(" \in Opening
        BY DEF Opening
      <4>2. f.ended = FALSE
        BY <1>8, FrameFields
      <4>3. QED BY <4>1, <4>2, OpenIs DEF Twisted
    <3>2. Linked(Above(<<>>, Onto(<<>>, Open("("))), Above(<<>>, Onto(around, f)), f, around)
      BY <3>1, SoleIs, LinkedWhen
    <3>3. Above(<<>>, Onto(<<>>, Open("("))) = Sole
      BY SoleIs, AboveIs
    <3>4. Above(<<>>, Onto(around, f)) = Onto(around, f)
      BY <2>1, SoleIs, AboveIs
    <3>5. Linked(P[0], R[0], f, around)
      BY <1>7, <2>4, <3>2, <3>3, <3>4
    <3>6. QED BY <3>5
  <2>7. ASSUME NEW k \in Nat, k \in S
        PROVE  k + 1 \in S
    <3>1. CASE k + 1 <= n
      <4>1. k \in 0 .. n - 1 /\ k <= n /\ k # n
        BY <1>1, <3>1
      <4>2. P[k + 1] = Read(P[k], text[k + 1]) /\ R[k + 1] = Read(R[k], text[k + 1])
        BY <1>7, <2>4, <4>1
      <4>3. P[k] = <<>> \/ Linked(P[k], R[k], f, around)
        BY <2>7, <4>1
      <4>4. CASE P[k] = <<>>
        <5>1. P[k + 1] = <<>>
          BY <4>2, <4>4, SoleIs, ReadType
        <5>2. QED BY <5>1
      <4>5. CASE Linked(P[k], R[k], f, around)
        <5>1. \/ P[k + 1] = <<>>
              \/ Linked(P[k + 1], R[k + 1], f, around)
              \/ LinkedAtEnd(P[k + 1], R[k + 1], f, around)
          BY <4>2, <4>5, ReadLinked
        <5>2. LinkedAtEnd(P[k + 1], R[k + 1], f, around) => k + 1 = n
          <6>1. Ends2(P[k + 1]) => ~(k + 1 \in 0 .. n - 1)
            BY <1>4
          <6> HIDE DEF Ends2
          <6>2. QED BY <1>1, <2>5, <3>1, <6>1
        <5>3. QED BY <5>1, <5>2
      <4>6. QED BY <4>3, <4>4, <4>5
    <3>2. CASE ~(k + 1 <= n)
      BY <3>2
    <3>3. QED BY <3>1, <3>2
  <2>8. \A k \in Nat : k \in S
    <3> HIDE DEF S
    <3>1. QED BY <2>6, <2>7, Induction
  <2>9. P[n] = <<>> \/ Linked(P[n], R[n], f, around) \/ LinkedAtEnd(P[n], R[n], f, around)
    BY <1>1, <2>8
  <2>10. P[n] # <<>>
    BY <1>4
  <2>11. ~Linked(P[n], R[n], f, around)
    <3>1. SUFFICES ASSUME Linked(P[n], R[n], f, around)
                   PROVE  FALSE
      OBVIOUS
    <3>2. PICK u \in Stacks, b \in Frames, c \in Frames : Twisted(b, c, f) /\ P[n] = Above(u, Onto(<<>>, b))
      BY <3>1 DEF Linked
    <3>3. Onto(<<>>, b) \in Stacks /\ Len(Onto(<<>>, b)) = 1 /\ Onto(<<>>, b)[1] = b
      BY SoleIs
    <3>4. Len(P[n]) = Len(u) + 1
      <4> DEFINE lone == Onto(<<>>, b)
      <4>1. lone \in Stacks /\ Len(lone) = 1
        BY <3>3
      <4> HIDE DEF lone
      <4>2. Len(Above(u, lone)) = Len(u) + Len(lone)
        BY <4>1, AboveIs
      <4>3. P[n] = Above(u, lone)
        BY <3>2 DEF lone
      <4>4. QED BY <4>1, <4>2, <4>3
    <3>5. u = <<>>
      <4>1. Len(P[n]) = 1
        BY <1>4
      <4>2. \A s \in Seq(Frames) : Len(s) + 1 = 1 => s = <<>>
        OBVIOUS
      <4>3. QED BY <3>4, <4>1, <4>2 DEF Stacks
    <3>6. P[n] = Onto(<<>>, b)
      BY <3>2, <3>3, <3>5, AboveIs
    <3>7. ~b.ended
      BY <3>2 DEF Twisted
    <3>8. QED BY <1>4, <3>3, <3>6, <3>7
  <2>12. PICK x \in SUBSET EveryRow, b \in Frames, c \in Frames :
            Twisted(b, c, f) /\ P[n] = Onto(<<>>, Factor(b, x)) /\ R[n] = Onto(around, Factor(c, x))
    BY <2>9, <2>10, <2>11 DEF LinkedAtEnd
  <2>13. P[n][1] = Factor(b, x)
    <3>1. Factor(b, x) \in Frames
      BY <2>12, FactorIs
    <3>2. QED BY <2>12, <3>1, SoleIs
  <2>14. /\ Holds(Factor(b, x)) \in SUBSET EveryRow
         /\ Factor(c, x) = Factor(f, Holds(Factor(b, x)))
    BY <2>12, EndIsSame
  <2>15. QED BY <2>3, <2>12, <2>13, <2>14
<1>9. Holds(P[n][1]) \in SUBSET EveryRow
  <2>1. ~Open("(").ended
    <3>1. "(" \in Opening
      BY DEF Opening
    <3>2. QED BY <3>1, OpenIs
  <2>2. QED BY <1>8, <2>1, SoleIs
<1>10. ASSUME NEW f \in Frames, ~f.ended
       PROVE  Turns(text, f, Factor(f, Holds(P[n][1])))
  <2>1. Factor(f, Holds(P[n][1])) \in Frames
    BY <1>9, FactorIs
  <2>2. QED BY <1>8, <1>10, <2>1 DEF Turns
<1>11. QED BY <1>6, <1>9, <1>10 DEF Reading

-----------------------------------------------------------------------------
(* A chain of conditions, from left to right.                              *)

\* An alternative ends where the next one starts, or the chain ends.
LEMMA AlternativeEnds ==
  ASSUME NEW list, IsList(list), NEW A, NEW rows, NEW i \in DOMAIN list, NEW s \in Starts(list), s <= i,
         \A m \in s + 1 .. i : list[m].join = "AND", i = Len(list) \/ list[i + 1].join = "OR"
  PROVE  Ended(A, list, rows, s, i)
<1>1. /\ Len(list) \in Nat /\ DOMAIN list = 1 .. Len(list) /\ i \in Nat /\ i >= 1 /\ i <= Len(list)
      /\ s \in Nat /\ s >= 1
  BY DEF IsList, Starts
<1>2. JoinedTo(list, s) = s .. i
  <2>1. ASSUME NEW k \in JoinedTo(list, s)
        PROVE  k \in s .. i
    <3>1. k \in s .. Len(list) /\ \A m \in s + 1 .. k : list[m].join = "AND"
      BY DEF JoinedTo
    <3>2. CASE k > i
      <4>1. i + 1 \in s + 1 .. k /\ i # Len(list)
        BY <1>1, <3>1, <3>2
      <4>2. list[i + 1].join = "AND" /\ list[i + 1].join = "OR"
        BY <3>1, <4>1
      <4>3. QED BY <4>2
    <3>3. QED BY <1>1, <3>1, <3>2
  <2>2. ASSUME NEW k \in s .. i
        PROVE  k \in JoinedTo(list, s)
    <3>1. k \in s .. Len(list)
      BY <1>1
    <3>2. \A m \in s + 1 .. k : list[m].join = "AND"
      BY <1>1
    <3>3. QED BY <3>1, <3>2 DEF JoinedTo
  <2>3. QED BY <2>1, <2>2
<1>3. \A j \in Starts(list) : j < i + 1 <=> (j < s \/ j = s)
  <2>1. ASSUME NEW j \in Starts(list)
        PROVE  j < i + 1 <=> (j < s \/ j = s)
    <3>1. j \in 1 .. Len(list) /\ (j = 1 \/ list[j].join = "OR")
      BY <1>1 DEF Starts
    <3>2. CASE j > s /\ j <= i
      <4>1. j \in s + 1 .. i /\ j # 1
        BY <1>1, <3>1, <3>2
      <4>2. list[j].join = "AND" /\ list[j].join = "OR"
        BY <3>1, <4>1
      <4>3. QED BY <4>2
    <3>3. QED BY <1>1, <3>1, <3>2
  <2>2. QED BY <2>1
<1>4. ASSUME NEW row \in EveryRow
      PROVE  row \in Earlier(A, list, rows, i + 1) <=> row \in Earlier(A, list, rows, s) \cup Whole(A, rows, s, i)
  <2> DEFINE In(j) == (j = 1 => row \in A) /\ \A k \in JoinedTo(list, j) : row \in rows[k]
  <2>1. row \in Earlier(A, list, rows, i + 1) <=> \E j \in Starts(list) : j < i + 1 /\ In(j)
    BY DEF Earlier
  <2>2. row \in Earlier(A, list, rows, s) <=> \E j \in Starts(list) : j < s /\ In(j)
    BY DEF Earlier
  <2>3. row \in Whole(A, rows, s, i) <=> In(s)
    BY <1>2 DEF Whole
  <2> HIDE DEF In
  <2>4. QED BY <1>3, <2>1, <2>2, <2>3
<1>5. QED BY <1>4 DEF Earlier, Whole, Ended

\* The first condition.
LEMMA FirstRead ==
  ASSUME NEW list, IsList(list), list # <<>>, NEW rows, rows[1] \in SUBSET EveryRow,
         NEW f \in Frames, ~f.ended, ~f.not, f.ors = {}
  PROVE  HasRead(Factor(f, rows[1]), f.word, f.ands, list, rows, 1)
<1> DEFINE x == rows[1]
<1>1. f.not = FALSE /\ f.ands \in SUBSET EveryRow
  BY FrameFields
<1>2. /\ Factor(f, x) \in Frames
      /\ Factor(f, x) = [word |-> f.word, ors |-> f.ors, ands |-> f.ands \cap x, not |-> FALSE, ended |-> TRUE]
  <2>1. (IF f.not THEN EveryRow \ x ELSE x) = x
    BY <1>1
  <2> HIDE DEF x
  <2>2. x \in SUBSET EveryRow
    BY DEF x
  <2>3. QED BY <2>1, <2>2, FactorIs
<1>3. 1 \in Starts(list)
  <2>1. Len(list) \in Nat /\ Len(list) # 0 /\ DOMAIN list = 1 .. Len(list)
    BY DEF IsList
  <2>2. QED BY <2>1 DEF Starts
<1>4. f.ands \cap x = Whole(f.ands, rows, 1, 1)
  BY <1>1 DEF Whole
<1>5. {} = Earlier(f.ands, list, rows, 1)
  <2>1. \A j \in Starts(list) : ~(j < 1)
    BY DEF Starts, IsList
  <2>2. QED BY <2>1 DEF Earlier
<1>6. \A m \in 1 + 1 .. 1 : list[m].join = "AND"
  OBVIOUS
<1> HIDE DEF x
<1>7. /\ Factor(f, x).word = f.word /\ Factor(f, x).ended = TRUE /\ Factor(f, x).not = FALSE
      /\ Factor(f, x).ands = f.ands \cap x /\ Factor(f, x).ors = {}
  BY <1>2
<1>8. HasRead(Factor(f, x), f.word, f.ands, list, rows, 1)
  BY <1>2, <1>3, <1>4, <1>5, <1>6, <1>7 DEF HasRead
<1>9. QED BY <1>8 DEF x

\* One condition more.
LEMMA NextRead ==
  ASSUME NEW list, IsList(list), NEW rows, NEW i \in DOMAIN list, i + 1 \in DOMAIN list,
         rows[i + 1] \in SUBSET EveryRow, NEW A, NEW word, NEW g, HasRead(g, word, A, list, rows, i)
  PROVE  /\ list[i + 1].join = "AND" => HasRead(Factor(Continued(g), rows[i + 1]), word, A, list, rows, i + 1)
         /\ list[i + 1].join = "OR" => HasRead(Factor(Alternative(g), rows[i + 1]), word, A, list, rows, i + 1)
<1> DEFINE x == rows[i + 1]
<1>1. PICK s \in Starts(list) :
        /\ s <= i /\ \A m \in s + 1 .. i : list[m].join = "AND"
        /\ g.ands = Whole(A, rows, s, i) /\ g.ors = Earlier(A, list, rows, s)
  BY DEF HasRead
<1>2. g \in Frames /\ g.word = word /\ g.ended = TRUE /\ g.not = FALSE
  BY DEF HasRead
<1>3. i \in Nat /\ s \in Nat /\ s >= 1 /\ i >= 1 /\ i + 1 \in 1 .. Len(list)
  BY DEF Starts, IsList
<1>4. /\ Continued(g) \in Frames /\ Alternative(g) \in Frames
      /\ Continued(g).word = word /\ Continued(g).ors = g.ors /\ Continued(g).ands = g.ands
      /\ Continued(g).not = FALSE
      /\ Alternative(g).word = word /\ Alternative(g).ors = Holds(g) /\ Alternative(g).ands = EveryRow
      /\ Alternative(g).not = FALSE
  <2>1. /\ Continued(g) = [word |-> g.word, ors |-> g.ors, ands |-> g.ands, not |-> g.not, ended |-> FALSE]
        /\ Alternative(g) = [word |-> g.word, ors |-> Holds(g), ands |-> EveryRow, not |-> FALSE, ended |-> FALSE]
    BY <1>2, FramesMade, Zenon
  <2>2. Continued(g) \in Frames /\ Alternative(g) \in Frames
    BY <1>2, FramesMade
  <2>3. QED BY <1>2, <2>1, <2>2
<1>5. ASSUME NEW f \in Frames, f.not = FALSE
      PROVE  /\ Factor(f, x) \in Frames /\ Factor(f, x).word = f.word /\ Factor(f, x).ors = f.ors
             /\ Factor(f, x).ands = f.ands \cap x /\ Factor(f, x).not = FALSE /\ Factor(f, x).ended = TRUE
  <2>1. (IF f.not THEN EveryRow \ x ELSE x) = x
    BY <1>5
  <2> HIDE DEF x
  <2>2. x \in SUBSET EveryRow
    BY DEF x
  <2>3. /\ Factor(f, x) \in Frames
        /\ Factor(f, x) = [word |-> f.word, ors |-> f.ors, ands |-> f.ands \cap x, not |-> FALSE, ended |-> TRUE]
    BY <2>1, <2>2, FactorIs
  <2>4. QED BY <2>3
<1>6. CASE list[i + 1].join = "AND"
  <2>1. \A m \in s + 1 .. i + 1 : list[m].join = "AND"
    <3>1. \A m \in s + 1 .. i + 1 : m \in s + 1 .. i \/ m = i + 1
      BY <1>3
    <3>2. QED BY <1>1, <1>6, <3>1
  <2>2. g.ands \cap x = Whole(A, rows, s, i + 1)
    <3>1. s .. i + 1 = (s .. i) \cup {i + 1}
      BY <1>1, <1>3
    <3>2. QED BY <1>1, <3>1 DEF Whole
  <2>3. s <= i + 1
    BY <1>1, <1>3
  <2> DEFINE h == Factor(Continued(g), x)
  <2>4. /\ h \in Frames /\ h.word = word /\ h.ors = g.ors /\ h.ands = g.ands \cap x
        /\ h.not = FALSE /\ h.ended = TRUE
    BY <1>4, <1>5
  <2> HIDE DEF h, x
  <2>5. HasRead(h, word, A, list, rows, i + 1)
    BY <1>1, <2>1, <2>2, <2>3, <2>4 DEF HasRead
  <2>6. QED BY <1>6, <2>5 DEF h, x
<1>7. CASE list[i + 1].join = "OR"
  <2>1. i + 1 \in Starts(list)
    BY <1>7 DEF Starts
  <2>2. \A m \in (i + 1) + 1 .. i + 1 : list[m].join = "AND"
    BY <1>3
  <2>3. EveryRow \cap x = Whole(A, rows, i + 1, i + 1)
    <3>1. i + 1 # 1 /\ (i + 1) .. (i + 1) = {i + 1}
      BY <1>3
    <3>2. QED BY <3>1 DEF Whole
  <2>4. Holds(g) = Earlier(A, list, rows, i + 1)
    <3>1. Earlier(A, list, rows, i + 1) = Earlier(A, list, rows, s) \cup Whole(A, rows, s, i)
      <4>1. Ended(A, list, rows, s, i)
        BY <1>1, <1>7, AlternativeEnds
      <4>2. QED BY <4>1 DEF Ended
    <3>2. QED BY <1>1, <3>1 DEF Holds
  <2> DEFINE h == Factor(Alternative(g), x)
  <2>5. /\ h \in Frames /\ h.word = word /\ h.ors = Holds(g) /\ h.ands = EveryRow \cap x
        /\ h.not = FALSE /\ h.ended = TRUE
    BY <1>4, <1>5
  <2>6. i + 1 <= i + 1
    BY <1>3
  <2> HIDE DEF h, x
  <2>7. HasRead(h, word, A, list, rows, i + 1)
    BY <2>1, <2>2, <2>3, <2>4, <2>5, <2>6 DEF HasRead
  <2>8. QED BY <1>7, <2>7 DEF h, x
<1>8. QED BY <1>6, <1>7

\* The last condition.
LEMMA AllRead ==
  ASSUME NEW list, IsList(list), NEW rows, NEW A, NEW word, NEW g,
         NEW n \in DOMAIN list, n = Len(list), HasRead(g, word, A, list, rows, n)
  PROVE  Holds(g) = ChainFrom(A, list, rows)
<1>1. PICK s \in Starts(list) :
        /\ s <= n /\ \A m \in s + 1 .. n : list[m].join = "AND"
        /\ g.ands = Whole(A, rows, s, n) /\ g.ors = Earlier(A, list, rows, s)
  BY DEF HasRead
<1>2. Ended(A, list, rows, s, n)
  BY <1>1, AlternativeEnds
<1>3. QED BY <1>1, <1>2 DEF Holds, ChainFrom, Ended

\* A chain without condition on the first one is Chain, and one without OR has
\* the condition for all.
LEMMA ChainIs ==
  ASSUME NEW list, IsList(list), list # <<>>, NEW rows, NEW A
  PROVE  /\ ChainFrom(EveryRow, list, rows) = Chain(list, rows)
         /\ NoOr(list) => ChainFrom(A, list, rows) = A \cap Chain(list, rows)
<1> DEFINE Part2(j) == Common({rows[k] : k \in JoinedTo(list, j)})
<1>1. Len(list) \in Nat /\ DOMAIN list = 1 .. Len(list) /\ 1 \in DOMAIN list
  BY DEF IsList
<1>2. Chain(list, rows) = UNION {Part2(j) : j \in Starts(list)}
  BY DEF Chain, Starts
<1>3. \A row \in EveryRow : \A j : row \in Part2(j) <=> \A k \in JoinedTo(list, j) : row \in rows[k]
  BY DEF Common
<1>4. \A j : Part2(j) \subseteq EveryRow
  BY DEF Common
<1> HIDE DEF Part2
<1>5. \A row : row \in Chain(list, rows) <=>
            row \in EveryRow /\ \E j \in Starts(list) : \A k \in JoinedTo(list, j) : row \in rows[k]
  BY <1>2, <1>3, <1>4
<1>6. \A j \in Starts(list) : j < Len(list) + 1
  BY <1>1 DEF Starts
<1>7. ChainFrom(EveryRow, list, rows) = Chain(list, rows)
  BY <1>5, <1>6 DEF ChainFrom, Earlier
<1>8. ASSUME NoOr(list)
      PROVE  ChainFrom(A, list, rows) = A \cap Chain(list, rows)
  <2>1. Starts(list) = {1}
    <3>1. \A j \in Starts(list) : j = 1
      BY <1>1, <1>8 DEF NoOr, Starts
    <3>2. 1 \in Starts(list)
      BY <1>1 DEF Starts
    <3>3. QED BY <3>1, <3>2
  <2>2. QED BY <1>5, <1>6, <2>1 DEF ChainFrom, Earlier
<1>9. QED BY <1>7, <1>8

-----------------------------------------------------------------------------
(* What is written for some parts, whatever is written before and after.   *)

\* Two runs, one after the other.
LEMMA ReachesJoin ==
  ASSUME NEW w, NEW v, NEW u, NEW k \in Nat, NEW l \in Nat, Reaches(w, k, v), Reaches(v, l, u)
  PROVE  Reaches(w, k + l, u)
<1>1. PICK f : IsRun(f, w, "v") /\ f[k] = v
  BY DEF Reaches
<1>2. PICK g : IsRun(g, v, "v") /\ g[l] = u
  BY DEF Reaches
<1>3. f[0] = w /\ \A n \in Nat : f[n + 1] = After(f[n], "v")
  BY <1>1, RunSteps
<1>4. g[0] = v /\ \A n \in Nat : g[n + 1] = After(g[n], "v")
  BY <1>2, RunSteps
<1> DEFINE S == {n \in Nat : f[k + n] = g[n]}
<1>5. 0 \in S
  BY <1>1, <1>4
<1>6. ASSUME NEW n \in Nat, n \in S
      PROVE  n + 1 \in S
  <2>1. k + n \in Nat /\ k + (n + 1) = (k + n) + 1 /\ f[k + n] = g[n]
    BY <1>6
  <2>2. f[(k + n) + 1] = After(f[k + n], "v") /\ g[n + 1] = After(g[n], "v")
    BY <1>3, <1>4, <2>1
  <2>3. QED BY <2>1, <2>2
<1>7. \A n \in Nat : n \in S
  <2> HIDE DEF S
  <2>1. QED BY <1>5, <1>6, Induction
<1>8. f[k + l] = u
  BY <1>2, <1>7
<1>9. QED BY <1>1, <1>8 DEF Reaches

\* No step, and one step.
LEMMA ReachesStep ==
  ASSUME NEW w
  PROVE  /\ Reaches(w, 0, w)
         /\ w.todo # <<>> => Reaches(w, 1, Step(w, "v"))
<1>1. PICK f : IsRun(f, w, "v")
  BY RunExists
<1>2. f[0] = w /\ f[0 + 1] = After(f[0], "v")
  BY <1>1, RunSteps
<1>3. w.todo # <<>> => f[1] = Step(w, "v")
  BY <1>2 DEF After
<1>4. QED BY <1>1, <1>2, <1>3 DEF Reaches

\* What has been written when nothing is left to do is what Written is.
LEMMA WrittenReached ==
  ASSUME NEW acc, NEW parts, NEW r, NEW k \in Nat, k <= MaxParts, Reaches(At(acc, parts), k, At(r, <<>>))
  PROVE  Written(acc, parts, "v") = r
<1> DEFINE w == At(acc, parts)
<1>1. PICK f : IsRun(f, w, "v") /\ \E n \in Nat : /\ n <= MaxParts
                                                  /\ f[n].todo = <<>> \/ n = MaxParts
                                                  /\ Written(acc, parts, "v") = f[n].acc
  BY WrittenIs
<1>2. PICK n \in Nat : n <= MaxParts /\ (f[n].todo = <<>> \/ n = MaxParts) /\ Written(acc, parts, "v") = f[n].acc
  BY <1>1
<1>3. PICK g : IsRun(g, w, "v") /\ g[k] = At(r, <<>>)
  BY DEF Reaches
<1> HIDE DEF w
<1>4. f[0] = w /\ \A m \in Nat : f[m + 1] = After(f[m], "v")
  BY <1>1, RunSteps
<1>5. g[0] = w /\ \A m \in Nat : g[m + 1] = After(g[m], "v")
  BY <1>3, RunSteps
<1> DEFINE S == {m \in Nat : f[m] = g[m]}
<1>6. 0 \in S
  BY <1>4, <1>5
<1>7. ASSUME NEW m \in Nat, m \in S
      PROVE  m + 1 \in S
  BY <1>4, <1>5, <1>7
<1>8. \A m \in Nat : m \in S
  <2> HIDE DEF S
  <2>1. QED BY <1>6, <1>7, Induction
<1>9. f[k] = At(r, <<>>) /\ f[k].todo = <<>> /\ f[k].acc = r
  BY <1>3, <1>8 DEF At
<1>10. CASE n >= k
  <2>1. n - k \in Nat /\ k + (n - k) = n
    BY <1>10
  <2>2. f[k + (n - k)] = f[k]
    BY <1>1, <1>9, <2>1, RunStops
  <2>3. QED BY <1>2, <1>9, <2>1, <2>2
<1>11. CASE n < k
  <2>1. k - n \in Nat /\ n + (k - n) = k /\ n # MaxParts
    BY <1>11, MaxPartsAssumption
  <2>2. f[n].todo = <<>>
    BY <1>2, <2>1
  <2>3. f[n + (k - n)] = f[n]
    BY <1>1, <2>1, <2>2, RunStops
  <2>4. QED BY <1>2, <1>9, <2>1, <2>3
<1>12. QED BY <1>10, <1>11

\* Parts before others.
LEMMA OnwardIs ==
  ASSUME NEW a \in Seq(Parts), NEW b \in Seq(Parts)
  PROVE  /\ Onward(a, b) \in Seq(Parts) /\ Onward(<<>>, b) = b /\ Onward(a, <<>>) = a
         /\ \A c \in Seq(Parts) : Onward(Onward(a, b), c) = Onward(a, Onward(b, c))
BY DEF Onward

\* The first of the parts that are left.
LEMMA FirstOnward ==
  ASSUME NEW p \in Parts, NEW rest \in Seq(Parts)
  PROVE  /\ <<p>> \in Seq(Parts) /\ Onward(<<p>>, rest) \in Seq(Parts) /\ Onward(<<p>>, rest) # <<>>
         /\ Head(Onward(<<p>>, rest)) = p /\ Tail(Onward(<<p>>, rest)) = rest
BY DEF Onward

\* No parts write nothing.
LEMMA WritesNothing ==
  Writes(<<>>, 0, <<>>)
<1>1. ASSUME NEW acc \in Fragments, NEW rest \in Seq(Parts)
      PROVE  \E k \in Nat, r \in Fragments :
                /\ k <= 0 /\ r.sql = acc.sql \o <<>>
                /\ Reaches(At(acc, Onward(<<>>, rest)), k, At(r, rest))
  <2>1. Onward(<<>>, rest) = rest
    BY OnwardIs
  <2>2. acc.sql = acc.sql \o <<>>
    <3>1. acc.sql \in Seq(Tokens)
      BY FragmentParts DEF Texts
    <3>2. \A s \in Seq(Tokens) : s = s \o <<>>
      OBVIOUS
    <3>3. QED BY <3>1, <3>2
  <2>3. Reaches(At(acc, Onward(<<>>, rest)), 0, At(acc, rest))
    BY <2>1, ReachesStep
  <2>4. QED BY <2>2, <2>3
<1>2. <<>> \in Seq(Parts) /\ <<>> \in Texts
  BY DEF Texts
<1>3. QED BY <1>1, <1>2 DEF Writes

\* Parts and then others.
LEMMA WritesJoin ==
  ASSUME NEW p, NEW i, NEW x, NEW q2, NEW j, NEW y, Writes(p, i, x), Writes(q2, j, y)
  PROVE  Writes(Onward(p, q2), i + j, x \o y)
<1>1. p \in Seq(Parts) /\ q2 \in Seq(Parts) /\ i \in Nat /\ j \in Nat /\ x \in Texts /\ y \in Texts
  BY DEF Writes
<1>2. Onward(p, q2) \in Seq(Parts) /\ i + j \in Nat /\ x \o y \in Texts
  BY <1>1, OnwardIs, Concat DEF Texts
<1>3. ASSUME NEW acc \in Fragments, NEW rest \in Seq(Parts)
      PROVE  \E k \in Nat, r \in Fragments :
                /\ k <= i + j /\ r.sql = acc.sql \o (x \o y)
                /\ Reaches(At(acc, Onward(Onward(p, q2), rest)), k, At(r, rest))
  <2>1. Onward(q2, rest) \in Seq(Parts) /\ Onward(Onward(p, q2), rest) = Onward(p, Onward(q2, rest))
    BY <1>1, OnwardIs
  <2>2. PICK k \in Nat, r \in Fragments :
            /\ k <= i /\ r.sql = acc.sql \o x
            /\ Reaches(At(acc, Onward(p, Onward(q2, rest))), k, At(r, Onward(q2, rest)))
    BY <2>1 DEF Writes
  <2>3. PICK l \in Nat, t \in Fragments :
            /\ l <= j /\ t.sql = r.sql \o y
            /\ Reaches(At(r, Onward(q2, rest)), l, At(t, rest))
    BY <2>2 DEF Writes
  <2>4. Reaches(At(acc, Onward(p, Onward(q2, rest))), k + l, At(t, rest))
    BY <2>2, <2>3, ReachesJoin
  <2>5. t.sql = acc.sql \o (x \o y)
    <3>1. acc.sql \in Seq(Tokens)
      BY FragmentParts DEF Texts
    <3>2. \A a, b, c \in Seq(Tokens) : (a \o b) \o c = a \o (b \o c)
      OBVIOUS
    <3>3. (acc.sql \o x) \o y = acc.sql \o (x \o y)
      BY <1>1, <3>1, <3>2 DEF Texts
    <3>4. QED BY <2>2, <2>3, <3>3
  <2>6. k + l \in Nat /\ k + l <= i + j
    BY <1>1, <2>2, <2>3
  <2>7. QED BY <2>1, <2>3, <2>4, <2>5, <2>6
<1>4. QED BY <1>2, <1>3 DEF Writes

\* A bound on the steps may be raised.
LEMMA WritesMore ==
  ASSUME NEW p, NEW i, NEW x, Writes(p, i, x), NEW j \in Nat, i <= j
  PROVE  Writes(p, j, x)
<1>1. p \in Seq(Parts) /\ i \in Nat /\ x \in Texts
  BY DEF Writes
<1>2. ASSUME NEW acc \in Fragments, NEW rest \in Seq(Parts)
      PROVE  \E k \in Nat, r \in Fragments :
                /\ k <= j /\ r.sql = acc.sql \o x
                /\ Reaches(At(acc, Onward(p, rest)), k, At(r, rest))
  <2>1. PICK k \in Nat, r \in Fragments :
            /\ k <= i /\ r.sql = acc.sql \o x
            /\ Reaches(At(acc, Onward(p, rest)), k, At(r, rest))
    BY DEF Writes
  <2>2. k <= j
    BY <1>1, <2>1
  <2>3. QED BY <2>1, <2>2
<1>3. QED BY <1>1, <1>2 DEF Writes

\* What is written when a part is written at once.
LEMMA WritesOne ==
  ASSUME NEW p \in Parts, NEW x \in Texts,
         \A acc \in Fragments, rest \in Seq(Parts) : \E r \in Fragments :
            r.sql = acc.sql \o x /\ Step(At(acc, Onward(<<p>>, rest)), "v") = At(r, rest)
  PROVE  Writes(<<p>>, 1, x)
<1>1. ASSUME NEW acc \in Fragments, NEW rest \in Seq(Parts)
      PROVE  \E k \in Nat, r \in Fragments :
                /\ k <= 1 /\ r.sql = acc.sql \o x
                /\ Reaches(At(acc, Onward(<<p>>, rest)), k, At(r, rest))
  <2>1. PICK r \in Fragments : r.sql = acc.sql \o x /\ Step(At(acc, Onward(<<p>>, rest)), "v") = At(r, rest)
    OBVIOUS
  <2>2. At(acc, Onward(<<p>>, rest)).todo # <<>>
    BY FirstOnward DEF At
  <2>3. Reaches(At(acc, Onward(<<p>>, rest)), 1, At(r, rest))
    BY <2>1, <2>2, ReachesStep
  <2>4. 1 \in Nat /\ 1 <= 1
    OBVIOUS
  <2>5. QED BY <2>1, <2>3, <2>4, Zenon
<1>2. <<p>> \in Seq(Parts) /\ 1 \in Nat
  OBVIOUS
<1>3. QED BY <1>1, <1>2, Zenon DEF Writes

\* What is written when a part puts a text and leaves others in its place.
LEMMA WritesMoreParts ==
  ASSUME NEW p \in Parts, NEW parts, NEW bound, NEW x, Writes(parts, bound, x), NEW text \in Texts,
         \A acc \in Fragments, rest \in Seq(Parts) :
            Step(At(acc, Onward(<<p>>, rest)), "v") = At(Put(acc, text), Onward(parts, rest))
  PROVE  Writes(<<p>>, bound + 1, text \o x)
<1>1. parts \in Seq(Parts) /\ bound \in Nat /\ x \in Texts
  BY DEF Writes
<1>2. <<p>> \in Seq(Parts) /\ bound + 1 \in Nat /\ text \o x \in Texts
  BY <1>1, Concat DEF Texts
<1>3. ASSUME NEW acc \in Fragments, NEW rest \in Seq(Parts)
      PROVE  \E k \in Nat, r \in Fragments :
                /\ k <= bound + 1 /\ r.sql = acc.sql \o (text \o x)
                /\ Reaches(At(acc, Onward(<<p>>, rest)), k, At(r, rest))
  <2>1. Put(acc, text) \in Fragments /\ Put(acc, text).sql = acc.sql \o text
    <3>1. Put(acc, text) \in Fragments
      BY PutTypes
    <3>2. QED BY <3>1 DEF Put, Fragment
  <2>2. At(acc, Onward(<<p>>, rest)).todo # <<>>
    BY FirstOnward DEF At
  <2>3. Reaches(At(acc, Onward(<<p>>, rest)), 1, At(Put(acc, text), Onward(parts, rest)))
    BY <2>2, ReachesStep
  <2>4. PICK k \in Nat, r \in Fragments :
            /\ k <= bound /\ r.sql = Put(acc, text).sql \o x
            /\ Reaches(At(Put(acc, text), Onward(parts, rest)), k, At(r, rest))
    BY <2>1 DEF Writes
  <2>5. Reaches(At(acc, Onward(<<p>>, rest)), 1 + k, At(r, rest))
    BY <2>3, <2>4, ReachesJoin
  <2>6. r.sql = acc.sql \o (text \o x)
    <3>1. acc.sql \in Seq(Tokens)
      BY FragmentParts DEF Texts
    <3>2. \A a, b, c \in Seq(Tokens) : (a \o b) \o c = a \o (b \o c)
      OBVIOUS
    <3>3. (acc.sql \o text) \o x = acc.sql \o (text \o x)
      BY <1>1, <3>1, <3>2 DEF Texts
    <3>4. QED BY <2>1, <2>4, <3>3
  <2>7. 1 + k \in Nat /\ 1 + k <= bound + 1
    BY <1>1, <2>4
  <2>8. QED BY <2>5, <2>6, <2>7
<1>4. QED BY <1>2, <1>3 DEF Writes

\* A text alone.
LEMMA WritesWord ==
  ASSUME NEW text \in Texts
  PROVE  Word(text) \in Parts /\ Writes(<<Word(text)>>, 1, text)
<1> DEFINE p == Word(text)
<1>1. p \in Parts /\ p.kind = "word" /\ p.text = text
  BY DEF Word, Part, Parts
<1> HIDE DEF p
<1>2. ASSUME NEW acc \in Fragments, NEW rest \in Seq(Parts)
      PROVE  \E r \in Fragments : r.sql = acc.sql \o text /\ Step(At(acc, Onward(<<p>>, rest)), "v") = At(r, rest)
  <2> DEFINE w == At(acc, Onward(<<p>>, rest))
  <2>1. Now(w) = p /\ Rest(w) = rest /\ Added(w) = Put(acc, text)
    BY <1>1, FirstOnward DEF Now, Rest, Added, At
  <2> HIDE DEF w
  <2>2. Step(w, "v") = At(Put(acc, text), rest)
    BY <1>1, <2>1, StepIs
  <2>3. Put(acc, text) \in Fragments /\ Put(acc, text).sql = acc.sql \o text
    <3>1. Put(acc, text) \in Fragments
      BY PutTypes
    <3>2. QED BY <3>1 DEF Put, Fragment
  <2>4. QED BY <2>2, <2>3 DEF w
<1>3. Writes(<<p>>, 1, text)
  BY <1>1, <1>2, WritesOne
<1>4. QED BY <1>1, <1>3 DEF p

\* A condition or an expression that is a token with its values.
LEMMA WritesLeaf ==
  ASSUME NEW kind2 \in {"cond", "expr"}, NEW text \in Texts, NEW c \in Nodes,
         IF kind2 = "cond" THEN CondIsLeaf(c) ELSE ExprIsLeaf(c)
  PROVE  /\ Part(kind2, text, c) \in Parts /\ TokenOf(c) \in Tokens
         /\ Writes(<<Part(kind2, text, c)>>, 1, text \o <<TokenOf(c)>>)
<1> DEFINE p == Part(kind2, text, c)
           tok == TokenOf(c)
<1>1. p \in Parts /\ p.kind = kind2 /\ p.text = text /\ p.node = c
  BY DEF Part, Parts
<1>2. c.op \in Names /\ c.col \in Names /\ c.vals \in Seq(Values) /\ Operator("v", c.op) = c.op
  BY OperatorIsName
<1>3. tok \in Tokens
  <2> DEFINE args == [i \in DOMAIN c.vals |-> <<"v", c.vals[i]>>]
  <2>1. \A i \in 1 .. Len(c.vals) : args[i] \in Slots
    <3>1. \A v \in Values : <<"v", v>> \in Slots
      BY DEF Slots, Literals
    <3>2. QED BY <1>2, <3>1
  <2>2. args \in Seq(Slots)
    <3>1. DOMAIN args = DOMAIN c.vals /\ args = [i \in DOMAIN c.vals |-> args[i]]
      OBVIOUS
    <3> HIDE DEF args
    <3>2. QED BY <1>2, <2>1, <3>1, MadeSeq
  <2> HIDE DEF args
  <2>3. Leaf(c.op, c.col, args) \in Tokens
    BY <1>2, <2>2 DEF Leaf, Tokens
  <2>4. QED BY <2>3 DEF TokenOf, args
<1>4. <<tok>> \in Texts /\ text \o <<tok>> \in Texts
  BY <1>3, Concat DEF Texts
<1> HIDE DEF p
<1>5. ASSUME NEW acc \in Fragments, NEW rest \in Seq(Parts)
      PROVE  \E r \in Fragments : r.sql = acc.sql \o (text \o <<tok>>) /\ Step(At(acc, Onward(<<p>>, rest)), "v") = At(r, rest)
  <2> DEFINE w == At(acc, Onward(<<p>>, rest))
             a == Put(acc, text)
             r == PutLeaf(a, c.op, c.col, c.vals, "v")
  <2>1. Now(w) = p /\ Rest(w) = rest /\ Added(w) = a
    BY <1>1, FirstOnward DEF Now, Rest, Added, At
  <2>2. Step(w, "v") = At(r, rest)
    <3> HIDE DEF w, a
    <3>1. CASE kind2 = "cond"
      BY <1>1, <1>2, <2>1, <3>1, StepIs
    <3>2. CASE kind2 = "expr"
      BY <1>1, <1>2, <2>1, <3>2, StepIs
    <3>3. QED BY <3>1, <3>2
  <2>3. a \in Fragments /\ a.sql = acc.sql \o text
    <3>1. Put(acc, text) \in Fragments
      BY PutTypes
    <3>2. QED BY <3>1 DEF Put, Fragment
  <2> HIDE DEF a
  <2>4. r \in Fragments
    <3>1. "v" \in Kinds
      BY DEF Kinds
    <3>2. QED BY <1>2, <2>3, <3>1, PutTypes
  <2>5. r.sql = Append(a.sql, tok)
    <3>1. \A n, v : Slot("v", n, v) = <<"v", v>>
      BY SlotIs
    <3>2. [i \in DOMAIN c.vals |-> Slot("v", Len(a.ps) + i, c.vals[i])] = [i \in DOMAIN c.vals |-> <<"v", c.vals[i]>>]
      BY <3>1
    <3>3. r.sql = Append(a.sql, Leaf(c.op, c.col, [i \in DOMAIN c.vals |-> Slot("v", Len(a.ps) + i, c.vals[i])]))
      BY DEF PutLeaf, Fragment
    <3>4. QED BY <3>2, <3>3, Zenon DEF TokenOf
  <2>6. Append(a.sql, tok) = acc.sql \o (text \o <<tok>>)
    <3>1. acc.sql \in Seq(Tokens) /\ text \in Seq(Tokens)
      BY FragmentParts DEF Texts
    <3>2. \A s \in Seq(Tokens) : \A t \in Tokens : Append(s, t) = s \o <<t>>
      OBVIOUS
    <3>3. \A s, u, v \in Seq(Tokens) : (s \o u) \o v = s \o (u \o v)
      OBVIOUS
    <3> HIDE DEF tok
    <3>4. <<tok>> \in Seq(Tokens) /\ acc.sql \o text \in Seq(Tokens)
      BY <1>3, <3>1
    <3>5. Append(a.sql, tok) = (acc.sql \o text) \o <<tok>>
      BY <1>3, <2>3, <3>2, <3>4
    <3>6. (acc.sql \o text) \o <<tok>> = acc.sql \o (text \o <<tok>>)
      BY <3>1, <3>3, <3>4
    <3>7. QED BY <3>5, <3>6
  <2> HIDE DEF r, w
  <2>7. QED BY <2>2, <2>4, <2>5, <2>6 DEF w
<1> HIDE DEF tok
<1>6. Writes(<<p>>, 1, text \o <<tok>>)
  BY <1>1, <1>4, <1>5, WritesOne
<1>7. QED BY <1>1, <1>3, <1>6 DEF p, tok

\* A condition or an expression that has parts.
LEMMA WritesInside ==
  ASSUME NEW kind2 \in {"cond", "expr"}, NEW text \in Texts, NEW c \in Nodes, NEW bound, NEW x,
         IF kind2 = "cond" THEN ~CondIsLeaf(c) /\ Writes(CondParts(c), bound, x)
                           ELSE ~ExprIsLeaf(c) /\ Writes(ExprParts(c), bound, x)
  PROVE  Writes(<<Part(kind2, text, c)>>, bound + 1, text \o x)
<1> DEFINE p == Part(kind2, text, c)
           parts == IF kind2 = "cond" THEN CondParts(c) ELSE ExprParts(c)
<1>1. p \in Parts /\ p.kind = kind2 /\ p.text = text /\ p.node = c
  BY DEF Part, Parts
<1> HIDE DEF p
<1>2. Writes(parts, bound, x)
  OBVIOUS
<1>3. ASSUME NEW acc \in Fragments, NEW rest \in Seq(Parts)
      PROVE  Step(At(acc, Onward(<<p>>, rest)), "v") = At(Put(acc, text), Onward(parts, rest))
  <2> DEFINE w == At(acc, Onward(<<p>>, rest))
  <2>1. Now(w) = p /\ Rest(w) = rest /\ Added(w) = Put(acc, text)
    BY <1>1, FirstOnward DEF Now, Rest, Added, At
  <2> HIDE DEF w
  <2>2. CASE kind2 = "cond"
    <3>1. Step(w, "v") = At(Added(w), CondParts(Now(w).node) \o Rest(w))
      BY <1>1, <2>1, <2>2, StepIs
    <3>2. parts = CondParts(Now(w).node)
      BY <1>1, <2>1, <2>2
    <3>3. QED BY <2>1, <3>1, <3>2 DEF w, Onward
  <2>3. CASE kind2 = "expr"
    <3>1. Step(w, "v") = At(Added(w), ExprParts(Now(w).node) \o Rest(w))
      BY <1>1, <2>1, <2>3, StepIs
    <3>2. parts = ExprParts(Now(w).node)
      BY <1>1, <2>1, <2>3
    <3>3. QED BY <2>1, <3>1, <3>2 DEF w, Onward
  <2>4. QED BY <2>2, <2>3
<1> HIDE DEF parts
<1>4. Writes(<<p>>, bound + 1, text \o x)
  BY <1>1, <1>2, <1>3, WritesMoreParts
<1>5. QED BY <1>4 DEF p

-----------------------------------------------------------------------------
(* The text of a chain of conditions or expressions, and what it reads as. *)

\* A list of conditions, place by place.
LEMMA ListIs ==
  ASSUME NEW list, IsList(list)
  PROVE  /\ Len(list) \in Nat /\ DOMAIN list = 1 .. Len(list) /\ list \in CondsOf(Nodes)
         /\ \A i \in DOMAIN list : list[i].join \in {"AND", "OR"} /\ list[i].cond \in Nodes
<1> DEFINE T == [join : {"AND", "OR"}, cond : Nodes]
<1>1. list \in Seq(T)
  BY DEF IsList
<1>2. \A i \in DOMAIN list : list[i] \in T
  <2> HIDE DEF T
  <2>1. QED BY <1>1
<1>3. Len(list) \in Nat /\ DOMAIN list = 1 .. Len(list)
  BY <1>1
<1>4. list \in CondsOf(Nodes)
  <2> DEFINE U == [join : Names, cond : Nodes]
  <2>1. T \subseteq U
    BY Known DEF Keywords
  <2>2. CondsOf(Nodes) = Seq(U)
    BY DEF CondsOf
  <2> HIDE DEF T, U
  <2>3. Seq(T) \subseteq Seq(U)
    BY <2>1, SeqGrows
  <2>4. QED BY <1>1, <2>2, <2>3
<1>5. QED BY <1>2, <1>3, <1>4

\* The words of a WHERE are tokens.
LEMMA WordsOfWhere ==
  /\ \A k \in Keywords : Tok(k) \in Tokens /\ <<Tok(k)>> \in Texts /\ Tok(k).t = k
  /\ {"AND", "OR", "NOT", "(", ")", "EXISTS", "NOT EXISTS", "FK", "TRUE", "FALSE", "WHERE"} \subseteq Keywords
<1>1. \A k \in Keywords : Tok(k) \in Tokens /\ <<Tok(k)>> \in Texts
  <2>1. ASSUME NEW k \in Keywords
        PROVE  Tok(k) \in Tokens /\ <<Tok(k)>> \in Texts
    <3>1. Tok(k) \in Words
      BY Known, TokIsWord
    <3>2. Tok(k) \in Tokens
      BY <3>1 DEF Words
    <3>3. QED BY <3>2 DEF Texts
  <2>2. QED BY <2>1
<1>2. \A k : Tok(k).t = k
  BY DEF Tok, Leaf
<1>3. {"AND", "OR", "NOT", "(", ")", "EXISTS", "NOT EXISTS", "FK", "TRUE", "FALSE", "WHERE"} \subseteq Keywords
  BY DEF Keywords
<1>4. QED BY <1>1, <1>2, <1>3

\* Parts after parts.
LEMMA PartsJoined ==
  ASSUME NEW x \in Seq(Parts), NEW y \in Seq(Parts)
  PROVE  /\ x \o y \in Seq(Parts) /\ Len(x \o y) = Len(x) + Len(y)
         /\ \A k \in 1 .. Len(x) : (x \o y)[k] = x[k]
         /\ \A k \in 1 .. Len(y) : (x \o y)[Len(x) + k] = y[k]
OBVIOUS

\* The parts of a list, place by place.
LEMMA StrungIs ==
  ASSUME NEW kind2 \in {"cond", "expr"}, NEW list, IsList(list), NEW first \in Texts,
         NEW u, u = Strung(kind2, list, first)
  PROVE  /\ u \in Seq(Parts) /\ Len(u) = Len(list)
         /\ SubSeq(u, 1, 0) = <<>> /\ SubSeq(u, 1, Len(list)) = u
         /\ \A i \in 1 .. Len(list) :
                /\ u[i] \in Parts
                /\ u[i] = Part(kind2, IF i = 1 THEN first ELSE <<Tok(list[i].join)>>, list[i].cond)
         /\ \A i \in 0 .. Len(list) - 1 :
                /\ SubSeq(u, 1, i) \in Seq(Parts)
                /\ SubSeq(u, 1, i + 1) = Onward(SubSeq(u, 1, i), <<u[i + 1]>>)
<1> DEFINE s == Strung(kind2, list, first)
           T == [join : {"AND", "OR"}, cond : Nodes]
<1>1. /\ list \in Seq(T) /\ Len(list) \in Nat /\ DOMAIN list = 1 .. Len(list)
      /\ \A i \in DOMAIN list : list[i].join \in {"AND", "OR"} /\ list[i].cond \in Nodes
  BY ListIs DEF IsList
<1>2. ASSUME NEW i \in 1 .. Len(list)
      PROVE  /\ s[i] \in Parts
             /\ s[i] = Part(kind2, IF i = 1 THEN first ELSE <<Tok(list[i].join)>>, list[i].cond)
  <2> DEFINE text == IF i = 1 THEN first ELSE <<Tok(list[i].join)>>
  <2>1. text \in Texts
    <3>1. list[i].join \in {"AND", "OR"}
      BY <1>1
    <3>2. <<Tok(list[i].join)>> \in Texts
      BY <3>1, WordsOfWhere
    <3>3. QED BY <3>2
  <2>2. s[i] = Part(kind2, text, list[i].cond)
    BY <1>1 DEF Strung
  <2> HIDE DEF text
  <2>3. Part(kind2, text, list[i].cond) \in Parts
    BY <1>1, <2>1 DEF Part, Parts
  <2>4. QED BY <2>2, <2>3 DEF text
<1>3. s \in Seq(Parts) /\ Len(s) = Len(list)
  <2>1. DOMAIN s = DOMAIN list /\ s = [i \in DOMAIN list |-> s[i]]
    BY DEF Strung
  <2> HIDE DEF s
  <2>2. QED BY <1>1, <1>2, <2>1, MadeSeq
<1> HIDE DEF s
<1>4. SubSeq(s, 1, 0) = <<>> /\ SubSeq(s, 1, Len(list)) = s
  <2>1. \A t \in Seq(Parts) : SubSeq(t, 1, 0) = <<>>
    OBVIOUS
  <2>2. \A t \in Seq(Parts) : SubSeq(t, 1, Len(t)) = t
    OBVIOUS
  <2>3. QED BY <1>3, <2>1, <2>2
<1>5. ASSUME NEW i \in 0 .. Len(list) - 1
      PROVE  /\ SubSeq(s, 1, i) \in Seq(Parts)
             /\ SubSeq(s, 1, i + 1) = Onward(SubSeq(s, 1, i), <<s[i + 1]>>)
  <2>1. i + 1 \in 1 .. Len(s) /\ i \in Nat /\ Len(s) \in Nat
    BY <1>1, <1>3
  <2> DEFINE a == SubSeq(s, 1, i)
             b == <<s[i + 1]>>
             w == SubSeq(s, 1, i + 1)
  <2>2. a \in Seq(Parts) /\ Len(a) = i /\ \A k \in 1 .. i : a[k] = s[k]
    BY <1>3, <2>1
  <2>3. w \in Seq(Parts) /\ Len(w) = i + 1 /\ \A k \in 1 .. i + 1 : w[k] = s[k]
    BY <1>3, <2>1
  <2>4. b \in Seq(Parts) /\ Len(b) = 1 /\ b[1] = s[i + 1]
    BY <1>2, <1>3, <2>1
  <2> HIDE DEF a, b, w
  <2>5. /\ a \o b \in Seq(Parts) /\ Len(a \o b) = i + 1
        /\ \A k \in 1 .. i : (a \o b)[k] = a[k]
        /\ (a \o b)[i + 1] = b[1]
    <3>1. /\ a \o b \in Seq(Parts) /\ Len(a \o b) = Len(a) + Len(b)
          /\ \A k \in 1 .. Len(a) : (a \o b)[k] = a[k]
          /\ \A k \in 1 .. Len(b) : (a \o b)[Len(a) + k] = b[k]
      BY <2>2, <2>4, PartsJoined
    <3>2. 1 \in 1 .. Len(b)
      BY <2>4
    <3>3. (a \o b)[Len(a) + 1] = b[1]
      BY <3>1, <3>2
    <3>4. QED BY <2>1, <2>2, <2>4, <3>1, <3>3
  <2>6. \A k \in 1 .. i + 1 : w[k] = (a \o b)[k]
    <3>1. \A k \in 1 .. i + 1 : k \in 1 .. i \/ k = i + 1
      BY <2>1
    <3>2. QED BY <2>2, <2>3, <2>4, <2>5, <3>1
  <2> DEFINE ab == a \o b
  <2>7. ab \in Seq(Parts) /\ Len(ab) = Len(w) /\ \A k \in 1 .. Len(w) : w[k] = ab[k]
    BY <2>3, <2>5, <2>6
  <2> HIDE DEF ab
  <2>8. w = ab
    BY <2>3, <2>7, SeqSame
  <2>9. QED BY <2>2, <2>8 DEF a, b, w, ab, Onward
<1>6. QED BY <1>2, <1>3, <1>4, <1>5 DEF s

\* A chain is written condition by condition, and read from left to right.
LEMMA ChainSays ==
  ASSUME NEW kind2 \in {"cond", "expr"}, NEW list, IsList(list), list # <<>>, NEW rows, NEW bound \in Nat,
         \A k \in 1 .. Len(list) : Says(kind2, list[k].cond, rows[k], bound),
         NEW first \in Texts, NEW h \in Frames, ~h.ended, ~h.not, h.ors = {}
  PROVE  \E y \in Texts, g \in Frames :
            /\ Writes(Strung(kind2, list, first), Len(list) * bound, first \o y)
            /\ Turns(y, h, g) /\ HasRead(g, h.word, h.ands, list, rows, Len(list))
<1> DEFINE s == Strung(kind2, list, first)
           n == Len(list)
           Up(i) == SubSeq(s, 1, i)
           Ok(i) == \E y \in Texts, g \in Frames :
                        /\ Writes(Up(i), i * bound, first \o y)
                        /\ Turns(y, h, g) /\ HasRead(g, h.word, h.ands, list, rows, i)
<1>1. /\ n \in Nat /\ n # 0 /\ DOMAIN list = 1 .. n
      /\ \A i \in 1 .. n : list[i].join \in {"AND", "OR"}
  <2>1. Len(list) \in Nat /\ DOMAIN list = 1 .. Len(list)
        /\ \A i \in DOMAIN list : list[i].join \in {"AND", "OR"}
    BY ListIs
  <2>2. Len(list) # 0
    BY DEF IsList
  <2>3. QED BY <2>1, <2>2
<1>2. /\ s \in Seq(Parts) /\ Up(0) = <<>> /\ Up(n) = s
      /\ \A i \in 1 .. n :
            /\ s[i] \in Parts
            /\ s[i] = Part(kind2, IF i = 1 THEN first ELSE <<Tok(list[i].join)>>, list[i].cond)
      /\ \A i \in 0 .. n - 1 : Up(i) \in Seq(Parts) /\ Up(i + 1) = Onward(Up(i), <<s[i + 1]>>)
  <2>1. s = Strung(kind2, list, first)
    OBVIOUS
  <2> HIDE DEF s
  <2>2. QED BY <2>1, StrungIs
<1> HIDE DEF s, Up
<1>3. \A i \in 1 .. n : rows[i] \in SUBSET EveryRow
  BY DEF Says
<1>4. Ok(1)
  <2>1. 1 \in 1 .. n /\ 0 \in 0 .. n - 1
    BY <1>1
  <2>2. s[1] \in Parts /\ s[1] = Part(kind2, first, list[1].cond)
    BY <1>2, <2>1
  <2>3. Up(1) = <<s[1]>>
    <3>1. Up(0 + 1) = Onward(Up(0), <<s[0 + 1]>>)
      BY <1>2, <2>1
    <3>2. Onward(<<>>, <<s[1]>>) = <<s[1]>>
      <4>1. <<s[1]>> \in Seq(Parts)
        BY <2>2
      <4>2. <<>> \in Seq(Parts)
        OBVIOUS
      <4>3. QED BY <4>1, <4>2, OnwardIs
    <3>3. QED BY <1>2, <3>1, <3>2
  <2>4. Says(kind2, list[1].cond, rows[1], bound)
    BY <2>1
  <2>5. PICK y \in Texts : Reading(y, rows[1]) /\ Writes(<<Part(kind2, first, list[1].cond)>>, bound, first \o y)
    BY <2>4 DEF Says
  <2>6. Turns(y, h, Factor(h, rows[1]))
    BY <2>5 DEF Reading
  <2>7. HasRead(Factor(h, rows[1]), h.word, h.ands, list, rows, 1)
    BY <1>3, <2>1, FirstRead
  <2>8. Writes(Up(1), 1 * bound, first \o y)
    BY <2>2, <2>3, <2>5
  <2>9. Factor(h, rows[1]) \in Frames
    BY <2>6 DEF Turns
  <2>10. QED BY <2>5, <2>6, <2>7, <2>8, <2>9
<1>5. ASSUME NEW i \in 1 .. n, i + 1 \in 1 .. n, Ok(i)
      PROVE  Ok(i + 1)
  <2>1. PICK y \in Texts, g \in Frames :
            /\ Writes(Up(i), i * bound, first \o y)
            /\ Turns(y, h, g) /\ HasRead(g, h.word, h.ands, list, rows, i)
    BY <1>5
  <2>2. Says(kind2, list[i + 1].cond, rows[i + 1], bound)
    BY <1>5
  <2> DEFINE tok == Tok(list[i + 1].join)
             c == list[i + 1].cond
  <2>3. PICK x \in Texts : /\ Reading(x, rows[i + 1])
                           /\ \A text \in Texts : Writes(<<Part(kind2, text, c)>>, bound, text \o x)
    BY <2>2 DEF Says
  <2>4. /\ list[i + 1].join \in {"AND", "OR"}
        /\ tok \in Tokens /\ <<tok>> \in Texts /\ tok.t = list[i + 1].join
    <3>1. list[i + 1].join \in {"AND", "OR"}
      BY <1>1, <1>5
    <3>2. QED BY <3>1, WordsOfWhere
  <2>5. s[i + 1] = Part(kind2, <<tok>>, c) /\ Up(i + 1) = Onward(Up(i), <<s[i + 1]>>)
    <3>1. i + 1 # 1 /\ i \in 0 .. n - 1
      BY <1>1, <1>5
    <3>2. QED BY <1>2, <1>5, <3>1
  <2> DEFINE h2 == IF list[i + 1].join = "AND" THEN Continued(g) ELSE Alternative(g)
             g2 == Factor(h2, rows[i + 1])
             y2 == y \o (<<tok>> \o x)
  <2>6. g.ended
    BY <2>1 DEF HasRead
  <2>7. h2 \in Frames /\ ~h2.ended
    <3>1. /\ Continued(g) \in Frames /\ Alternative(g) \in Frames
          /\ ~Continued(g).ended /\ ~Alternative(g).ended
      BY NotEnded
    <3>2. QED BY <3>1
  <2>8. Turns(<<tok>>, g, h2)
    <3> HIDE DEF tok
    <3>1. QED BY <2>4, <2>6, TurnsWord
  <2>9. HasRead(g2, h.word, h.ands, list, rows, i + 1)
    <3>1. i \in DOMAIN list /\ i + 1 \in DOMAIN list /\ rows[i + 1] \in SUBSET EveryRow
      BY <1>1, <1>3, <1>5
    <3>2. CASE list[i + 1].join = "AND"
      BY <2>1, <3>1, <3>2, NextRead
    <3>3. CASE list[i + 1].join = "OR"
      BY <2>1, <3>1, <3>3, NextRead
    <3>4. QED BY <2>4, <3>2, <3>3
  <2> HIDE DEF h2
  <2>10. Turns(x, h2, g2)
    BY <2>3, <2>7 DEF Reading
  <2>11. g2 \in Frames
    BY <2>10 DEF Turns
  <2> HIDE DEF g2, tok, c
  <2>12. Turns(y2, h, g2)
    <3>1. Turns(<<tok>> \o x, g, g2)
      BY <2>8, <2>10, TurnsJoin
    <3>2. QED BY <2>1, <3>1, TurnsJoin
  <2>13. y2 \in Texts
    BY <2>12 DEF Turns
  <2>14. Writes(Up(i + 1), (i + 1) * bound, first \o y2)
    <3>1. Writes(<<s[i + 1]>>, bound, <<tok>> \o x)
      BY <2>3, <2>4, <2>5
    <3>2. Writes(Onward(Up(i), <<s[i + 1]>>), i * bound + bound, (first \o y) \o (<<tok>> \o x))
      BY <2>1, <3>1, WritesJoin
    <3>3. i * bound + bound = (i + 1) * bound
      BY <1>1
    <3>4. (first \o y) \o (<<tok>> \o x) = first \o y2
      <4> DEFINE z == <<tok>> \o x
      <4>1. z \in Seq(Tokens)
        BY <2>4, Concat DEF Texts
      <4> HIDE DEF z
      <4>2. \A a, b, d \in Seq(Tokens) : (a \o b) \o d = a \o (b \o d)
        OBVIOUS
      <4>3. (first \o y) \o z = first \o (y \o z)
        BY <4>1, <4>2 DEF Texts
      <4>4. QED BY <4>3 DEF z
    <3>5. QED BY <2>5, <3>2, <3>3, <3>4
  <2> HIDE DEF y2
  <2>15. QED BY <2>9, <2>11, <2>12, <2>13, <2>14
<1> HIDE DEF Ok
<1> DEFINE S == {i \in Nat : i + 1 <= n => Ok(i + 1)}
<1>6. 0 \in S
  BY <1>4
<1>7. ASSUME NEW i \in Nat, i \in S
      PROVE  i + 1 \in S
  <2>1. CASE (i + 1) + 1 <= n
    <3>1. i + 1 \in 1 .. n /\ (i + 1) + 1 \in 1 .. n /\ i + 1 <= n
      BY <1>1, <2>1
    <3>2. Ok(i + 1)
      BY <1>7, <3>1
    <3>3. Ok((i + 1) + 1)
      BY <1>5, <3>1, <3>2
    <3>4. QED BY <3>3
  <2>2. QED BY <2>1
<1>8. \A i \in Nat : i \in S
  <2> HIDE DEF S
  <2>1. QED BY <1>6, <1>7, Induction
<1>9. Ok(n)
  <2>1. n - 1 \in Nat /\ (n - 1) + 1 = n
    BY <1>1
  <2>2. n - 1 \in S
    BY <1>8, <2>1
  <2>3. QED BY <2>1, <2>2
<1>10. PICK y \in Texts, g \in Frames :
            /\ Writes(Up(n), n * bound, first \o y)
            /\ Turns(y, h, g) /\ HasRead(g, h.word, h.ands, list, rows, n)
  BY <1>9 DEF Ok
<1>11. QED BY <1>2, <1>10 DEF s

-----------------------------------------------------------------------------
(* What the conditions and expressions say, one level of them on the next. *)

\* More steps than needed.
LEMMA SaysMore ==
  ASSUME NEW kind2, NEW c, NEW x, NEW i, Says(kind2, c, x, i), NEW j \in Nat, i <= j
  PROVE  Says(kind2, c, x, j)
<1>1. PICK y \in Texts : Reading(y, x) /\ \A text \in Texts : Writes(<<Part(kind2, text, c)>>, i, text \o y)
  BY DEF Says
<1>2. \A text \in Texts : Writes(<<Part(kind2, text, c)>>, j, text \o y)
  BY <1>1, WritesMore
<1>3. QED BY <1>1, <1>2 DEF Says

\* The operators that say something of a row are no others.
LEMMA OperatorsApart ==
  ASSUME NEW op \in Comparisons
  PROVE  /\ op \notin {"RAW", "GROUP", "EXISTS", "NOT EXISTS", "AND", "OR", "NOT", "CASE", "WHEN", "ROW"}
         /\ op \notin Logic /\ op \notin Subqueries
BY DEF Comparisons, Logic, Subqueries

\* An empty list is nothing or all (EmptyList).
LEMMA EmptyRows ==
  ASSUME NEW c, c.op \in ListOps, c.vals = <<>>
  PROVE  LeafRows(Tok(EmptyList(c.op))) = LeafRows(TokenOf(c))
<1> DEFINE tok == Tok(EmptyList(c.op))
<1>1. tok.t = EmptyList(c.op)
  BY DEF Tok, Leaf
<1>2. TokenOf(c).t = c.op /\ TokenOf(c).args = <<>>
  BY DEF TokenOf, Leaf
<1>3. \A row : LeafHolds(tok, row) <=> LeafHolds(TokenOf(c), row)
  <2>1. SUFFICES ASSUME NEW row PROVE LeafHolds(tok, row) <=> LeafHolds(TokenOf(c), row)
    OBVIOUS
  <2> DEFINE v == [i \in DOMAIN TokenOf(c).args |-> TokenOf(c).args[i][2]]
             x == row[TokenOf(c).col]
  <2>2. \A y : y \notin Range(v)
    BY <1>2 DEF Range
  <2> HIDE DEF x, v
  <2>3. CASE c.op = "NOT IN"
    <3>1. tok.t = "TRUE"
      BY <1>1, <2>3 DEF EmptyList
    <3>2. LeafHolds(tok, row) = TRUE
      BY <3>1, Zenon DEF LeafHolds
    <3>3. LeafHolds(TokenOf(c), row) <=> x \notin Range(v)
      <4> USE DEF x, v
      <4>1. QED BY <1>2, <2>3, Zenon DEF LeafHolds
    <3>4. QED BY <2>2, <3>2, <3>3
  <2>4. CASE c.op \in {"IN", "= ANY"}
    <3>1. tok.t = "FALSE"
      BY <1>1, <2>4 DEF EmptyList
    <3>2. LeafHolds(tok, row) = FALSE
      BY <3>1, Zenon DEF LeafHolds
    <3>3. LeafHolds(TokenOf(c), row) <=> x \in Range(v)
      <4> USE DEF x, v
      <4>1. QED BY <1>2, <2>4, Zenon DEF LeafHolds
    <3>4. QED BY <2>2, <3>2, <3>3
  <2>5. QED BY <2>3, <2>4 DEF ListOps
<1>4. QED BY <1>3 DEF LeafRows

\* A comparison says what its token says (ToParamSql, ExprIsLeaf).
LEMMA LeafSays ==
  ASSUME NEW kind2 \in {"cond", "expr"}, NEW c \in Nodes, c.op \in Comparisons,
         Listed(kind2, c)
  PROVE  Says(kind2, c, LeafRows(TokenOf(c)), 2)
<1>1. LeafRows(TokenOf(c)) \in SUBSET EveryRow
  BY RowSets
<1>2. TokenOf(c).t = c.op
  BY DEF TokenOf, Leaf
<1>3. CASE IF kind2 = "cond" THEN CondIsLeaf(c) ELSE ExprIsLeaf(c)
  <2>1. <<>> \in Texts
    BY DEF Texts
  <2>2. /\ TokenOf(c) \in Tokens
        /\ \A text \in Texts : Writes(<<Part(kind2, text, c)>>, 1, text \o <<TokenOf(c)>>)
    BY <1>3, <2>1, WritesLeaf
  <2>3. \A text \in Texts : Writes(<<Part(kind2, text, c)>>, 2, text \o <<TokenOf(c)>>)
    BY <2>2, WritesMore
  <2>4. Reading(<<TokenOf(c)>>, LeafRows(TokenOf(c)))
    <3>1. c.op \in ListOps => c.vals # <<>>
      BY <1>3 DEF CondIsLeaf, ExprIsLeaf, ListOps, Listed
    <3>2. c.vals # <<>> => TokenOf(c).args # <<>>
      <4>1. c.vals \in Seq(Values)
        BY OperatorIsName
      <4>2. \A s \in Seq(Values) : s # <<>> => [i \in DOMAIN s |-> <<"v", s[i]>>] # <<>>
        OBVIOUS
      <4>3. QED BY <4>1, <4>2 DEF TokenOf, Leaf
    <3>3. Compares(TokenOf(c))
      BY <1>2, <3>1, <3>2 DEF Compares, Refused
    <3>4. QED BY <2>2, <3>3, ReadingLeaf
  <2>5. <<TokenOf(c)>> \in Texts
    BY <2>4 DEF Reading
  <2>6. QED BY <1>1, <2>3, <2>4, <2>5 DEF Says
<1>4. CASE ~(IF kind2 = "cond" THEN CondIsLeaf(c) ELSE ExprIsLeaf(c))
  <2> DEFINE tok == Tok(EmptyList(c.op))
  <2>1. c.op \in ListOps /\ c.vals = <<>>
    BY <1>4, OperatorsApart DEF CondIsLeaf, ExprIsLeaf, ListOps
  <2>2. EmptyList(c.op) \in {"TRUE", "FALSE"}
    BY DEF EmptyList
  <2>3. tok \in Tokens /\ <<tok>> \in Texts /\ Compares(tok)
    BY <2>2, WordsOfWhere DEF Compares, Comparisons, Refused, ListOps
  <2>4. IF kind2 = "cond" THEN CondParts(c) = <<Word(<<tok>>)>> ELSE ExprParts(c) = <<Word(<<tok>>)>>
    <3>1. CASE kind2 = "cond"
      <4>1. CondParts(c) = <<Word(<<tok>>)>>
        BY OperatorsApart, Zenon DEF CondParts
      <4>2. QED BY <3>1, <4>1
    <3>2. CASE kind2 = "expr"
      <4>1. c.op = "= ANY"
        BY <1>4, <3>2, OperatorsApart DEF ExprIsLeaf
      <4>2. ExprParts(c) = <<Word(<<Tok("FALSE")>>)>>
        BY OperatorsApart, Zenon DEF ExprParts
      <4>3. EmptyList(c.op) = "FALSE"
        BY <4>1 DEF EmptyList
      <4>4. QED BY <3>2, <4>2, <4>3
    <3>3. QED BY <3>1, <3>2
  <2>5. LeafRows(tok) = LeafRows(TokenOf(c))
    BY <2>1, EmptyRows
  <2>6. Reading(<<tok>>, LeafRows(tok))
    BY <2>3, ReadingLeaf
  <2> HIDE DEF tok
  <2>7. Writes(<<Word(<<tok>>)>>, 1, <<tok>>)
    BY <2>3, WritesWord
  <2>8. ASSUME NEW text \in Texts
        PROVE  Writes(<<Part(kind2, text, c)>>, 2, text \o <<tok>>)
    <3>1. IF kind2 = "cond" THEN ~CondIsLeaf(c) /\ Writes(CondParts(c), 1, <<tok>>)
                            ELSE ~ExprIsLeaf(c) /\ Writes(ExprParts(c), 1, <<tok>>)
      BY <1>4, <2>4, <2>7
    <3>2. Writes(<<Part(kind2, text, c)>>, 1 + 1, text \o <<tok>>)
      BY <3>1, WritesInside
    <3>3. QED BY <3>2
  <2>9. QED BY <1>1, <2>3, <2>5, <2>6, <2>8 DEF Says
<1>5. QED BY <1>3, <1>4

\* What has parts says what they say together.
LEMMA InsideSays ==
  ASSUME NEW kind2 \in {"cond", "expr"}, NEW c \in Nodes, NEW bound \in Nat, NEW y, NEW x, Reading(y, x),
         IF kind2 = "cond" THEN ~CondIsLeaf(c) /\ Writes(CondParts(c), bound, y)
                           ELSE ~ExprIsLeaf(c) /\ Writes(ExprParts(c), bound, y)
  PROVE  Says(kind2, c, x, bound + 1)
<1>1. y \in Texts /\ x \in SUBSET EveryRow
  BY DEF Reading
<1>2. ASSUME NEW text \in Texts
      PROVE  Writes(<<Part(kind2, text, c)>>, bound + 1, text \o y)
  BY WritesInside
<1>3. QED BY <1>1, <1>2 DEF Says

\* A raw text that is one condition (Raw).
LEMMA RawSays ==
  ASSUME NEW kind2 \in {"cond", "expr"}, NEW c \in Nodes, c.op = "RAW", Atom(c.sub)
  PROVE  Says(kind2, c, Selected(c.sub), 2)
<1>1. c.sub \in Texts
  <2>1. c.sub \in RawTexts
    BY NodesWellFormed DEF WellFormed
  <2>2. c.sub \in Seq(Words)
    BY <2>1, RawIsWords
  <2>3. Words \subseteq Tokens
    BY DEF Words
  <2>4. QED BY <2>2, <2>3, SeqGrows DEF Texts
<1>2. Reading(c.sub, Selected(c.sub))
  BY <1>1, ReadingAtom
<1>3. Writes(<<Word(c.sub)>>, 1, c.sub)
  BY <1>1, WritesWord
<1>4. ~CondIsLeaf(c) /\ ~ExprIsLeaf(c)
  BY DEF CondIsLeaf, ExprIsLeaf
<1>5. CondParts(c) = <<Word(c.sub)>> /\ ExprParts(c) = <<Word(c.sub)>>
  BY Zenon DEF CondParts, ExprParts
<1>6. IF kind2 = "cond" THEN ~CondIsLeaf(c) /\ Writes(CondParts(c), 1, c.sub)
                        ELSE ~ExprIsLeaf(c) /\ Writes(ExprParts(c), 1, c.sub)
  BY <1>3, <1>4, <1>5
<1>7. Says(kind2, c, Selected(c.sub), 1 + 1)
  BY <1>2, <1>6, InsideSays
<1>8. QED BY <1>7

\* There are such rows when each member says something.
LEMMA ChainRows ==
  ASSUME NEW kind2, NEW list, IsList(list), NEW cs, NEW ms, NEW bound,
         \A k \in 1 .. Len(list) : Tells(kind2, list[k].cond, cs[k], ms[k], bound)
  PROVE  ChainTells(kind2, list, cs, ms, bound)
<1> DEFINE Good(k, x) == Says(kind2, list[k].cond, x, bound) /\ (Straight(cs[k]) => x = ms[k])
           rows == [k \in 1 .. Len(list) |-> CHOOSE x : Good(k, x)]
<1>1. ASSUME NEW k \in 1 .. Len(list)
      PROVE  Good(k, rows[k])
  <2>1. \E x : Good(k, x)
    BY DEF Tells
  <2> HIDE DEF Good
  <2>2. Good(k, CHOOSE x : Good(k, x))
    BY <2>1
  <2>3. QED BY <2>2
<1>2. (\A k \in 1 .. Len(list) : Straight(cs[k])) => rows = [k \in 1 .. Len(list) |-> ms[k]]
  <2>1. SUFFICES ASSUME \A k \in 1 .. Len(list) : Straight(cs[k])
                 PROVE  rows = [k \in 1 .. Len(list) |-> ms[k]]
    OBVIOUS
  <2>2. \A k \in 1 .. Len(list) : rows[k] = ms[k]
    BY <1>1, <2>1
  <2>3. QED BY <2>2
<1>3. \A k \in 1 .. Len(list) : Says(kind2, list[k].cond, rows[k], bound)
  BY <1>1
<1> HIDE DEF rows
<1>4. QED BY <1>2, <1>3 DEF ChainTells

\* Parts between a text and a closing parenthesis.
LEMMA WritesBetween ==
  ASSUME NEW parts, NEW bound, NEW x, Writes(parts, bound, x), NEW first \in Texts
  PROVE  Writes(<<Word(first)>> \o parts \o <<Word(<<Tok(")")>>)>>, bound + 2, first \o x \o <<Tok(")")>>)
<1> DEFINE close == <<Tok(")")>>
<1>1. close \in Texts
  BY WordsOfWhere
<1> HIDE DEF close
<1>2. Writes(<<Word(first)>>, 1, first) /\ Writes(<<Word(close)>>, 1, close)
  BY <1>1, WritesWord
<1>3. bound \in Nat
  BY DEF Writes
<1>4. Writes(Onward(Onward(<<Word(first)>>, parts), <<Word(close)>>), (1 + bound) + 1, (first \o x) \o close)
  <2>1. Writes(Onward(<<Word(first)>>, parts), 1 + bound, first \o x)
    BY <1>2, WritesJoin
  <2>2. QED BY <1>2, <2>1, WritesJoin
<1>5. (1 + bound) + 1 = bound + 2
  BY <1>3
<1>6. QED BY <1>4, <1>5 DEF Onward, close

\* The parts of a group and of an EXISTS, and how the words before them read.
LEMMA ChainedIs ==
  ASSUME NEW list, NEW first
  PROVE  Chained(list, first) = Strung("cond", list, first)
BY DEF Chained, Strung, Cond

\* A group says what its chain means, read with SQL's precedence (where_group).
LEMMA GroupSays ==
  ASSUME NEW c \in Nodes, c.op = "GROUP", IsList(c.sub), c.sub # <<>>, NEW rows, NEW bound \in Nat,
         \A k \in 1 .. Len(c.sub) : Says("cond", c.sub[k].cond, rows[k], bound)
  PROVE  Says("cond", c, Chain(c.sub, rows), Len(c.sub) * bound + 3)
<1> DEFINE h == Open("(")
           list == c.sub
           open == Tok("(")
           close == Tok(")")
<1>1. /\ h \in Frames /\ ~h.ended /\ ~h.not /\ h.ors = {} /\ h.word = "(" /\ h.ands = EveryRow
      /\ "(" \in Opening
  <2>1. "(" \in Opening
    BY DEF Opening
  <2>2. QED BY <2>1, OpenIs
<1>2. /\ open \in Tokens /\ open.t = "(" /\ close \in Tokens /\ close.t = ")"
      /\ <<>> \in Texts /\ <<open>> \in Texts /\ <<close>> \in Texts
  <2>1. "(" \in Keywords /\ ")" \in Keywords
    BY WordsOfWhere
  <2>2. <<>> \in Texts
    BY DEF Texts
  <2>3. QED BY <2>1, <2>2, WordsOfWhere
<1> HIDE DEF h, open, close
<1>3. PICK y \in Texts, g \in Frames :
            /\ Writes(Strung("cond", list, <<>>), Len(list) * bound, <<>> \o y)
            /\ Turns(y, h, g) /\ HasRead(g, h.word, h.ands, list, rows, Len(list))
  BY <1>1, <1>2, ChainSays
<1>4. Holds(g) = Chain(list, rows)
  <2>1. Len(list) \in DOMAIN list
    <3>1. list # <<>> /\ DOMAIN list = 1 .. Len(list) /\ Len(list) \in Nat
      BY ListIs
    <3>2. Len(list) # 0
      BY DEF IsList
    <3>3. QED BY <3>1, <3>2
  <2>2. Holds(g) = ChainFrom(EveryRow, list, rows)
    BY <1>1, <1>3, <2>1, AllRead
  <2>3. QED BY <2>2, ChainIs
<1>5. g.ended /\ g.word = "("
  BY <1>1, <1>3 DEF HasRead
<1>6. Reading(<<open>> \o y \o <<close>>, Chain(list, rows))
  <2>1. Reading(<<open>> \o y \o <<close>>, RowsOf(open.t, Holds(g)))
    BY <1>1, <1>2, <1>3, <1>5, ReadingParenthesis DEF h
  <2>2. RowsOf("(", Holds(g)) = Holds(g)
    BY DEF RowsOf
  <2>3. QED BY <1>2, <1>4, <2>1, <2>2
<1>7. Writes(CondParts(c), Len(list) * bound + 2, <<open>> \o y \o <<close>>)
  <2>1. <<>> \o y = y
    BY <1>3 DEF Texts
  <2>2. Writes(Strung("cond", list, <<>>), Len(list) * bound, y)
    BY <1>3, <2>1
  <2>3. CondParts(c) = <<Word(<<open>>)>> \o Chained(list, <<>>) \o <<Word(<<close>>)>>
    BY Zenon DEF CondParts, open, close
  <2>4. Writes(<<Word(<<open>>)>> \o Strung("cond", list, <<>>) \o <<Word(<<close>>)>>,
               Len(list) * bound + 2, <<open>> \o y \o <<close>>)
    BY <1>2, <2>2, WritesBetween DEF close
  <2>5. QED BY <2>3, <2>4, ChainedIs
<1>8. ~CondIsLeaf(c)
  BY DEF CondIsLeaf
<1>9. Len(list) * bound + 2 \in Nat
  BY <1>7 DEF Writes
<1>10. Says("cond", c, Chain(list, rows), (Len(list) * bound + 2) + 1)
  BY <1>6, <1>7, <1>8, <1>9, InsideSays
<1>11. (Len(list) * bound + 2) + 1 = Len(list) * bound + 3
  BY ListIs
<1>12. QED BY <1>10, <1>11

\* Steps, counted.
LEMMA Times ==
  ASSUME NEW a \in Nat, NEW b \in Nat
  PROVE  /\ a * b \in Nat /\ (a * b + 2) + 1 = a * b + 3
         /\ a = 0 => a * b = 0
OBVIOUS

\* Texts of one and two tokens.
LEMMA ShortTexts ==
  ASSUME NEW a \in Tokens, NEW b \in Tokens
  PROVE  <<>> \in Texts /\ <<a>> \in Texts /\ <<a, b>> \in Texts /\ <<a>> \o <<>> = <<a>>
BY DEF Texts

\* Two tokens before a text.
LEMMA TwoTokens ==
  ASSUME NEW a \in Tokens, NEW b \in Tokens, NEW z \in Texts
  PROVE  <<a, b>> \o z = <<a>> \o (<<b>> \o z)
<1>1. z \in Seq(Tokens)
  BY DEF Texts
<1> DEFINE l == <<a, b>> \o z
           m == <<b>> \o z
           r == <<a>> \o m
<1>2. /\ m \in Seq(Tokens) /\ Len(m) = Len(z) + 1 /\ m[1] = b
      /\ \A k \in 1 .. Len(z) : m[k + 1] = z[k]
  BY <1>1
<1>3. /\ l \in Seq(Tokens) /\ Len(l) = Len(z) + 2 /\ l[1] = a /\ l[2] = b
      /\ \A k \in 1 .. Len(z) : l[k + 2] = z[k]
  BY <1>1
<1> HIDE DEF l, m
<1>4. /\ r \in Seq(Tokens) /\ Len(r) = Len(m) + 1 /\ r[1] = a
      /\ \A k \in 1 .. Len(m) : r[k + 1] = m[k]
  BY <1>2
<1> HIDE DEF r
<1>5. Len(z) \in Nat
  BY <1>1
<1>6. \A i \in 1 .. Len(l) : l[i] = r[i]
  <2>1. SUFFICES ASSUME NEW i \in 1 .. Len(l) PROVE l[i] = r[i]
    OBVIOUS
  <2>2. CASE i = 1
    BY <1>3, <1>4, <2>2
  <2>3. CASE i = 2
    <3>1. 1 \in 1 .. Len(m)
      BY <1>2, <1>5
    <3>2. r[1 + 1] = m[1]
      BY <1>4, <3>1
    <3>3. QED BY <1>2, <1>3, <2>3, <3>2
  <2>4. CASE i \notin {1, 2}
    <3>1. /\ i - 2 \in 1 .. Len(z) /\ i - 1 \in 1 .. Len(m)
          /\ (i - 2) + 2 = i /\ (i - 2) + 1 = i - 1 /\ (i - 1) + 1 = i
      BY <1>2, <1>3, <1>5, <2>4
    <3>2. l[(i - 2) + 2] = z[i - 2]
      BY <1>3, <3>1
    <3>3. m[(i - 2) + 1] = z[i - 2]
      BY <1>2, <3>1
    <3>4. r[(i - 1) + 1] = m[i - 1]
      BY <1>4, <3>1
    <3>5. QED BY <3>1, <3>2, <3>3, <3>4
  <2>5. QED BY <2>2, <2>3, <2>4
<1>7. l = r
  <2>1. Len(l) = Len(r)
    BY <1>2, <1>3, <1>4, <1>5
  <2>2. QED BY <1>3, <1>4, <1>6, <2>1, SeqSame
<1>8. QED BY <1>7 DEF l, m, r

\* The last of a chain.
LEMMA LastIs ==
  ASSUME NEW list, IsList(list)
  PROVE  /\ Len(list) \in Nat
         /\ list = <<>> => Len(list) = 0
         /\ list # <<>> => Len(list) \in DOMAIN list
<1>1. DOMAIN list = 1 .. Len(list) /\ Len(list) \in Nat
  BY ListIs
<1>2. list # <<>> => Len(list) # 0
  BY DEF IsList
<1>3. QED BY <1>1, <1>2

\* The parts of no chain.
LEMMA StrungNothing ==
  ASSUME NEW kind2, NEW first
  PROVE  Strung(kind2, <<>>, first) = <<>>
BY DEF Strung

\* They are rows of its chain, and of the text before the chain.
LEMMA MineIs ==
  ASSUME NEW list, NEW rows
  PROVE  /\ Chain(list, rows) \subseteq EveryRow
         /\ LeafRows(Tok("FK")) \cap Chain(list, rows) = Mine(list, rows)
<1>1. Chain(list, rows) \subseteq EveryRow
  BY DEF Chain, Common
<1>2. \A row : LeafHolds(Tok("FK"), row) = row.mine
  <2>1. Tok("FK").t = "FK"
    BY DEF Tok, Leaf
  <2>2. QED BY <2>1, Zenon DEF LeafHolds
<1>3. LeafRows(Tok("FK")) = {row \in EveryRow : row.mine}
  BY <1>2 DEF LeafRows
<1>4. QED BY <1>1, <1>3 DEF Mine

\* The first condition of a text.
LEMMA FactorFirst ==
  ASSUME NEW o \in Frames, o.ors = {}, o.ands = EveryRow, o.not = FALSE, NEW x \in SUBSET EveryRow
  PROVE  /\ Factor(o, x) \in Frames /\ Factor(o, x).word = o.word /\ Factor(o, x).ors = {}
         /\ Factor(o, x).ands = x /\ Factor(o, x).not = FALSE /\ Factor(o, x).ended = TRUE
<1>1. EveryRow \cap x = x
  OBVIOUS
<1>2. (IF o.not THEN EveryRow \ x ELSE x) = x
  OBVIOUS
<1>3. /\ Factor(o, x) \in Frames
      /\ Factor(o, x) = [word |-> o.word, ors |-> o.ors, ands |-> x, not |-> FALSE, ended |-> TRUE]
  BY <1>1, <1>2, FactorIs
<1>4. QED BY <1>3

\* What comes before the chain of an EXISTS: the rows whose foreign key is the
\* row outside, with a chain joined to them by AND.
LEMMA ExistsStarts ==
  ASSUME NEW op \in {"EXISTS", "NOT EXISTS"}
  PROVE  /\ op \in Opening /\ Tok("FK") \in Tokens /\ Tok("AND") \in Tokens
         /\ Keyed(op) \in Frames /\ Keyed(op).ended /\ ~Keyed(op).not /\ Keyed(op).word = op
         /\ Keyed(op).ors = {} /\ Keyed(op).ands = LeafRows(Tok("FK"))
         /\ Turns(<<Tok("FK")>>, Open(op), Keyed(op)) /\ Turns(<<Tok("AND")>>, Keyed(op), Continued(Keyed(op)))
<1>1. op \in Opening
  BY DEF Opening
<1>2. /\ Open(op) \in Frames /\ Open(op).word = op /\ Open(op).ors = {} /\ Open(op).ands = EveryRow
      /\ Open(op).not = FALSE /\ Open(op).ended = FALSE
  BY <1>1, OpenIs
<1>3. LeafRows(Tok("FK")) \in SUBSET EveryRow
  BY RowSets
<1>4. /\ Keyed(op) \in Frames /\ Keyed(op).word = op /\ Keyed(op).ors = {} /\ Keyed(op).ands = LeafRows(Tok("FK"))
      /\ Keyed(op).not = FALSE /\ Keyed(op).ended = TRUE
  <2> DEFINE x == LeafRows(Tok("FK"))
             o == Open(op)
             f == Factor(o, x)
  <2>1. /\ o \in Frames /\ o.word = op /\ o.ors = {} /\ o.ands = EveryRow /\ o.not = FALSE
        /\ x \in SUBSET EveryRow
    BY <1>2, <1>3
  <2> HIDE DEF x, o
  <2>2. f \in Frames /\ f.word = o.word /\ f.ors = {} /\ f.ands = x /\ f.not = FALSE /\ f.ended = TRUE
    BY <2>1, FactorFirst
  <2> HIDE DEF f
  <2>3. f \in Frames /\ f.word = op /\ f.ors = {} /\ f.ands = x /\ f.not = FALSE /\ f.ended = TRUE
    BY <2>1, <2>2
  <2>4. Keyed(op) = f
    BY DEF Keyed, f, o, x
  <2>5. QED BY <2>3, <2>4 DEF x
<1>5. Keyed(op).ended /\ ~Keyed(op).not
  BY <1>4
<1>6. Tok("FK") \in Tokens /\ Tok("FK").t = "FK" /\ Tok("AND") \in Tokens /\ Tok("AND").t = "AND"
  <2>1. "FK" \in Keywords /\ "AND" \in Keywords
    BY WordsOfWhere
  <2>2. QED BY <2>1, WordsOfWhere
<1>7. Turns(<<Tok("FK")>>, Open(op), Keyed(op))
  <2>1. Compares(Tok("FK"))
    BY <1>6 DEF Compares, Comparisons, Refused, ListOps
  <2>2. Reading(<<Tok("FK")>>, LeafRows(Tok("FK")))
    BY <1>6, <2>1, ReadingLeaf
  <2>3. Turns(<<Tok("FK")>>, Open(op), Factor(Open(op), LeafRows(Tok("FK"))))
    BY <1>2, <2>2 DEF Reading
  <2>4. QED BY <2>3 DEF Keyed
<1>8. Turns(<<Tok("AND")>>, Keyed(op), Continued(Keyed(op)))
  BY <1>4, <1>5, <1>6, TurnsWord
<1>9. QED BY <1>1, <1>4, <1>5, <1>6, <1>7, <1>8

\* The text of a subquery, up to its closing parenthesis.
LEMMA ExistsReads ==
  ASSUME NEW op \in {"EXISTS", "NOT EXISTS"}, NEW list, IsList(list), NEW rows, NEW bound \in Nat,
         \A k \in 1 .. Len(list) : Says("cond", list[k].cond, rows[k], bound)
  PROVE  Subtext(op, list, rows, bound)
<1> DEFINE f == Keyed(op)
           h == Continued(f)
           fk == Tok("FK")
           and == Tok("AND")
           A == LeafRows(Tok("FK"))
<1>1. /\ op \in Opening /\ fk \in Tokens /\ and \in Tokens
      /\ f \in Frames /\ f.ended /\ ~f.not /\ f.word = op /\ f.ors = {} /\ f.ands = A
      /\ Turns(<<fk>>, Open(op), f) /\ Turns(<<and>>, f, h)
  BY ExistsStarts
<1>2. A \cap Chain(list, rows) = Mine(list, rows)
  BY MineIs
<1>3. CASE list = <<>>
  <2>1. Strung("cond", list, <<and>>) = <<>> /\ Len(list) * bound = 0
    <3>1. Len(list) = 0
      BY <1>3
    <3>2. 0 * bound = 0
      BY Times
    <3>3. QED BY <1>3, <3>1, <3>2, StrungNothing, Zenon
  <2>2. Writes(<<>>, 0, <<>>) /\ <<>> \in Texts
    BY <1>1, WritesNothing, ShortTexts
  <2>3. <<fk>> \o <<>> = <<fk>>
    BY <1>1, ShortTexts
  <2>4. Holds(f) = A
    BY <1>1 DEF Holds
  <2>5. A \cap Chain(list, rows) = A
    <3>1. Chain(list, rows) = EveryRow
      BY <1>3 DEF Chain
    <3>2. A \subseteq EveryRow
      BY RowSets
    <3>3. QED BY <3>1, <3>2
  <2> HIDE DEF f, h, fk, and, A
  <2>6. /\ Writes(Strung("cond", list, <<and>>), Len(list) * bound, <<>>)
        /\ Turns(<<fk>> \o <<>>, Open(op), f) /\ f.ended /\ f.word = op
        /\ NoOr(list) => Holds(f) = Mine(list, rows)
    BY <1>1, <1>2, <2>1, <2>2, <2>3, <2>4, <2>5
  <2>7. QED BY <1>1, <2>2, <2>6 DEF fk, and, Subtext
<1>4. CASE list # <<>>
  <2>1. h = [word |-> f.word, ors |-> f.ors, ands |-> f.ands, not |-> f.not, ended |-> FALSE] /\ h \in Frames
    BY <1>1, FramesMade
  <2>3. <<and>> \in Texts
    BY <1>1, ShortTexts
  <2> HIDE DEF f, h, fk, and, A
  <2>2. ~h.ended /\ ~h.not /\ h.ors = {} /\ h.word = op /\ h.ands = A
    BY <1>1, <2>1
  <2>4. PICK y \in Texts, g \in Frames :
            /\ Writes(Strung("cond", list, <<and>>), Len(list) * bound, <<and>> \o y)
            /\ Turns(y, h, g) /\ HasRead(g, h.word, h.ands, list, rows, Len(list))
    BY <1>4, <2>1, <2>2, <2>3, ChainSays
  <2>5. Turns(<<fk>> \o (<<and>> \o y), Open(op), g)
    <3>1. Turns(<<and>> \o y, f, g)
      BY <1>1, <2>4, TurnsJoin
    <3>2. QED BY <1>1, <3>1, TurnsJoin
  <2>6. g.ended /\ g.word = op
    BY <2>2, <2>4 DEF HasRead
  <2>7. NoOr(list) => Holds(g) = Mine(list, rows)
    <3>1. Len(list) \in DOMAIN list
      BY <1>4, LastIs
    <3>2. Holds(g) = ChainFrom(A, list, rows)
      BY <2>2, <2>4, <3>1, AllRead
    <3>3. NoOr(list) => ChainFrom(A, list, rows) = A \cap Chain(list, rows)
      BY <1>4, ChainIs
    <3>4. QED BY <1>2, <3>2, <3>3
  <2>8. <<and>> \o y \in Texts
    BY <2>4 DEF Writes
  <2>9. QED BY <2>4, <2>5, <2>6, <2>7, <2>8 DEF fk, and, Subtext
<1>5. QED BY <1>3, <1>4

\* A subquery says what its chain means of the rows under the row outside, if
\* it has no OR in it (where_has and its kin).
LEMMA ExistsSays ==
  ASSUME NEW c \in Nodes, NEW op \in {"EXISTS", "NOT EXISTS"}, NEW list, c.op = op, c.sub = list,
         IsList(list), NEW rows, NEW bound \in Nat,
         \A k \in 1 .. Len(list) : Says("cond", list[k].cond, rows[k], bound)
  PROVE  SubquerySays(c, op, list, rows, bound)
<1> DEFINE open == Tok(op)
           fk == Tok("FK")
           close == Tok(")")
<1>1. /\ open \in Tokens /\ open.t = op /\ close \in Tokens /\ close.t = ")" /\ fk \in Tokens
      /\ op \in Opening
  <2>1. op \in Keywords /\ ")" \in Keywords /\ "FK" \in Keywords /\ op \in Opening
    BY WordsOfWhere DEF Opening
  <2>2. QED BY <2>1, WordsOfWhere
<1>2. <<open, fk>> \in Texts
  BY <1>1, ShortTexts
<1>3. PICK x \in Texts, g \in Frames :
            /\ Writes(Strung("cond", list, <<Tok("AND")>>), Len(list) * bound, x)
            /\ Turns(<<fk>> \o x, Open(op), g) /\ g.ended /\ g.word = op
            /\ NoOr(list) => Holds(g) = Mine(list, rows)
  <2>1. Subtext(op, list, rows, bound)
    BY ExistsReads
  <2>2. QED BY <2>1 DEF Subtext
<1>4. Reading(<<open>> \o (<<fk>> \o x) \o <<close>>, RowsOf(op, Holds(g)))
  BY <1>1, <1>3, ReadingParenthesis
<1>5. CondParts(c) = <<Word(<<open, fk>>)>> \o Chained(list, <<Tok("AND")>>) \o <<Word(<<close>>)>>
  <2>1. c.op \in {"EXISTS", "NOT EXISTS"} /\ c.op # "RAW" /\ c.op # "GROUP"
    OBVIOUS
  <2>2. CondParts(c) = <<Word(<<Tok(c.op), Tok("FK")>>)>> \o Chained(c.sub, <<Tok("AND")>>) \o <<Word(<<Tok(")")>>)>>
    BY <2>1, Zenon DEF CondParts
  <2>3. QED BY <2>2, Zenon
<1>6. ~CondIsLeaf(c)
  BY DEF CondIsLeaf
<1> HIDE DEF open, fk
<1>7. Writes(CondParts(c), Len(list) * bound + 2, <<open, fk>> \o x \o <<close>>)
  <2>1. Writes(<<Word(<<open, fk>>)>> \o Strung("cond", list, <<Tok("AND")>>) \o <<Word(<<close>>)>>,
               Len(list) * bound + 2, <<open, fk>> \o x \o <<close>>)
    BY <1>2, <1>3, WritesBetween
  <2>2. QED BY <1>5, <2>1, ChainedIs
<1>8. <<open, fk>> \o x \o <<close>> = <<open>> \o (<<fk>> \o x) \o <<close>>
  BY <1>1, <1>3, TwoTokens
<1>9. Len(list) * bound + 2 \in Nat
  BY <1>7 DEF Writes
<1>10. Says("cond", c, RowsOf(op, Holds(g)), (Len(list) * bound + 2) + 1)
  BY <1>4, <1>6, <1>7, <1>8, <1>9, InsideSays
<1>11. (Len(list) * bound + 2) + 1 = Len(list) * bound + 3
  <2>1. Len(list) \in Nat
    BY LastIs
  <2>2. QED BY <2>1, Times
<1>12. NoOr(list) => RowsOf(op, Holds(g)) = RowsOf(op, Mine(list, rows))
  BY <1>3
<1>13. QED BY <1>10, <1>11, <1>12 DEF SubquerySays

\* Two and three parts.
LEMMA FewParts ==
  ASSUME NEW a, NEW b, NEW c
  PROVE  Onward(<<a>>, <<b>>) = <<a, b>> /\ Onward(Onward(<<a>>, <<b>>), <<c>>) = <<a, b, c>>
<1> DEFINE S == {a, b, c}
<1>1. /\ <<a>> \in Seq(S) /\ <<b>> \in Seq(S) /\ <<c>> \in Seq(S)
      /\ <<a, b>> \in Seq(S) /\ <<a, b, c>> \in Seq(S)
  OBVIOUS
<1> HIDE DEF S
<1>2. <<a>> \o <<b>> = <<a, b>>
  <2> DEFINE s == <<a>> \o <<b>>
             t == <<a, b>>
  <2>1. s \in Seq(S) /\ Len(s) = 2 /\ s[1] = a /\ s[2] = b
    BY <1>1
  <2>2. t \in Seq(S) /\ Len(t) = 2 /\ t[1] = a /\ t[2] = b
    BY <1>1
  <2> HIDE DEF s, t
  <2>3. s = t
    BY <2>1, <2>2, SeqSame
  <2>4. QED BY <2>3 DEF s, t
<1>3. <<a, b>> \o <<c>> = <<a, b, c>>
  <2> DEFINE s == <<a, b>> \o <<c>>
             t == <<a, b, c>>
  <2>1. s \in Seq(S) /\ Len(s) = 3 /\ s[1] = a /\ s[2] = b /\ s[3] = c
    BY <1>1
  <2>2. t \in Seq(S) /\ Len(t) = 3 /\ t[1] = a /\ t[2] = b /\ t[3] = c
    BY <1>1
  <2> HIDE DEF s, t
  <2>3. s = t
    BY <2>1, <2>2, SeqSame
  <2>4. QED BY <2>3 DEF s, t
<1>4. QED BY <1>2, <1>3 DEF Onward

\* The parentheses of a text.
LEMMA Brackets ==
  /\ Tok("(") \in Tokens /\ Tok("(").t = "(" /\ Tok(")") \in Tokens /\ Tok(")").t = ")" /\ "(" \in Opening
  /\ Tok("NOT") \in Tokens /\ Tok("NOT").t = "NOT"
  /\ Open("(") \in Frames /\ Open("(").word = "(" /\ Open("(").ors = {} /\ Open("(").ands = EveryRow
  /\ Open("(").not = FALSE /\ Open("(").ended = FALSE
<1>1. "(" \in Keywords /\ ")" \in Keywords /\ "NOT" \in Keywords
  BY WordsOfWhere
<1>2. "(" \in Opening
  BY DEF Opening
<1>3. /\ Tok("(") \in Tokens /\ Tok("(").t = "(" /\ Tok(")") \in Tokens /\ Tok(")").t = ")"
      /\ Tok("NOT") \in Tokens /\ Tok("NOT").t = "NOT"
  BY <1>1, WordsOfWhere
<1>4. QED BY <1>2, <1>3, OpenIs

\* What is read between parentheses, as a condition.
LEMMA BracketsRead ==
  ASSUME NEW text, NEW g, Turns(text, Open("("), g), g.ended, g.word = "("
  PROVE  Reading(<<Tok("(")>> \o text \o <<Tok(")")>>, Holds(g))
<1> DEFINE open == Tok("(")
           close == Tok(")")
<1>1. open \in Tokens /\ open.t = "(" /\ close \in Tokens /\ close.t = ")" /\ open.t \in Opening
  BY Brackets
<1> HIDE DEF open, close
<1>2. Reading(<<open>> \o text \o <<close>>, RowsOf(open.t, Holds(g)))
  BY <1>1, ReadingParenthesis
<1>3. RowsOf("(", Holds(g)) = Holds(g)
  BY DEF RowsOf
<1>4. QED BY <1>1, <1>2, <1>3 DEF open, close

\* A NOT says what its operand does not (Not).
LEMMA NotSays ==
  ASSUME NEW c \in Nodes, c.op = "NOT", NEW x, NEW bound, Says("expr", c.sub[1], x, bound)
  PROVE  Says("expr", c, EveryRow \ x, bound + 2)
<1> DEFINE open == Tok("(")
           close == Tok(")")
           not == Tok("NOT")
           e == c.sub[1]
           f == Factor(Open("("), x)
<1>1. /\ open \in Tokens /\ close \in Tokens /\ not \in Tokens /\ not.t = "NOT"
      /\ <<not, open>> \in Texts /\ <<close>> \in Texts
  BY Brackets, ShortTexts
<1>2. bound \in Nat /\ x \in SUBSET EveryRow
  BY DEF Says
<1> HIDE DEF e
<1>3. PICK y \in Texts : Reading(y, x) /\ \A text \in Texts : Writes(<<Part("expr", text, e)>>, bound, text \o y)
  BY DEF Says, e
<1>4. f \in Frames /\ f.word = "(" /\ f.ors = {} /\ f.ands = x /\ f.ended = TRUE
  BY <1>2, Brackets, FactorFirst
<1>5. Turns(y, Open("("), f)
  BY <1>3, Brackets DEF Reading
<1>6. Holds(f) = x
  BY <1>4 DEF Holds
<1>7. Reading(<<open>> \o y \o <<close>>, x)
  <2>1. Reading(<<open>> \o y \o <<close>>, Holds(f))
    <3> HIDE DEF f
    <3>1. QED BY <1>4, <1>5, BracketsRead
  <2>2. QED BY <1>6, <2>1
<1> HIDE DEF open, close, not
<1>8. Reading(<<not>> \o (<<open>> \o y \o <<close>>), EveryRow \ x)
  BY <1>1, <1>7, ReadingNot
<1>9. <<not>> \o (<<open>> \o y \o <<close>>) = (<<not, open>> \o y) \o <<close>>
  <2>1. <<not, open>> \o y = <<not>> \o (<<open>> \o y)
    BY <1>1, <1>3, TwoTokens
  <2> DEFINE z == <<open>> \o y
  <2>2. z \in Seq(Tokens)
    BY <1>1, <1>3 DEF Texts
  <2> HIDE DEF z
  <2>3. <<not>> \o (z \o <<close>>) = (<<not>> \o z) \o <<close>>
    BY <1>1, <2>2
  <2>4. QED BY <2>1, <2>3 DEF z
<1>10. Writes(<<Part("expr", <<not, open>>, e), Word(<<close>>)>>, bound + 1, (<<not, open>> \o y) \o <<close>>)
  <2>1. Writes(<<Part("expr", <<not, open>>, e)>>, bound, <<not, open>> \o y)
    BY <1>1, <1>3
  <2>2. Writes(<<Word(<<close>>)>>, 1, <<close>>)
    BY <1>1, WritesWord
  <2>3. Writes(Onward(<<Part("expr", <<not, open>>, e)>>, <<Word(<<close>>)>>), bound + 1, (<<not, open>> \o y) \o <<close>>)
    BY <2>1, <2>2, WritesJoin
  <2>4. QED BY <2>3, FewParts
<1>11. ExprParts(c) = <<Part("expr", <<not, open>>, e), Word(<<close>>)>>
  <2>1. ExprParts(c) = <<Expr(<<Tok("NOT"), Tok("(")>>, c.sub[1]), Word(<<Tok(")")>>)>>
    BY Zenon DEF ExprParts
  <2>2. QED BY <2>1, Zenon DEF Expr, not, open, close, e
<1>12. ~ExprIsLeaf(c)
  BY DEF ExprIsLeaf
<1>13. Says("expr", c, EveryRow \ x, (bound + 1) + 1)
  <2>1. Reading((<<not, open>> \o y) \o <<close>>, EveryRow \ x)
    BY <1>8, <1>9
  <2>2. ~ExprIsLeaf(c) /\ Writes(ExprParts(c), bound + 1, (<<not, open>> \o y) \o <<close>>)
    BY <1>10, <1>11, <1>12
  <2>3. bound + 1 \in Nat
    BY <1>2
  <2>4. QED BY <2>1, <2>2, <2>3, InsideSays
<1>14. QED BY <1>2, <1>13

\* Two conditions, one after the other.
LEMMA PairTurns ==
  ASSUME NEW op \in {"AND", "OR"}, NEW y \in Texts, NEW z \in Texts, NEW x1, NEW x2, Reading(y, x1), Reading(z, x2)
  PROVE  PairReads(op, y, z, x1, x2)
<1> DEFINE o == Open("(")
           f == Factor(o, x1)
           h == IF op = "AND" THEN Continued(f) ELSE Alternative(f)
           g == Factor(h, x2)
           tok == Tok(op)
<1>1. /\ o \in Frames /\ o.word = "(" /\ o.ors = {} /\ o.ands = EveryRow /\ o.not = FALSE /\ o.ended = FALSE
      /\ x1 \in SUBSET EveryRow /\ x2 \in SUBSET EveryRow
  BY Brackets DEF Reading
<1>2. tok \in Tokens /\ tok.t = op
  BY WordsOfWhere
<1> HIDE DEF o, tok
<1>3. f \in Frames /\ f.word = "(" /\ f.ors = {} /\ f.ands = x1 /\ f.not = FALSE /\ f.ended = TRUE
  <2>1. f \in Frames /\ f.word = o.word /\ f.ors = {} /\ f.ands = x1 /\ f.not = FALSE /\ f.ended = TRUE
    BY <1>1, FactorFirst
  <2>2. QED BY <1>1, <2>1
<1>4. Turns(y, o, f)
  BY <1>1 DEF Reading
<1> HIDE DEF f
<1>5. Turns(<<tok>>, f, h) /\ h \in Frames /\ h.ended = FALSE
  BY <1>2, <1>3, TurnsWord, NotEnded, FrameFields
<1> HIDE DEF h
<1>6. Turns(z, h, g)
  BY <1>5 DEF Reading
<1>7. Turns((y \o <<tok>>) \o z, o, g)
  <2>1. Turns(y \o <<tok>>, o, h)
    BY <1>4, <1>5, TurnsJoin
  <2>2. QED BY <1>6, <2>1, TurnsJoin
<1>8. g \in Frames
  BY <1>6 DEF Turns
<1>9. /\ h.word = "(" /\ h.not = FALSE
      /\ h.ors = (IF op = "AND" THEN {} ELSE x1) /\ h.ands = (IF op = "AND" THEN x1 ELSE EveryRow)
  <2>1. /\ Continued(f) = [word |-> f.word, ors |-> f.ors, ands |-> f.ands, not |-> f.not, ended |-> FALSE]
        /\ Alternative(f) = [word |-> f.word, ors |-> Holds(f), ands |-> EveryRow, not |-> FALSE, ended |-> FALSE]
    BY <1>3, FramesMade
  <2>2. Holds(f) = x1
    BY <1>3 DEF Holds
  <2>3. CASE op = "AND"
    <3>1. h = [word |-> f.word, ors |-> f.ors, ands |-> f.ands, not |-> f.not, ended |-> FALSE]
      BY <2>1, <2>3 DEF h
    <3>2. h.word = f.word /\ h.ors = f.ors /\ h.ands = f.ands /\ h.not = f.not
      BY <3>1
    <3>3. QED BY <1>3, <2>3, <3>2
  <2>4. CASE op = "OR"
    <3>1. h = [word |-> f.word, ors |-> Holds(f), ands |-> EveryRow, not |-> FALSE, ended |-> FALSE]
      BY <2>1, <2>4 DEF h
    <3>2. h.word = f.word /\ h.ors = Holds(f) /\ h.ands = EveryRow /\ h.not = FALSE
      BY <3>1
    <3>3. QED BY <1>3, <2>2, <2>4, <3>2
  <2>5. QED BY <2>3, <2>4
<1>10. /\ g.word = h.word /\ g.ors = h.ors /\ g.ands = h.ands \cap x2 /\ g.ended = TRUE
  <2>1. g = [word |-> h.word, ors |-> h.ors, ands |-> h.ands \cap (IF h.not THEN EveryRow \ x2 ELSE x2),
             not |-> FALSE, ended |-> TRUE]
    BY <1>1, <1>5, FactorIs
  <2>2. (IF h.not THEN EveryRow \ x2 ELSE x2) = x2
    BY <1>9
  <2> HIDE DEF g
  <2>3. g = [word |-> h.word, ors |-> h.ors, ands |-> h.ands \cap x2, not |-> FALSE, ended |-> TRUE]
    BY <2>1, <2>2, Zenon
  <2>4. QED BY <2>3
<1> HIDE DEF g
<1>11. Holds(g) = IF op = "AND" THEN x1 \cap x2 ELSE x1 \cup x2
  <2>1. Holds(g) = h.ors \cup (h.ands \cap x2)
    BY <1>10 DEF Holds
  <2>2. CASE op = "AND"
    <3>1. h.ors = {} /\ h.ands = x1
      BY <1>9, <2>2
    <3>2. {} \cup (x1 \cap x2) = x1 \cap x2
      OBVIOUS
    <3>3. QED BY <2>1, <2>2, <3>1, <3>2
  <2>3. CASE op = "OR"
    <3>1. h.ors = x1 /\ h.ands = EveryRow
      BY <1>9, <2>3
    <3>2. x1 \cup (EveryRow \cap x2) = x1 \cup x2
      BY <1>1
    <3>3. QED BY <2>1, <2>3, <3>1, <3>2
  <2>4. QED BY <2>2, <2>3
<1>12. QED BY <1>7, <1>8, <1>9, <1>10, <1>11 DEF o, tok, PairReads

\* Three texts, one after the other.
LEMMA ThreeTexts ==
  ASSUME NEW a \in Texts, NEW b \in Texts, NEW d \in Texts
  PROVE  b \o d \in Texts /\ (a \o b) \o d = a \o (b \o d)
BY DEF Texts

\* AND and OR say what both of their operands or one of them says (And, Or).
LEMMA AndOrSays ==
  ASSUME NEW c \in Nodes, NEW op \in {"AND", "OR"}, c.op = op, NEW x1, NEW x2, NEW bound,
         Says("expr", c.sub[1], x1, bound), Says("expr", c.sub[2], x2, bound)
  PROVE  Says("expr", c, IF op = "AND" THEN x1 \cap x2 ELSE x1 \cup x2, 2 * bound + 2)
<1> DEFINE open == <<Tok("(")>>
           close == <<Tok(")")>>
           word == <<Tok(op)>>
           l == c.sub[1]
           r == c.sub[2]
           x == IF op = "AND" THEN x1 \cap x2 ELSE x1 \cup x2
<1>1. open \in Texts /\ close \in Texts /\ word \in Texts
  BY Brackets, ShortTexts, WordsOfWhere
<1>2. bound \in Nat
  BY DEF Says
<1> HIDE DEF l, r
<1>3. PICK y \in Texts : Reading(y, x1) /\ \A text \in Texts : Writes(<<Part("expr", text, l)>>, bound, text \o y)
  BY DEF Says, l
<1>4. PICK z \in Texts : Reading(z, x2) /\ \A text \in Texts : Writes(<<Part("expr", text, r)>>, bound, text \o z)
  BY DEF Says, r
<1>5. PICK g \in Frames :
            /\ Turns((y \o word) \o z, Open("("), g) /\ g.ended /\ g.word = "("
            /\ Holds(g) = x
  <2>1. PairReads(op, y, z, x1, x2)
    BY <1>3, <1>4, PairTurns
  <2>2. QED BY <2>1 DEF PairReads
<1> HIDE DEF x
<1>6. Reading(open \o ((y \o word) \o z) \o close, x)
  BY <1>5, BracketsRead
<1> HIDE DEF open, close, word
<1>7. Writes(<<Part("expr", open, l), Part("expr", word, r), Word(close)>>, (bound + bound) + 1,
             ((open \o y) \o (word \o z)) \o close)
  <2>1. Writes(<<Part("expr", open, l)>>, bound, open \o y) /\ Writes(<<Part("expr", word, r)>>, bound, word \o z)
    BY <1>1, <1>3, <1>4
  <2>2. Writes(<<Word(close)>>, 1, close)
    BY <1>1, WritesWord
  <2>3. Writes(Onward(<<Part("expr", open, l)>>, <<Part("expr", word, r)>>), bound + bound, (open \o y) \o (word \o z))
    BY <2>1, WritesJoin
  <2>4. Writes(Onward(Onward(<<Part("expr", open, l)>>, <<Part("expr", word, r)>>), <<Word(close)>>),
               (bound + bound) + 1, ((open \o y) \o (word \o z)) \o close)
    BY <2>2, <2>3, WritesJoin
  <2>5. QED BY <2>4, FewParts
<1>8. ((open \o y) \o (word \o z)) \o close = open \o ((y \o word) \o z) \o close
  <2>1. (open \o y) \o (word \o z) = open \o ((y \o word) \o z)
    <3>1. open \in Texts /\ y \in Texts /\ word \in Texts /\ z \in Texts
      BY <1>1, <1>3, <1>4
    <3>2. QED BY <3>1 DEF Texts
  <2>2. QED BY <2>1
<1>9. ExprParts(c) = <<Part("expr", open, l), Part("expr", word, r), Word(close)>>
  <2>1. ExprParts(c) = <<Expr(<<Tok("(")>>, c.sub[1]), Expr(<<Tok(c.op)>>, c.sub[2]), Word(<<Tok(")")>>)>>
    BY Zenon DEF ExprParts
  <2>2. QED BY <2>1, Zenon DEF Expr, open, close, word, l, r
<1>10. ~ExprIsLeaf(c)
  BY DEF ExprIsLeaf
<1>11. Says("expr", c, x, ((bound + bound) + 1) + 1)
  <2>1. ~ExprIsLeaf(c) /\ Writes(ExprParts(c), (bound + bound) + 1, open \o ((y \o word) \o z) \o close)
    BY <1>7, <1>8, <1>9, <1>10
  <2>2. (bound + bound) + 1 \in Nat
    BY <1>2
  <2>3. QED BY <1>6, <2>1, <2>2, InsideSays
<1>12. ((bound + bound) + 1) + 1 = 2 * bound + 2
  BY <1>2
<1>13. QED BY <1>11, <1>12 DEF x

\* What each kind of condition means (MeansIn), and the chains in it (ChainsIn).
LEMMA MeansIs ==
  ASSUME NEW M, NEW c, NEW ms, ms = [i \in DOMAIN c.sub |-> M[c.sub[i].cond]]
  PROVE  /\ c.op = "GROUP" => MeansIn(M, c) = Chain(c.sub, ms)
         /\ c.op \in {"EXISTS", "NOT EXISTS"} => MeansIn(M, c) = RowsOf(c.op, Mine(c.sub, ms))
         /\ c.op \in {"AND", "OR"} => MeansIn(M, c) = IF c.op = "AND" THEN M[c.sub[1]] \cap M[c.sub[2]]
                                                                    ELSE M[c.sub[1]] \cup M[c.sub[2]]
         /\ c.op = "NOT" => MeansIn(M, c) = EveryRow \ M[c.sub[1]]
         /\ c.op = "RAW" => MeansIn(M, c) = Selected(c.sub)
         /\ c.op \in Comparisons => MeansIn(M, c) = LeafRows(TokenOf(c))
<1>1. c.op = "GROUP" => MeansIn(M, c) = Chain(c.sub, ms)
  BY Zenon DEF MeansIn
<1>2. c.op = "EXISTS" => MeansIn(M, c) = RowsOf(c.op, Mine(c.sub, ms))
  <2>1. SUFFICES ASSUME c.op = "EXISTS" PROVE MeansIn(M, c) = RowsOf(c.op, Mine(c.sub, ms))
    OBVIOUS
  <2>2. MeansIn(M, c) = Exist(Mine(c.sub, ms))
    BY <2>1, Zenon DEF MeansIn, Mine
  <2>3. RowsOf(c.op, Mine(c.sub, ms)) = Exist(Mine(c.sub, ms))
    BY <2>1, Zenon DEF RowsOf
  <2>4. QED BY <2>2, <2>3
<1>3. c.op = "NOT EXISTS" => MeansIn(M, c) = RowsOf(c.op, Mine(c.sub, ms))
  <2>1. SUFFICES ASSUME c.op = "NOT EXISTS" PROVE MeansIn(M, c) = RowsOf(c.op, Mine(c.sub, ms))
    OBVIOUS
  <2>2. MeansIn(M, c) = EveryRow \ Exist(Mine(c.sub, ms))
    BY <2>1, Zenon DEF MeansIn, Mine
  <2>3. RowsOf(c.op, Mine(c.sub, ms)) = EveryRow \ Exist(Mine(c.sub, ms))
    BY <2>1, Zenon DEF RowsOf
  <2>4. QED BY <2>2, <2>3
<1>4. c.op = "AND" => MeansIn(M, c) = M[c.sub[1]] \cap M[c.sub[2]]
  BY Zenon DEF MeansIn
<1>5. c.op = "OR" => MeansIn(M, c) = M[c.sub[1]] \cup M[c.sub[2]]
  BY Zenon DEF MeansIn
<1>6. c.op = "NOT" => MeansIn(M, c) = EveryRow \ M[c.sub[1]]
  BY Zenon DEF MeansIn
<1>7. c.op = "RAW" => MeansIn(M, c) = Selected(c.sub)
  BY Zenon DEF MeansIn
<1>8. c.op \in Comparisons => MeansIn(M, c) = LeafRows(TokenOf(c))
  <2>1. SUFFICES ASSUME c.op \in Comparisons PROVE MeansIn(M, c) = LeafRows(TokenOf(c))
    OBVIOUS
  <2>2. c.op \notin {"RAW", "GROUP", "EXISTS", "NOT EXISTS", "AND", "OR", "NOT"}
    BY <2>1, OperatorsApart
  <2>3. QED BY <2>2, Zenon DEF MeansIn, TokenOf
<1>9. c.op \in {"AND", "OR"} => MeansIn(M, c) = IF c.op = "AND" THEN M[c.sub[1]] \cap M[c.sub[2]]
                                                              ELSE M[c.sub[1]] \cup M[c.sub[2]]
  BY <1>4, <1>5
<1>10. c.op \in {"EXISTS", "NOT EXISTS"} => MeansIn(M, c) = RowsOf(c.op, Mine(c.sub, ms))
  BY <1>2, <1>3
<1>11. QED BY <1>1, <1>6, <1>7, <1>8, <1>9, <1>10

\* One level more is enough for each kind of tree.
LEMMA AroundIs ==
  ASSUME NEW B \in Nat
  PROVE  /\ Around(B) \in Nat /\ 2 <= Around(B) /\ 2 * B + 2 <= Around(B) /\ B + 2 <= Around(B)
         /\ \A n \in Nat : n <= MaxWidth => n * B + 3 <= Around(B)
<1>1. MaxWidth \in Nat /\ 2 <= MaxWidth
  BY ReadableAssumption
<1>2. MaxWidth * B \in Nat
  BY <1>1
<1>3. \A n \in Nat : n <= MaxWidth => n * B <= MaxWidth * B
  <2>1. SUFFICES ASSUME NEW n \in Nat, n <= MaxWidth PROVE n * B <= MaxWidth * B
    OBVIOUS
  <2>2. PICK m \in Nat : MaxWidth = n + m
    BY <1>1, <2>1
  <2>3. MaxWidth * B = n * B + m * B
    BY <2>2
  <2>4. n * B \in Nat /\ m * B \in Nat
    BY <2>2
  <2>5. QED BY <2>3, <2>4
<1>4. 2 * B <= MaxWidth * B
  BY <1>1, <1>3
<1>5. QED BY <1>1, <1>2, <1>3, <1>4 DEF Around

\* A comparison and a raw text, as a condition or an expression.
LEMMA SimpleTells ==
  ASSUME NEW kind2 \in {"cond", "expr"}, NEW C, NEW M, NEW B \in Nat, NEW c \in Nodes,
         c.op \in Comparisons \/ (c.op = "RAW" /\ Atom(c.sub)), NEW F, kind2 = "expr" => FilledIn(F, c)
  PROVE  Tells(kind2, c, ChainsIn(C, c), MeansIn(M, c), Around(B))
<1>1. Around(B) \in Nat /\ 2 <= Around(B)
  BY AroundIs
<1>2. Says(kind2, c, MeansIn(M, c), 2)
  <2>1. CASE c.op \in Comparisons
    <3>1. MeansIn(M, c) = LeafRows(TokenOf(c))
      BY <2>1, MeansIs
    <3>2. Listed(kind2, c)
      BY DEF Listed, FilledIn
    <3>3. Says(kind2, c, LeafRows(TokenOf(c)), 2)
      BY <2>1, <3>2, LeafSays
    <3>4. QED BY <3>1, <3>3
  <2>2. CASE c.op = "RAW" /\ Atom(c.sub)
    <3>1. MeansIn(M, c) = Selected(c.sub)
      BY <2>2, MeansIs
    <3>2. Says(kind2, c, Selected(c.sub), 2)
      BY <2>2, RawSays
    <3>3. QED BY <3>1, <3>2
  <2>3. QED BY <2>1, <2>2
<1>3. Says(kind2, c, MeansIn(M, c), Around(B))
  BY <1>1, <1>2, SaysMore
<1>4. QED BY <1>3 DEF Tells

\* The conditions of a group or a subquery, one level down (IsChain).
LEMMA InsideChain ==
  ASSUME NEW R, NEW F, NEW C, NEW M, NEW B, Level(R, F, M, C, B), NEW list, IsChain(list, R), list \in CondsOf(Nodes)
  PROVE  /\ IsList(list) /\ Len(list) <= MaxWidth
         /\ \A k \in 1 .. Len(list) : Tells("cond", list[k].cond, C[list[k].cond], M[list[k].cond], B)
<1> DEFINE T == [join : {"AND", "OR"}, cond : Nodes]
           U == [join : Names, cond : Nodes]
<1>1. list \in Seq(U)
  BY DEF CondsOf
<1>2. Len(list) <= MaxWidth /\ \A i \in DOMAIN list : /\ list[i].join \in {"AND", "OR"}
                                                       /\ list[i].cond \in R /\ list[i].cond.op \notin Logic
  BY DEF IsChain
<1>3. \A i \in 1 .. Len(list) : list[i] \in U
  <2> HIDE DEF U
  <2>1. QED BY <1>1
<1>4. DOMAIN list = 1 .. Len(list) /\ Len(list) \in Nat
  BY <1>1
<1>5. \A i \in 1 .. Len(list) : list[i] \in T
  <2>1. SUFFICES ASSUME NEW i \in 1 .. Len(list) PROVE list[i] \in T
    OBVIOUS
  <2>2. list[i] \in U
    BY <1>3
  <2>3. list[i].join \in {"AND", "OR"}
    BY <1>2, <1>4
  <2>4. QED BY <2>2, <2>3
<1>6. list \in Seq(T)
  <2>1. DOMAIN list = DOMAIN list /\ list = [i \in DOMAIN list |-> list[i]]
    <3> HIDE DEF U
    <3>1. QED BY <1>1
  <2> HIDE DEF T, U
  <2>2. QED BY <1>1, <1>5, <2>1, MadeSeq
<1>7. IsList(list)
  BY <1>6 DEF IsList
<1>8. ASSUME NEW k \in 1 .. Len(list)
      PROVE  Tells("cond", list[k].cond, C[list[k].cond], M[list[k].cond], B)
  <2>1. list[k].cond \in R /\ list[k].cond.op \notin Logic
    BY <1>2, <1>4
  <2>2. QED BY <2>1 DEF Level
<1>9. QED BY <1>2, <1>7, <1>8

\* The chains of a group or a subquery have no OR in a subquery when it has none.
LEMMA StraightInside ==
  ASSUME NEW C, NEW c, c.op \in Subqueries, Straight(ChainsIn(C, c))
  PROVE  /\ c.op # "GROUP" => NoOr(c.sub)
         /\ \A i \in DOMAIN c.sub : Straight(C[c.sub[i].cond])
<1>1. ChainsIn(C, c) = {<<c.op, c.sub>>} \cup UNION {C[c.sub[i].cond] : i \in DOMAIN c.sub}
  BY DEF ChainsIn
<1>2. <<c.op, c.sub>> \in ChainsIn(C, c)
  BY <1>1
<1>3. \A i \in DOMAIN c.sub : C[c.sub[i].cond] \subseteq ChainsIn(C, c)
  BY <1>1
<1>4. c.op # "GROUP" => NoOr(c.sub)
  BY <1>2 DEF Straight
<1>5. \A i \in DOMAIN c.sub : Straight(C[c.sub[i].cond])
  BY <1>3 DEF Straight
<1>6. QED BY <1>4, <1>5

\* A group or a subquery (Group, Subquery).
LEMMA SubqueryTells ==
  ASSUME NEW R, NEW F, NEW C, NEW M, NEW B, Level(R, F, M, C, B), NEW c \in Nodes, c.op \in Subqueries,
         IsChain(c.sub, R), c.op = "GROUP" => c.sub # <<>>
  PROVE  Tells("cond", c, ChainsIn(C, c), MeansIn(M, c), Around(B))
<1> DEFINE list == c.sub
           ms == [k \in 1 .. Len(list) |-> M[list[k].cond]]
           cs == [k \in 1 .. Len(list) |-> C[list[k].cond]]
<1>1. B \in Nat
  BY DEF Level
<1>2. list \in CondsOf(Nodes)
  <2>1. WellFormed(c, Nodes)
    BY NodesWellFormed
  <2>2. QED BY <2>1 DEF WellFormed, Subqueries
<1>3. /\ IsList(list) /\ Len(list) <= MaxWidth
      /\ \A k \in 1 .. Len(list) : Tells("cond", list[k].cond, C[list[k].cond], M[list[k].cond], B)
  BY <1>2, InsideChain
<1>4. DOMAIN list = 1 .. Len(list) /\ Len(list) \in Nat
  BY <1>3, ListIs
<1>5. ms = [i \in DOMAIN c.sub |-> M[c.sub[i].cond]]
  BY <1>4
<1>6. PICK rows : /\ \A k \in 1 .. Len(list) : Says("cond", list[k].cond, rows[k], B)
                  /\ (\A k \in 1 .. Len(list) : Straight(cs[k])) => rows = [k \in 1 .. Len(list) |-> ms[k]]
  <2>1. \A k \in 1 .. Len(list) : Tells("cond", list[k].cond, cs[k], ms[k], B)
    BY <1>3
  <2> HIDE DEF cs, ms, list
  <2>2. ChainTells("cond", list, cs, ms, B)
    BY <1>3, <2>1, ChainRows
  <2>3. QED BY <2>2 DEF ChainTells
<1>7. Straight(ChainsIn(C, c)) => rows = ms /\ (c.op # "GROUP" => NoOr(list))
  <2>1. SUFFICES ASSUME Straight(ChainsIn(C, c))
                 PROVE  rows = ms /\ (c.op # "GROUP" => NoOr(list))
    OBVIOUS
  <2>2. /\ c.op # "GROUP" => NoOr(list)
        /\ \A i \in DOMAIN c.sub : Straight(C[c.sub[i].cond])
    BY <2>1, StraightInside
  <2>3. \A k \in 1 .. Len(list) : Straight(cs[k])
    BY <1>4, <2>2
  <2>4. rows = [k \in 1 .. Len(list) |-> ms[k]]
    BY <1>6, <2>3
  <2>5. rows = ms
    BY <2>4
  <2>6. QED BY <2>2, <2>5
<1>8. Around(B) \in Nat /\ Len(list) * B + 3 <= Around(B)
  BY <1>1, <1>3, <1>4, AroundIs
<1> HIDE DEF ms, cs
<1>9. CASE c.op = "GROUP"
  <2>1. Says("cond", c, Chain(list, rows), Len(list) * B + 3)
    BY <1>1, <1>3, <1>6, <1>9, GroupSays
  <2>2. Says("cond", c, Chain(list, rows), Around(B))
    BY <1>8, <2>1, SaysMore
  <2>3. MeansIn(M, c) = Chain(list, ms)
    BY <1>5, <1>9, MeansIs
  <2>4. Straight(ChainsIn(C, c)) => Chain(list, rows) = MeansIn(M, c)
    BY <1>7, <2>3
  <2>5. QED BY <2>2, <2>4 DEF Tells
<1>10. CASE c.op \in {"EXISTS", "NOT EXISTS"}
  <2>1. PICK x : /\ Says("cond", c, x, Len(list) * B + 3)
                 /\ NoOr(list) => x = RowsOf(c.op, Mine(list, rows))
    <3>1. SubquerySays(c, c.op, list, rows, B)
      BY <1>1, <1>3, <1>6, <1>10, ExistsSays
    <3>2. QED BY <3>1 DEF SubquerySays
  <2>2. Says("cond", c, x, Around(B))
    BY <1>8, <2>1, SaysMore
  <2>3. MeansIn(M, c) = RowsOf(c.op, Mine(list, ms))
    BY <1>5, <1>10, MeansIs
  <2>4. Straight(ChainsIn(C, c)) => x = MeansIn(M, c)
    BY <1>7, <1>10, <2>1, <2>3
  <2>5. QED BY <2>2, <2>4 DEF Tells
<1>11. QED BY <1>9, <1>10 DEF Subqueries

\* AND, OR and NOT (And, Or, Not).
LEMMA LogicTells ==
  ASSUME NEW R, NEW F, NEW C, NEW M, NEW B, Level(R, F, M, C, B), NEW c \in Nodes, c.op \in Logic,
         \A i \in DOMAIN c.sub : c.sub[i] \in R /\ c.sub[i].op \notin Subqueries, FilledIn(F, c)
  PROVE  Tells("expr", c, ChainsIn(C, c), MeansIn(M, c), Around(B))
<1>1. B \in Nat
  BY DEF Level
<1>2. Around(B) \in Nat /\ 2 * B + 2 <= Around(B) /\ B + 2 <= Around(B)
  BY <1>1, AroundIs
<1>3. WellFormed(c, Nodes)
  BY NodesWellFormed
<1>4. ASSUME NEW i \in DOMAIN c.sub
      PROVE  Says("expr", c.sub[i], M[c.sub[i]], B)
  <2>1. C[c.sub[i]] = {} /\ Tells("expr", c.sub[i], C[c.sub[i]], M[c.sub[i]], B)
    BY <1>4 DEF Level, FilledIn
  <2>2. Straight({})
    BY DEF Straight
  <2>3. QED BY <2>1, <2>2 DEF Tells
<1>5. CASE c.op \in {"AND", "OR"}
  <2>1. 1 \in DOMAIN c.sub /\ 2 \in DOMAIN c.sub
    <3>1. c.sub \in Nodes \X Nodes
      BY <1>3, <1>5 DEF WellFormed
    <3>2. QED BY <3>1
  <2> DEFINE x == IF c.op = "AND" THEN M[c.sub[1]] \cap M[c.sub[2]] ELSE M[c.sub[1]] \cup M[c.sub[2]]
  <2>2. Says("expr", c, x, 2 * B + 2)
    <3>1. Says("expr", c.sub[1], M[c.sub[1]], B) /\ Says("expr", c.sub[2], M[c.sub[2]], B)
      BY <1>4, <2>1
    <3>2. QED BY <1>5, <3>1, AndOrSays
  <2>3. MeansIn(M, c) = x
    BY <1>5, MeansIs
  <2> HIDE DEF x
  <2>4. Says("expr", c, x, Around(B))
    BY <1>2, <2>2, SaysMore
  <2>5. QED BY <2>3, <2>4 DEF Tells
<1>6. CASE c.op = "NOT"
  <2>1. 1 \in DOMAIN c.sub
    BY <1>3, <1>6 DEF WellFormed
  <2>2. Says("expr", c, EveryRow \ M[c.sub[1]], B + 2)
    BY <1>4, <1>6, <2>1, NotSays
  <2>3. MeansIn(M, c) = EveryRow \ M[c.sub[1]]
    BY <1>6, MeansIs
  <2>4. Says("expr", c, MeansIn(M, c), B + 2)
    BY <2>2, <2>3
  <2>5. Says("expr", c, MeansIn(M, c), Around(B))
    BY <1>2, <2>4, SaysMore
  <2>6. QED BY <2>5 DEF Tells
<1>7. QED BY <1>5, <1>6 DEF Logic

\* A condition says what it means when those inside it do (ReadableIn).
LEMMA LevelTells ==
  ASSUME NEW R, NEW F, NEW C, NEW M, NEW B, Level(R, F, M, C, B), NEW c \in Nodes, ReadableIn(R, c)
  PROVE  /\ c.op \notin Logic => Tells("cond", c, ChainsIn(C, c), MeansIn(M, c), Around(B))
         /\ c.op \notin Subqueries => /\ ChainsIn(C, c) = {}
                                      /\ FilledIn(F, c) => Tells("expr", c, ChainsIn(C, c), MeansIn(M, c), Around(B))
<1>1. B \in Nat
  BY DEF Level
<1>2. c.op \notin Subqueries => ChainsIn(C, c) = {}
  BY DEF ChainsIn
<1>3. CASE c.op \in Comparisons \/ (c.op = "RAW" /\ Atom(c.sub))
  <2>1. Tells("cond", c, ChainsIn(C, c), MeansIn(M, c), Around(B))
    BY <1>1, <1>3, SimpleTells
  <2>2. FilledIn(F, c) => Tells("expr", c, ChainsIn(C, c), MeansIn(M, c), Around(B))
    BY <1>1, <1>3, SimpleTells
  <2>3. QED BY <1>2, <2>1, <2>2
<1>4. CASE c.op \in Subqueries /\ IsChain(c.sub, R) /\ (c.op = "GROUP" => c.sub # <<>>)
  <2>1. Tells("cond", c, ChainsIn(C, c), MeansIn(M, c), Around(B))
    BY <1>4, SubqueryTells
  <2>2. QED BY <1>4, <2>1
<1>5. CASE c.op \in Logic /\ \A i \in DOMAIN c.sub : c.sub[i] \in R /\ c.sub[i].op \notin Subqueries
  <2>1. FilledIn(F, c) => Tells("expr", c, ChainsIn(C, c), MeansIn(M, c), Around(B))
    BY <1>5, LogicTells
  <2>2. QED BY <1>2, <1>5, <2>1
<1>6. QED BY <1>3, <1>4, <1>5 DEF ReadableIn

-----------------------------------------------------------------------------
(* What is said of a condition, told from what is said of those inside it. *)

\* What a condition means is a set of rows when what is inside it is.
LEMMA MeansType ==
  ASSUME NEW M \in [Trees -> SUBSET EveryRow], NEW c \in Trees
  PROVE  MeansIn(M, c) \in SUBSET EveryRow
<1> DEFINE ms == [i \in DOMAIN c.sub |-> M[c.sub[i].cond]]
<1>1. WellFormed(c, Trees)
  BY CallerAssumption
<1>2. CASE c.op = "GROUP"
  <2>1. MeansIn(M, c) = Chain(c.sub, ms)
    BY <1>2, MeansIs
  <2>2. QED BY <2>1, MineIs
<1>3. CASE c.op \in {"EXISTS", "NOT EXISTS"}
  <2>1. MeansIn(M, c) = RowsOf(c.op, Mine(c.sub, ms))
    BY <1>3, MeansIs
  <2>2. Exist(Mine(c.sub, ms)) \in SUBSET EveryRow
    BY RowSets
  <2> HIDE DEF ms
  <2>3. QED BY <1>3, <2>1, <2>2 DEF RowsOf
<1>4. CASE c.op \in {"AND", "OR"}
  <2>1. c.sub[1] \in Trees /\ c.sub[2] \in Trees
    BY <1>1, <1>4 DEF WellFormed
  <2>2. MeansIn(M, c) = IF c.op = "AND" THEN M[c.sub[1]] \cap M[c.sub[2]] ELSE M[c.sub[1]] \cup M[c.sub[2]]
    BY <1>4, MeansIs
  <2>3. QED BY <2>1, <2>2
<1>5. CASE c.op = "NOT"
  <2>1. MeansIn(M, c) = EveryRow \ M[c.sub[1]]
    BY <1>5, MeansIs
  <2>2. QED BY <2>1
<1>6. CASE c.op = "RAW"
  <2>1. MeansIn(M, c) = Selected(c.sub)
    BY <1>6, MeansIs
  <2>2. c.sub \in RawTexts
    BY <1>1, <1>6 DEF WellFormed
  <2>3. Selected(c.sub) \in SUBSET EveryRow
    <3> DEFINE end == Parsed(<<Open("(")>>, c.sub)
    <3>1. end \in Stacks
      BY <2>2, SoleIs, ParsedJoins DEF RawTexts, Sole
    <3>2. Selected(c.sub) = IF Len(end) = 1 /\ end[1].ended THEN Holds(end[1]) ELSE {}
      BY DEF Selected
    <3> HIDE DEF end
    <3>3. CASE Len(end) = 1
      <4>1. end[1] \in Frames
        <5>1. end \in Seq(Frames)
          BY <3>1 DEF Stacks
        <5>2. \A s \in Seq(Frames) : \A i \in 1 .. Len(s) : s[i] \in Frames
          OBVIOUS
        <5>3. 1 \in 1 .. Len(end)
          BY <3>3
        <5>4. QED BY <5>1, <5>2, <5>3
      <4>2. Holds(end[1]) \in SUBSET EveryRow
        BY <4>1, RowSets
      <4>3. QED BY <3>2, <4>2
    <3>4. QED BY <3>2, <3>3
  <2>4. QED BY <2>1, <2>3
<1>7. CASE c.op \notin {"GROUP", "EXISTS", "NOT EXISTS", "AND", "OR", "NOT", "RAW"}
  <2>1. MeansIn(M, c) = LeafRows(TokenOf(c))
    BY <1>7, Zenon DEF MeansIn, TokenOf
  <2>2. QED BY <2>1, RowSets
<1>8. QED BY <1>2, <1>3, <1>4, <1>5, <1>6, <1>7

\* The same as a function that is equal to its own body.
LEMMA RecursionUnfolds ==
  ASSUME NEW S, NEW b \in S, NEW H \in [S -> S]
  PROVE  \E f : Unfolds(f, S, b, H)
<1> DEFINE G == [p \in S \X Nat |-> H[p[1]]]
<1>1. PICK f : Recurs(f, S, b, G)
  BY RecursionExists
<1>2. f \in [Nat -> S] /\ f[0] = b /\ \A n \in Nat : f[n + 1] = G[<<f[n], n + 1>>]
  BY <1>1 DEF Recurs
<1>3. ASSUME NEW n \in Nat, n # 0
      PROVE  f[n - 1] \in S /\ f[n] = H[f[n - 1]]
  <2>1. n - 1 \in Nat /\ (n - 1) + 1 = n
    BY <1>3
  <2>2. f[(n - 1) + 1] = H[f[n - 1]]
    BY <1>2, <2>1
  <2>3. QED BY <1>2, <2>1, <2>2
<1>4. f = [n \in Nat |-> f[n]]
  BY <1>2
<1>5. QED BY <1>2, <1>3, <1>4 DEF Unfolds

\* There are such meanings, those of Deep.
LEMMA MeaningsExist ==
  \E T : MeaningsOf(T)
<1> DEFINE S == [Trees -> SUBSET EveryRow]
           b == [t \in Trees |-> {}]
           H == [p \in S |-> [t \in Trees |-> MeansIn(p, t)]]
           Body(f) == [n \in Nat |-> [t \in Trees |-> IF n = 0 THEN {} ELSE MeansIn(f[n - 1], t)]]
           T == CHOOSE f : f = Body(f)
<1>1. b \in S
  OBVIOUS
<1>2. H \in [S -> S]
  <2>1. \A p \in S : [t \in Trees |-> MeansIn(p, t)] \in S
    BY MeansType
  <2> HIDE DEF S
  <2>2. QED BY <2>1
<1>3. \E f : f = Body(f)
  <2>1. PICK f : Unfolds(f, S, b, H)
    <3> HIDE DEF S, b, H
    <3>1. QED BY <1>1, <1>2, RecursionUnfolds
  <2>2. f = [n \in Nat |-> f[n]] /\ f[0] = b
    BY <2>1 DEF Unfolds
  <2>3. ASSUME NEW n \in Nat, n # 0
        PROVE  f[n] = [t \in Trees |-> MeansIn(f[n - 1], t)]
    <3> HIDE DEF S, b
    <3>1. QED BY <2>1, <2>3 DEF Unfolds
  <2>4. f = Body(f)
    BY <2>2, <2>3
  <2>5. QED BY <2>4
<1>4. T = Body(T)
  BY <1>3
<1>5. \A c : Means(c) = MeansIn(T[MaxDepth], c)
  BY DEF Means, Deep
<1> HIDE DEF T
<1>6. ASSUME NEW n \in Nat, NEW t \in Trees
      PROVE  T[n + 1][t] = MeansIn(T[n], t)
  <2>1. n + 1 \in Nat /\ n + 1 # 0 /\ (n + 1) - 1 = n
    OBVIOUS
  <2>2. T[n + 1] = [u \in Trees |-> IF n + 1 = 0 THEN {} ELSE MeansIn(T[(n + 1) - 1], u)]
    BY <1>4, <2>1
  <2> HIDE DEF Body
  <2>3. QED BY <2>1, <2>2
<1>7. QED BY <1>5, <1>6 DEF MeaningsOf

\* The chains inside a condition are groups and subqueries of the caller's.
LEMMA ChainsType ==
  ASSUME NEW P, P = Names \X CondsOf(Trees), NEW C \in [Trees -> SUBSET P], NEW c \in Trees
  PROVE  ChainsIn(C, c) \in SUBSET P
<1>1. WellFormed(c, Trees)
  BY CallerAssumption
<1>2. CASE c.op \in Subqueries
  <2>1. c.sub \in CondsOf(Trees) /\ c.op \in Names
    BY <1>1, <1>2 DEF WellFormed, Subqueries
  <2>2. \A i \in DOMAIN c.sub : c.sub[i].cond \in Trees
    <3> DEFINE U == [join : Names, cond : Trees]
    <3>1. c.sub \in Seq(U)
      BY <2>1 DEF CondsOf
    <3>2. \A i \in DOMAIN c.sub : c.sub[i] \in U
      <4> HIDE DEF U
      <4>1. QED BY <3>1
    <3>3. QED BY <3>2
  <2>3. \A i \in DOMAIN c.sub : C[c.sub[i].cond] \subseteq P
    BY <2>2
  <2>4. ChainsIn(C, c) = {<<c.op, c.sub>>} \cup UNION {C[c.sub[i].cond] : i \in DOMAIN c.sub}
    BY <1>2 DEF ChainsIn
  <2>5. <<c.op, c.sub>> \in P
    BY <2>1
  <2>6. QED BY <2>3, <2>4, <2>5
<1>3. CASE c.op \notin Subqueries
  BY <1>3 DEF ChainsIn
<1>4. QED BY <1>2, <1>3

\* There are such chains, those of Deep.
LEMMA ChainsExist ==
  \E T : ChainsUpTo(T)
<1> DEFINE P == Names \X CondsOf(Trees)
           S == [Trees -> SUBSET P]
           b == [t \in Trees |-> {}]
           H == [p \in S |-> [t \in Trees |-> ChainsIn(p, t)]]
           Body(f) == [n \in Nat |-> [t \in Trees |-> IF n = 0 THEN {} ELSE ChainsIn(f[n - 1], t)]]
           T == CHOOSE f : f = Body(f)
<1>1. b \in S
  OBVIOUS
<1>2. H \in [S -> S]
  <2>1. \A p \in S : [t \in Trees |-> ChainsIn(p, t)] \in S
    BY ChainsType
  <2> HIDE DEF S
  <2>2. QED BY <2>1
<1>3. \E f : f = Body(f)
  <2>1. PICK f : Unfolds(f, S, b, H)
    <3> HIDE DEF S, b, H
    <3>1. QED BY <1>1, <1>2, RecursionUnfolds
  <2>2. f = [n \in Nat |-> f[n]] /\ f[0] = b
    BY <2>1 DEF Unfolds
  <2>3. ASSUME NEW n \in Nat, n # 0
        PROVE  f[n] = [t \in Trees |-> ChainsIn(f[n - 1], t)]
    <3> HIDE DEF S, b
    <3>1. QED BY <2>1, <2>3 DEF Unfolds
  <2>4. f = Body(f)
    BY <2>2, <2>3
  <2>5. QED BY <2>4
<1>4. T = Body(T)
  BY <1>3
<1>5. \A c : ChainsOf(c) = ChainsIn(T[MaxDepth], c)
  BY DEF ChainsOf, Deep
<1> HIDE DEF T
<1>6. ASSUME NEW n \in Nat, NEW t \in Trees
      PROVE  T[n + 1][t] = ChainsIn(T[n], t)
  <2>1. n + 1 \in Nat /\ n + 1 # 0 /\ (n + 1) - 1 = n
    OBVIOUS
  <2>2. T[n + 1] = [u \in Trees |-> IF n + 1 = 0 THEN {} ELSE ChainsIn(T[(n + 1) - 1], u)]
    BY <1>4, <2>1
  <2> HIDE DEF Body
  <2>3. QED BY <2>1, <2>2
<1>7. QED BY <1>5, <1>6 DEF ChainsUpTo

\* The readable conditions, level by level.
LEMMA ReadableAre ==
  /\ Readable[0] = {}
  /\ \A n \in Nat : Readable[n + 1] = {c \in Trees : ReadableIn(Readable[n], c)}
<1> DEFINE S == SUBSET Trees
           b == {}
           H == [p \in S |-> {c \in Trees : ReadableIn(p, c)}]
           Body(f) == [n \in Nat |-> IF n = 0 THEN {} ELSE {c \in Trees : ReadableIn(f[n - 1], c)}]
           T == CHOOSE f : f = Body(f)
<1>1. b \in S
  OBVIOUS
<1>2. H \in [S -> S]
  OBVIOUS
<1>3. \E f : f = Body(f)
  <2>1. PICK f : Unfolds(f, S, b, H)
    <3> HIDE DEF S, b, H
    <3>1. QED BY <1>1, <1>2, RecursionUnfolds
  <2>2. f = [n \in Nat |-> f[n]] /\ f[0] = b
    BY <2>1 DEF Unfolds
  <2>3. ASSUME NEW n \in Nat, n # 0
        PROVE  f[n] = {c \in Trees : ReadableIn(f[n - 1], c)}
    <3> HIDE DEF S, b
    <3>1. QED BY <2>1, <2>3 DEF Unfolds
  <2>4. f = Body(f)
    BY <2>2, <2>3
  <2>5. QED BY <2>4
<1>4. T = Body(T)
  BY <1>3
<1>5. Readable = T
  BY DEF Readable
<1> HIDE DEF T
<1>6. \A n \in Nat : T[n] = IF n = 0 THEN {} ELSE {c \in Trees : ReadableIn(T[n - 1], c)}
  BY <1>4
<1>7. \A n \in Nat : n + 1 \in Nat /\ n + 1 # 0 /\ (n + 1) - 1 = n
  OBVIOUS
<1>8. QED BY <1>5, <1>6, <1>7

\* The conditions without an empty list, level by level.
LEMMA FilledAre ==
  /\ Filled[0] = {}
  /\ \A n \in Nat : Filled[n + 1] = {c \in Trees : FilledIn(Filled[n], c)}
<1> DEFINE S == SUBSET Trees
           b == {}
           H == [p \in S |-> {c \in Trees : FilledIn(p, c)}]
           Body(f) == [n \in Nat |-> IF n = 0 THEN {} ELSE {c \in Trees : FilledIn(f[n - 1], c)}]
           T == CHOOSE f : f = Body(f)
<1>1. b \in S
  OBVIOUS
<1>2. H \in [S -> S]
  OBVIOUS
<1>3. \E f : f = Body(f)
  <2>1. PICK f : Unfolds(f, S, b, H)
    <3> HIDE DEF S, b, H
    <3>1. QED BY <1>1, <1>2, RecursionUnfolds
  <2>2. f = [n \in Nat |-> f[n]] /\ f[0] = b
    BY <2>1 DEF Unfolds
  <2>3. ASSUME NEW n \in Nat, n # 0
        PROVE  f[n] = {c \in Trees : FilledIn(f[n - 1], c)}
    <3> HIDE DEF S, b
    <3>1. QED BY <2>1, <2>3 DEF Unfolds
  <2>4. f = Body(f)
    BY <2>2, <2>3
  <2>5. QED BY <2>4
<1>4. T = Body(T)
  BY <1>3
<1>5. Filled = T
  BY DEF Filled
<1> HIDE DEF T
<1>6. \A n \in Nat : T[n] = IF n = 0 THEN {} ELSE {c \in Trees : FilledIn(T[n - 1], c)}
  BY <1>4
<1>7. \A n \in Nat : n + 1 \in Nat /\ n + 1 # 0 /\ (n + 1) - 1 = n
  OBVIOUS
<1>8. QED BY <1>5, <1>6, <1>7

\* The steps of a condition that is n deep.
LEMMA MostPartsAre ==
  /\ MostParts[0] = 0
  /\ \A n \in Nat : MostParts[n] \in Nat /\ MostParts[n + 1] = Around(MostParts[n])
<1> DEFINE S == Nat
           b == 0
           H == [p \in S |-> Around(p)]
           Body(f) == [n \in Nat |-> IF n = 0 THEN 0 ELSE 3 + MaxWidth * f[n - 1]]
           T == CHOOSE f : f = Body(f)
<1>1. b \in S
  OBVIOUS
<1>2. H \in [S -> S]
  BY AroundIs
<1>3. \E f : f = Body(f)
  <2>1. PICK f : Unfolds(f, S, b, H)
    <3> HIDE DEF S, b, H
    <3>1. QED BY <1>1, <1>2, RecursionUnfolds
  <2>2. /\ f = [n \in Nat |-> f[n]] /\ f[0] = b
        /\ \A n \in Nat : n # 0 => f[n - 1] \in S /\ f[n] = H[f[n - 1]]
    BY <2>1 DEF Unfolds
  <2>3. f = Body(f)
    BY <2>2 DEF Around
  <2>4. QED BY <2>3
<1>4. T = Body(T)
  BY <1>3
<1>5. MostParts = T
  BY DEF MostParts
<1> HIDE DEF T
<1>6. \A n \in Nat : T[n] = IF n = 0 THEN 0 ELSE 3 + MaxWidth * T[n - 1]
  BY <1>4
<1> HIDE DEF Body
<1>7. T[0] = 0
  BY <1>6
<1>8. ASSUME NEW n \in Nat
      PROVE  T[n + 1] = Around(T[n])
  <2>1. n + 1 \in Nat /\ n + 1 # 0 /\ (n + 1) - 1 = n
    OBVIOUS
  <2>2. T[n + 1] = IF n + 1 = 0 THEN 0 ELSE 3 + MaxWidth * T[(n + 1) - 1]
    BY <1>6, <2>1
  <2>3. T[n + 1] = 3 + MaxWidth * T[n]
    BY <2>1, <2>2
  <2>4. QED BY <2>3 DEF Around
<1>9. \A n \in Nat : T[n] \in Nat
  <2> DEFINE E == {n \in Nat : T[n] \in Nat}
  <2>1. 0 \in E
    BY <1>7
  <2>2. ASSUME NEW n \in Nat, n \in E
        PROVE  n + 1 \in E
    <3>1. T[n + 1] = Around(T[n]) /\ Around(T[n]) \in Nat
      BY <1>8, <2>2, AroundIs
    <3>2. QED BY <3>1
  <2> HIDE DEF E
  <2>3. \A n \in Nat : n \in E
    BY <2>1, <2>2, Induction
  <2>4. QED BY <2>3 DEF E
<1>10. QED BY <1>5, <1>7, <1>8, <1>9

\* Whatever its depth, a readable condition says what it means.
LEMMA LevelsTell ==
  ASSUME NEW M, MeaningsOf(M), NEW C, ChainsUpTo(C)
  PROVE  \A n \in Nat : \A m \in Nat : n <= m => Level(Readable[n], Filled[m], M[m], C[m], MostParts[n])
<1> DEFINE E == {n \in Nat : \A m \in Nat : n <= m => Level(Readable[n], Filled[m], M[m], C[m], MostParts[n])}
<1>1. 0 \in E
  BY ReadableAre, MostPartsAre DEF Level
<1>2. ASSUME NEW n \in Nat, n \in E
      PROVE  n + 1 \in E
  <2>1. SUFFICES ASSUME NEW m \in Nat, n + 1 <= m
                 PROVE  Level(Readable[n + 1], Filled[m], M[m], C[m], MostParts[n + 1])
    OBVIOUS
  <2>2. m - 1 \in Nat /\ n <= m - 1 /\ (m - 1) + 1 = m
    BY <2>1
  <2>3. Level(Readable[n], Filled[m - 1], M[m - 1], C[m - 1], MostParts[n])
    BY <1>2, <2>2
  <2>4. MostParts[n + 1] = Around(MostParts[n]) /\ MostParts[n + 1] \in Nat
    BY MostPartsAre
  <2>5. ASSUME NEW t \in Readable[n + 1]
        PROVE  /\ t \in Nodes
               /\ t.op \notin Logic => Tells("cond", t, C[m][t], M[m][t], MostParts[n + 1])
               /\ t.op \notin Subqueries =>
                     C[m][t] = {} /\ (t \in Filled[m] => Tells("expr", t, C[m][t], M[m][t], MostParts[n + 1]))
    <3>1. t \in Trees /\ ReadableIn(Readable[n], t)
      BY ReadableAre
    <3>2. t \in Nodes
      BY <3>1 DEF Nodes
    <3>3. M[m][t] = MeansIn(M[m - 1], t) /\ C[m][t] = ChainsIn(C[m - 1], t)
      <4>1. M[(m - 1) + 1][t] = MeansIn(M[m - 1], t) /\ C[(m - 1) + 1][t] = ChainsIn(C[m - 1], t)
        BY <2>2, <3>1 DEF MeaningsOf, ChainsUpTo
      <4>2. QED BY <2>2, <4>1
    <3>4. /\ t.op \notin Logic => Tells("cond", t, ChainsIn(C[m - 1], t), MeansIn(M[m - 1], t), Around(MostParts[n]))
          /\ t.op \notin Subqueries =>
                /\ ChainsIn(C[m - 1], t) = {}
                /\ FilledIn(Filled[m - 1], t) =>
                     Tells("expr", t, ChainsIn(C[m - 1], t), MeansIn(M[m - 1], t), Around(MostParts[n]))
      BY <2>3, <3>1, <3>2, LevelTells
    <3>5. t \in Filled[m] => FilledIn(Filled[m - 1], t)
      <4>1. t \in Filled[(m - 1) + 1] => FilledIn(Filled[m - 1], t)
        BY <2>2, FilledAre
      <4>2. QED BY <2>2, <4>1
    <3>6. QED BY <2>4, <3>2, <3>3, <3>4, <3>5
  <2>6. QED BY <2>4, <2>5 DEF Level
<1> HIDE DEF E
<1>3. \A n \in Nat : n \in E
  BY <1>1, <1>2, Induction
<1>4. QED BY <1>3 DEF E

\* A condition or an expression of a caller says what it means.
LEMMA ReadableTells ==
  ASSUME NEW c \in Nodes, ReadableTree(c)
  PROVE  /\ MostSteps \in Nat /\ 2 <= MostSteps
         /\ c.op \notin Logic => Tells("cond", c, ChainsOf(c), Means(c), MostSteps)
         /\ c.op \notin Subqueries =>
               ChainsOf(c) = {} /\ (IsFilled(c) => Tells("expr", c, ChainsOf(c), Means(c), MostSteps))
<1>1. PICK M : MeaningsOf(M)
  BY MeaningsExist
<1>2. PICK C : ChainsUpTo(C)
  BY ChainsExist
<1>3. MaxDepth \in Nat
  BY ReadableAssumption
<1>4. Level(Readable[MaxDepth], Filled[MaxDepth], M[MaxDepth], C[MaxDepth], MostParts[MaxDepth])
  BY <1>1, <1>2, <1>3, LevelsTell
<1>5. Means(c) = MeansIn(M[MaxDepth], c) /\ ChainsOf(c) = ChainsIn(C[MaxDepth], c)
  BY <1>1, <1>2 DEF MeaningsOf, ChainsUpTo
<1>6. ReadableIn(Readable[MaxDepth], c)
  BY DEF ReadableTree
<1>7. MostSteps = Around(MostParts[MaxDepth]) /\ MostParts[MaxDepth] \in Nat
  BY <1>3, MostPartsAre DEF MostSteps
<1>8. MostSteps \in Nat /\ 2 <= MostSteps
  BY <1>7, AroundIs
<1>9. /\ c.op \notin Logic =>
            Tells("cond", c, ChainsIn(C[MaxDepth], c), MeansIn(M[MaxDepth], c), Around(MostParts[MaxDepth]))
      /\ c.op \notin Subqueries =>
            /\ ChainsIn(C[MaxDepth], c) = {}
            /\ FilledIn(Filled[MaxDepth], c) =>
                 Tells("expr", c, ChainsIn(C[MaxDepth], c), MeansIn(M[MaxDepth], c), Around(MostParts[MaxDepth]))
  BY <1>4, <1>6, LevelTells
<1>10. IsFilled(c) <=> FilledIn(Filled[MaxDepth], c)
  BY DEF IsFilled, FilledTrees
<1>11. QED BY <1>5, <1>7, <1>8, <1>9, <1>10

-----------------------------------------------------------------------------
(* The rows of a WHERE, for a dialect with placeholders.                   *)

\* A list is read as a comparison.
LEMMA ListReads ==
  ASSUME NEW open, NEW k, k.t \in ListOps
  PROVE  /\ open = <<>> \/ Head(open).ended \/ k.args = <<>> => Read(open, k) = <<>>
         /\ open # <<>> /\ ~Head(open).ended /\ k.args # <<>> =>
                Read(open, k) = Onto(Tail(open), Factor(Head(open), LeafRows(k)))
<1>1. /\ Compares(k) <=> k.args # <<>>
      /\ k.t \notin Opening /\ k.t # "NOT"
      /\ k.t # "AND" /\ k.t # "OR" /\ k.t # ")"
  BY DEF Compares, Refused, Comparisons, Opening, ListOps
<1>2. CASE open = <<>>
  BY <1>2 DEF Read
<1>3. CASE open # <<>> /\ Head(open).ended
  BY <1>1, <1>3, Zenon DEF Read
<1>4. CASE open # <<>> /\ ~Head(open).ended
  <2>1. Compares(k) => Read(open, k) = Onto(Tail(open), Factor(Head(open), LeafRows(k)))
    BY <1>1, <1>4, Zenon DEF Read
  <2>2. ~Compares(k) => Read(open, k) = <<>>
    BY <1>1, <1>4, Zenon DEF Read
  <2>3. QED BY <1>1, <1>4, <2>1, <2>2
<1>5. QED BY <1>1, <1>2, <1>3, <1>4

\* IN of the values and = ANY of them are read alike.
LEMMA ReadAlike ==
  ASSUME NEW a, NEW b, Alike(a, b), NEW open
  PROVE  Read(open, a) = Read(open, b)
<1>1. CASE a.t = b.t
  <2>1. a.col = b.col /\ a.args = b.args
    BY DEF Alike
  <2>2. \A row : LeafHolds(a, row) = LeafHolds(b, row)
    BY <1>1, <2>1 DEF LeafHolds
  <2>3. LeafRows(a) = LeafRows(b)
    BY <2>2 DEF LeafRows
  <2>4. QED BY <1>1, <2>1, <2>3 DEF Read, Compares, Refused
<1>2. CASE a.t = "IN" /\ b.t = "= ANY"
  <2>1. a.col = b.col /\ a.args = b.args
    BY DEF Alike
  <2>2. ASSUME NEW row
        PROVE  LeafHolds(a, row) = LeafHolds(b, row)
    <3> DEFINE v == [i \in DOMAIN a.args |-> a.args[i][2]]
               x == row[a.col]
    <3>1. LeafHolds(a, row) = (x \in Range(v))
      BY <1>2, Zenon DEF LeafHolds
    <3>2. LeafHolds(b, row) = (x \in Range(v))
      BY <1>2, <2>1, Zenon DEF LeafHolds
    <3>3. QED BY <3>1, <3>2
  <2>3. LeafRows(a) = LeafRows(b)
    BY <2>2 DEF LeafRows
  <2>5. a.t \in ListOps /\ b.t \in ListOps
    BY <1>2 DEF ListOps
  <2>6. CASE open = <<>> \/ Head(open).ended \/ a.args = <<>>
    <3>1. Read(open, a) = <<>>
      BY <2>5, <2>6, ListReads
    <3>2. Read(open, b) = <<>>
      BY <2>1, <2>5, <2>6, ListReads
    <3>3. QED BY <3>1, <3>2
  <2>7. CASE open # <<>> /\ ~Head(open).ended /\ a.args # <<>>
    <3>1. Read(open, a) = Onto(Tail(open), Factor(Head(open), LeafRows(a)))
      BY <2>5, <2>7, ListReads
    <3>2. Read(open, b) = Onto(Tail(open), Factor(Head(open), LeafRows(b)))
      BY <2>1, <2>5, <2>7, ListReads
    <3>3. QED BY <2>3, <3>1, <3>2
  <2>8. QED BY <2>6, <2>7
<1>3. QED BY <1>1, <1>2 DEF Alike, SameWord

\* Texts of tokens that are read alike are read alike.
LEMMA ParsedAlike ==
  ASSUME NEW X, NEW s \in Seq(X), NEW t \in Seq(X), Len(s) = Len(t),
         \A i \in 1 .. Len(s) : Alike(s[i], t[i]), NEW open \in Stacks
  PROVE  Parsed(open, s) = Parsed(open, t)
<1>1. PICK P : Reads(P, open, s)
  BY ReadsExist
<1>2. Len(s) \in Nat
  OBVIOUS
<1>3. ASSUME NEW n \in 0 .. Len(t) - 1
      PROVE  P[n + 1] = Read(P[n], t[n + 1])
  <2>1. n \in 0 .. Len(s) - 1 /\ n + 1 \in 1 .. Len(s)
    BY <1>2
  <2>2. P[n + 1] = Read(P[n], s[n + 1])
    BY <1>1, <2>1 DEF Reads
  <2>3. Alike(s[n + 1], t[n + 1])
    BY <2>1
  <2>4. QED BY <2>2, <2>3, ReadAlike
<1>4. Reads(P, open, t)
  BY <1>1, <1>3 DEF Reads
<1>5. Parsed(open, s) = P[Len(s)] /\ Parsed(open, t) = P[Len(t)]
  BY <1>1, <1>4, ParsedIs
<1>6. QED BY <1>5

\* The rows of a WHERE are those of the text with the values written out (WhereRows).
LEMMA WhereRowsAre ==
  ASSUME NEW d \in {"$", "?"}, NEW r, NEW l, Meets(d, r, l)
  PROVE  WhereRows(r) = Table \cap (IF l.sql = <<>> THEN EveryRow ELSE Selected(Tail(l.sql)))
<1> DEFINE text == Bind(r.sql, r.ps)
           n == Len(r.sql)
           X == {text[i] : i \in 1 .. n} \cup Tokens
<1>1. /\ l.sql \in Texts /\ r.sql \in Texts /\ Len(l.sql) = n /\ n \in Nat
  BY FragmentParts DEF Meets
<1>2. DOMAIN text = 1 .. n
  BY BoundIs
<1>3. ASSUME NEW i \in 1 .. n
      PROVE  Alike(text[i], l.sql[i])
  <2>1. text[i] = Leaf(r.sql[i].t, r.sql[i].col, l.sql[i].args)
    BY BoundIs
  <2>2. r.sql[i].col = l.sql[i].col /\ SameWord(r.sql[i].t, l.sql[i].t)
    BY DEF Meets, TokenMeets
  <2> HIDE DEF text
  <2>3. text[i].t = r.sql[i].t /\ text[i].col = r.sql[i].col /\ text[i].args = l.sql[i].args
    BY <2>1 DEF Leaf
  <2>4. QED BY <2>2, <2>3 DEF Alike
<1>4. text = [i \in 1 .. n |-> text[i]]
  BY <1>2 DEF Bind
<1>5. text \in Seq(X) /\ Len(text) = n
  <2> HIDE DEF text, n
  <2>1. QED BY <1>1, <1>2, <1>4
<1>6. l.sql \in Seq(X)
  <2>1. Seq(Tokens) \subseteq Seq(X)
    BY SeqGrows
  <2>2. QED BY <1>1, <2>1 DEF Texts
<1> HIDE DEF text, n, X
<1>7. CASE n = 0
  <2>1. text = <<>> /\ l.sql = <<>>
    BY <1>1, <1>5, <1>6, <1>7
  <2>2. QED BY <2>1 DEF WhereRows, text
<1>8. CASE n # 0
  <2>1. text # <<>> /\ l.sql # <<>>
    BY <1>1, <1>5, <1>8
  <2>2. \A s \in Seq(X) : s # <<>> =>
            Tail(s) \in Seq(X) /\ Len(Tail(s)) = Len(s) - 1 /\ \A i \in 1 .. Len(s) - 1 : Tail(s)[i] = s[i + 1]
    OBVIOUS
  <2>3. /\ Tail(text) \in Seq(X) /\ Len(Tail(text)) = n - 1
        /\ \A i \in 1 .. n - 1 : Tail(text)[i] = text[i + 1]
    BY <1>5, <2>1, <2>2
  <2>4. /\ Tail(l.sql) \in Seq(X) /\ Len(Tail(l.sql)) = n - 1
        /\ \A i \in 1 .. n - 1 : Tail(l.sql)[i] = l.sql[i + 1]
    BY <1>1, <1>6, <2>1, <2>2
  <2>5. \A i \in 1 .. n - 1 : Alike(Tail(text)[i], Tail(l.sql)[i])
    <3>1. \A i \in 1 .. n - 1 : i + 1 \in 1 .. n
      BY <1>1
    <3>2. QED BY <1>3, <2>3, <2>4, <3>1
  <2>6. Parsed(Sole, Tail(text)) = Parsed(Sole, Tail(l.sql))
    <3> DEFINE u == Tail(text)
               v == Tail(l.sql)
    <3>1. Len(u) = Len(v) /\ \A i \in 1 .. Len(u) : Alike(u[i], v[i])
      BY <2>3, <2>4, <2>5
    <3>2. u \in Seq(X) /\ v \in Seq(X) /\ Sole \in Stacks
      BY <2>3, <2>4, SoleIs
    <3> HIDE DEF u, v
    <3>3. Parsed(Sole, u) = Parsed(Sole, v)
      BY <3>1, <3>2, ParsedAlike
    <3>4. QED BY <3>3 DEF u, v
  <2>7. Selected(Tail(text)) = Selected(Tail(l.sql))
    BY <2>6 DEF Selected, Sole
  <2>8. QED BY <2>1, <2>7 DEF WhereRows, text
<1>9. QED BY <1>7, <1>8

\* The rows a text selects are those of its only parenthesis once it is read.
LEMMA SelectedIs ==
  ASSUME NEW y, NEW g, Turns(y, Open("("), g), g.ended
  PROVE  Selected(y) = Holds(g)
<1>1. g \in Frames /\ Parsed(Sole, y) = Onto(<<>>, g)
  BY SoleIs DEF Turns
<1>2. Len(Onto(<<>>, g)) = 1 /\ Onto(<<>>, g)[1] = g
  BY <1>1, SoleIs
<1>3. QED BY <1>1, <1>2 DEF Selected, Sole

\* The rows of a WHERE whose text has been read.
LEMMA PartsSelect ==
  ASSUME NEW d \in {"$", "?"}, NEW parts \in Seq(Given), NEW k, NEW y \in Texts,
         Writes(parts, k, <<Tok("WHERE")>> \o y), k <= MaxParts, NEW g, Turns(y, Open("("), g), g.ended
  PROVE  WhereRows(Written(Blank, parts, d)) = Table \cap Holds(g)
<1> DEFINE text == <<Tok("WHERE")>> \o y
<1>1. Blank \in Fragments /\ Blank.sql = <<>>
  <2>1. Blank \in Fragments
    BY BlankMeets DEF Meets
  <2>2. QED BY <2>1 DEF Blank, Fragment
<1>2. Onward(parts, <<>>) = parts /\ <<>> \in Seq(Parts) /\ k \in Nat
  BY DEF Onward, Writes
<1>3. PICK i \in Nat, r \in Fragments : /\ i <= k /\ r.sql = Blank.sql \o text
                                        /\ Reaches(At(Blank, Onward(parts, <<>>)), i, At(r, <<>>))
  BY <1>1, <1>2 DEF Writes
<1>4. MaxParts \in Nat /\ i <= MaxParts
  BY <1>2, <1>3, MaxPartsAssumption
<1>5. Written(Blank, parts, "v") = r
  BY <1>2, <1>3, <1>4, WrittenReached
<1>6. r.sql = text
  <2>1. text \in Texts
    BY DEF Writes
  <2>2. \A s \in Seq(Tokens) : <<>> \o s = s
    OBVIOUS
  <2> HIDE DEF text
  <2>3. <<>> \o text = text
    BY <2>1, <2>2 DEF Texts
  <2>4. QED BY <1>1, <1>3, <2>3
<1>7. Meets(d, Written(Blank, parts, d), r)
  BY <1>5, BlankMeets, WrittenMeets
<1>8. text # <<>> /\ Tail(text) = y
  <2>1. Tok("WHERE") \in Tokens
    BY WordsOfWhere
  <2>2. \A k2 \in Tokens : \A s \in Seq(Tokens) : <<k2>> \o s # <<>> /\ Tail(<<k2>> \o s) = s
    OBVIOUS
  <2>3. QED BY <2>1, <2>2 DEF Texts
<1> HIDE DEF text
<1>9. WhereRows(Written(Blank, parts, d)) = Table \cap Selected(y)
  <2>1. WhereRows(Written(Blank, parts, d)) =
            Table \cap (IF r.sql = <<>> THEN EveryRow ELSE Selected(Tail(r.sql)))
    BY <1>7, WhereRowsAre
  <2>2. QED BY <1>6, <1>8, <2>1
<1>10. QED BY <1>9, SelectedIs

\* The parts of what the calls and the scopes put into a WHERE fit into a statement.
LEMMA PartsFit ==
  ASSUME NEW n \in Nat, n <= MaxCalls + Len(Scopes) + 1
  PROVE  MostSteps \in Nat /\ n * MostSteps \in Nat /\ n * MostSteps + 1 <= MaxParts
<1> DEFINE m == MaxCalls + Len(Scopes) + 1
           S == MostSteps
<1>1. MaxDepth \in Nat /\ MaxCalls \in Nat /\ Len(Scopes) \in Nat
  BY ReadableAssumption, CallerAssumption
<1>2. S \in Nat /\ 1 <= S
  <2>1. S = Around(MostParts[MaxDepth]) /\ MostParts[MaxDepth] \in Nat
    BY <1>1, MostPartsAre DEF MostSteps
  <2>2. Around(MostParts[MaxDepth]) \in Nat /\ 2 <= Around(MostParts[MaxDepth])
    BY <2>1, AroundIs
  <2> HIDE DEF S
  <2>3. QED BY <2>1, <2>2
<1>3. m \in Nat /\ m + 1 = MaxCalls + Len(Scopes) + 2
  BY <1>1
<1>4. MaxParts \in Nat /\ (m + 1) * S <= MaxParts
  <2>1. MaxParts >= (MaxCalls + Len(Scopes) + 2) * S
    BY ReadableAssumption DEF MostSteps
  <2> HIDE DEF m, S
  <2>2. (m + 1) * S \in Nat
    BY <1>2, <1>3, Times
  <2>3. QED BY <1>3, <2>1, <2>2, MaxPartsAssumption
<1> HIDE DEF S, m
<1>5. (m + 1) * S = m * S + S /\ m * S \in Nat /\ n * S \in Nat
  BY <1>2, <1>3
<1>6. n * S <= m * S
  <2>1. PICK j \in Nat : m = n + j
    BY <1>3 DEF m
  <2>2. m * S = n * S + j * S /\ j * S \in Nat
    BY <1>2, <2>1
  <2>3. QED BY <1>5, <2>2
<1>7. S \in Nat /\ n * S \in Nat /\ n * S + 1 <= MaxParts
  BY <1>2, <1>4, <1>5, <1>6
<1>8. QED BY <1>7 DEF S

\* The rows of a model query's WHERE, from those of its conditions (build_where).
LEMMA ModelRowsAre ==
  ASSUME NEW b \in Builders, IsList(b.conds), NEW rows, Len(b.conds) <= MaxCalls + Len(Scopes) + 1,
         \A k \in 1 .. Len(b.conds) : Says("cond", b.conds[k].cond, rows[k], MostSteps),
         NEW d \in {"$", "?"}
  PROVE  ModelRows(b, d) = Table \cap Chain(b.conds, rows)
<1> DEFINE list == b.conds
           where == <<Tok("WHERE")>>
           parts == WhereParts(b)
           n == Len(list)
<1>1. parts \in Seq(Given)
  BY QueryPartsGiven
<1>2. parts = Strung("cond", list, where)
  BY ChainedIs DEF WhereParts
<1>3. ModelRows(b, d) = WhereRows(Written(Blank, parts, d))
  BY DEF ModelRows, BuildWhere
<1>4. n \in Nat
  BY LastIs
<1>5. MostSteps \in Nat /\ n * MostSteps \in Nat /\ n * MostSteps <= MaxParts
  <2>1. MostSteps \in Nat /\ n * MostSteps \in Nat /\ n * MostSteps + 1 <= MaxParts
    BY <1>4, PartsFit
  <2>2. QED BY <2>1, MaxPartsAssumption
<1>6. where \in Texts
  BY WordsOfWhere
<1>7. CASE list = <<>>
  <2>1. Written(Blank, parts, d) = Blank
    BY <1>2, <1>7, StrungNothing, WrittenNothing
  <2>2. Meets(d, Blank, Blank)
    BY BlankMeets
  <2>3. Blank.sql = <<>>
    BY DEF Blank, Fragment
  <2>4. WhereRows(Blank) = Table \cap EveryRow
    BY <2>2, <2>3, WhereRowsAre
  <2>5. Chain(list, rows) = EveryRow
    BY <1>7 DEF Chain
  <2>6. QED BY <1>3, <2>1, <2>4, <2>5
<1>8. CASE list # <<>>
  <2> DEFINE h == Open("(")
  <2>1. h \in Frames /\ h.word = "(" /\ h.ors = {} /\ h.ands = EveryRow /\ ~h.not /\ ~h.ended
    BY Brackets
  <2> HIDE DEF list, where, parts, n, h
  <2>2. /\ IsList(list) /\ n = Len(list)
        /\ \A k \in 1 .. Len(list) : Says("cond", list[k].cond, rows[k], MostSteps)
    BY DEF list, n
  <2>3. PICK y \in Texts, g \in Frames :
            /\ Writes(Strung("cond", list, where), Len(list) * MostSteps, where \o y)
            /\ Turns(y, h, g) /\ HasRead(g, h.word, h.ands, list, rows, Len(list))
    BY <1>5, <1>6, <1>8, <2>1, <2>2, ChainSays
  <2>4. Writes(parts, n * MostSteps, where \o y)
    BY <1>2, <2>2, <2>3
  <2>5. HasRead(g, h.word, EveryRow, list, rows, n)
    BY <2>1, <2>2, <2>3
  <2>6. n \in DOMAIN list
    BY <1>8, <2>2, LastIs
  <2>7. Holds(g) = ChainFrom(EveryRow, list, rows)
    BY <2>2, <2>5, <2>6, AllRead
  <2>8. Holds(g) = Chain(list, rows)
    BY <1>8, <2>2, <2>7, ChainIs
  <2>9. g.ended
    BY <2>5 DEF HasRead
  <2>10. WhereRows(Written(Blank, parts, d)) = Table \cap Holds(g)
    <3>1. Writes(parts, n * MostSteps, <<Tok("WHERE")>> \o y) /\ Turns(y, Open("("), g)
      BY <2>3, <2>4 DEF where, h
    <3>2. QED BY <1>1, <1>5, <2>3, <2>9, <3>1, PartsSelect
  <2>11. QED BY <1>3, <2>8, <2>10 DEF list
<1>9. QED BY <1>7, <1>8

-----------------------------------------------------------------------------
(* Chains of conditions, by what joins them.                               *)

\* A chain depends on the words that join its conditions, and on their rows.
LEMMA ChainSame ==
  ASSUME NEW list, IsList(list), NEW other, IsList(other), Len(list) = Len(other),
         \A i \in 1 .. Len(list) : list[i].join = other[i].join, NEW rows
  PROVE  Chain(list, rows) = Chain(other, rows)
<1>1. /\ DOMAIN list = 1 .. Len(list) /\ DOMAIN other = 1 .. Len(list) /\ Len(list) \in Nat
  BY ListIs
<1>2. list = <<>> <=> other = <<>>
  BY LastIs, <1>1 DEF IsList
<1>3. ASSUME NEW i \in 1 .. Len(list)
      PROVE  JoinedTo(list, i) = JoinedTo(other, i)
  <2>1. \A k \in i .. Len(list) : \A m \in i + 1 .. k : m \in 1 .. Len(list)
    BY <1>1
  <2>2. QED BY <2>1 DEF JoinedTo
<1>4. {j \in DOMAIN list : j = 1 \/ list[j].join = "OR"} = {j \in DOMAIN other : j = 1 \/ other[j].join = "OR"}
  BY <1>1
<1> DEFINE S == {j \in DOMAIN list : j = 1 \/ list[j].join = "OR"}
<1>5. CASE list = <<>>
  BY <1>2, <1>5 DEF Chain
<1>6. CASE list # <<>>
  <2>1. Chain(list, rows) = UNION {Common({rows[k] : k \in JoinedTo(list, i)}) : i \in S}
    BY <1>6 DEF Chain
  <2>2. Chain(other, rows) = UNION {Common({rows[k] : k \in JoinedTo(other, i)}) : i \in S}
    BY <1>2, <1>4, <1>6 DEF Chain
  <2>3. S \subseteq 1 .. Len(list)
    BY <1>1
  <2> HIDE DEF S
  <2>4. \A i \in S : Common({rows[k] : k \in JoinedTo(list, i)}) = Common({rows[k] : k \in JoinedTo(other, i)})
    BY <1>3, <2>3
  <2>5. QED BY <2>1, <2>2, <2>4
<1>7. QED BY <1>5, <1>6

\* A chain of ANDs holds for the rows for which every condition does.
LEMMA ChainOfAnds ==
  ASSUME NEW list, IsList(list), list # <<>>, NoOr(list), NEW rows
  PROVE  Chain(list, rows) = {row \in EveryRow : \A k \in 1 .. Len(list) : row \in rows[k]}
<1>1. DOMAIN list = 1 .. Len(list) /\ Len(list) \in DOMAIN list /\ Len(list) \in Nat
  BY ListIs, LastIs
<1>2. \A i \in DOMAIN list : 1 < i => list[i].join = "AND"
  BY DEF NoOr
<1>3. {j \in DOMAIN list : j = 1 \/ list[j].join = "OR"} = {1}
  BY <1>1, <1>2
<1>4. JoinedTo(list, 1) = 1 .. Len(list)
  <2>1. \A k \in 1 .. Len(list) : \A m \in 1 + 1 .. k : m \in DOMAIN list /\ 1 < m
    BY <1>1
  <2>2. QED BY <1>2, <2>1 DEF JoinedTo
<1>5. Chain(list, rows) = Common({rows[k] : k \in 1 .. Len(list)})
  BY <1>3, <1>4 DEF Chain
<1>6. QED BY <1>5 DEF Common

\* A chain of ORs holds for the rows for which some condition does.
LEMMA ChainOfOrs ==
  ASSUME NEW list, IsList(list), list # <<>>, \A i \in 1 .. Len(list) : list[i].join = "OR", NEW rows,
         \A k \in 1 .. Len(list) : rows[k] \in SUBSET EveryRow
  PROVE  Chain(list, rows) = UNION {rows[k] : k \in 1 .. Len(list)}
<1>1. DOMAIN list = 1 .. Len(list) /\ Len(list) \in Nat
  BY ListIs
<1>2. {j \in DOMAIN list : j = 1 \/ list[j].join = "OR"} = 1 .. Len(list)
  BY <1>1
<1>3. ASSUME NEW i \in 1 .. Len(list)
      PROVE  Common({rows[k] : k \in JoinedTo(list, i)}) = rows[i]
  <2>1. JoinedTo(list, i) = {i}
    <3>1. i \in JoinedTo(list, i)
      BY <1>1 DEF JoinedTo
    <3>2. ASSUME NEW k \in JoinedTo(list, i)
          PROVE  k = i
      <4>1. k \in i .. Len(list) /\ \A m \in i + 1 .. k : list[m].join = "AND"
        BY DEF JoinedTo
      <4>2. CASE k # i
        <5>1. i + 1 \in i + 1 .. k /\ i + 1 \in 1 .. Len(list)
          BY <1>1, <4>1, <4>2
        <5>2. list[i + 1].join = "AND" /\ list[i + 1].join = "OR"
          BY <4>1, <5>1
        <5>3. QED BY <5>2
      <4>3. QED BY <4>2
    <3>3. QED BY <3>1, <3>2
  <2>2. {rows[k] : k \in JoinedTo(list, i)} = {rows[i]}
    BY <2>1
  <2>3. Common({rows[i]}) = rows[i]
    BY DEF Common
  <2>4. QED BY <2>2, <2>3
<1>4. Chain(list, rows) = UNION {Common({rows[k] : k \in JoinedTo(list, i)}) : i \in 1 .. Len(list)}
  BY <1>2 DEF Chain
<1>5. QED BY <1>3, <1>4

-----------------------------------------------------------------------------
(* The rows of a select's WHERE.                                           *)

\* The parts of expressions one after the other (All).
LEMMA StrandIs ==
  ASSUME NEW exprs \in Seq(Exprs), NEW word \in {"AND", "OR"}
  PROVE  /\ IsList(Strand(exprs, word)) /\ Len(Strand(exprs, word)) = Len(exprs)
         /\ Strand(exprs, word) = <<>> <=> exprs = <<>>
         /\ \A i \in 1 .. Len(exprs) : Strand(exprs, word)[i].join = word /\ Strand(exprs, word)[i].cond = exprs[i]
         /\ \A first : All(exprs, first, word) = Strung("expr", Strand(exprs, word), first)
<1> DEFINE s == Strand(exprs, word)
           T == [join : {"AND", "OR"}, cond : Nodes]
<1>1. DOMAIN exprs = 1 .. Len(exprs) /\ Len(exprs) \in Nat /\ \A i \in 1 .. Len(exprs) : exprs[i] \in Nodes
  BY CallerNodes
<1>2. DOMAIN s = DOMAIN exprs /\ \A i \in DOMAIN exprs : s[i] = Joined(word, exprs[i])
  BY DEF Strand
<1>3. \A i \in 1 .. Len(exprs) : s[i].join = word /\ s[i].cond = exprs[i] /\ s[i] \in T
  BY <1>1, <1>2 DEF Joined
<1>4. s = [i \in DOMAIN exprs |-> s[i]]
  BY DEF Strand
<1>5. s \in Seq(T) /\ Len(s) = Len(exprs)
  <2> HIDE DEF s, T
  <2>1. QED BY <1>2, <1>3, <1>4, MadeSeq
<1>6. IsList(s)
  BY <1>5 DEF IsList
<1>7. s = <<>> <=> exprs = <<>>
  <2> HIDE DEF s
  <2>1. QED BY <1>5
<1>8. \A first : All(exprs, first, word) = Strung("expr", s, first)
  BY <1>1, <1>2, <1>3 DEF All, Strung, Expr
<1>9. QED BY <1>3, <1>5, <1>6, <1>7, <1>8

\* An expression of a caller says what it means.
LEMMA ExprSays ==
  ASSUME NEW e \in FilledExprs
  PROVE  Says("expr", e, Means(e), MostSteps)
<1>1. e \in Nodes /\ ReadableTree(e) /\ e.op \notin Subqueries /\ IsFilled(e)
  BY CallerNodes, ReadableAssumption DEF FilledExprs
<1>2. ChainsOf(e) = {} /\ Tells("expr", e, ChainsOf(e), Means(e), MostSteps)
  BY <1>1, ReadableTells
<1>3. Straight(ChainsOf(e))
  BY <1>2 DEF Straight
<1>4. QED BY <1>2, <1>3 DEF Tells

\* The text of expressions that are all joined with one word says so.
LEMMA StrandSays ==
  ASSUME NEW exprs \in Seq(FilledExprs), exprs # <<>>, NEW word \in {"AND", "OR"}, NEW first \in Texts
  PROVE  StrandReads(exprs, word, first)
<1> DEFINE list == Strand(exprs, word)
           n == Len(exprs)
           rows == [k \in 1 .. n |-> Means(exprs[k])]
           h == Open("(")
<1>1. /\ IsList(list) /\ Len(list) = n /\ list # <<>>
      /\ \A i \in 1 .. n : list[i].join = word /\ list[i].cond = exprs[i]
      /\ All(exprs, first, word) = Strung("expr", list, first)
  <2>1. exprs \in Seq(Exprs)
    BY DEF FilledExprs
  <2>2. QED BY <2>1, StrandIs
<1>2. \A k \in 1 .. n : exprs[k] \in FilledExprs
  OBVIOUS
<1>3. \A k \in 1 .. n : Says("expr", exprs[k], rows[k], MostSteps) /\ rows[k] \in SUBSET EveryRow
  <2>1. \A k \in 1 .. n : Says("expr", exprs[k], Means(exprs[k]), MostSteps)
    BY <1>2, ExprSays
  <2>2. \A k \in 1 .. n : Means(exprs[k]) \in SUBSET EveryRow
    BY <2>1 DEF Says
  <2>3. QED BY <2>1, <2>2
<1>4. h \in Frames /\ h.word = "(" /\ h.ors = {} /\ h.ands = EveryRow /\ ~h.not /\ ~h.ended
  BY Brackets
<1>5. MostSteps \in Nat
  <2>1. 0 \in Nat /\ 0 <= MaxCalls + Len(Scopes) + 1
    BY ReadableAssumption, CallerAssumption
  <2>2. QED BY <2>1, PartsFit
<1>6. StrandRows(exprs, word) = Chain(list, rows)
  <2>1. CASE word = "AND"
    <3>1. NoOr(list)
      <4>1. DOMAIN list = 1 .. n
        BY <1>1, ListIs
      <4>2. QED BY <1>1, <2>1, <4>1 DEF NoOr
    <3> HIDE DEF list
    <3>2. Chain(list, rows) = {row \in EveryRow : \A k \in 1 .. n : row \in rows[k]}
      BY <1>1, <3>1, ChainOfAnds
    <3>3. QED BY <2>1, <3>2 DEF StrandRows
  <2>2. CASE word = "OR"
    <3> HIDE DEF list
    <3>1. Chain(list, rows) = UNION {rows[k] : k \in 1 .. n}
      <4> HIDE DEF rows, n
      <4>1. QED BY <1>1, <1>3, <2>2, ChainOfOrs
    <3>2. QED BY <2>2, <3>1 DEF StrandRows
  <2>3. QED BY <2>1, <2>2
<1> HIDE DEF list, rows, n, h
<1>7. PICK y \in Texts, g \in Frames :
            /\ Writes(Strung("expr", list, first), Len(list) * MostSteps, first \o y)
            /\ Turns(y, h, g) /\ HasRead(g, h.word, h.ands, list, rows, Len(list))
  <2>1. \A k \in 1 .. Len(list) : Says("expr", list[k].cond, rows[k], MostSteps)
    BY <1>1, <1>3
  <2>2. QED BY <1>1, <1>4, <1>5, <2>1, ChainSays
<1>8. HasRead(g, "(", EveryRow, list, rows, Len(list))
  BY <1>4, <1>7
<1>9. Holds(g) = Chain(list, rows)
  <2>1. Len(list) \in DOMAIN list
    BY <1>1, LastIs
  <2>2. Holds(g) = ChainFrom(EveryRow, list, rows)
    BY <1>1, <1>8, <2>1, AllRead
  <2>3. QED BY <1>1, <2>2, ChainIs
<1>10. g.ended /\ g.word = "("
  BY <1>8 DEF HasRead
<1>11. Writes(All(exprs, first, word), Len(exprs) * MostSteps, first \o y)
  BY <1>1, <1>7 DEF n
<1>12. Turns(y, Open("("), g)
  BY <1>7 DEF h
<1>13. QED BY <1>6, <1>7, <1>9, <1>10, <1>11, <1>12 DEF StrandReads

\* Texts may be put together from either end.
LEMMA TextsRegroup ==
  ASSUME NEW a \in Texts, NEW b \in Texts, NEW c \in Texts
  PROVE  Regrouped(a, b, c)
BY ThreeTexts DEF Regrouped

\* The text of two strands: ( .. AND .. ) OR ( .. OR .. ).
LEMMA TwoStrands ==
  ASSUME NEW w \in Texts, NEW p \in Texts, NEW c \in Texts, NEW o \in Texts, NEW y \in Texts, NEW z \in Texts
  PROVE  Regroups(w, p, c, o, y, z)
<1>1. ASSUME NEW s \in Texts, NEW t \in Texts
      PROVE  s \o t \in Texts
  BY ThreeTexts
<1> DEFINE pz  == p \o z
           py  == p \o y
           co  == c \o o
           pzc == pz \o c
           pyc == py \o c
           rest == co \o pzc
           end == o \o pzc
<1>2. pz \in Texts /\ py \in Texts /\ co \in Texts
  BY <1>1
<1>3. /\ Regrouped(w, p, y) /\ Regrouped(co, p, z) /\ Regrouped(co, pz, c) /\ Regrouped(c, o, pzc)
      /\ Regrouped(w, py, rest) /\ Regrouped(py, c, end) /\ Regrouped(pyc, o, pzc)
  <2> HIDE DEF pz, py, co
  <2>1. pzc \in Texts /\ pyc \in Texts
    BY <1>1, <1>2
  <2> HIDE DEF pzc, pyc
  <2>2. rest \in Texts /\ end \in Texts
    BY <1>1, <1>2, <2>1
  <2> HIDE DEF rest, end
  <2>3. QED BY <1>2, <2>1, <2>2, TextsRegroup
<1>4. QED BY ONLY <1>3 DEF Regrouped, Regroups

\* Expressions of one kind alone: they follow the WHERE.
LEMMA StrandAlone ==
  ASSUME NEW exprs \in Seq(FilledExprs), exprs # <<>>, Len(exprs) <= MaxCalls, NEW word \in {"AND", "OR"},
         NEW parts \in Seq(Given), parts = All(exprs, <<Tok("WHERE")>>, word), NEW d \in {"$", "?"}
  PROVE  WhereRows(Written(Blank, parts, d)) = Table \cap StrandRows(exprs, word)
<1> DEFINE where == <<Tok("WHERE")>>
           n == Len(exprs)
<1>1. where \in Texts
  BY WordsOfWhere
<1>2. StrandReads(exprs, word, where)
  BY <1>1, StrandSays
<1>3. PICK y \in Texts, g \in Frames :
            /\ Writes(All(exprs, where, word), Len(exprs) * MostSteps, where \o y)
            /\ Turns(y, Open("("), g) /\ g.ended /\ g.word = "("
            /\ Holds(g) = StrandRows(exprs, word)
  BY <1>2 DEF StrandReads
<1>4. n * MostSteps <= MaxParts /\ n * MostSteps \in Nat
  <2>1. n \in Nat /\ n <= MaxCalls + Len(Scopes) + 1
    BY ReadableAssumption, CallerAssumption
  <2>2. n * MostSteps \in Nat /\ n * MostSteps + 1 <= MaxParts
    BY <2>1, PartsFit
  <2>3. QED BY <2>2, MaxPartsAssumption
<1>5. Writes(parts, n * MostSteps, <<Tok("WHERE")>> \o y)
  BY <1>3
<1> HIDE DEF n
<1>6. WhereRows(Written(Blank, parts, d)) = Table \cap Holds(g)
  BY <1>3, <1>4, <1>5, PartsSelect
<1>7. QED BY <1>3, <1>6

\* Both kinds: ( .. AND .. ) OR ( .. OR .. ).
LEMMA StrandsBoth ==
  ASSUME NEW ands \in Seq(FilledExprs), ands # <<>>, NEW ors \in Seq(FilledExprs), ors # <<>>,
         Len(ands) + Len(ors) <= MaxCalls, NEW parts \in Seq(Given),
         parts = BothStrands(ands, ors), NEW d \in {"$", "?"}
  PROVE  WhereRows(Written(Blank, parts, d)) = Table \cap (StrandRows(ands, "AND") \cup StrandRows(ors, "OR"))
<1> DEFINE w == <<Tok("WHERE")>>
           p == <<Tok("(")>>
           c == <<Tok(")")>>
           o == <<Tok("OR")>>
           first == w \o p
           between == (c \o o) \o p
           A == All(ands, first, "AND")
           B == All(ors, between, "OR")
           n == Len(ands)
           m == Len(ors)
<1>1. w \in Texts /\ p \in Texts /\ c \in Texts /\ o \in Texts
  BY WordsOfWhere
<1>2. first = <<Tok("WHERE"), Tok("(")>> /\ between = <<Tok(")"), Tok("OR"), Tok("(")>>
  <2>1. w \o p = <<Tok("WHERE"), Tok("(")>> /\ c \o o = <<Tok(")"), Tok("OR")>>
    BY FewParts DEF Onward
  <2>2. <<Tok(")"), Tok("OR")>> \o p = <<Tok(")"), Tok("OR"), Tok("(")>>
    BY FewParts DEF Onward
  <2> HIDE DEF w, p, c, o
  <2>3. QED BY <2>1, <2>2
<1>3. first \in Texts /\ between \in Texts
  <2> HIDE DEF w, p, c, o
  <2>1. QED BY <1>1, ThreeTexts
<1>4. PICK y \in Texts, f \in Frames :
            /\ Writes(A, n * MostSteps, first \o y)
            /\ Turns(y, Open("("), f) /\ f.ended /\ f.word = "("
            /\ Holds(f) = StrandRows(ands, "AND")
  <2> HIDE DEF first
  <2>1. StrandReads(ands, "AND", first)
    BY <1>3, StrandSays
  <2>2. QED BY <2>1 DEF StrandReads
<1>5. PICK z \in Texts, g \in Frames :
            /\ Writes(B, m * MostSteps, between \o z)
            /\ Turns(z, Open("("), g) /\ g.ended /\ g.word = "("
            /\ Holds(g) = StrandRows(ors, "OR")
  <2> HIDE DEF between
  <2>1. StrandReads(ors, "OR", between)
    BY <1>3, StrandSays
  <2>2. QED BY <2>1 DEF StrandReads
<1> DEFINE left == (p \o y) \o c
           right == (p \o z) \o c
           text == (left \o o) \o right
<1>6. Reading(left, Holds(f)) /\ Reading(right, Holds(g))
  BY <1>4, <1>5, BracketsRead
<1>7. left \in Texts /\ right \in Texts
  BY <1>6 DEF Reading
<1>8. PICK e \in Frames : /\ Turns(text, Open("("), e) /\ e.ended /\ e.word = "("
                          /\ Holds(e) = Holds(f) \cup Holds(g)
  <2> HIDE DEF left, right
  <2>1. PairReads("OR", left, right, Holds(f), Holds(g))
    BY <1>6, <1>7, PairTurns
  <2>2. QED BY <2>1 DEF PairReads
<1>9. Writes(parts, (n * MostSteps + m * MostSteps) + 1, w \o text)
  <2> DEFINE a == first \o y
             b == between \o z
             last == <<Word(c)>>
  <2>1. Writes(last, 1, c)
    BY <1>1, WritesWord
  <2> HIDE DEF last, first, between, A, B, a, b
  <2>2. Writes(Onward(A, B), n * MostSteps + m * MostSteps, (first \o y) \o (between \o z))
    BY <1>4, <1>5, WritesJoin
  <2>3. Writes(Onward(Onward(A, B), last), (n * MostSteps + m * MostSteps) + 1, ((first \o y) \o (between \o z)) \o c)
    BY <2>1, <2>2, WritesJoin
  <2>4. parts = Onward(Onward(A, B), last)
    BY <1>2 DEF BothStrands, Onward, last, A, B
  <2>5. ((first \o y) \o (between \o z)) \o c = (first \o y) \o ((between \o z) \o c)
    <3>1. first \o y \in Texts /\ between \o z \in Texts
      BY <1>4, <1>5 DEF Writes
    <3>2. a \in Texts /\ b \in Texts
      BY <3>1 DEF a, b
    <3>3. Regrouped(a, b, c)
      BY <1>1, <3>2, TextsRegroup
    <3>4. QED BY <3>3 DEF a, b, Regrouped
  <2>6. (first \o y) \o ((between \o z) \o c) = w \o text
    <3> HIDE DEF w, p, c, o
    <3>1. Regroups(w, p, c, o, y, z)
      BY <1>1, <1>4, <1>5, TwoStrands
    <3>2. ((w \o p) \o y) \o ((((c \o o) \o p) \o z) \o c) = w \o ((((p \o y) \o c) \o o) \o ((p \o z) \o c))
      BY <3>1 DEF Regroups
    <3>3. QED BY <3>2 DEF first, between
  <2>7. QED BY <2>3, <2>4, <2>5, <2>6
<1>10. text \in Texts
  BY <1>8 DEF Turns
<1>11. (n * MostSteps + m * MostSteps) + 1 <= MaxParts
  <2>1. n \in Nat /\ m \in Nat /\ n + m \in Nat /\ n + m <= MaxCalls + Len(Scopes) + 1
    BY ReadableAssumption, CallerAssumption
  <2> HIDE DEF n, m
  <2>2. MostSteps \in Nat /\ (n + m) * MostSteps + 1 <= MaxParts
    BY <2>1, PartsFit
  <2>3. (n + m) * MostSteps = n * MostSteps + m * MostSteps
    BY <2>1, <2>2
  <2>4. QED BY <2>2, <2>3
<1> HIDE DEF text, w, n, m
<1>12. WhereRows(Written(Blank, parts, d)) = Table \cap Holds(e)
  <2>1. Writes(parts, (n * MostSteps + m * MostSteps) + 1, <<Tok("WHERE")>> \o text)
    BY <1>9 DEF w
  <2>2. QED BY <1>8, <1>10, <1>11, <2>1, PartsSelect
<1>13. QED BY <1>4, <1>5, <1>8, <1>12

\* The rows of a select's WHERE, from those of its expressions (render_where).
LEMMA SelectRowsAre ==
  ASSUME NEW s \in Selects, s.wheres \in Seq(FilledExprs), s.orWheres \in Seq(FilledExprs),
         Len(s.wheres) + Len(s.orWheres) <= MaxCalls, NEW d \in {"$", "?"}
  PROVE  SelectRows(s, d) = Table \cap AskedOf(s)
<1> DEFINE parts == SelectWhereParts(s)
           where == <<Tok("WHERE")>>
<1>1. parts \in Seq(Given)
  BY WherePartsGiven
<1>2. SelectRows(s, d) = WhereRows(Written(Blank, parts, d))
  BY DEF SelectRows, RenderWhere
<1>3. Len(s.wheres) \in Nat /\ Len(s.orWheres) \in Nat /\ MaxCalls \in Nat
  BY ReadableAssumption
<1>4. Len(s.wheres) <= MaxCalls /\ Len(s.orWheres) <= MaxCalls
  <2>1. \A i, j, n \in Nat : i + j <= n => i <= n /\ j <= n
    OBVIOUS
  <2>2. QED BY <1>3, <2>1
<1> HIDE DEF parts
<1>5. CASE s.orWheres = <<>> /\ s.wheres = <<>>
  <2>1. parts = All(s.wheres, where, "AND")
    BY <1>5 DEF parts, SelectWhereParts
  <2>2. parts = <<>>
    BY <1>5, <2>1 DEF All
  <2>3. Written(Blank, parts, d) = Blank /\ Meets(d, Blank, Blank) /\ Blank.sql = <<>>
    BY <2>2, WrittenNothing, BlankMeets DEF Blank, Fragment
  <2>4. WhereRows(Blank) = Table \cap EveryRow
    BY <2>3, WhereRowsAre
  <2>5. QED BY <1>2, <1>5, <2>3, <2>4 DEF AskedOf
<1>6. CASE s.orWheres = <<>> /\ s.wheres # <<>>
  <2>1. parts = All(s.wheres, where, "AND")
    BY <1>6 DEF parts, SelectWhereParts
  <2>2. WhereRows(Written(Blank, parts, d)) = Table \cap StrandRows(s.wheres, "AND")
    BY <1>1, <1>4, <1>6, <2>1, StrandAlone
  <2>3. QED BY <1>2, <1>6, <2>2 DEF AskedOf
<1>7. CASE s.orWheres # <<>> /\ s.wheres = <<>>
  <2>1. parts = All(s.orWheres, where, "OR")
    BY <1>7 DEF parts, SelectWhereParts
  <2>2. WhereRows(Written(Blank, parts, d)) = Table \cap StrandRows(s.orWheres, "OR")
    BY <1>1, <1>4, <1>7, <2>1, StrandAlone
  <2>3. QED BY <1>2, <1>7, <2>2 DEF AskedOf
<1>8. CASE s.orWheres # <<>> /\ s.wheres # <<>>
  <2> DEFINE ands == s.wheres
             ors == s.orWheres
  <2>1. /\ ands \in Seq(FilledExprs) /\ ands # <<>> /\ ors \in Seq(FilledExprs) /\ ors # <<>>
        /\ Len(ands) + Len(ors) <= MaxCalls
    BY <1>8
  <2>2. parts = BothStrands(ands, ors)
    BY <1>8 DEF parts, SelectWhereParts, BothStrands
  <2>3. AskedOf(s) = StrandRows(ands, "AND") \cup StrandRows(ors, "OR")
    BY <1>8 DEF AskedOf
  <2> HIDE DEF ands, ors
  <2>4. WhereRows(Written(Blank, parts, d)) = Table \cap (StrandRows(ands, "AND") \cup StrandRows(ors, "OR"))
    BY <1>1, <2>1, <2>2, StrandsBoth
  <2>5. QED BY <1>2, <2>3, <2>4
<1>9. QED BY <1>5, <1>6, <1>7, <1>8

-----------------------------------------------------------------------------
(* What a query keeps of what it was asked.                                *)

\* One more condition is asked of a query.
LEMMA KeepsOneMore ==
  ASSUME NEW conds, NEW list, Keeps(conds, list), NEW join \in {"AND", "OR"}, NEW c, NEW a \in Nodes,
         Tells("cond", c, ChainsOf(a), Means(a), MostSteps)
  PROVE  Keeps(Append(conds, Joined(join, c)), Append(list, Joined(join, a)))
<1> DEFINE T == [join : {"AND", "OR"}, cond : Nodes]
           x == Joined(join, c)
           y == Joined(join, a)
           n == Len(list)
<1>1. c \in Nodes
  BY DEF Tells, Says
<1>2. x \in T /\ y \in T /\ x.join = y.join /\ x.cond = c /\ y.cond = a
  BY <1>1 DEF Joined
<1>3. conds \in Seq(T) /\ list \in Seq(T) /\ Len(conds) = n /\ n \in Nat
  BY DEF Keeps, IsList
<1> HIDE DEF T, x, y, n
<1>4. \A s \in Seq(T) : \A t \in T : /\ Append(s, t) \in Seq(T) /\ Len(Append(s, t)) = Len(s) + 1
                                     /\ \A i \in 1 .. Len(s) : Append(s, t)[i] = s[i]
                                     /\ Append(s, t)[Len(s) + 1] = t
  OBVIOUS
<1>5. /\ Append(conds, x) \in Seq(T) /\ Len(Append(conds, x)) = n + 1
      /\ \A i \in 1 .. n : Append(conds, x)[i] = conds[i]
      /\ Append(conds, x)[n + 1] = x
  BY <1>2, <1>3, <1>4
<1>6. /\ Append(list, y) \in Seq(T) /\ Len(Append(list, y)) = n + 1
      /\ \A i \in 1 .. n : Append(list, y)[i] = list[i]
      /\ Append(list, y)[n + 1] = y
  BY <1>2, <1>3, <1>4 DEF n
<1> DEFINE u == Append(conds, x)
           v == Append(list, y)
<1>7. ASSUME NEW i \in 1 .. n + 1
      PROVE  /\ u[i].join = v[i].join
             /\ Tells("cond", u[i].cond, ChainsOf(v[i].cond), Means(v[i].cond), MostSteps)
  <2>1. CASE i = n + 1
    <3>1. u[i] = x /\ v[i] = y
      BY <1>5, <1>6, <2>1
    <3>2. QED BY <1>2, <3>1
  <2>2. CASE i # n + 1
    <3>1. i \in 1 .. n
      BY <1>3, <2>2
    <3>2. u[i] = conds[i] /\ v[i] = list[i]
      BY <1>5, <1>6, <3>1
    <3>3. /\ conds[i].join = list[i].join
          /\ Tells("cond", conds[i].cond, ChainsOf(list[i].cond), Means(list[i].cond), MostSteps)
      BY <3>1 DEF Keeps, n
    <3>4. QED BY <3>2, <3>3
  <2>3. QED BY <2>1, <2>2
<1>8. IsList(u) /\ IsList(v) /\ Len(u) = Len(v) /\ Len(v) = n + 1
  BY <1>5, <1>6 DEF IsList, T
<1> HIDE DEF u, v
<1>9. Keeps(u, v)
  BY <1>7, <1>8 DEF Keeps
<1>10. QED BY <1>9 DEF u, v, x, y

\* The rows of a query that keeps what it was asked (RowsAsAsked).
LEMMA KeptRows ==
  ASSUME NEW b \in Builders, NEW list, Keeps(b.conds, list), Len(list) <= MaxCalls + Len(Scopes) + 1,
         Straight(Nested(list)), NEW d \in {"$", "?"}
  PROVE  ModelRows(b, d) = Table \cap ChainMeans(list)
<1> DEFINE conds == b.conds
           n == Len(list)
           cs == [k \in 1 .. n |-> ChainsOf(list[k].cond)]
           ms == [k \in 1 .. n |-> Means(list[k].cond)]
<1>1. /\ IsList(conds) /\ IsList(list) /\ Len(conds) = n
      /\ \A i \in 1 .. n :
            /\ conds[i].join = list[i].join
            /\ Tells("cond", conds[i].cond, ChainsOf(list[i].cond), Means(list[i].cond), MostSteps)
  BY DEF Keeps
<1>2. DOMAIN list = 1 .. n /\ n \in Nat
  BY <1>1, ListIs
<1>3. \A k \in 1 .. n : Tells("cond", conds[k].cond, cs[k], ms[k], MostSteps)
  BY <1>1
<1>4. \A k \in 1 .. n : Straight(cs[k])
  <2>1. \A k \in 1 .. n : ChainsOf(list[k].cond) \subseteq Nested(list)
    BY <1>2 DEF Nested
  <2>2. \A k \in 1 .. n : Straight(ChainsOf(list[k].cond))
    BY <2>1 DEF Straight
  <2>3. QED BY <2>2
<1>5. ms = [i \in DOMAIN list |-> Means(list[i].cond)]
  BY <1>2
<1> HIDE DEF conds, n, cs, ms
<1>6. PICK rows : /\ \A k \in 1 .. Len(conds) : Says("cond", conds[k].cond, rows[k], MostSteps)
                  /\ (\A k \in 1 .. Len(conds) : Straight(cs[k])) => rows = [k \in 1 .. Len(conds) |-> ms[k]]
  <2>1. ChainTells("cond", conds, cs, ms, MostSteps)
    BY <1>1, <1>3, ChainRows
  <2>2. QED BY <2>1 DEF ChainTells
<1>7. rows = ms
  <2>1. rows = [k \in 1 .. n |-> ms[k]]
    BY <1>1, <1>4, <1>6
  <2>2. ms = [k \in 1 .. n |-> ms[k]]
    BY DEF ms
  <2>3. QED BY <2>1, <2>2
<1>8. ModelRows(b, d) = Table \cap Chain(conds, rows)
  <2>1. /\ IsList(b.conds) /\ Len(b.conds) <= MaxCalls + Len(Scopes) + 1
        /\ \A k \in 1 .. Len(b.conds) : Says("cond", b.conds[k].cond, rows[k], MostSteps)
    BY <1>1, <1>6 DEF conds, n
  <2>2. ModelRows(b, d) = Table \cap Chain(b.conds, rows)
    BY <2>1, ModelRowsAre
  <2>3. QED BY <2>2 DEF conds
<1>9. Chain(conds, rows) = Chain(list, rows)
  <2>1. Len(conds) = Len(list) /\ \A i \in 1 .. Len(conds) : conds[i].join = list[i].join
    BY <1>1 DEF n
  <2>2. QED BY <1>1, <2>1, ChainSame
<1>10. ChainMeans(list) = Chain(list, ms)
  BY <1>5 DEF ChainMeans
<1>11. QED BY <1>7, <1>8, <1>9, <1>10

-----------------------------------------------------------------------------
(* What the calls bring into a WHERE.                                      *)

\* The conditions a caller adds, the groups and subqueries of a caller's lists,
\* the scopes and the filters of the soft delete column mean what they say.
LEMMA CallerTells ==
  /\ \A c \in Conds : SelfTells(c)
  /\ \A inner \in Inners : inner # <<>> => SelfTells(Group(inner))
  /\ \A inner \in Inners, exists \in BOOLEAN : SelfTells(Subquery(exists, "rel", inner))
  /\ SelfTells(IsNull(SoftColumn)) /\ SelfTells(IsNotNull(SoftColumn))
  /\ SelfTells(Compare(">=", "a", 2))
  /\ \A i \in DOMAIN Scopes : SelfTells(Scopes[i])
<1>1. ASSUME NEW c \in Nodes, ReadableTree(c), c.op \notin Logic
      PROVE  SelfTells(c)
  BY <1>1, ReadableTells DEF SelfTells
<1>2. ASSUME NEW c \in Nodes, c.op \in Comparisons
      PROVE  SelfTells(c)
  <2>1. c.op \notin Logic
    BY <1>2, OperatorsApart
  <2>2. ReadableTree(c)
    BY <1>2 DEF ReadableTree, ReadableIn
  <2>3. QED BY <1>1, <2>1, <2>2
<1>3. ASSUME NEW c \in Conds
      PROVE  SelfTells(c)
  BY <1>1, CallerNodes, ReadableAssumption
<1>4. ASSUME NEW inner \in Inners, inner # <<>>
      PROVE  SelfTells(Group(inner))
  <2>1. Group(inner) \in Nodes /\ IsChain(inner, Readable[MaxDepth])
    BY CallerNodes, ReadableAssumption
  <2>2. Group(inner).op = "GROUP" /\ Group(inner).sub = inner
    BY DEF Group, Condition
  <2>3. ReadableTree(Group(inner)) /\ Group(inner).op \notin Logic
    BY <1>4, <2>1, <2>2 DEF ReadableTree, ReadableIn, Subqueries, Logic
  <2>4. QED BY <1>1, <2>1, <2>3
<1>5. ASSUME NEW inner \in Inners, NEW exists \in BOOLEAN
      PROVE  SelfTells(Subquery(exists, "rel", inner))
  <2> DEFINE c == Subquery(exists, "rel", inner)
  <2>1. c \in Nodes /\ IsChain(inner, Readable[MaxDepth])
    BY CallerNodes, ReadableAssumption
  <2>2. c.op \in {"EXISTS", "NOT EXISTS"} /\ c.sub = inner
    BY DEF Subquery, Condition
  <2> HIDE DEF c
  <2>3. ReadableTree(c) /\ c.op \notin Logic
    BY <2>1, <2>2 DEF ReadableTree, ReadableIn, Subqueries, Logic
  <2>4. SelfTells(c)
    BY <1>1, <2>1, <2>3
  <2>5. QED BY <2>4 DEF c
<1>6. SelfTells(IsNull(SoftColumn)) /\ SelfTells(IsNotNull(SoftColumn))
  <2>1. IsNull(SoftColumn) \in Nodes /\ IsNotNull(SoftColumn) \in Nodes
    BY CallerNodes
  <2>2. IsNull(SoftColumn).op \in Comparisons /\ IsNotNull(SoftColumn).op \in Comparisons
    BY DEF IsNull, IsNotNull, Condition, Comparisons
  <2>3. QED BY <1>2, <2>1, <2>2
<1>7. SelfTells(Compare(">=", "a", 2))
  <2>1. "a" \in Names /\ 2 \in Values
    BY Known, CallerAssumption
  <2>2. <<2>> \in Seq(Values)
    BY <2>1
  <2>3. Compare(">=", "a", 2) \in Nodes
    BY <2>1, <2>2, MadeNodes DEF Compare
  <2>4. Compare(">=", "a", 2).op \in Comparisons
    BY DEF Compare, Condition, Comparisons
  <2>5. QED BY <1>2, <2>3, <2>4
<1>8. ASSUME NEW i \in DOMAIN Scopes
      PROVE  SelfTells(Scopes[i])
  <2>1. Scopes \in Seq(Trees)
    BY CallerAssumption
  <2>2. Scopes[i] \in Trees /\ Scopes[i] \in Range(Scopes)
    BY <2>1 DEF Range
  <2>3. Scopes[i] \in Nodes
    BY <2>2 DEF Nodes
  <2>4. QED BY <1>1, <2>2, <2>3, ReadableAssumption
<1>9. QED BY <1>3, <1>4, <1>5, <1>6, <1>7, <1>8

\* A token that compares is a condition of its own as a text.
LEMMA TokenAtom ==
  ASSUME NEW tok \in Tokens, Compares(tok)
  PROVE  Atom(<<tok>>) /\ Selected(<<tok>>) = LeafRows(tok)
<1> DEFINE h == Open("(")
           g == Factor(h, LeafRows(tok))
           text == <<tok>>
<1>1. h \in Frames /\ h.ors = {} /\ h.ands = EveryRow /\ h.not = FALSE /\ h.ended = FALSE
  BY Brackets
<1>2. LeafRows(tok) \in SUBSET EveryRow
  BY RowSets
<1>3. g \in Frames /\ g.ors = {} /\ g.ands = LeafRows(tok) /\ g.ended = TRUE
  <2> HIDE DEF h
  <2>1. QED BY <1>1, <1>2, FactorFirst
<1>4. Turns(text, h, g)
  <2>1. Reading(text, LeafRows(tok))
    BY ReadingLeaf
  <2>2. QED BY <1>1, <2>1 DEF Reading
<1>5. Selected(text) = LeafRows(tok)
  <2>1. Selected(text) = Holds(g)
    BY <1>3, <1>4, SelectedIs
  <2>2. Holds(g) = LeafRows(tok)
    BY <1>3 DEF Holds
  <2>3. QED BY <2>1, <2>2
<1>6. Len(text) = 1 /\ SubSeq(text, 1, Len(text)) = text /\ SubSeq(text, 1, 0) = <<>>
  <2>1. text \in Seq(Tokens) /\ Len(text) = 1
    OBVIOUS
  <2>2. \A s \in Seq(Tokens) : SubSeq(s, 1, Len(s)) = s /\ SubSeq(s, 1, 0) = <<>>
    OBVIOUS
  <2> HIDE DEF text
  <2>3. QED BY <2>1, <2>2
<1>7. Sole = Onto(<<>>, h) /\ Sole \in Stacks /\ <<>> \in Stacks
  BY SoleIs
<1>8. Parsed(Sole, text) = Onto(<<>>, g)
  <2> HIDE DEF h, g, text
  <2>1. QED BY <1>4, <1>7 DEF Turns
<1>9. Parsed(Sole, <<>>) = Sole
  BY <1>7, ParsedToken
<1>10. /\ Len(Parsed(Sole, text)) = 1 /\ Parsed(Sole, text)[1] = g
       /\ Parsed(Sole, <<>>)[1] = h
  <2> HIDE DEF h, g, text
  <2>1. QED BY <1>1, <1>3, <1>7, <1>8, <1>9, SoleIs
<1> HIDE DEF h, g, text
<1>11. Atom(text)
  <2>1. Sole = <<Open("(")>>
    BY DEF Sole
  <2>2. \A n \in 0 .. Len(text) - 1 : n = 0
    BY <1>6
  <2>3. Parsed(<<Open("(")>>, SubSeq(text, 1, Len(text))) = Parsed(Sole, text)
    BY <1>6, <2>1
  <2>4. Parsed(<<Open("(")>>, SubSeq(text, 1, 0)) = Parsed(Sole, <<>>)
    BY <1>6, <2>1
  <2>5. QED BY <1>1, <1>3, <1>10, <2>2, <2>3, <2>4 DEF Atom
<1>12. QED BY <1>5, <1>11 DEF text

\* What where_op makes of an operator it does not know means the comparison.
LEMMA LikeTells ==
  /\ Compare("LIKE", "a", 2) \in Nodes
  /\ Tells("cond", Raw(<<Leaf("LIKE", "a", <<<<"v", 2>>>>)>>), ChainsOf(Compare("LIKE", "a", 2)),
           Means(Compare("LIKE", "a", 2)), MostSteps)
<1> DEFINE tok == Leaf("LIKE", "a", <<<<"v", 2>>>>)
           a == Compare("LIKE", "a", 2)
           r == Raw(<<tok>>)
<1>1. "a" \in Names /\ 2 \in Values /\ "LIKE" \in Names /\ NoColumn \in Names
  BY Known, CallerAssumption DEF Keywords
<1>2. a \in Nodes
  <2>1. <<2>> \in Seq(Values)
    BY <1>1
  <2>2. a \in Leaves
    BY <1>1, <2>1 DEF Compare, Condition, Leaves
  <2>3. QED BY <2>2 DEF Nodes
<1>3. tok \in Tokens /\ tok.t = "LIKE" /\ r \in Nodes /\ r.op = "RAW" /\ r.sub = <<tok>>
  <2>1. <<"v", 2>> \in Literals
    BY <1>1 DEF Literals
  <2>2. <<<<"v", 2>>>> \in Seq(Literals) /\ <<<<"v", 2>>>> \in Seq(Slots)
    BY <2>1 DEF Slots
  <2>3. tok \in RawTokens /\ tok \in Tokens /\ tok.t = "LIKE"
    BY <1>1, <2>2 DEF Leaf, RawTokens, Tokens
  <2>4. <<tok>> \in RawTexts
    BY <2>3 DEF RawTexts
  <2>5. r \in Raws /\ r.op = "RAW" /\ r.sub = <<tok>>
    BY <2>4 DEF Raw, Condition, Raws
  <2>6. QED BY <2>3, <2>5 DEF Nodes
<1>4. a.op \in Comparisons /\ a.op = "LIKE" /\ a.col = "a" /\ a.vals = <<2>>
  BY DEF Compare, Condition, Comparisons
<1>5. TokenOf(a) = tok
  <2>1. [i \in DOMAIN <<2>> |-> <<"v", <<2>>[i]>>] = <<<<"v", 2>>>>
    OBVIOUS
  <2>2. QED BY <1>4, <2>1 DEF TokenOf
<1>6. Compares(tok)
  BY <1>3 DEF Compares, Comparisons, Refused, ListOps
<1> HIDE DEF tok, a, r
<1>7. Says("cond", r, LeafRows(tok), MostSteps)
  <2>1. Atom(<<tok>>) /\ Selected(<<tok>>) = LeafRows(tok)
    BY <1>3, <1>6, TokenAtom
  <2>2. Says("cond", r, LeafRows(tok), 2)
    BY <1>3, <2>1, RawSays
  <2>3. ReadableTree(a)
    BY <1>4 DEF ReadableTree, ReadableIn
  <2>4. MostSteps \in Nat /\ 2 <= MostSteps
    BY <1>2, <2>3, ReadableTells
  <2>5. QED BY <2>2, <2>4, SaysMore
<1>8. Means(a) = LeafRows(tok)
  <2>1. PICK M : MeaningsOf(M)
    BY MeaningsExist
  <2>2. Means(a) = MeansIn(M[MaxDepth], a)
    BY <2>1 DEF MeaningsOf
  <2>3. MeansIn(M[MaxDepth], a) = LeafRows(TokenOf(a))
    BY <1>4, MeansIs
  <2>4. QED BY <1>5, <2>2, <2>3
<1>9. Tells("cond", r, ChainsOf(a), Means(a), MostSteps)
  BY <1>7, <1>8 DEF Tells
<1>10. QED BY <1>2, <1>9 DEF a, r, tok

-----------------------------------------------------------------------------
(* What was asked, call by call, and what the builders hold of it.         *)

\* Nothing is asked at first.
LEMMA AskingInit == Init => Asking
<1>1. ASSUME Init
      PROVE  Asking
  <2>1. Built
    BY <1>1, BuiltInit
  <2>2. calls \in 0 .. MaxCalls
    BY <1>1, ReadableAssumption DEF Init
  <2>3. q.conds = <<>> /\ asked = <<>> /\ calls = 0 /\ sel.wheres = <<>> /\ sel.orWheres = <<>>
    BY <1>1 DEF Init, QueryBuilder, SelectBuilder
  <2>4. ModelAsked
    <3>1. <<>> \in Seq([join : {"AND", "OR"}, cond : Nodes]) /\ Len(<<>>) = 0
      OBVIOUS
    <3>2. Keeps(<<>>, <<>>)
      BY <3>1 DEF Keeps, IsList
    <3>3. QED BY <2>3, <3>1, <3>2 DEF ModelAsked
  <2>5. SelectAsked
    <3>1. /\ <<>> \in Seq(Exprs) /\ Len(<<>>) = 0 /\ <<>> \in Seq([join : {"AND", "OR"}, cond : Exprs])
          /\ Len(<<>>) + Len(<<>>) <= 0
      OBVIOUS
    <3>2. AskedFor(<<>>, "AND", <<>>) /\ AskedFor(<<>>, "OR", <<>>)
      BY <3>1 DEF AskedFor
    <3>3. QED BY <2>3, <3>1, <3>2 DEF SelectAsked
  <2>6. QED BY <2>1, <2>2, <2>4, <2>5 DEF Asking
<1>2. QED BY <1>1

\* A call of a model query that adds a condition keeps what is asked.
LEMMA AskedOneMore ==
  ASSUME Asking, NEW join \in {"AND", "OR"}, NEW c, NEW a \in Nodes,
         Tells("cond", c, ChainsOf(a), Means(a), MostSteps), OnModel(Push(q, join, c)), Ask(join, a)
  PROVE  AskedNext
<1>1. kind = "model" /\ kind' = "model" /\ calls' = calls + 1 /\ calls \in Nat
  BY DEF OnModel, Call, Asking
<1>2. q' = Push(q, join, c) /\ asked' = Append(asked, Joined(join, a))
  BY DEF OnModel, Ask
<1>3. q'.conds = Append(q.conds, Joined(join, c))
  <2>1. q \in Builders
    BY DEF Asking, Built
  <2>2. \A b \in Builders : \A x : [b EXCEPT !.conds = x].conds = x
    BY DEF Builders, BuildersOf
  <2>3. q' = [q EXCEPT !.conds = Append(q.conds, Joined(join, c))]
    BY <1>2 DEF Push
  <2>4. QED BY <2>1, <2>2, <2>3
<1>4. Keeps(q.conds, asked) /\ Len(asked) <= calls
  BY <1>1 DEF Asking, ModelAsked
<1>5. Keeps(q'.conds, asked')
  BY <1>2, <1>3, <1>4, KeepsOneMore
<1>6. Len(asked') <= calls'
  <2>1. \A s \in Seq([join : {"AND", "OR"}, cond : Nodes]) : \A x : Len(s) \in Nat /\ Len(Append(s, x)) = Len(s) + 1
    OBVIOUS
  <2>2. asked \in Seq([join : {"AND", "OR"}, cond : Nodes])
    BY <1>4 DEF Keeps, IsList
  <2>3. Len(asked) \in Nat /\ Len(asked') = Len(asked) + 1
    BY <1>2, <2>1, <2>2
  <2>4. QED BY <1>1, <1>4, <2>3
<1>7. QED BY <1>1, <1>5, <1>6 DEF AskedNext, ModelAsked, SelectAsked

\* One that adds none, too.
LEMMA AskedNoMore ==
  ASSUME Asking, NEW b, b.conds = q.conds, OnModel(b), AskNothing
  PROVE  AskedNext
<1>1. kind = "model" /\ kind' = "model" /\ calls' = calls + 1 /\ calls \in Nat
  BY DEF OnModel, Call, Asking
<1>2. q'.conds = q.conds /\ asked' = asked
  BY DEF OnModel, AskNothing
<1>3. Keeps(q.conds, asked) /\ Len(asked) <= calls
  BY <1>1 DEF Asking, ModelAsked
<1>4. Len(asked) \in Nat
  BY <1>3 DEF Keeps, IsList
<1>5. QED BY <1>1, <1>2, <1>3, <1>4 DEF AskedNext, ModelAsked, SelectAsked

\* Each call of a model query keeps what is asked.
LEMMA ModelAskedNext ==
  ASSUME Asking
  PROVE  /\ \A j \in {"AND", "OR"}, c \in Conds : Where(j, c) => AskedNext
         /\ \A j \in {"AND", "OR"}, inner \in Inners : WhereInGroup(j, inner) => AskedNext
         /\ \A op \in {">=", "LIKE"} : WhereColumn(op, 2) => AskedNext
         /\ \A inner \in Inners, exists \in BOOLEAN : WhereHas(exists, inner) => AskedNext
         /\ WithTrashed \/ OnlyTrashed \/ WithoutGlobalScopes => AskedNext
         /\ AddClause => AskedNext
         /\ \A sub \in SubQueries : AddCte(sub) \/ AddSetOp("UNION", sub) => AskedNext
<1>1. q \in Builders
  BY DEF Asking, Built
<1>2. ASSUME NEW j \in {"AND", "OR"}, NEW c, SelfTells(c), OnModel(Push(q, j, c)), Ask(j, c)
      PROVE  AskedNext
  BY <1>2, AskedOneMore DEF SelfTells
<1>3. ASSUME NEW j \in {"AND", "OR"}, NEW c \in Conds, Where(j, c)
      PROVE  AskedNext
  <2>1. OnModel(Push(q, j, c)) /\ Ask(j, c)
    BY <1>3 DEF Where, AndWhere, OrWhere
  <2>2. QED BY <1>2, <2>1, CallerTells
<1>4. ASSUME NEW j \in {"AND", "OR"}, NEW inner \in Inners, WhereInGroup(j, inner)
      PROVE  AskedNext
  <2>1. CASE inner = <<>>
    <3>1. OnModel(q) /\ AskNothing
      BY <1>4, <2>1 DEF WhereInGroup, WhereGroup
    <3>2. QED BY <3>1, AskedNoMore
  <2>2. CASE inner # <<>>
    <3>1. OnModel(Push(q, j, Group(inner))) /\ Ask(j, Group(inner))
      BY <1>4, <2>2 DEF WhereInGroup, WhereGroup
    <3>2. SelfTells(Group(inner))
      BY <2>2, CallerTells
    <3>3. QED BY <1>2, <3>1, <3>2
  <2>3. QED BY <2>1, <2>2
<1>5. ASSUME WhereColumn(">=", 2)
      PROVE  AskedNext
  <2>1. OnModel(Push(q, "AND", Compare(">=", "a", 2))) /\ Ask("AND", Compare(">=", "a", 2))
    BY <1>5 DEF WhereColumn, WhereOp, AndWhere
  <2>2. QED BY <1>2, <2>1, CallerTells
<1>6. ASSUME WhereColumn("LIKE", 2)
      PROVE  AskedNext
  <2>1. OnModel(Push(q, "AND", Raw(<<Leaf("LIKE", "a", <<<<"v", 2>>>>)>>))) /\ Ask("AND", Compare("LIKE", "a", 2))
    BY <1>6 DEF WhereColumn, WhereOp, AndWhere
  <2>2. QED BY <2>1, LikeTells, AskedOneMore
<1>7. ASSUME NEW inner \in Inners, NEW exists \in BOOLEAN, WhereHas(exists, inner)
      PROVE  AskedNext
  <2> DEFINE c == Subquery(exists, "rel", inner)
  <2>1. OnModel(Push(q, "AND", c)) /\ Ask("AND", c)
    BY <1>7 DEF WhereHas
  <2>2. SelfTells(c)
    BY CallerTells
  <2> HIDE DEF c
  <2>3. QED BY <1>2, <2>1, <2>2
<1>8. ASSUME OnlyTrashed
      PROVE  AskedNext
  <2>1. OnModel(Push(q, "AND", IsNotNull(SoftColumn))) /\ Ask("AND", IsNotNull(SoftColumn))
    BY <1>8 DEF OnlyTrashed
  <2>2. QED BY <1>2, <2>1, CallerTells
<1>9. ASSUME WithTrashed \/ WithoutGlobalScopes
      PROVE  AskedNext
  <2>1. OnModel(q) /\ AskNothing
    BY <1>9 DEF WithTrashed, WithoutGlobalScopes
  <2>2. QED BY <2>1, AskedNoMore
<1>10. ASSUME AddClause
       PROVE  AskedNext
  <2>1. PICK b \in {WithJoin(q), WithOrder(q), WithWindow(q), WithLock(q)}
                        \cup WithGroup(q) \cup WithLimit(q) : OnModel(b)
    BY <1>10 DEF AddClause
  <2>2. \A x \in Builders : \A opts : [x EXCEPT !.opts = opts].conds = x.conds
    BY DEF Builders, BuildersOf
  <2>3. \A c : WithClause(q, c).conds = q.conds
    BY <1>1, <2>2 DEF WithClause
  <2>4. b.conds = q.conds
    <3>1. \E c \in {"JOIN", "ORDER BY", "WINDOW", "LOCK", "GROUP BY", "HAVING", "LIMIT", "OFFSET"} :
            b = WithClause(q, c)
      BY <2>1 DEF WithJoin, WithOrder, WithWindow, WithLock, WithGroup, WithLimit
    <3>2. QED BY <2>3, <3>1
  <2>5. AskNothing
    BY <1>10 DEF AddClause
  <2>6. QED BY <2>1, <2>4, <2>5, AskedNoMore
<1>11. ASSUME NEW sub \in SubQueries, AddCte(sub) \/ AddSetOp("UNION", sub)
       PROVE  AskedNext
  <2>1. \A x \in Builders : \A y : [x EXCEPT !.ctes = y].conds = x.conds /\ [x EXCEPT !.setOp = y].conds = x.conds
    BY DEF Builders, BuildersOf
  <2>2. WithCte(q, sub).conds = q.conds /\ WithSetOp(q, "UNION", sub).conds = q.conds
    BY <1>1, <2>1 DEF WithCte, WithSetOp
  <2>3. (OnModel(WithCte(q, sub)) \/ OnModel(WithSetOp(q, "UNION", sub))) /\ AskNothing
    BY <1>11 DEF AddCte, AddSetOp
  <2>4. QED BY <2>2, <2>3, AskedNoMore
<1>12. QED BY <1>3, <1>4, <1>5, <1>6, <1>7, <1>8, <1>9, <1>10, <1>11

\* A select's expression joins those asked for with its word, and no other.
LEMMA AskedForMore ==
  ASSUME NEW exprs \in Seq(Exprs), NEW list \in Seq([join : {"AND", "OR"}, cond : Exprs]),
         NEW word \in {"AND", "OR"}, AskedFor(exprs, word, list), NEW e \in Exprs
  PROVE  /\ AskedFor(Append(exprs, e), word, Append(list, Joined(word, e)))
         /\ \A other \in {"AND", "OR"} : other # word => AskedFor(exprs, word, Append(list, Joined(other, e)))
<1> DEFINE T == [join : {"AND", "OR"}, cond : Exprs]
           n == Len(list)
           m == Len(exprs)
<1>1. \A w \in {"AND", "OR"} : Joined(w, e) \in T /\ Joined(w, e).join = w /\ Joined(w, e).cond = e
  BY DEF Joined
<1>2. /\ n \in Nat /\ m \in Nat
      /\ {exprs[i] : i \in 1 .. m} = {list[k].cond : k \in {j \in 1 .. n : list[j].join = word}}
  <2>1. n \in Nat /\ m \in Nat
    OBVIOUS
  <2>2. {exprs[i] : i \in 1 .. m} = {list[k].cond : k \in {j \in 1 .. n : list[j].join = word}}
    BY Zenon DEF AskedFor
  <2>3. QED BY <2>1, <2>2
<1>3. \A x \in T : /\ Len(Append(list, x)) = n + 1 /\ Append(list, x)[n + 1] = x
                   /\ \A i \in 1 .. n : Append(list, x)[i] = list[i]
  <2> HIDE DEF T
  <2>1. \A s \in Seq(T) : \A x \in T : /\ Len(Append(s, x)) = Len(s) + 1 /\ Append(s, x)[Len(s) + 1] = x
                                       /\ \A i \in 1 .. Len(s) : Append(s, x)[i] = s[i]
    OBVIOUS
  <2>2. list \in Seq(T)
    BY DEF T
  <2>3. QED BY <2>1, <2>2
<1>4. /\ Len(Append(exprs, e)) = m + 1 /\ Append(exprs, e)[m + 1] = e
      /\ \A i \in 1 .. m : Append(exprs, e)[i] = exprs[i]
  OBVIOUS
<1> HIDE DEF T, n, m
<1>5. AskedFor(Append(exprs, e), word, Append(list, Joined(word, e)))
  <2> DEFINE u == Append(exprs, e)
             v == Append(list, Joined(word, e))
  <2>1. Len(v) = n + 1 /\ v[n + 1].join = word /\ v[n + 1].cond = e /\ \A i \in 1 .. n : v[i] = list[i]
    BY <1>1, <1>3
  <2>2. Len(u) = m + 1 /\ u[m + 1] = e /\ \A i \in 1 .. m : u[i] = exprs[i]
    BY <1>4
  <2> HIDE DEF u, v
  <2>3. {u[i] : i \in 1 .. m + 1} = {exprs[i] : i \in 1 .. m} \cup {e}
    BY <1>2, <2>2
  <2>4. {v[k].cond : k \in {j \in 1 .. n + 1 : v[j].join = word}}
            = {list[k].cond : k \in {j \in 1 .. n : list[j].join = word}} \cup {e}
    BY <1>2, <2>1
  <2>5. AskedFor(u, word, v)
    BY <1>2, <2>1, <2>2, <2>3, <2>4 DEF AskedFor
  <2>6. QED BY <2>5 DEF u, v
<1>6. ASSUME NEW other \in {"AND", "OR"}, other # word
      PROVE  AskedFor(exprs, word, Append(list, Joined(other, e)))
  <2> DEFINE v == Append(list, Joined(other, e))
  <2>1. Len(v) = n + 1 /\ v[n + 1].join # word /\ \A i \in 1 .. n : v[i] = list[i]
    BY <1>1, <1>3, <1>6
  <2> HIDE DEF v
  <2>2. {v[k].cond : k \in {j \in 1 .. n + 1 : v[j].join = word}}
            = {list[k].cond : k \in {j \in 1 .. n : list[j].join = word}}
    BY <1>2, <2>1
  <2>3. AskedFor(exprs, word, v)
    BY <1>2, <2>1, <2>2 DEF AskedFor, m
  <2>4. QED BY <2>3 DEF v
<1>7. QED BY <1>5, <1>6

\* A call of a select that leaves its wheres keeps what is asked, and so do the
\* calls of the writes.
LEMMA AskedElsewhere ==
  ASSUME Asking
  PROVE  /\ \A s : (OnSelect(s) /\ AskNothing /\ s.wheres = sel.wheres /\ s.orWheres = sel.orWheres)
                        => AskedNext
         /\ \A b : OnInsert(b) \/ OnUpdate(b) => AskedNext
<1>1. ASSUME NEW s, OnSelect(s), AskNothing, s.wheres = sel.wheres, s.orWheres = sel.orWheres
      PROVE  AskedNext
  <2>1. kind = "select" /\ kind' = "select" /\ calls' = calls + 1 /\ calls \in Nat
    BY <1>1 DEF OnSelect, Call, Asking
  <2>2. sel'.wheres = sel.wheres /\ sel'.orWheres = sel.orWheres /\ asked' = asked
    BY <1>1 DEF OnSelect, AskNothing
  <2>3. /\ sel.wheres \in Seq(Exprs) /\ sel.orWheres \in Seq(Exprs)
        /\ Len(sel.wheres) + Len(sel.orWheres) <= calls
        /\ asked \in Seq([join : {"AND", "OR"}, cond : Exprs])
        /\ AskedFor(sel.wheres, "AND", asked) /\ AskedFor(sel.orWheres, "OR", asked)
    BY <2>1 DEF Asking, SelectAsked
  <2>4. Len(sel.wheres) + Len(sel.orWheres) <= calls + 1
    <3>1. Len(sel.wheres) \in Nat /\ Len(sel.orWheres) \in Nat
      BY <2>3
    <3>2. \A i, j, n \in Nat : i + j <= n => i + j <= n + 1
      OBVIOUS
    <3>3. QED BY <2>1, <2>3, <3>1, <3>2
  <2>5. SelectAsked'
    BY <2>1, <2>2, <2>3, <2>4 DEF SelectAsked
  <2>6. ModelAsked'
    BY <2>1 DEF ModelAsked
  <2>7. QED BY <2>5, <2>6 DEF AskedNext
<1>2. ASSUME NEW b, OnInsert(b) \/ OnUpdate(b)
      PROVE  AskedNext
  <2>1. kind' \in {"insert", "update"}
    BY <1>2 DEF OnInsert, OnUpdate, Call
  <2>2. QED BY <2>1 DEF AskedNext, ModelAsked, SelectAsked
<1>3. QED BY <1>1, <1>2

\* A where or an or_where of a select is asked for with its word.
LEMMA SelectAskedMore ==
  ASSUME Asking, NEW e \in Exprs
  PROVE  /\ SelWhere(e) => AskedNext
         /\ SelOrWhere(e) => AskedNext
<1> DEFINE T == [join : {"AND", "OR"}, cond : Exprs]
<1>1. sel \in Selects
  BY DEF Asking, Built
<1>2. \A s \in Selects : \A x : /\ [s EXCEPT !.wheres = x].wheres = x /\ [s EXCEPT !.wheres = x].orWheres = s.orWheres
                                /\ [s EXCEPT !.orWheres = x].orWheres = x /\ [s EXCEPT !.orWheres = x].wheres = s.wheres
  BY DEF Selects, SelectsOf
<1>3. \A s \in Seq(Exprs) : /\ Append(s, e) \in Seq(Exprs) /\ Len(s) \in Nat /\ Len(Append(s, e)) = Len(s) + 1
  OBVIOUS
<1>4. \A word \in {"AND", "OR"} : \A s \in Seq(T) : Append(s, Joined(word, e)) \in Seq(T)
  <2>1. \A word \in {"AND", "OR"} : Joined(word, e) \in T
    BY DEF Joined
  <2> HIDE DEF T
  <2>2. \A s \in Seq(T), x \in T : Append(s, x) \in Seq(T)
    OBVIOUS
  <2>3. QED BY <2>1, <2>2
<1>5. \A i, j, n \in Nat : i + j <= n => (i + 1) + j <= n + 1 /\ i + (j + 1) <= n + 1
  OBVIOUS
<1>6. ASSUME NEW s, OnSelect(s), NEW word \in {"AND", "OR"}, asked' = Append(asked, Joined(word, e)),
             s.wheres = IF word = "AND" THEN Append(sel.wheres, e) ELSE sel.wheres,
             s.orWheres = IF word = "OR" THEN Append(sel.orWheres, e) ELSE sel.orWheres
      PROVE  AskedNext
  <2>1. kind = "select" /\ kind' = "select" /\ sel' = s /\ calls' = calls + 1 /\ calls \in Nat
    BY <1>6 DEF OnSelect, Call, Asking
  <2>2. /\ sel.wheres \in Seq(Exprs) /\ sel.orWheres \in Seq(Exprs)
        /\ Len(sel.wheres) + Len(sel.orWheres) <= calls
        /\ asked \in Seq(T)
        /\ AskedFor(sel.wheres, "AND", asked) /\ AskedFor(sel.orWheres, "OR", asked)
    BY <2>1 DEF Asking, SelectAsked
  <2>3. AskedFor(sel'.wheres, "AND", asked') /\ AskedFor(sel'.orWheres, "OR", asked')
    BY <1>6, <2>1, <2>2, AskedForMore
  <2>4. Len(sel'.wheres) + Len(sel'.orWheres) <= calls'
    BY <1>3, <1>5, <1>6, <2>1, <2>2
  <2>5. sel'.wheres \in Seq(Exprs) /\ sel'.orWheres \in Seq(Exprs) /\ asked' \in Seq(T)
    BY <1>3, <1>4, <1>6, <2>1, <2>2
  <2>6. SelectAsked'
    BY <2>3, <2>4, <2>5 DEF SelectAsked
  <2>7. QED BY <2>1, <2>6 DEF AskedNext, ModelAsked
<1>7. ASSUME SelWhere(e)
      PROVE  AskedNext
  <2> DEFINE s == [sel EXCEPT !.wheres = Append(sel.wheres, e)]
  <2>1. OnSelect(s) /\ asked' = Append(asked, Joined("AND", e))
    BY <1>7 DEF SelWhere, Ask
  <2>2. s.wheres = Append(sel.wheres, e) /\ s.orWheres = sel.orWheres
    BY <1>1, <1>2
  <2> HIDE DEF s
  <2>3. QED BY <1>6, <2>1, <2>2
<1>8. ASSUME SelOrWhere(e)
      PROVE  AskedNext
  <2> DEFINE s == [sel EXCEPT !.orWheres = Append(sel.orWheres, e)]
  <2>1. OnSelect(s) /\ asked' = Append(asked, Joined("OR", e))
    BY <1>8 DEF SelOrWhere, Ask
  <2>2. s.orWheres = Append(sel.orWheres, e) /\ s.wheres = sel.wheres
    BY <1>1, <1>2
  <2> HIDE DEF s
  <2>3. QED BY <1>6, <2>1, <2>2
<1>9. QED BY <1>7, <1>8

\* Each call of a DSL builder keeps what is asked.
LEMMA DslAskedNext ==
  ASSUME Asking
  PROVE  /\ \A e \in Exprs : SelWhere(e) \/ SelOrWhere(e) \/ UpdWhere(e) => AskedNext
         /\ \A e \in Havings : SelHaving(e) => AskedNext
         /\ \A e \in Joins : SelJoin(e) => AskedNext
         /\ SelClause => AskedNext
         /\ \A sub \in SubSelects : SelFrom(sub) \/ SelCte(sub) \/ SelSetOp("UNION", sub)
                                        => AskedNext
         /\ \A data \in Pairs : InsValues(data) \/ UpdSet(data) => AskedNext
         /\ \A sets \in Sets : InsDoUpdate(sets) => AskedNext
         /\ InsDoNothing \/ InsOnConflict => AskedNext
<1> DEFINE Same(s) == s.wheres = sel.wheres /\ s.orWheres = sel.orWheres
<1>1. sel \in Selects
  BY DEF Asking, Built
<1>2. \A s \in Selects : \A x :
            /\ [s EXCEPT !.havings = x].wheres = s.wheres /\ [s EXCEPT !.havings = x].orWheres = s.orWheres
            /\ [s EXCEPT !.joins = x].wheres = s.wheres /\ [s EXCEPT !.joins = x].orWheres = s.orWheres
            /\ [s EXCEPT !.opts = x].wheres = s.wheres /\ [s EXCEPT !.opts = x].orWheres = s.orWheres
            /\ [s EXCEPT !.from = x].wheres = s.wheres /\ [s EXCEPT !.from = x].orWheres = s.orWheres
            /\ [s EXCEPT !.ctes = x].wheres = s.wheres /\ [s EXCEPT !.ctes = x].orWheres = s.orWheres
            /\ [s EXCEPT !.setOps = x].wheres = s.wheres /\ [s EXCEPT !.setOps = x].orWheres = s.orWheres
  BY DEF Selects, SelectsOf
<1>3. ASSUME NEW e \in Exprs, SelWhere(e) \/ SelOrWhere(e) \/ UpdWhere(e)
      PROVE  AskedNext
  <2>1. UpdWhere(e) => \E b : OnUpdate(b)
    BY DEF UpdWhere
  <2>2. QED BY <1>3, <2>1, SelectAskedMore, AskedElsewhere
<1>4. ASSUME NEW e, SelHaving(e) \/ SelJoin(e)
      PROVE  AskedNext
  <2>1. Same([sel EXCEPT !.havings = Append(sel.havings, e)]) /\ Same([sel EXCEPT !.joins = Append(sel.joins, e)])
    BY <1>1, <1>2
  <2>2. \E s : OnSelect(s) /\ AskNothing /\ Same(s)
    <3> HIDE DEF Same
    <3>1. QED BY <1>4, <2>1 DEF SelHaving, SelJoin
  <2>3. QED BY <2>2, AskedElsewhere
<1>5. ASSUME SelClause
      PROVE  AskedNext
  <2>1. \A c : Same(WithClause(sel, c))
    BY <1>1, <1>2 DEF WithClause
  <2>2. \E s : OnSelect(s) /\ AskNothing /\ Same(s)
    <3> HIDE DEF Same
    <3>1. QED BY <1>5, <2>1 DEF SelClause
  <2>3. QED BY <2>2, AskedElsewhere
<1>6. ASSUME NEW sub, SelFrom(sub) \/ SelCte(sub) \/ SelSetOp("UNION", sub)
      PROVE  AskedNext
  <2>1. Same(FromSubquery(sel, sub)) /\ Same(SelectWithCte(sel, sub)) /\ Same(SelectSetOp(sel, "UNION", sub))
    BY <1>1, <1>2 DEF FromSubquery, SelectWithCte, SelectSetOp
  <2>2. \E s : OnSelect(s) /\ AskNothing /\ Same(s)
    <3> HIDE DEF Same
    <3>1. QED BY <1>6, <2>1 DEF SelFrom, SelCte, SelSetOp
  <2>3. QED BY <2>2, AskedElsewhere
<1>7. ASSUME NEW data, InsValues(data) \/ UpdSet(data) \/ InsDoUpdate(data) \/ InsDoNothing \/ InsOnConflict
      PROVE  AskedNext
  <2>1. \E b : OnInsert(b) \/ OnUpdate(b)
    BY <1>7 DEF InsValues, UpdSet, InsDoUpdate, InsDoNothing, InsOnConflict
  <2>2. QED BY <2>1, AskedElsewhere
<1>8. QED BY <1>3, <1>4, <1>5, <1>6, <1>7

\* Every call is counted.
LEMMA NextCounts == Next => calls < MaxCalls /\ calls' = calls + 1
<1> DEFINE One == calls < MaxCalls /\ calls' = calls + 1
<1>1. /\ \A b : OnModel(b) => One
      /\ \A s : OnSelect(s) => One
      /\ \A b : OnInsert(b) \/ OnUpdate(b) => One
  BY DEF OnModel, OnSelect, OnInsert, OnUpdate, Call
<1> HIDE DEF One
<1>2. /\ \A j, c : Where(j, c) \/ WhereInGroup(j, c) => One
      /\ \A op, v : WhereColumn(op, v) => One
      /\ \A inner, exists : WhereHas(exists, inner) => One
      /\ WithTrashed \/ OnlyTrashed \/ WithoutGlobalScopes \/ AddClause => One
      /\ \A sub : AddCte(sub) \/ AddSetOp("UNION", sub) => One
  BY <1>1 DEF Where, WhereInGroup, WhereColumn, WhereHas, WithTrashed, OnlyTrashed, WithoutGlobalScopes,
              AddClause, AddCte, AddSetOp
<1>3. /\ \A e : SelWhere(e) \/ SelOrWhere(e) \/ UpdWhere(e) \/ SelHaving(e) \/ SelJoin(e) => One
      /\ SelClause => One
      /\ \A sub : SelFrom(sub) \/ SelCte(sub) \/ SelSetOp("UNION", sub) => One
      /\ \A data : InsValues(data) \/ UpdSet(data) \/ InsDoUpdate(data) => One
      /\ InsDoNothing \/ InsOnConflict => One
  BY <1>1 DEF SelWhere, SelOrWhere, UpdWhere, SelHaving, SelJoin, SelClause, SelFrom, SelCte, SelSetOp, InsValues,
              UpdSet, InsDoUpdate, InsDoNothing, InsOnConflict
<1>4. Next => One
  BY <1>2, <1>3 DEF Next
<1>5. QED BY <1>4 DEF One

\* No call loses what is asked.
LEMMA AskingNext == Asking /\ [Next]_vars => Asking'
<1>1. ASSUME Asking, Next
      PROVE  Asking'
  <2>1. AskedNext
    BY <1>1, ModelAskedNext, DslAskedNext DEF Next
  <2>2. Built'
    BY <1>1, BuiltNext DEF Asking
  <2>3. calls' \in 0 .. MaxCalls
    BY <1>1, NextCounts, ReadableAssumption DEF Asking
  <2>4. QED BY <2>1, <2>2, <2>3 DEF AskedNext, Asking
<1>2. ASSUME Asking, UNCHANGED vars
      PROVE  Asking'
  <2>1. Built'
    BY <1>2, BuiltNext DEF Asking
  <2>2. QED BY <1>2, <2>1 DEF Asking, ModelAsked, SelectAsked, vars
<1>3. QED BY <1>1, <1>2

-----------------------------------------------------------------------------
(* RowsAsAsked: the rows of a WHERE are those asked for.                   *)

\* What is asked of a select, told from its two lists.
LEMMA AskedMeans ==
  ASSUME NEW exprs \in Seq(Exprs), NEW list \in Seq([join : {"AND", "OR"}, cond : Exprs]), NEW word,
         AskedFor(exprs, word, list)
  PROVE  MeantBy(exprs, word, list)
<1> DEFINE A == {exprs[i] : i \in 1 .. Len(exprs)}
           B == {list[k].cond : k \in {m \in 1 .. Len(list) : list[m].join = word}}
<1>1. A = B
  BY Zenon DEF AskedFor
<1>2. DOMAIN list = 1 .. Len(list)
  OBVIOUS
<1>3. {Means(e) : e \in A} = {Means(exprs[i]) : i \in 1 .. Len(exprs)}
  OBVIOUS
<1>4. {Means(e) : e \in B} = {Means(list[i].cond) : i \in {k \in 1 .. Len(list) : list[k].join = word}}
  OBVIOUS
<1> HIDE DEF A, B
<1>5. QED BY <1>1, <1>2, <1>3, <1>4 DEF MeantBy

\* The rows wanted of a select are those its two lists ask for.
LEMMA SelectWanted ==
  ASSUME Asking, kind = "select"
  PROVE  Wanted = AskedOf(sel)
<1> DEFINE Of(join) == {Means(asked[i].cond) : i \in {k \in DOMAIN asked : asked[k].join = join}}
           ands == sel.wheres
           ors == sel.orWheres
           T == [join : {"AND", "OR"}, cond : Exprs]
<1>1. /\ ands \in Seq(Exprs) /\ ors \in Seq(Exprs) /\ asked \in Seq(T)
      /\ AskedFor(ands, "AND", asked) /\ AskedFor(ors, "OR", asked)
  BY DEF Asking, SelectAsked
<1>2. /\ Of("AND") = {Means(ands[i]) : i \in 1 .. Len(ands)}
      /\ Of("OR") = {Means(ors[i]) : i \in 1 .. Len(ors)}
  <2>1. MeantBy(ands, "AND", asked) /\ MeantBy(ors, "OR", asked)
    BY <1>1, AskedMeans
  <2>2. QED BY <2>1 DEF MeantBy
<1>3. \A s \in Seq(Exprs) : {Means(s[i]) : i \in 1 .. Len(s)} = {} <=> s = <<>>
  <2>1. \A s \in Seq(Exprs) : Len(s) \in Nat /\ (s = <<>> <=> Len(s) = 0)
    OBVIOUS
  <2>2. ASSUME NEW s \in Seq(Exprs), s # <<>>
        PROVE  1 \in 1 .. Len(s)
    BY <2>1, <2>2
  <2>3. ASSUME NEW s \in Seq(Exprs), s # <<>>
        PROVE  {Means(s[i]) : i \in 1 .. Len(s)} # {}
    BY <2>2, <2>3
  <2>4. ASSUME NEW s \in Seq(Exprs), s = <<>>
        PROVE  {Means(s[i]) : i \in 1 .. Len(s)} = {}
    BY <2>1, <2>4
  <2>5. QED BY <2>3, <2>4
<1>4. asked = <<>> <=> (ands = <<>> /\ ors = <<>>)
  <2>1. ASSUME asked = <<>>
        PROVE  Of("AND") = {} /\ Of("OR") = {}
    BY <2>1
  <2>2. ASSUME asked # <<>>
        PROVE  Of("AND") # {} \/ Of("OR") # {}
    <3>1. 1 \in DOMAIN asked /\ asked[1].join \in {"AND", "OR"}
      <4>1. asked[1] \in T /\ 1 \in DOMAIN asked
        <5> HIDE DEF T
        <5>1. QED BY <1>1, <2>2
      <4>2. QED BY <4>1
    <3>2. QED BY <3>1
  <2>3. (Of("AND") = {} <=> ands = <<>>) /\ (Of("OR") = {} <=> ors = <<>>)
    <3> HIDE DEF Of, ands, ors
    <3>1. QED BY <1>1, <1>2, <1>3
  <2> HIDE DEF Of
  <2>4. QED BY <2>1, <2>2, <2>3
<1>5. Wanted = IF asked = <<>> THEN EveryRow
               ELSE (IF Of("AND") = {} THEN {} ELSE Common(Of("AND"))) \cup UNION Of("OR")
  BY DEF Wanted
<1>6. ands # <<>> => Common(Of("AND")) = StrandRows(ands, "AND")
  <2> HIDE DEF Of, ands, ors
  <2>1. QED BY <1>2 DEF Common, StrandRows
<1>7. UNION Of("OR") = StrandRows(ors, "OR")
  <2> HIDE DEF Of, ands, ors
  <2>1. QED BY <1>2 DEF StrandRows
<1>8. (Of("AND") = {} <=> ands = <<>>) /\ (ors = <<>> => UNION Of("OR") = {})
  <2> HIDE DEF Of, ands, ors
  <2>1. (Of("AND") = {} <=> ands = <<>>) /\ (Of("OR") = {} <=> ors = <<>>)
    BY <1>1, <1>2, <1>3
  <2>2. QED BY <2>1
<1>9. AskedOf(sel) = IF ors = <<>>
                     THEN IF ands = <<>> THEN EveryRow ELSE StrandRows(ands, "AND")
                     ELSE IF ands = <<>> THEN StrandRows(ors, "OR")
                          ELSE StrandRows(ands, "AND") \cup StrandRows(ors, "OR")
  BY DEF AskedOf
<1> HIDE DEF Of, ands, ors
<1>10. QED BY <1>4, <1>5, <1>6, <1>7, <1>8, <1>9

\* The rows are those asked for, unless a select has a list without members.
LEMMA AskedAreRead ==
  ASSUME Asking, NEW d \in {"$", "?"},
         kind = "select" => \A i \in DOMAIN asked : IsFilled(asked[i].cond)
  PROVE  AsAsked(d)
<1>1. calls \in 0 .. MaxCalls /\ MaxCalls \in Nat /\ Len(Scopes) \in Nat
  BY ReadableAssumption, CallerAssumption DEF Asking
<1>2. ASSUME kind = "model", Straight(Nested(asked))
      PROVE  ModelRows(q, d) = Table \cap Wanted
  <2>1. Keeps(q.conds, asked) /\ Len(asked) <= calls
    BY <1>2 DEF Asking, ModelAsked
  <2>2. Len(asked) \in Nat
    BY <2>1 DEF Keeps, IsList
  <2>3. Len(asked) <= MaxCalls + Len(Scopes) + 1
    BY <1>1, <2>1, <2>2
  <2>4. q \in Builders
    BY DEF Asking, Built
  <2>5. ModelRows(q, d) = Table \cap ChainMeans(asked)
    BY <1>2, <2>1, <2>3, <2>4, KeptRows
  <2>6. Wanted = ChainMeans(asked)
    BY <1>2 DEF Wanted
  <2>7. QED BY <2>5, <2>6
<1>3. ASSUME kind = "select"
      PROVE  SelectRows(sel, d) = Table \cap Wanted
  <2>1. /\ sel.wheres \in Seq(Exprs) /\ sel.orWheres \in Seq(Exprs)
        /\ Len(sel.wheres) + Len(sel.orWheres) <= calls
    BY <1>3 DEF Asking, SelectAsked
  <2>2. Len(sel.wheres) + Len(sel.orWheres) <= MaxCalls
    <3>1. Len(sel.wheres) \in Nat /\ Len(sel.orWheres) \in Nat
      BY <2>1
    <3>2. \A i, j, n, m \in Nat : i + j <= n /\ n <= m => i + j <= m
      OBVIOUS
    <3>3. calls \in Nat /\ calls <= MaxCalls
      BY <1>1
    <3>4. QED BY <1>1, <2>1, <3>1, <3>2, <3>3
  <2>3. sel \in Selects
    BY DEF Asking, Built
  <2>4. sel.wheres \in Seq(FilledExprs) /\ sel.orWheres \in Seq(FilledExprs)
    <3>1. AskedFor(sel.wheres, "AND", asked) /\ AskedFor(sel.orWheres, "OR", asked) /\ DOMAIN asked = 1 .. Len(asked)
      BY <1>3 DEF Asking, SelectAsked
    <3>2. ASSUME NEW exprs \in Seq(Exprs), NEW word, AskedFor(exprs, word, asked)
          PROVE  exprs \in Seq(FilledExprs)
      <4>1. \A i \in 1 .. Len(exprs) : exprs[i] \in {asked[k].cond : k \in 1 .. Len(asked)}
        BY <3>2 DEF AskedFor
      <4>2. \A i \in 1 .. Len(exprs) : exprs[i] \in FilledExprs
        BY <1>3, <3>1, <4>1 DEF FilledExprs
      <4>3. QED BY <4>2
    <3>3. QED BY <2>1, <3>1, <3>2
  <2>5. SelectRows(sel, d) = Table \cap AskedOf(sel)
    BY <2>2, <2>3, <2>4, SelectRowsAre
  <2>6. QED BY <1>3, <2>5, SelectWanted
<1>4. QED BY <1>2, <1>3 DEF AsAsked

\* Whatever calls were made, of a model query or of a select, the rows that the
\* WHERE text selects when a database reads it, with its parameters bound, are
\* the rows the calls asked for: for every instance of the constants whose
\* conditions a WHERE can be made of (condition.rs, query.rs, dsl/).  RowsAsAsked
\* leaves out a select with an IN or NOT IN of nothing, which dsl/expr.rs:151-179
\* writes as a text that is refused, and PostgreSQL's words in a text with "?".
THEOREM WhatIsAskedIsRead == Spec => []RowsAsAsked
<1>1. Asking => RowsAsAsked
  BY AskedAreRead DEF RowsAsAsked, WritesEmptyList
<1>2. QED BY AskingInit, AskingNext, <1>1, PTL DEF Spec

-----------------------------------------------------------------------------
(* ScopesHold: what the last conditions of a WHERE keep out.               *)

\* More conditions after them, joined by AND, sift what is left.
LEMMA SiftsMore ==
  ASSUME NEW s, NEW n, NEW x, Sifts(s, n, x), NEW t, NEW m, NEW y, Sifts(t, m, y),
         \A i \in 1 .. Len(t) : t[i].join = "AND"
  PROVE  Sifts(s \o t, n + m, x \cap y)
<1> DEFINE T == [join : {"AND", "OR"}, cond : Nodes]
           u == s \o t
           i1 == Len(s)
           i2 == Len(t)
<1>1. /\ s \in Seq(T) /\ NoOr(s) /\ n \in Nat /\ i1 <= n
      /\ t \in Seq(T) /\ m \in Nat /\ i2 <= m
  BY DEF Sifts, IsList
<1>2. PICK p : /\ \A k \in 1 .. i1 : Says("cond", s[k].cond, p[k], MostSteps)
               /\ \A row \in EveryRow : (\A k \in 1 .. i1 : row \in p[k]) => row \in x
  BY DEF Sifts
<1>3. PICK r : /\ \A k \in 1 .. i2 : Says("cond", t[k].cond, r[k], MostSteps)
               /\ \A row \in EveryRow : (\A k \in 1 .. i2 : row \in r[k]) => row \in y
  BY DEF Sifts
<1>4. i1 \in Nat /\ i2 \in Nat /\ DOMAIN s = 1 .. i1
  BY <1>1
<1>5. /\ u \in Seq(T) /\ Len(u) = i1 + i2 /\ DOMAIN u = 1 .. i1 + i2
      /\ \A k \in 1 .. i1 : u[k] = s[k]
      /\ \A k \in 1 .. i2 : u[i1 + k] = t[k]
  <2> HIDE DEF T
  <2>1. \A a, b \in Seq(T) : /\ a \o b \in Seq(T) /\ Len(a \o b) = Len(a) + Len(b)
                             /\ DOMAIN (a \o b) = 1 .. Len(a) + Len(b)
                             /\ \A k \in 1 .. Len(a) : (a \o b)[k] = a[k]
                             /\ \A k \in 1 .. Len(b) : (a \o b)[Len(a) + k] = b[k]
    OBVIOUS
  <2>2. QED BY <1>1, <2>1
<1> DEFINE rows == [k \in 1 .. i1 + i2 |-> IF k <= i1 THEN p[k] ELSE r[k - i1]]
<1>6. /\ \A k \in 1 .. i1 : k \in 1 .. i1 + i2 /\ rows[k] = p[k]
      /\ \A k \in 1 .. i2 : i1 + k \in 1 .. i1 + i2 /\ rows[i1 + k] = r[k]
  <2> HIDE DEF i1, i2
  <2>1. \A k \in 1 .. i1 : k \in 1 .. i1 + i2 /\ k <= i1
    BY <1>4
  <2>2. \A k \in 1 .. i2 : i1 + k \in 1 .. i1 + i2 /\ ~(i1 + k <= i1) /\ (i1 + k) - i1 = k
    BY <1>4
  <2>3. QED BY <2>1, <2>2
<1>7. \A k \in 1 .. i1 + i2 : k \in 1 .. i1 \/ \E j \in 1 .. i2 : k = i1 + j
  <2> HIDE DEF i1, i2
  <2>1. ASSUME NEW k \in 1 .. i1 + i2, ~(k \in 1 .. i1)
        PROVE  k - i1 \in 1 .. i2 /\ k = i1 + (k - i1)
    BY <1>4, <2>1
  <2>2. QED BY <2>1
<1> HIDE DEF T, u, i1, i2, rows
<1>8. \A k \in 1 .. Len(u) : Says("cond", u[k].cond, rows[k], MostSteps)
  <2>1. \A k \in 1 .. i1 : Says("cond", u[k].cond, rows[k], MostSteps)
    BY <1>2, <1>5, <1>6
  <2>2. \A k \in 1 .. i2 : Says("cond", u[i1 + k].cond, rows[i1 + k], MostSteps)
    BY <1>3, <1>5, <1>6
  <2>3. QED BY <1>5, <1>7, <2>1, <2>2
<1>9. ASSUME NEW row \in EveryRow, \A k \in 1 .. Len(u) : row \in rows[k]
      PROVE  row \in x \cap y
  <2>1. \A k \in 1 .. i1 : row \in p[k]
    BY <1>5, <1>6, <1>9
  <2>2. \A k \in 1 .. i2 : row \in r[k]
    BY <1>5, <1>6, <1>9
  <2>3. QED BY <1>2, <1>3, <2>1, <2>2
<1>10. NoOr(u)
  <2>1. ASSUME NEW k \in 1 .. i1 + i2, 1 < k
        PROVE  u[k].join = "AND"
    <3>1. CASE k \in 1 .. i1
      <4>1. s[k].join = "AND"
        BY <1>1, <1>4, <2>1, <3>1 DEF NoOr
      <4>2. QED BY <1>5, <3>1, <4>1
    <3>2. CASE \E j \in 1 .. i2 : k = i1 + j
      <4>1. PICK j \in 1 .. i2 : k = i1 + j
        BY <3>2
      <4>2. u[k] = t[j]
        BY <1>5, <4>1
      <4>3. t[j].join = "AND"
        BY DEF i2
      <4>4. QED BY <4>2, <4>3
    <3>3. QED BY <1>7, <3>1, <3>2
  <2>2. QED BY <1>5, <2>1 DEF NoOr
<1>11. IsList(u) /\ n + m \in Nat /\ Len(u) <= n + m
  <2>1. \A i, j \in Nat : i <= n /\ j <= m => i + j <= n + m /\ n + m \in Nat
    BY <1>1
  <2>2. QED BY <1>1, <1>4, <1>5, <2>1 DEF IsList, T
<1>12. Sifts(u, n + m, x \cap y)
  BY <1>8, <1>9, <1>10, <1>11 DEF Sifts
<1>13. QED BY <1>12 DEF u

\* The rows of a query are among those its conditions let through.
LEMMA SiftedRows ==
  ASSUME NEW b \in Builders, NEW n, NEW x, Sifts(b.conds, n, x), n <= MaxCalls + Len(Scopes) + 1,
         NEW d \in {"$", "?"}
  PROVE  ModelRows(b, d) \subseteq x
<1> DEFINE conds == b.conds
<1>1. IsList(conds) /\ NoOr(conds) /\ n \in Nat /\ Len(conds) <= n
  BY DEF Sifts
<1>2. PICK rows : /\ \A k \in 1 .. Len(conds) : Says("cond", conds[k].cond, rows[k], MostSteps)
                  /\ \A row \in EveryRow : (\A k \in 1 .. Len(conds) : row \in rows[k]) => row \in x
  BY DEF Sifts
<1>3. Len(conds) \in Nat /\ (conds = <<>> => Len(conds) = 0)
  BY <1>1, LastIs
<1>4. Len(conds) <= MaxCalls + Len(Scopes) + 1
  <2>1. MaxCalls + Len(Scopes) + 1 \in Nat
    BY ReadableAssumption, CallerAssumption
  <2> HIDE DEF conds
  <2>2. QED BY <1>1, <1>3, <2>1
<1>5. ModelRows(b, d) = Table \cap Chain(conds, rows)
  BY <1>1, <1>2, <1>4, ModelRowsAre
<1>6. Chain(conds, rows) = {row \in EveryRow : \A k \in 1 .. Len(conds) : row \in rows[k]}
  <2>1. CASE conds = <<>>
    <3>1. Chain(conds, rows) = EveryRow
      BY <2>1 DEF Chain
    <3>2. \A k \in 1 .. Len(conds) : FALSE
      BY <1>3, <2>1
    <3>3. QED BY <3>1, <3>2
  <2>2. CASE conds # <<>>
    <3> HIDE DEF conds
    <3>1. QED BY <1>1, <2>2, ChainOfAnds
  <2>3. QED BY <2>1, <2>2
<1>7. QED BY <1>2, <1>5, <1>6

\* The scopes let through what they mean.
LEMMA ScopesSift == /\ Sifts(ScopeConds, Len(Scopes), ScopeRows)
                    /\ \A i \in 1 .. Len(ScopeConds) : ScopeConds[i].join = "AND"
<1> DEFINE T == [join : {"AND", "OR"}, cond : Nodes]
           n == Len(Scopes)
           rows == [i \in 1 .. n |-> Means(Scopes[i])]
<1>1. n \in Nat /\ DOMAIN Scopes = 1 .. n
  BY CallerAssumption
<1>2. \A i \in 1 .. n : SelfTells(Scopes[i])
  BY <1>1, CallerTells
<1>3. \A i \in 1 .. n : Straight(ChainsOf(Scopes[i]))
  <2>1. \A i \in 1 .. n : Scopes[i] \in Range(Scopes)
    BY <1>1 DEF Range
  <2>2. QED BY <2>1, ReadableAssumption
<1>4. \A i \in 1 .. n : Says("cond", Scopes[i], Means(Scopes[i]), MostSteps)
  BY <1>2, <1>3 DEF SelfTells, Tells
<1>5. \A i \in 1 .. n : ScopeConds[i] = Joined("AND", Scopes[i])
  BY <1>1 DEF ScopeConds
<1>6. \A i \in 1 .. n : ScopeConds[i] \in T /\ ScopeConds[i].join = "AND" /\ ScopeConds[i].cond = Scopes[i]
  <2>1. \A c \in Nodes : Joined("AND", c) \in T /\ Joined("AND", c).join = "AND" /\ Joined("AND", c).cond = c
    BY DEF Joined
  <2>2. \A i \in 1 .. n : Scopes[i] \in Nodes
    BY <1>2 DEF SelfTells
  <2> HIDE DEF T, n
  <2>3. QED BY <1>5, <2>1, <2>2
<1>7. ScopeConds \in Seq(T) /\ Len(ScopeConds) = n /\ DOMAIN ScopeConds = 1 .. n
  <2>1. ScopeConds = [i \in 1 .. n |-> ScopeConds[i]]
    BY <1>1 DEF ScopeConds
  <2> HIDE DEF T, n
  <2>2. \A i \in 1 .. n : ScopeConds[i] \in T
    BY <1>6
  <2>3. ScopeConds \in [1 .. n -> T]
    BY <2>1, <2>2
  <2>4. QED BY <1>1, <2>3
<1>8. IsList(ScopeConds) /\ NoOr(ScopeConds)
  BY <1>6, <1>7 DEF IsList, NoOr
<1>9. \A k \in 1 .. Len(ScopeConds) : Says("cond", ScopeConds[k].cond, rows[k], MostSteps)
  BY <1>4, <1>6, <1>7
<1>10. \A row \in EveryRow : (\A k \in 1 .. Len(ScopeConds) : row \in rows[k]) => row \in ScopeRows
  BY <1>1, <1>7 DEF ScopeRows
<1> HIDE DEF rows
<1>11. Sifts(ScopeConds, n, ScopeRows)
  BY <1>1, <1>7, <1>8, <1>9, <1>10 DEF Sifts
<1>12. QED BY <1>6, <1>7, <1>11

\* The filter of the soft delete column lets through what is not deleted.
LEMMA SoftSifts == Sifts(SoftConds, 1, LiveRows) /\ \A i \in 1 .. Len(SoftConds) : SoftConds[i].join = "AND"
<1> DEFINE c == IsNull(SoftColumn)
           T == [join : {"AND", "OR"}, cond : Nodes]
           x == LeafRows(TokenOf(c))
           rows == [i \in 1 .. 1 |-> x]
<1>1. c \in Nodes /\ c.op = "IS NULL" /\ c.col = SoftColumn
  BY CallerNodes DEF IsNull, Condition
<1>2. c.op \in Comparisons
  BY <1>1 DEF Comparisons
<1>3. x = LiveRows
  <2> HIDE DEF c
  <2>1. TokenOf(c).t = "IS NULL" /\ TokenOf(c).col = SoftColumn
    BY <1>1 DEF TokenOf, Leaf
  <2>2. \A row : LeafHolds(TokenOf(c), row) <=> row[SoftColumn] = NULL
    BY <2>1, Zenon DEF LeafHolds
  <2>3. QED BY <2>2 DEF LeafRows, LiveRows
<1> HIDE DEF c, x
<1>4. Says("cond", c, x, MostSteps)
  <2>1. Says("cond", c, x, 2)
    BY <1>1, <1>2, LeafSays DEF x, Listed
  <2>2. ReadableTree(c)
    BY <1>2 DEF ReadableTree, ReadableIn
  <2>3. MostSteps \in Nat /\ 2 <= MostSteps
    BY <1>1, <2>2, ReadableTells
  <2>4. QED BY <2>1, <2>3, SaysMore
<1>5. Joined("AND", c) \in T /\ Joined("AND", c).join = "AND" /\ Joined("AND", c).cond = c
  BY <1>1 DEF Joined
<1>6. SoftConds = <<Joined("AND", c)>>
  BY DEF SoftConds, c
<1>7. SoftConds \in Seq(T) /\ Len(SoftConds) = 1 /\ DOMAIN SoftConds = 1 .. 1 /\ SoftConds[1] = Joined("AND", c)
  <2> HIDE DEF T
  <2>1. \A t \in T : <<t>> \in Seq(T) /\ Len(<<t>>) = 1 /\ DOMAIN <<t>> = 1 .. 1 /\ <<t>>[1] = t
    OBVIOUS
  <2>2. QED BY <1>5, <1>6, <2>1
<1>8. \A k \in 1 .. 1 : k = 1
  OBVIOUS
<1>9. \A k \in 1 .. 1 : SoftConds[k].join = "AND" /\ SoftConds[k].cond = c /\ rows[k] = x
  BY <1>5, <1>7, <1>8
<1>10. IsList(SoftConds) /\ NoOr(SoftConds) /\ 1 \in Nat /\ Len(SoftConds) <= 1
  BY <1>7, <1>9 DEF IsList, NoOr
<1>11. 1 \in 1 .. Len(SoftConds)
  BY <1>7
<1> HIDE DEF rows
<1>12. /\ \A k \in 1 .. Len(SoftConds) : Says("cond", SoftConds[k].cond, rows[k], MostSteps)
       /\ \A row \in EveryRow : (\A k \in 1 .. Len(SoftConds) : row \in rows[k]) => row \in LiveRows
  BY <1>3, <1>4, <1>7, <1>9, <1>11
<1>13. QED BY <1>7, <1>9, <1>10, <1>12 DEF Sifts

\* A model query asked for no or_where has conditions joined by AND.
LEMMA AskedSift ==
  ASSUME Asking, kind = "model", NoOr(asked)
  PROVE  Sifts(q.conds, calls, EveryRow)
<1> DEFINE conds == q.conds
           n == Len(asked)
           cs == [k \in 1 .. n |-> ChainsOf(asked[k].cond)]
           ms == [k \in 1 .. n |-> Means(asked[k].cond)]
<1>1. /\ IsList(conds) /\ IsList(asked) /\ Len(conds) = n /\ n <= calls /\ calls \in Nat
      /\ \A i \in 1 .. n :
            /\ conds[i].join = asked[i].join
            /\ Tells("cond", conds[i].cond, ChainsOf(asked[i].cond), Means(asked[i].cond), MostSteps)
  BY DEF Asking, ModelAsked, Keeps
<1>2. DOMAIN conds = 1 .. n /\ DOMAIN asked = 1 .. n
  BY <1>1, ListIs
<1>3. NoOr(conds)
  BY <1>1, <1>2 DEF NoOr
<1>4. \A k \in 1 .. n : Tells("cond", conds[k].cond, cs[k], ms[k], MostSteps)
  BY <1>1
<1> HIDE DEF conds, n, cs, ms
<1>5. ChainTells("cond", conds, cs, ms, MostSteps)
  BY <1>1, <1>4, ChainRows
<1>6. \E rows : \A k \in 1 .. Len(conds) : Says("cond", conds[k].cond, rows[k], MostSteps)
  BY <1>5 DEF ChainTells
<1>7. Sifts(conds, calls, EveryRow)
  BY <1>1, <1>3, <1>6 DEF Sifts
<1>8. QED BY <1>7 DEF conds

\* What is sent lets no row through that the scopes and the soft delete filter
\* keep out, unless the query was told to (into_final_builder, scopes.rs).
LEMMA FinalSifts ==
  ASSUME Asking, kind = "model", NoOr(asked)
  PROVE  \E n, x : /\ Sifts(IntoFinalBuilder.conds, n, x) /\ n <= calls + Len(Scopes) + 1
                   /\ unscoped \/ x \subseteq ScopeRows
                   /\ trashed \/ x \subseteq LiveRows
<1> DEFINE scoped == IF unscoped THEN q ELSE ApplyScopes(q)
           l == Len(Scopes)
<1>1. q \in Builders /\ calls \in Nat /\ l \in Nat
  BY CallerAssumption DEF Asking, Built
<1>2. Sifts(q.conds, calls, EveryRow)
  BY AskedSift
<1>3. \A b \in Builders : \A y : [b EXCEPT !.conds = y].conds = y
  BY DEF Builders, BuildersOf
<1>4. ApplyScopes(q).conds = q.conds \o ScopeConds
  BY <1>1, <1>3 DEF ApplyScopes, ScopeConds
<1>5. PICK n, x : /\ Sifts(scoped.conds, n, x) /\ n \in Nat /\ n <= calls + l
                  /\ unscoped \/ x \subseteq ScopeRows
  <2>1. CASE unscoped
    <3>1. scoped = q /\ calls <= calls + l
      BY <1>1, <2>1
    <3> HIDE DEF scoped
    <3>2. QED BY <1>1, <1>2, <2>1, <3>1
  <2>2. CASE ~unscoped
    <3>1. Sifts(q.conds \o ScopeConds, calls + l, EveryRow \cap ScopeRows)
      BY <1>2, ScopesSift, SiftsMore
    <3>2. scoped.conds = q.conds \o ScopeConds
      BY <1>4, <2>2
    <3>3. Sifts(scoped.conds, calls + l, EveryRow \cap ScopeRows)
      BY <3>1, <3>2
    <3>4. calls + l \in Nat /\ calls + l <= calls + l
      BY <1>1
    <3> HIDE DEF scoped
    <3>5. QED BY <3>3, <3>4
  <2>3. QED BY <2>1, <2>2
<1>6. CASE trashed
  <2>1. IntoFinalBuilder = scoped
    BY <1>6 DEF IntoFinalBuilder
  <2>2. n <= calls + l + 1
    BY <1>1, <1>5
  <2> HIDE DEF scoped
  <2>3. QED BY <1>5, <1>6, <2>1, <2>2
<1>7. CASE ~trashed
  <2> DEFINE T == [join : {"AND", "OR"}, cond : Nodes]
             j == Joined("AND", IsNull(SoftColumn))
  <2>1. IntoFinalBuilder = [scoped EXCEPT !.conds = Append(scoped.conds, j)]
    BY <1>7 DEF IntoFinalBuilder, Push
  <2>2. \A b \in Builders : \A z, y : [[b EXCEPT !.conds = z] EXCEPT !.conds = y].conds = y
    BY DEF Builders, BuildersOf
  <2>3. IntoFinalBuilder.conds = Append(scoped.conds, j)
    <3>1. CASE unscoped
      BY <1>1, <1>3, <2>1, <3>1
    <3>2. CASE ~unscoped
      <4>1. scoped = [q EXCEPT !.conds = q.conds \o ScopeConds]
        BY <3>2 DEF ApplyScopes, ScopeConds
      <4> HIDE DEF scoped, j
      <4>2. QED BY <1>1, <2>1, <2>2, <4>1
    <3>3. QED BY <3>1, <3>2
  <2>4. j \in T
    <3>1. IsNull(SoftColumn) \in Nodes
      BY CallerNodes
    <3>2. QED BY <3>1 DEF Joined
  <2>5. scoped.conds \in Seq(T)
    BY <1>5 DEF Sifts, IsList
  <2>6. Append(scoped.conds, j) = scoped.conds \o SoftConds
    <3>1. \A s \in Seq(T) : \A t \in T : Append(s, t) = s \o <<t>>
      <4> HIDE DEF T
      <4>1. QED OBVIOUS
    <3>2. SoftConds = <<j>>
      BY DEF SoftConds
    <3> HIDE DEF scoped, j, T
    <3>3. QED BY <2>4, <2>5, <3>1, <3>2
  <2> HIDE DEF scoped, j
  <2>7. Sifts(scoped.conds \o SoftConds, n + 1, x \cap LiveRows)
    BY <1>5, SoftSifts, SiftsMore
  <2>8. Sifts(IntoFinalBuilder.conds, n + 1, x \cap LiveRows)
    BY <2>3, <2>6, <2>7
  <2>9. n + 1 <= calls + l + 1
    BY <1>1, <1>5
  <2>10. QED BY <1>5, <2>8, <2>9
<1>8. QED BY <1>6, <1>7

\* Without or_where, what a query reads is in its scopes and not soft-deleted.
LEMMA FinalInScope ==
  ASSUME Asking
  PROVE  ScopesHold
<1>1. ASSUME kind = "model", NoOr(asked)
      PROVE  \A row \in ModelRows(IntoFinalBuilder, "$") : InScope(row)
  <2>1. PICK n, x : /\ Sifts(IntoFinalBuilder.conds, n, x) /\ n <= calls + Len(Scopes) + 1
                    /\ unscoped \/ x \subseteq ScopeRows
                    /\ trashed \/ x \subseteq LiveRows
    BY <1>1, FinalSifts
  <2>2. n <= MaxCalls + Len(Scopes) + 1
    <3>1. n \in Nat
      BY <2>1 DEF Sifts
    <3>2. calls \in Nat /\ calls <= MaxCalls /\ MaxCalls \in Nat /\ Len(Scopes) \in Nat
      BY ReadableAssumption, CallerAssumption DEF Asking
    <3>3. QED BY <2>1, <3>1, <3>2
  <2>3. IntoFinalBuilder \in Builders
    BY FinalBuilder DEF Asking, Built
  <2>4. ModelRows(IntoFinalBuilder, "$") \subseteq x
    BY <2>1, <2>2, <2>3, SiftedRows
  <2>5. \A row \in x : InScope(row)
    <3>1. unscoped \/ \A row \in x : \A i \in DOMAIN Scopes : row \in Means(Scopes[i])
      BY <2>1 DEF ScopeRows
    <3>2. trashed \/ \A row \in x : row[SoftColumn] = NULL
      BY <2>1 DEF LiveRows
    <3>3. QED BY <3>1, <3>2 DEF InScope
  <2>6. QED BY <2>4, <2>5
<1>2. QED BY <1>1 DEF ScopesHold

\* Whatever calls were made of a model query, or_where left out, no row it reads
\* is soft-deleted or outside the global scopes, unless it was told to: for any
\* number of scopes (into_final_builder, scopes.rs).
THEOREM ScopesHoldForAll == Spec => []ScopesHold
<1>1. QED BY AskingInit, AskingNext, FinalInScope, PTL DEF Spec

=============================================================================
