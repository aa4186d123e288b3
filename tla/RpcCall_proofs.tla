--------------------------- MODULE RpcCall_proofs ---------------------------
(***************************************************************************)
(* What goes through the codec and the glue arrives, for every request and *)
(* response, whichever writer and reader are used.                         *)
(***************************************************************************)
EXTENDS HttpApi, SequenceTheorems, WellFoundedInduction, TLAPS

-----------------------------------------------------------------------------
(* Sums                                                                    *)

\* A set of naturals that is not empty has a least element.
LEMMA Least ==
  ASSUME NEW T \in SUBSET Nat, T # {}
  PROVE  \E n \in T : \A m \in T : n <= m
<1>. DEFINE R == OpToRel(<, Nat)
<1>1. IsWellFoundedOn(R, Nat)
  BY NatLessThanWellFounded
<1>2. PICK n \in T : \A m \in T : <<m, n>> \notin R
  <2>. HIDE DEF R
  <2>. QED
    BY <1>1, WFMin, Zenon
<1>3. ASSUME NEW m \in T
      PROVE  n <= m
  <2>1. ~ m < n
    <3>1. <<m, n>> \notin R
      BY <1>2
    <3>2. <<m, n>> \in Nat \X Nat
      OBVIOUS
    <3>. QED
      BY <3>1, <3>2 DEF OpToRel
  <2>2. m \in Nat /\ n \in Nat
    OBVIOUS
  <2>. QED
    BY <2>1, <2>2
<1>. QED
  BY <1>3

\* f[n] is what the first n members of s add up to.
SumsUpTo(f, s, n) ==
  f = [i \in 0 .. n |-> IF i = 0 THEN 0 ELSE f[i - 1] + s[i]]

LEMMA SumsExist ==
  ASSUME NEW s, NEW n \in Nat
  PROVE  \E f : SumsUpTo(f, s, n)
<1>. DEFINE T == {m \in Nat : ~ \E f : SumsUpTo(f, s, m)}
<1>1. SUFFICES ASSUME T # {} PROVE FALSE
  OBVIOUS
<1>2. PICK m \in T : \A k \in T : m <= k
  <2>. HIDE DEF T
  <2>1. T \in SUBSET Nat
    BY DEF T
  <2>. QED
    BY <1>1, <2>1, Least
<1>3. m \in Nat
  OBVIOUS
<1>4. CASE m = 0
  <2>1. SumsUpTo([i \in 0 .. 0 |-> 0], s, 0)
    BY DEF SumsUpTo
  <2>. QED
    BY <1>4, <2>1
<1>5. CASE m # 0
  <2>1. m - 1 \in Nat /\ m - 1 \notin T
    BY <1>2, <1>3, <1>5
  <2>2. PICK f : SumsUpTo(f, s, m - 1)
    BY <2>1
  <2>. DEFINE g == [i \in 0 .. m |-> IF i = m THEN f[m - 1] + s[m] ELSE f[i]]
  <2>3. \A i \in 0 .. m - 1 : f[i] = IF i = 0 THEN 0 ELSE f[i - 1] + s[i]
    BY <2>2 DEF SumsUpTo
  <2>4. ASSUME NEW i \in 0 .. m
        PROVE  g[i] = IF i = 0 THEN 0 ELSE g[i - 1] + s[i]
    BY <1>3, <1>5, <2>3
  <2>5. SumsUpTo(g, s, m)
    BY <2>4 DEF SumsUpTo
  <2>. QED
    BY <2>5
<1>. QED
  BY <1>4, <1>5

LEMMA SumIs ==
  ASSUME NEW s, Len(s) \in Nat
  PROVE  \E f : SumsUpTo(f, s, Len(s)) /\ Sum(s) = f[Len(s)]
<1>. DEFINE f == CHOOSE g : SumsUpTo(g, s, Len(s))
<1>1. SumsUpTo(f, s, Len(s))
  BY SumsExist, Zenon
<1>2. Sum(s) = f[Len(s)]
  BY DEF Sum, SumsUpTo
<1>. QED
  BY <1>1, <1>2

LEMMA SumsAre ==
  ASSUME NEW f, NEW s, NEW n \in Nat, SumsUpTo(f, s, n)
  PROVE  f[0] = 0 /\ \A i \in 1 .. n : f[i] = f[i - 1] + s[i]
<1>1. f = [i \in 0 .. n |-> IF i = 0 THEN 0 ELSE f[i - 1] + s[i]]
  BY DEF SumsUpTo
<1>2. \A i \in 0 .. n : f[i] = IF i = 0 THEN 0 ELSE f[i - 1] + s[i]
  BY <1>1
<1>. QED
  BY <1>2

LEMMA SumOfNone ==
  ASSUME NEW s, Len(s) = 0
  PROVE  Sum(s) = 0
BY SumIs DEF SumsUpTo

LEMMA SumOfOne ==
  ASSUME NEW s \in Seq(Int), Len(s) = 1
  PROVE  Sum(s) = s[1]
<1>. DEFINE n == Len(s)
<1>1. n \in Nat /\ n = 1 /\ s[1] \in Int
  OBVIOUS
<1>. HIDE DEF n
<1>2. PICK f : SumsUpTo(f, s, n) /\ Sum(s) = f[n]
  BY <1>1, SumIs, Zenon DEF n
<1>3. f[0] = 0 /\ \A i \in 1 .. n : f[i] = f[i - 1] + s[i]
  BY <1>1, <1>2, SumsAre
<1>4. f[1] = f[0] + s[1]
  <2>1. 1 \in 1 .. n /\ 1 - 1 = 0
    BY <1>1
  <2>. QED
    BY <1>3, <2>1
<1>. QED
  BY <1>1, <1>2, <1>3, <1>4

LEMMA SumOfConcat ==
  ASSUME NEW s \in Seq(Int), NEW t \in Seq(Int)
  PROVE  Sum(s \o t) = Sum(s) + Sum(t) /\ Sum(s) \in Int
<1>. DEFINE u == s \o t
            l == Len(s)
            n == Len(t)
<1>0. /\ u \in Seq(Int) /\ Len(u) = l + n /\ l \in Nat /\ n \in Nat
      /\ \A i \in 1 .. l : u[i] = s[i] /\ s[i] \in Int
      /\ \A i \in 1 .. n : u[l + i] = t[i] /\ t[i] \in Int
  <2>1. u \in Seq(Int) /\ Len(u) = l + n /\ l \in Nat /\ n \in Nat
    OBVIOUS
  <2>2. \A i \in 1 .. l : u[i] = s[i] /\ s[i] \in Int
    OBVIOUS
  <2>3. ASSUME NEW i \in 1 .. n
        PROVE  u[l + i] = t[i] /\ t[i] \in Int
    <3>1. l + i \in 1 .. l + n /\ ~ l + i <= l /\ (l + i) - l = i
      BY <2>1
    <3>. QED
      BY <3>1
  <2>. QED
    BY <2>1, <2>2, <2>3
<1>. HIDE DEF u, l, n
<1>1. PICK f : SumsUpTo(f, s, l) /\ Sum(s) = f[l]
  BY <1>0, SumIs DEF l
<1>2. PICK g : SumsUpTo(g, t, n) /\ Sum(t) = g[n]
  BY <1>0, SumIs DEF n
<1>3. PICK h : SumsUpTo(h, u, l + n) /\ Sum(u) = h[l + n]
  <2>1. Len(u) = l + n /\ Len(u) \in Nat
    BY <1>0
  <2>2. \E h : SumsUpTo(h, u, Len(u)) /\ Sum(u) = h[Len(u)]
    BY <2>1, SumIs
  <2>. QED
    BY <2>1, <2>2
<1>4. /\ f[0] = 0 /\ \A i \in 1 .. l : f[i] = f[i - 1] + s[i]
      /\ g[0] = 0 /\ \A i \in 1 .. n : g[i] = g[i - 1] + t[i]
      /\ h[0] = 0 /\ \A i \in 1 .. l + n : h[i] = h[i - 1] + u[i]
  <2>1. f[0] = 0 /\ \A i \in 1 .. l : f[i] = f[i - 1] + s[i]
    BY <1>0, <1>1, SumsAre
  <2>2. g[0] = 0 /\ \A i \in 1 .. n : g[i] = g[i - 1] + t[i]
    BY <1>0, <1>2, SumsAre
  <2>3. h[0] = 0 /\ \A i \in 1 .. l + n : h[i] = h[i - 1] + u[i]
    <3>1. l + n \in Nat
      BY <1>0
    <3>. HIDE <1>0
    <3>. QED
      BY <1>3, <3>1, SumsAre
  <2>. QED
    BY <2>1, <2>2, <2>3
<1>5. \A i \in 0 .. l : h[i] = f[i] /\ f[i] \in Int
  <2>. DEFINE T == {i \in 0 .. l : ~ (h[i] = f[i] /\ f[i] \in Int)}
  <2>1. SUFFICES ASSUME T # {} PROVE FALSE
    OBVIOUS
  <2>2. PICK m \in T : \A k \in T : m <= k
    <3>. HIDE DEF T
    <3>1. T \in SUBSET Nat
      BY <1>0 DEF T
    <3>. QED
      BY <2>1, <3>1, Least
  <2>3. m # 0
    BY <1>4
  <2>4. m \in 1 .. l /\ m - 1 \in 0 .. l /\ m - 1 \notin T
    BY <1>0, <2>2, <2>3
  <2>5. h[m - 1] = f[m - 1] /\ f[m - 1] \in Int
    BY <2>4
  <2>6. h[m] = h[m - 1] + u[m] /\ f[m] = f[m - 1] + s[m]
    BY <1>0, <1>4, <2>4
  <2>7. u[m] = s[m] /\ s[m] \in Int
    BY <1>0, <2>4
  <2>8. h[m] = f[m] /\ f[m] \in Int
    BY <2>5, <2>6, <2>7
  <2>. QED
    BY <2>8
<1>6. \A i \in 0 .. n : h[l + i] = f[l] + g[i] /\ g[i] \in Int
  <2>. DEFINE T == {i \in 0 .. n : ~ (h[l + i] = f[l] + g[i] /\ g[i] \in Int)}
  <2>1. SUFFICES ASSUME T # {} PROVE FALSE
    OBVIOUS
  <2>2. PICK m \in T : \A k \in T : m <= k
    <3>. HIDE DEF T
    <3>1. T \in SUBSET Nat
      BY <1>0 DEF T
    <3>. QED
      BY <2>1, <3>1, Least
  <2>3. m # 0
    BY <1>0, <1>4, <1>5
  <2>4. m \in 1 .. n /\ m - 1 \in 0 .. n /\ m - 1 \notin T
    BY <1>0, <2>2, <2>3
  <2>5. h[l + (m - 1)] = f[l] + g[m - 1] /\ g[m - 1] \in Int
    BY <2>4
  <2>6. h[l + m] = h[l + (m - 1)] + t[m]
    <3>1. l + m \in 1 .. l + n /\ (l + m) - 1 = l + (m - 1)
      BY <1>0, <2>4
    <3>. QED
      BY <1>0, <1>4, <2>4, <3>1
  <2>7. g[m] = g[m - 1] + t[m] /\ t[m] \in Int
    BY <1>0, <1>4, <2>4
  <2>8. f[l] \in Int
    BY <1>0, <1>5
  <2>. QED
    BY <2>5, <2>6, <2>7, <2>8
<1>. QED
  BY <1>0, <1>1, <1>2, <1>3, <1>5, <1>6 DEF u

-----------------------------------------------------------------------------
(* Fields on the wire                                                      *)

Foreign == [id |-> 9, type |-> "I64", val |-> 0]

\* The fields of w are those of F, in any order, and maybe a newer peer's.
Wire(w, F) == w \in Seq(F \cup {Foreign}) /\ F \subseteq Range(w)

LEMMA LatestIs ==
  ASSUME NEW n \in Nat, NEW at \in SUBSET (1 .. n), at # {}
  PROVE  Latest(at) \in at
<1>. DEFINE T == {n - i : i \in at}
<1>1. PICK m \in T : \A k \in T : m <= k
  <2>. HIDE DEF T
  <2>1. T \in SUBSET Nat
    BY DEF T
  <2>2. T # {}
    BY DEF T
  <2>. QED
    BY <2>1, <2>2, Least
<1>2. PICK i \in at : m = n - i
  OBVIOUS
<1>3. \A j \in at : j <= i
  <2>1. ASSUME NEW j \in at
        PROVE  j <= i
    <3>1. n - j \in T
      OBVIOUS
    <3>2. n - i <= n - j
      BY <1>1, <1>2, <3>1
    <3>. QED
      BY <3>2
  <2>. QED
    BY <2>1
<1>. QED
  BY <1>3, Zenon DEF Latest

LEMMA FieldsOnWire ==
  ASSUME NEW F, NEW w, Wire(w, F)
  PROVE  /\ \A i \in DOMAIN w : w[i] \in F \/ w[i] = Foreign
         /\ \A f \in F : \E i \in DOMAIN w : w[i] = f
         /\ Len(w) \in Nat /\ DOMAIN w = 1 .. Len(w)
<1>1. Len(w) \in Nat /\ DOMAIN w = 1 .. Len(w) /\ \A i \in DOMAIN w : w[i] \in F \cup {Foreign}
  BY DEF Wire
<1>2. \A f \in F : \E i \in DOMAIN w : w[i] = f
  BY DEF Wire, Range
<1>. QED
  BY <1>1, <1>2

\* The bytes of a struct, by depth.
PlainBytes(w) == StructSize(w, PlainSize)
BodyBytes(w)  == StructSize(w, BodySize)
Bytes(w)      == StructSize(w, Size)

\* F are the fields of p, a struct of type S, but for those that have the zero value.
Describes(S, F, p) ==
  /\ ~ Known(S, Foreign)
  /\ \A f \in F : Known(S, f) /\ f.type # "END"
  /\ \A r \in S.required : \E f \in F : f.id = r
  /\ p = [k \in DOMAIN S.zero |-> p[k]]
  /\ \A k \in DOMAIN S.zero : p[k] = S.zero[k] \/ \E f \in F : S.names[f.id] = k

\* A struct is read from a wire with its fields.
LEMMA ReadsAs ==
  ASSUME NEW S, NEW F, NEW w, NEW value, NEW p,
         Wire(w, F), Describes(S, F, p),
         \A i \in DOMAIN w : w[i] \in F =>
           value[i] = p[S.names[w[i].id]] /\ value[i] # Error
  PROVE  ReadLoop(S, w, value) = p
<1>. USE DEF Describes
<1>1. /\ \A i \in DOMAIN w : w[i] \in F \/ w[i] = Foreign
      /\ \A f \in F : \E i \in DOMAIN w : w[i] = f
      /\ Len(w) \in Nat /\ DOMAIN w = 1 .. Len(w)
  BY FieldsOnWire
<1>2. KnownFields(S, w) = {i \in DOMAIN w : w[i] \in F}
  BY <1>1 DEF KnownFields
<1>3. ~ \E i \in DOMAIN w : Cut(w[i])
  BY <1>1 DEF Cut, Foreign
<1>4. ~ \E i \in KnownFields(S, w) : value[i] = Error
  BY <1>2
<1>5. S.required \subseteq Seen(S, w)
  <2>1. ASSUME NEW r \in S.required
        PROVE  r \in Seen(S, w)
    <3>1. PICK f \in F : f.id = r
      OBVIOUS
    <3>2. PICK i \in DOMAIN w : w[i] = f
      BY <1>1
    <3>. QED
      BY <1>2, <3>1, <3>2 DEF Seen
  <2>. QED
    BY <2>1
<1>. DEFINE At(k) == {i \in KnownFields(S, w) : S.names[w[i].id] = k}
            read == [k \in DOMAIN S.zero |->
                       IF At(k) = {} THEN S.zero[k] ELSE value[Latest(At(k))]]
<1>6. ReadLoop(S, w, value) = read
  BY <1>3, <1>4, <1>5 DEF ReadLoop
<1>7. ASSUME NEW k \in DOMAIN S.zero
      PROVE  read[k] = p[k]
  <2>1. CASE At(k) = {}
    <3>1. ~ \E f \in F : S.names[f.id] = k
      BY <1>1, <1>2, <2>1
    <3>. QED
      BY <2>1, <3>1
  <2>2. CASE At(k) # {}
    <3>1. At(k) \in SUBSET (1 .. Len(w))
      BY <1>1, <1>2
    <3>2. Latest(At(k)) \in At(k)
      <4>. HIDE DEF At
      <4>. QED
        BY <1>1, <2>2, <3>1, LatestIs
    <3>3. value[Latest(At(k))] = p[k]
      <4>. DEFINE i == Latest(At(k))
      <4>1. i \in DOMAIN w /\ w[i] \in F /\ S.names[w[i].id] = k
        BY <1>2, <3>2
      <4>. HIDE DEF i
      <4>2. value[i] = p[k]
        BY <4>1
      <4>. QED
        BY <4>2 DEF i
    <3>. QED
      BY <2>2, <3>3
  <2>. QED
    BY <2>1, <2>2
<1>8. read = [k \in DOMAIN S.zero |-> p[k]]
  <2>. HIDE DEF At
  <2>. QED
    BY <1>7
<1>. QED
  BY <1>6, <1>8

\* FastRead that keeps in step reads what Read reads, and all of the bytes.
LEMMA InStep ==
  ASSUME NEW S, NEW w, NEW fast, NEW r,
         \A i \in DOMAIN w : Known(S, w[i]) => fast[i].offset = Size(w[i]),
         ReadLoop(S, w, [i \in KnownFields(S, w) |-> fast[i].val]) = r
  PROVE  FastReadLoop(S, w, fast) = [val |-> r, offset |-> Bytes(w)]
<1>. DEFINE used == [i \in DOMAIN w |-> IF Known(S, w[i]) THEN fast[i].offset ELSE Size(w[i])]
<1>1. \A i \in DOMAIN w : used[i] = Size(w[i])
  OBVIOUS
<1>2. FastReadLoop(S, w, fast)
        = [val    |-> IF \A i \in DOMAIN w : used[i] = Size(w[i]) THEN r ELSE Error,
           offset |-> FieldStop + Sum([i \in DOMAIN w |-> FieldBegin + used[i]])]
  BY DEF FastReadLoop
<1>. HIDE DEF used
<1>3. [i \in DOMAIN w |-> FieldBegin + used[i]] = [i \in DOMAIN w |-> FieldBegin + Size(w[i])]
  BY <1>1
<1>. QED
  BY <1>1, <1>2, <1>3 DEF Bytes, StructSize

\* All of F are plain and hold the values of p.
AllPlain(S, F, p) ==
  \A f \in F : /\ f.type \in {"STRING", "I64", "I32", "BOOL"}
               /\ f.val = p[S.names[f.id]] /\ f.val # Error

\* A struct of strings, numbers and booleans, with either reader.
LEMMA PlainReads ==
  ASSUME NEW S, NEW F, NEW w, NEW p,
         Wire(w, F), Describes(S, F, p), AllPlain(S, F, p)
  PROVE  /\ ReadLoop(S, w, [i \in KnownFields(S, w) |-> Plain(w[i])]) = p
         /\ FastReadLoop(S, w, [i \in KnownFields(S, w) |-> FastPlain(w[i])])
              = [val |-> p, offset |-> PlainBytes(w)]
         /\ BodyBytes(w) = PlainBytes(w) /\ Bytes(w) = PlainBytes(w)
<1>1. /\ \A i \in DOMAIN w : w[i] \in F \/ w[i] = Foreign
      /\ \A f \in F : \E i \in DOMAIN w : w[i] = f
      /\ Len(w) \in Nat /\ DOMAIN w = 1 .. Len(w)
  BY FieldsOnWire
<1>2. KnownFields(S, w) = {i \in DOMAIN w : w[i] \in F}
  BY <1>1 DEF KnownFields, Describes
<1>. DEFINE value == [i \in KnownFields(S, w) |-> Plain(w[i])]
            fast  == [i \in KnownFields(S, w) |-> FastPlain(w[i])]
            again == [i \in KnownFields(S, w) |-> fast[i].val]
<1>3. ReadLoop(S, w, value) = p
  <2>1. \A i \in DOMAIN w : w[i] \in F => value[i] = p[S.names[w[i].id]] /\ value[i] # Error
    BY <1>2 DEF Plain, AllPlain
  <2>. HIDE DEF value
  <2>. QED
    BY <2>1, ReadsAs
<1>4. again = value
  BY DEF Plain, FastPlain
<1>5. \A i \in DOMAIN w : Size(w[i]) = PlainSize(w[i]) /\ BodySize(w[i]) = PlainSize(w[i])
  <2>1. ASSUME NEW i \in DOMAIN w
        PROVE  w[i].type # "STRUCT" /\ w[i].type # "LIST"
    BY <1>1 DEF Foreign, AllPlain
  <2>. QED
    BY <2>1 DEF Size, BodySize, Nested
<1>6. \A i \in DOMAIN w : Known(S, w[i]) => fast[i].offset = Size(w[i])
  BY <1>5 DEF FastPlain, KnownFields
<1>7. FastReadLoop(S, w, fast) = [val |-> p, offset |-> Bytes(w)]
  <2>1. ReadLoop(S, w, again) = p
    BY <1>3, <1>4
  <2>. HIDE DEF fast
  <2>. QED
    BY <1>6, <2>1, InStep
<1>8. BodyBytes(w) = PlainBytes(w) /\ Bytes(w) = PlainBytes(w)
  <2>1. /\ [i \in DOMAIN w |-> FieldBegin + BodySize(w[i])]
             = [i \in DOMAIN w |-> FieldBegin + PlainSize(w[i])]
        /\ [i \in DOMAIN w |-> FieldBegin + Size(w[i])]
             = [i \in DOMAIN w |-> FieldBegin + PlainSize(w[i])]
    BY <1>5
  <2>. QED
    BY <2>1 DEF PlainBytes, BodyBytes, Bytes, StructSize
<1>. QED
  BY <1>3, <1>7, <1>8

LEMMA WireOfConcat ==
  ASSUME NEW u, NEW v, NEW F, NEW G, Wire(u, F), Wire(v, G)
  PROVE  Wire(u \o v, F \cup G)
<1>1. /\ u \in Seq(F \cup G \cup {Foreign}) /\ v \in Seq(F \cup G \cup {Foreign})
      /\ Len(u) \in Nat /\ Len(v) \in Nat
  <2>1. u \in Seq(F \cup {Foreign}) /\ v \in Seq(G \cup {Foreign})
    BY DEF Wire
  <2>. QED
    BY <2>1
<1>2. u \o v \in Seq(F \cup G \cup {Foreign}) /\ Len(u \o v) = Len(u) + Len(v)
  BY <1>1
<1>3. ASSUME NEW f \in F
      PROVE  \E i \in DOMAIN (u \o v) : (u \o v)[i] = f
  <2>1. PICK i \in 1 .. Len(u) : u[i] = f
    BY FieldsOnWire
  <2>2. i \in 1 .. Len(u) + Len(v) /\ i \in DOMAIN (u \o v)
    BY <1>1, <1>2
  <2>3. (u \o v)[i] = u[i]
    BY <1>1
  <2>. QED
    BY <2>1, <2>2, <2>3
<1>4. ASSUME NEW f \in G
      PROVE  \E i \in DOMAIN (u \o v) : (u \o v)[i] = f
  <2>1. PICK i \in 1 .. Len(v) : v[i] = f
    BY FieldsOnWire
  <2>2. /\ Len(u) + i \in 1 .. Len(u) + Len(v) /\ Len(u) + i \in DOMAIN (u \o v)
        /\ ~ Len(u) + i <= Len(u) /\ (Len(u) + i) - Len(u) = i
    BY <1>1, <1>2
  <2>3. (u \o v)[Len(u) + i] = v[i]
    BY <1>1, <2>2
  <2>. QED
    BY <2>1, <2>2, <2>3
<1>. QED
  BY <1>2, <1>3, <1>4 DEF Wire, Range

A(id, type, val) == [id |-> id, type |-> type, val |-> val]

LEMMA WireOfField ==
  ASSUME NEW id, NEW type, NEW val
  PROVE  /\ Wire(<< >>, {})
         /\ Wire(Field(id, type, val), {A(id, type, val)})
         /\ Wire(Optional(id, type, val), IF val = Nil THEN {} ELSE {A(id, type, val)})
<1>1. Wire(<< >>, {})
  BY DEF Wire
<1>2. Wire(Field(id, type, val), {A(id, type, val)})
  <2>. DEFINE f == A(id, type, val)
  <2>1. Field(id, type, val) = <<f>>
    BY DEF Field, A
  <2>. HIDE DEF f
  <2>2. Wire(<<f>>, {f})
    BY DEF Wire, Range
  <2>. QED
    BY <2>1, <2>2 DEF f
<1>. QED
  BY <1>1, <1>2 DEF Optional

-----------------------------------------------------------------------------
(* Lengths                                                                 *)

\* The fields of w take n bytes.
Takes(w, n) ==
  /\ w \in Seq(Range(w)) /\ \A f \in Range(w) : BodySize(f) \in Int
  /\ n \in Int /\ Sum([i \in DOMAIN w |-> FieldBegin + BodySize(w[i])]) = n

LEMMA TakenByConcat ==
  ASSUME NEW u, NEW v, NEW a, NEW b, Takes(u, a), Takes(v, b)
  PROVE  Takes(u \o v, a + b)
<1>. DEFINE V == Range(u) \cup Range(v)
            w == u \o v
            s == [i \in DOMAIN u |-> FieldBegin + BodySize(u[i])]
            t == [i \in DOMAIN v |-> FieldBegin + BodySize(v[i])]
            st == [i \in DOMAIN w |-> FieldBegin + BodySize(w[i])]
<1>1. /\ u \in Seq(V) /\ v \in Seq(V) /\ Len(u) \in Nat /\ Len(v) \in Nat
      /\ DOMAIN u = 1 .. Len(u) /\ DOMAIN v = 1 .. Len(v)
  <2>1. u \in Seq(Range(u)) /\ v \in Seq(Range(v))
    BY DEF Takes
  <2>. HIDE DEF V
  <2>2. Range(u) \subseteq V /\ Range(v) \subseteq V
    BY DEF V
  <2>. QED
    BY <2>1, <2>2
<1>2. \A f \in V : BodySize(f) \in Int
  BY DEF Takes
<1>. HIDE DEF V
<1>3. /\ w \in Seq(V) /\ DOMAIN w = 1 .. Len(u) + Len(v) /\ Len(w) = Len(u) + Len(v)
      /\ \A i \in 1 .. Len(u) : w[i] = u[i]
      /\ \A i \in Len(u) + 1 .. Len(u) + Len(v) : w[i] = v[i - Len(u)]
  <2>1. w \in Seq(V) /\ Len(w) = Len(u) + Len(v)
    BY <1>1
  <2>2. \A i \in 1 .. Len(u) : w[i] = u[i]
    BY <1>1
  <2>3. ASSUME NEW i \in Len(u) + 1 .. Len(u) + Len(v)
        PROVE  w[i] = v[i - Len(u)]
    BY <1>1
  <2>. QED
    BY <2>1, <2>2, <2>3
<1>. HIDE DEF w
<1>4. /\ s \in Seq(Int) /\ t \in Seq(Int) /\ st \in Seq(Int)
      /\ Len(s) = Len(u) /\ Len(t) = Len(v) /\ Len(st) = Len(u) + Len(v)
  <2>1. /\ \A i \in DOMAIN u : FieldBegin + BodySize(u[i]) \in Int
        /\ \A i \in DOMAIN v : FieldBegin + BodySize(v[i]) \in Int
        /\ \A i \in DOMAIN w : FieldBegin + BodySize(w[i]) \in Int
    BY <1>1, <1>2, <1>3 DEF FieldBegin
  <2>. QED
    BY <1>1, <1>3, <2>1
<1>5. s \o t = st
  <2>1. /\ s \o t \in Seq(Int) /\ Len(s \o t) = Len(u) + Len(v)
    <3>1. s \in Seq(Int) /\ t \in Seq(Int)
      BY <1>4
    <3>. HIDE DEF s, t
    <3>2. s \o t \in Seq(Int) /\ Len(s \o t) = Len(s) + Len(t)
      BY <3>1
    <3>. QED
      BY <1>4, <3>2
  <2>2. ASSUME NEW i \in 1 .. Len(u) + Len(v)
        PROVE  (s \o t)[i] = st[i]
    <3>1. CASE i <= Len(u)
      <4>1. (s \o t)[i] = s[i]
        BY <1>1, <1>4, <3>1
      <4>2. i \in DOMAIN u /\ i \in DOMAIN w /\ w[i] = u[i]
        BY <1>1, <1>3, <3>1
      <4>. QED
        BY <4>1, <4>2
    <3>2. CASE ~ i <= Len(u)
      <4>1. i - Len(u) \in 1 .. Len(v) /\ i \in Len(u) + 1 .. Len(u) + Len(v)
        BY <1>1, <3>2
      <4>2. (s \o t)[i] = t[i - Len(u)]
        BY <1>1, <1>4, <3>2, <4>1
      <4>3. i - Len(u) \in DOMAIN v /\ i \in DOMAIN w /\ w[i] = v[i - Len(u)]
        BY <1>1, <1>3, <4>1
      <4>. QED
        BY <4>2, <4>3
    <3>. QED
      BY <3>1, <3>2
  <2>. HIDE DEF s, t, st
  <2>. QED
    BY <1>4, <2>1, <2>2, SeqEqual
<1>6. Sum(st) = a + b /\ a + b \in Int
  <2>1. Sum(s) = a /\ Sum(t) = b /\ a \in Int /\ b \in Int
    BY DEF Takes
  <2>. HIDE DEF s, t, st
  <2>. QED
    BY <1>4, <1>5, <2>1, SumOfConcat
<1>7. w \in Seq(Range(w)) /\ \A f \in Range(w) : BodySize(f) \in Int
  <2>1. Range(w) \subseteq V
    BY <1>3 DEF Range
  <2>2. \A i \in 1 .. Len(w) : w[i] \in Range(w)
    BY <1>3 DEF Range
  <2>. QED
    BY <1>2, <1>3, <2>1, <2>2
<1>. QED
  BY <1>6, <1>7 DEF Takes, w

LEMMA TakenByField ==
  ASSUME NEW id, NEW type, NEW val, NEW n \in Int, BodySize(A(id, type, val)) = n
  PROVE  Takes(Field(id, type, val), FieldBegin + n)
<1>. DEFINE f == A(id, type, val)
            s == [i \in DOMAIN <<f>> |-> FieldBegin + BodySize(<<f>>[i])]
<1>1. Field(id, type, val) = <<f>>
  BY DEF Field, A
<1>. HIDE DEF f
<1>2. s \in Seq(Int) /\ Len(s) = 1 /\ s[1] = FieldBegin + n
  <2>1. BodySize(f) = n
    BY DEF f
  <2>. QED
    BY <2>1 DEF FieldBegin
<1>3. Sum(s) = FieldBegin + n
  <2>. HIDE DEF s
  <2>. QED
    BY <1>2, SumOfOne
<1>4. Range(<<f>>) = {f} /\ <<f>> \in Seq({f})
  BY DEF Range
<1>5. BodySize(f) \in Int
  BY DEF f
<1>. QED
  BY <1>1, <1>3, <1>4, <1>5 DEF Takes, FieldBegin

LEMMA TakenByNone == Takes(<< >>, 0)
<1>1. << >> \in Seq(Range(<< >>)) /\ Range(<< >>) = {}
  BY DEF Range
<1>2. Sum([i \in DOMAIN << >> |-> FieldBegin + BodySize(<< >>[i])]) = 0
  <2>1. Len([i \in DOMAIN << >> |-> FieldBegin + BodySize(<< >>[i])]) = 0
    OBVIOUS
  <2>. QED
    BY <2>1, SumOfNone
<1>. QED
  BY <1>1, <1>2 DEF Takes

-----------------------------------------------------------------------------
(* Messages                                                                *)

MessageFields(m) ==
  {A(1, "STRING", m.Chat), A(2, "STRING", m.Text), A(3, "STRING", m.Sender),
   A(4, "I64", m.SendTime)}

LEMMA MessageWritten ==
  ASSUME NEW m \in Messages
  PROVE  /\ Wire(WriteMessage(m), MessageFields(m))
         /\ Wire(FastWriteMessage(m), MessageFields(m))
<1>. DEFINE f1 == A(1, "STRING", m.Chat)
            f2 == A(2, "STRING", m.Text)
            f3 == A(3, "STRING", m.Sender)
            f4 == A(4, "I64", m.SendTime)
            w1 == Field(1, "STRING", m.Chat)
            w2 == Field(2, "STRING", m.Text)
            w3 == Field(3, "STRING", m.Sender)
            w4 == Field(4, "I64", m.SendTime)
<1>1. m # Nil
  BY NilAssumption DEF Data
<1>2. /\ WriteMessage(m) = w1 \o w2 \o w3 \o w4
      /\ FastWriteMessage(m) = w4 \o w1 \o w2 \o w3
  BY <1>1 DEF WriteMessage, FastWriteMessage, Unless
<1>3. MessageFields(m) = {f1, f2, f3, f4}
  BY DEF MessageFields
<1>4. Wire(w1, {f1}) /\ Wire(w2, {f2}) /\ Wire(w3, {f3}) /\ Wire(w4, {f4})
  BY WireOfField
<1>. HIDE DEF f1, f2, f3, f4, w1, w2, w3, w4
<1>5. Wire(w1 \o w2 \o w3 \o w4, {f1} \cup {f2} \cup {f3} \cup {f4})
  BY <1>4, WireOfConcat, Zenon
<1>6. Wire(w4 \o w1 \o w2 \o w3, {f4} \cup {f1} \cup {f2} \cup {f3})
  BY <1>4, WireOfConcat, Zenon
<1>7. /\ {f1} \cup {f2} \cup {f3} \cup {f4} = {f1, f2, f3, f4}
      /\ {f4} \cup {f1} \cup {f2} \cup {f3} = {f1, f2, f3, f4}
  OBVIOUS
<1>. QED
  BY <1>2, <1>3, <1>5, <1>6, <1>7

LEMMA MessageRead ==
  ASSUME NEW m \in Messages, NEW w, Wire(w, MessageFields(m))
  PROVE  /\ ReadMessage(w) = m
         /\ FastReadMessage(w) = [val |-> m, offset |-> PlainBytes(w)]
         /\ BodyBytes(w) = PlainBytes(w)
<1>. DEFINE S == Message
            F == MessageFields(m)
<1>1. /\ m.Chat # Error /\ m.Text # Error /\ m.Sender # Error /\ m.SendTime # Error
      /\ m = [k \in {"Chat", "Text", "Sender", "SendTime"} |-> m[k]]
  BY NilAssumption DEF Data, Messages
<1>2. Describes(S, F, m)
  BY <1>1 DEF Describes, Known, Foreign, Message, Struct, MessageFields, A
<1>3. AllPlain(S, F, m)
  BY <1>1 DEF AllPlain, Message, Struct, MessageFields, A
<1>. HIDE DEF S
<1>4. /\ ReadLoop(S, w, [i \in KnownFields(S, w) |-> Plain(w[i])]) = m
      /\ FastReadLoop(S, w, [i \in KnownFields(S, w) |-> FastPlain(w[i])])
           = [val |-> m, offset |-> PlainBytes(w)]
      /\ BodyBytes(w) = PlainBytes(w)
  BY <1>2, <1>3, PlainReads
<1>. QED
  BY <1>4 DEF ReadMessage, FastReadMessage, S

LEMMA BytesTaken ==
  ASSUME NEW w, NEW n, Takes(w, n)
  PROVE  BodyBytes(w) = FieldStop + n
BY DEF Takes, BodyBytes, StructSize

LEMMA PlainTaken ==
  /\ \A id, s : s \in Strings =>
       Takes(Field(id, "STRING", s), FieldBegin + StringLength(s)) /\ StringLength(s) \in Int
  /\ \A id, n : Takes(Field(id, "I64", n), FieldBegin + 8)
  /\ \A id, n : Takes(Field(id, "I32", n), FieldBegin + 4)
  /\ \A id, b : Takes(Field(id, "BOOL", b), FieldBegin + 1)
<1>. USE DEF BodySize, Nested, PlainSize, A
<1>1. ASSUME NEW id, NEW s \in Strings
      PROVE  Takes(Field(id, "STRING", s), FieldBegin + StringLength(s)) /\ StringLength(s) \in Int
  <2>1. StringLength(s) \in Int
    BY DEF StringLength, Strings
  <2>2. BodySize(A(id, "STRING", s)) = StringLength(s)
    OBVIOUS
  <2>. QED
    BY <2>1, <2>2, TakenByField
<1>2. ASSUME NEW id, NEW n
      PROVE  /\ Takes(Field(id, "I64", n), FieldBegin + 8)
             /\ Takes(Field(id, "I32", n), FieldBegin + 4)
             /\ Takes(Field(id, "BOOL", n), FieldBegin + 1)
  <2>1. /\ BodySize(A(id, "I64", n)) = 8 /\ BodySize(A(id, "I32", n)) = 4
        /\ BodySize(A(id, "BOOL", n)) = 1
    OBVIOUS
  <2>. HIDE DEF BodySize, Nested, PlainSize, A
  <2>. QED
    BY <2>1, TakenByField
<1>. QED
  BY <1>1, <1>2

LEMMA MessageFits ==
  ASSUME NEW m \in Messages
  PROVE  BodyBytes(FastWriteMessage(m)) = MessageLength(m) /\ MessageLength(m) \in Int
<1>. DEFINE w1 == Field(1, "STRING", m.Chat)
            w2 == Field(2, "STRING", m.Text)
            w3 == Field(3, "STRING", m.Sender)
            w4 == Field(4, "I64", m.SendTime)
            n1 == FieldBegin + StringLength(m.Chat)
            n2 == FieldBegin + StringLength(m.Text)
            n3 == FieldBegin + StringLength(m.Sender)
            n4 == FieldBegin + 8
<1>1. m # Nil
  BY NilAssumption DEF Data
<1>2. FastWriteMessage(m) = w4 \o w1 \o w2 \o w3
  BY <1>1 DEF FastWriteMessage, Unless
<1>3. MessageLength(m) = FieldStop + (n1 + n2 + n3 + n4)
  BY <1>1 DEF MessageLength
<1>4. Takes(w1, n1) /\ Takes(w2, n2) /\ Takes(w3, n3) /\ Takes(w4, n4)
  BY PlainTaken DEF Messages
<1>5. n1 \in Int /\ n2 \in Int /\ n3 \in Int /\ n4 \in Int
  BY <1>4 DEF Takes
<1>. HIDE DEF w1, w2, w3, w4, n1, n2, n3, n4
<1>6. Takes(w4 \o w1 \o w2 \o w3, n4 + n1 + n2 + n3)
  BY <1>4, TakenByConcat, Zenon
<1>7. BodyBytes(FastWriteMessage(m)) = FieldStop + (n4 + n1 + n2 + n3)
  BY <1>2, <1>6, BytesTaken
<1>. QED
  BY <1>3, <1>5, <1>7 DEF FieldStop

-----------------------------------------------------------------------------
(* The response to a send and the request to pull                          *)

SendResponseFields(p) == {A(1, "I32", p.Code), A(2, "STRING", p.Msg)}

LEMMA SendResponseWritten ==
  ASSUME NEW p \in SendResponseType
  PROVE  /\ Wire(WriteSendResponse(p), SendResponseFields(p))
         /\ Wire(FastWriteSendResponse(p), SendResponseFields(p))
         /\ BodyBytes(FastWriteSendResponse(p)) = SendResponseLength(p)
         /\ SendResponseLength(p) \in Int
<1>. DEFINE w1 == Field(1, "I32", p.Code)
            w2 == Field(2, "STRING", p.Msg)
            n1 == FieldBegin + 4
            n2 == FieldBegin + StringLength(p.Msg)
<1>1. p # Nil
  BY NilAssumption DEF Data
<1>2. WriteSendResponse(p) = w1 \o w2 /\ FastWriteSendResponse(p) = w1 \o w2
  BY <1>1 DEF WriteSendResponse, FastWriteSendResponse, Unless
<1>3. Wire(w1, {A(1, "I32", p.Code)}) /\ Wire(w2, {A(2, "STRING", p.Msg)})
  BY WireOfField
<1>4. SendResponseFields(p) = {A(1, "I32", p.Code)} \cup {A(2, "STRING", p.Msg)}
  BY DEF SendResponseFields
<1>5. SendResponseLength(p) = FieldStop + (n1 + n2)
  BY <1>1 DEF SendResponseLength
<1>6. Takes(w1, n1) /\ Takes(w2, n2)
  BY PlainTaken DEF SendResponseType
<1>. HIDE DEF w1, w2, n1, n2
<1>7. Wire(w1 \o w2, SendResponseFields(p))
  <2>1. Wire(w1 \o w2, {A(1, "I32", p.Code)} \cup {A(2, "STRING", p.Msg)})
    BY <1>3, WireOfConcat, Zenon
  <2>. QED
    BY <1>4, <2>1
<1>8. Takes(w1 \o w2, n1 + n2)
  BY <1>6, TakenByConcat, Zenon
<1>9. BodyBytes(w1 \o w2) = FieldStop + (n1 + n2) /\ n1 + n2 \in Int
  BY <1>8, BytesTaken DEF Takes
<1>. QED
  BY <1>2, <1>5, <1>7, <1>9 DEF FieldStop

LEMMA SendResponseRead ==
  ASSUME NEW p \in SendResponseType, NEW w, Wire(w, SendResponseFields(p))
  PROVE  /\ ReadSendResponse(w) = p
         /\ FastReadSendResponse(w) = [val |-> p, offset |-> BodyBytes(w)]
<1>. DEFINE S == SendResponse
            F == SendResponseFields(p)
<1>1. p.Code # Error /\ p.Msg # Error /\ p = [k \in {"Code", "Msg"} |-> p[k]]
  BY NilAssumption DEF Data, SendResponseType
<1>2. Describes(S, F, p)
  BY <1>1 DEF Describes, Known, Foreign, SendResponse, Struct, SendResponseFields, A
<1>3. AllPlain(S, F, p)
  BY <1>1 DEF AllPlain, SendResponse, Struct, SendResponseFields, A
<1>. HIDE DEF S
<1>4. /\ ReadLoop(S, w, [i \in KnownFields(S, w) |-> Plain(w[i])]) = p
      /\ FastReadLoop(S, w, [i \in KnownFields(S, w) |-> FastPlain(w[i])])
           = [val |-> p, offset |-> PlainBytes(w)]
      /\ BodyBytes(w) = PlainBytes(w)
  BY <1>2, <1>3, PlainReads
<1>. QED
  BY <1>4 DEF ReadSendResponse, FastReadSendResponse, S

PullRequestFields(p) ==
  {A(1, "STRING", p.Chat), A(2, "I64", p.Cursor), A(3, "I32", p.Limit)}
    \cup (IF p.Reverse = Nil THEN {} ELSE {A(4, "BOOL", p.Reverse)})

LEMMA PullRequestRead ==
  ASSUME NEW p \in PullRequestType, NEW w, Wire(w, PullRequestFields(p))
  PROVE  /\ ReadPullRequest(w) = p
         /\ FastReadPullRequest(w) = [val |-> p, offset |-> BodyBytes(w)]
<1>. DEFINE S == PullRequest
            F == PullRequestFields(p)
<1>1. /\ p.Chat # Error /\ p.Cursor # Error /\ p.Limit # Error /\ p.Reverse # Error
      /\ p = [k \in {"Chat", "Cursor", "Limit", "Reverse"} |-> p[k]]
  BY NilAssumption DEF Data, PullRequestType
<1>2. Describes(S, F, p)
  <2>. DEFINE G == {A(1, "STRING", p.Chat), A(2, "I64", p.Cursor), A(3, "I32", p.Limit)}
  <2>1. ~ Known(S, Foreign) /\ p = [k \in DOMAIN S.zero |-> p[k]]
    BY <1>1 DEF Known, Foreign, PullRequest, Struct
  <2>2. G \subseteq F /\ \A f \in F : f \in G \/ f = A(4, "BOOL", p.Reverse)
    BY DEF PullRequestFields
  <2>3. \A f \in F : Known(S, f) /\ f.type # "END"
    <3>1. \A f \in G : Known(S, f) /\ f.type # "END"
      BY DEF Known, PullRequest, Struct, A
    <3>2. Known(S, A(4, "BOOL", p.Reverse)) /\ A(4, "BOOL", p.Reverse).type # "END"
      BY DEF Known, PullRequest, Struct, A
    <3>. QED
      BY <2>2, <3>1, <3>2
  <2>4. \A r \in S.required : \E f \in G : f.id = r
    BY DEF PullRequest, Struct, A
  <2>5. ASSUME NEW k \in DOMAIN S.zero
        PROVE  p[k] = S.zero[k] \/ \E f \in F : S.names[f.id] = k
    <3>1. CASE k = "Reverse"
      <4>1. CASE p.Reverse = Nil
        BY <3>1, <4>1 DEF PullRequest, Struct
      <4>2. CASE p.Reverse # Nil
        <5>1. A(4, "BOOL", p.Reverse) \in F
          BY <4>2 DEF PullRequestFields
        <5>2. S.names[A(4, "BOOL", p.Reverse).id] = k
          BY <3>1 DEF PullRequest, Struct, A
        <5>. QED
          BY <5>1, <5>2
      <4>. QED
        BY <4>1, <4>2
    <3>2. CASE k # "Reverse"
      <4>1. \E f \in G : S.names[f.id] = k
        BY <3>2 DEF PullRequest, Struct, A
      <4>. QED
        BY <2>2, <4>1
    <3>. QED
      BY <3>1, <3>2
  <2>. HIDE DEF S, F, G
  <2>. QED
    BY <2>1, <2>2, <2>3, <2>4, <2>5 DEF Describes
<1>3. AllPlain(S, F, p)
  BY <1>1 DEF AllPlain, PullRequest, Struct, PullRequestFields, A
<1>. HIDE DEF S
<1>4. /\ ReadLoop(S, w, [i \in KnownFields(S, w) |-> Plain(w[i])]) = p
      /\ FastReadLoop(S, w, [i \in KnownFields(S, w) |-> FastPlain(w[i])])
           = [val |-> p, offset |-> PlainBytes(w)]
      /\ BodyBytes(w) = PlainBytes(w)
  BY <1>2, <1>3, PlainReads
<1>. QED
  BY <1>4 DEF ReadPullRequest, FastReadPullRequest, S

LEMMA TakenByOptional ==
  ASSUME NEW id, NEW v
  PROVE  /\ Takes(Optional(id, "BOOL", v), IF v = Nil THEN 0 ELSE FieldBegin + 1)
         /\ Takes(Optional(id, "I64", v), IF v = Nil THEN 0 ELSE FieldBegin + 8)
<1>1. CASE v = Nil
  BY <1>1, TakenByNone DEF Optional
<1>2. CASE v # Nil
  BY <1>2, PlainTaken DEF Optional
<1>. QED
  BY <1>1, <1>2

LEMMA PullRequestWritten ==
  ASSUME NEW p \in PullRequestType
  PROVE  /\ Wire(WritePullRequest(p), PullRequestFields(p))
         /\ Wire(FastWritePullRequest(p), PullRequestFields(p))
         /\ BodyBytes(FastWritePullRequest(p)) = PullRequestLength(p)
         /\ PullRequestLength(p) \in Int
<1>. DEFINE w1 == Field(1, "STRING", p.Chat)
            w2 == Field(2, "I64", p.Cursor)
            w3 == Field(3, "I32", p.Limit)
            w4 == Optional(4, "BOOL", p.Reverse)
            F1 == {A(1, "STRING", p.Chat)}
            F2 == {A(2, "I64", p.Cursor)}
            F3 == {A(3, "I32", p.Limit)}
            F4 == IF p.Reverse = Nil THEN {} ELSE {A(4, "BOOL", p.Reverse)}
            n1 == FieldBegin + StringLength(p.Chat)
            n2 == FieldBegin + 8
            n3 == FieldBegin + 4
            n4 == IF p.Reverse = Nil THEN 0 ELSE FieldBegin + 1
<1>1. p # Nil
  BY NilAssumption DEF Data
<1>2. /\ WritePullRequest(p) = w1 \o w2 \o w3 \o w4
      /\ FastWritePullRequest(p) = w2 \o w3 \o w4 \o w1
  BY <1>1 DEF WritePullRequest, FastWritePullRequest, Unless
<1>3. Wire(w1, F1) /\ Wire(w2, F2) /\ Wire(w3, F3) /\ Wire(w4, F4)
  BY WireOfField
<1>4. PullRequestFields(p) = F1 \cup F2 \cup F3 \cup F4
  BY DEF PullRequestFields
<1>5. PullRequestLength(p) = FieldStop + (n1 + n2 + n3 + n4)
  BY <1>1 DEF PullRequestLength
<1>6. Takes(w1, n1) /\ Takes(w2, n2) /\ Takes(w3, n3) /\ Takes(w4, n4)
  BY PlainTaken, TakenByOptional DEF PullRequestType
<1>7. n1 \in Int /\ n2 \in Int /\ n3 \in Int /\ n4 \in Int
  BY <1>6 DEF Takes
<1>. HIDE DEF w1, w2, w3, w4, F1, F2, F3, F4, n1, n2, n3, n4
<1>8. Wire(w1 \o w2 \o w3 \o w4, F1 \cup F2 \cup F3 \cup F4)
  BY <1>3, WireOfConcat, Zenon
<1>9. Wire(w2 \o w3 \o w4 \o w1, F2 \cup F3 \cup F4 \cup F1)
  BY <1>3, WireOfConcat, Zenon
<1>10. F2 \cup F3 \cup F4 \cup F1 = F1 \cup F2 \cup F3 \cup F4
  OBVIOUS
<1>11. Takes(w2 \o w3 \o w4 \o w1, n2 + n3 + n4 + n1)
  BY <1>6, TakenByConcat, Zenon
<1>12. BodyBytes(w2 \o w3 \o w4 \o w1) = FieldStop + (n2 + n3 + n4 + n1)
  BY <1>11, BytesTaken
<1>13. /\ FieldStop + (n2 + n3 + n4 + n1) = FieldStop + (n1 + n2 + n3 + n4)
       /\ FieldStop + (n1 + n2 + n3 + n4) \in Int
  BY <1>7 DEF FieldStop
<1>14. /\ Wire(WritePullRequest(p), PullRequestFields(p))
       /\ Wire(FastWritePullRequest(p), PullRequestFields(p))
  BY <1>2, <1>4, <1>8, <1>9, <1>10
<1>15. /\ BodyBytes(FastWritePullRequest(p)) = PullRequestLength(p)
       /\ PullRequestLength(p) \in Int
  BY <1>2, <1>5, <1>12, <1>13
<1>. QED
  BY <1>14, <1>15

-----------------------------------------------------------------------------
(* Structs of one field that is a struct                                   *)

\* S has one field, a struct called name, with this id.
Wraps(S, id, name) ==
  /\ ~ Known(S, Foreign) /\ DOMAIN S.zero = {name}
  /\ S.names[id] = name /\ \A r \in S.required : r = id
  /\ id \in DOMAIN S.types /\ S.types[id] = "STRUCT"

\* The fields with this id that hold the structs of V.
Structs(id, V) == {A(id, "STRUCT", v) : v \in V}

\* w holds the structs of V, at least one, under this id, and maybe a newer
\* peer's fields.  (Writers write one, that there is no other is not needed.)
Holds(w, id, V) == V # {} /\ Wire(w, Structs(id, V))

One(name, x) == [k \in {name} |-> x]

\* Both readers make x of the structs of V, and FastRead keeps in step.
InnerRead(S, w, id, V, value, fast, x) ==
  \A i \in KnownFields(S, w) : w[i] \in Structs(id, V) =>
    value[i] = x /\ fast[i] = [val |-> x, offset |-> Size(w[i])]

LEMMA HoldsField ==
  ASSUME NEW id, NEW inner
  PROVE  Holds(Field(id, "STRUCT", inner), id, {inner})
<1>1. Structs(id, {inner}) = {A(id, "STRUCT", inner)}
  BY DEF Structs
<1>. QED
  BY <1>1, WireOfField DEF Holds

LEMMA SameBytes ==
  ASSUME NEW w, \A i \in DOMAIN w : BodySize(w[i]) = Size(w[i])
  PROVE  BodyBytes(w) = Bytes(w)
<1>1. [i \in DOMAIN w |-> FieldBegin + BodySize(w[i])]
        = [i \in DOMAIN w |-> FieldBegin + Size(w[i])]
  OBVIOUS
<1>. QED
  BY <1>1 DEF BodyBytes, Bytes, StructSize

LEMMA WrapperReads ==
  ASSUME NEW S, NEW id, NEW name, NEW V, NEW x, NEW w, NEW value, NEW fast,
         Wraps(S, id, name), Holds(w, id, V), x # Error,
         InnerRead(S, w, id, V, value, fast, x)
  PROVE  /\ ReadLoop(S, w, value) = One(name, x)
         /\ FastReadLoop(S, w, fast) = [val |-> One(name, x), offset |-> Bytes(w)]
<1>. USE DEF Holds, One, InnerRead
<1>. DEFINE F == Structs(id, V)
            p == [k \in {name} |-> x]
            again == [i \in KnownFields(S, w) |-> fast[i].val]
<1>1. /\ \A i \in DOMAIN w : w[i] \in F \/ w[i] = Foreign
      /\ Len(w) \in Nat /\ DOMAIN w = 1 .. Len(w)
  BY FieldsOnWire
<1>2. \A f \in F : Known(S, f) /\ f.type # "END" /\ S.names[f.id] = name /\ f.id = id
  BY DEF Known, Wraps, A, Structs
<1>3. Describes(S, F, p)
  <2>1. \E f \in F : f.id = id /\ S.names[f.id] = name
    BY <1>2 DEF Structs
  <2>. HIDE DEF F
  <2>. QED
    BY <1>2, <2>1 DEF Describes, Wraps
<1>4. ASSUME NEW i \in DOMAIN w, w[i] \in F
      PROVE  /\ i \in KnownFields(S, w) /\ value[i] = x
             /\ fast[i].val = x /\ fast[i].offset = Size(w[i])
  <2>1. i \in KnownFields(S, w)
    BY <1>2, <1>4 DEF KnownFields
  <2>2. value[i] = x /\ fast[i] = [val |-> x, offset |-> Size(w[i])]
    BY <1>4, <2>1
  <2>. QED
    BY <2>1, <2>2
<1>. HIDE DEF F
<1>5. ReadLoop(S, w, value) = p
  <2>1. \A i \in DOMAIN w : w[i] \in F => value[i] = p[S.names[w[i].id]] /\ value[i] # Error
    BY <1>2, <1>4
  <2>. HIDE DEF p
  <2>2. Wire(w, F)
    BY DEF F
  <2>. QED
    BY <1>3, <2>1, <2>2, ReadsAs
<1>6. ReadLoop(S, w, again) = p
  <2>1. \A i \in DOMAIN w : w[i] \in F => again[i] = p[S.names[w[i].id]] /\ again[i] # Error
    BY <1>2, <1>4
  <2>. HIDE DEF p, again
  <2>2. Wire(w, F)
    BY DEF F
  <2>. QED
    BY <1>3, <2>1, <2>2, ReadsAs
<1>7. \A i \in DOMAIN w : Known(S, w[i]) => fast[i].offset = Size(w[i])
  <2>1. ~ Known(S, Foreign)
    BY DEF Wraps
  <2>. QED
    BY <1>1, <1>4, <2>1
<1>. HIDE DEF p
<1>8. FastReadLoop(S, w, fast) = [val |-> p, offset |-> Bytes(w)]
  BY <1>6, <1>7, InStep
<1>. QED
  BY <1>5, <1>8 DEF p

LEMMA WrapperWritten ==
  ASSUME NEW id, NEW inner, BodyBytes(inner) \in Int
  PROVE  /\ Holds(Field(id, "STRUCT", inner), id, {inner})
         /\ Bytes(Field(id, "STRUCT", inner)) = FieldStop + FieldBegin + BodyBytes(inner)
<1>. DEFINE f == A(id, "STRUCT", inner)
            s == [i \in DOMAIN <<f>> |-> FieldBegin + Size(<<f>>[i])]
<1>1. Field(id, "STRUCT", inner) = <<f>>
  BY DEF Field, A
<1>2. Size(f) = BodyBytes(inner)
  BY DEF Size, Nested, A, BodyBytes
<1>. HIDE DEF f
<1>3. s \in Seq(Int) /\ Len(s) = 1 /\ s[1] = FieldBegin + BodyBytes(inner)
  BY <1>2 DEF FieldBegin
<1>4. Sum(s) = FieldBegin + BodyBytes(inner)
  <2>. HIDE DEF s
  <2>. QED
    BY <1>3, SumOfOne
<1>5. Bytes(<<f>>) = FieldStop + (FieldBegin + BodyBytes(inner))
  BY <1>4 DEF Bytes, StructSize
<1>6. Holds(Field(id, "STRUCT", inner), id, {inner})
  BY HoldsField
<1>. QED
  BY <1>1, <1>5, <1>6 DEF FieldStop, FieldBegin

-----------------------------------------------------------------------------
(* The request to send                                                     *)

SendRequestWire(r, w) ==
  \E V : (\A v \in V : Wire(v, MessageFields(r.Message))) /\ Holds(w, 1, V)

LEMMA SendRequestRead ==
  ASSUME NEW r \in SendRequestType, NEW w, SendRequestWire(r, w)
  PROVE  /\ ReadSendRequest(w) = r
         /\ FastReadSendRequest(w) = [val |-> r, offset |-> BodyBytes(w)]
<1>. DEFINE S == SendRequest
            m == r.Message
            value == [i \in KnownFields(S, w) |-> ReadMessage(w[i].val)]
            fast  == [i \in KnownFields(S, w) |-> FastReadMessage(w[i].val)]
<1>1. m \in Messages /\ r = One("Message", m) /\ m # Error
  BY NilAssumption DEF Data, SendRequestType, One
<1>2. PICK V : (\A v \in V : Wire(v, MessageFields(m))) /\ Holds(w, 1, V)
  BY DEF SendRequestWire
<1>3. Wraps(S, 1, "Message")
  BY DEF Wraps, Known, Foreign, SendRequest, Struct
<1>4. ASSUME NEW v \in V
      PROVE  /\ ReadMessage(v) = m /\ FastReadMessage(v) = [val |-> m, offset |-> PlainBytes(v)]
             /\ BodyBytes(v) = PlainBytes(v)
  BY <1>1, <1>2, MessageRead
<1>5. \A f \in Structs(1, V) : /\ f.val \in V
                              /\ Size(f) = PlainBytes(f.val) /\ BodySize(f) = PlainBytes(f.val)
  <2>1. ASSUME NEW v \in V
        PROVE  /\ Size(A(1, "STRUCT", v)) = PlainBytes(v)
               /\ BodySize(A(1, "STRUCT", v)) = PlainBytes(v)
    BY <1>4 DEF Size, BodySize, Nested, A, PlainBytes, BodyBytes
  <2>. QED
    BY <2>1 DEF Structs, A
<1>6. InnerRead(S, w, 1, V, value, fast, m)
  <2>. HIDE DEF S, m
  <2>. QED
    BY <1>4, <1>5 DEF InnerRead
<1>. HIDE DEF S, m, value, fast
<1>7. /\ ReadLoop(S, w, value) = One("Message", m)
      /\ FastReadLoop(S, w, fast) = [val |-> One("Message", m), offset |-> Bytes(w)]
  BY <1>1, <1>2, <1>3, <1>6, WrapperReads
<1>8. BodyBytes(w) = Bytes(w)
  <2>1. \A i \in DOMAIN w : w[i] \in Structs(1, V) \/ w[i] = Foreign
    BY <1>2, FieldsOnWire DEF Holds
  <2>2. Size(Foreign) = BodySize(Foreign)
    BY DEF Size, BodySize, Nested, Foreign
  <2>3. \A i \in DOMAIN w : BodySize(w[i]) = Size(w[i])
    BY <1>5, <2>1, <2>2
  <2>. QED
    BY <2>3, SameBytes
<1>. QED
  BY <1>1, <1>7, <1>8 DEF ReadSendRequest, FastReadSendRequest, S, value, fast

LEMMA SendRequestWritten ==
  ASSUME NEW r \in SendRequestType
  PROVE  /\ SendRequestWire(r, WriteSendRequest(r))
         /\ SendRequestWire(r, FastWriteSendRequest(r))
         /\ BodyBytes(FastWriteSendRequest(r)) = SendRequestLength(r)
         /\ SendRequestLength(r) \in Int
<1>. DEFINE m == r.Message
            w == WriteMessage(m)
            fw == FastWriteMessage(m)
<1>1. m \in Messages
  BY DEF SendRequestType
<1>2. r # Nil
  BY NilAssumption DEF Data
<1>3. Wire(w, MessageFields(m)) /\ Wire(fw, MessageFields(m))
  BY <1>1, MessageWritten
<1>4. BodyBytes(fw) = MessageLength(m) /\ MessageLength(m) \in Int /\ BodyBytes(fw) = PlainBytes(fw)
  BY <1>1, <1>3, MessageFits, MessageRead
<1>5. /\ WriteSendRequest(r) = Field(1, "STRUCT", w)
      /\ FastWriteSendRequest(r) = Field(1, "STRUCT", fw)
      /\ SendRequestLength(r) = FieldStop + (FieldBegin + MessageLength(m))
  BY <1>2 DEF WriteSendRequest, FastWriteSendRequest, SendRequestLength, Unless
<1>6. Holds(Field(1, "STRUCT", w), 1, {w}) /\ Holds(Field(1, "STRUCT", fw), 1, {fw})
  BY HoldsField
<1>7. BodySize(A(1, "STRUCT", fw)) = MessageLength(m)
  BY <1>4 DEF BodySize, Nested, A, PlainBytes
<1>. HIDE DEF m, w, fw
<1>8. Takes(Field(1, "STRUCT", fw), FieldBegin + MessageLength(m))
  BY <1>4, <1>7, TakenByField
<1>9. /\ BodyBytes(Field(1, "STRUCT", fw)) = FieldStop + (FieldBegin + MessageLength(m))
      /\ FieldBegin + MessageLength(m) \in Int
  BY <1>8, BytesTaken DEF Takes
<1>10. SendRequestWire(r, Field(1, "STRUCT", w)) /\ SendRequestWire(r, Field(1, "STRUCT", fw))
  BY <1>3, <1>6 DEF SendRequestWire, m
<1>. QED
  BY <1>5, <1>9, <1>10 DEF FieldStop

-----------------------------------------------------------------------------
(* The response to a pull                                                  *)

\* ws are the messages of list on the wire.
ListWire(list, ws) ==
  /\ ws \in Seq(Range(ws)) /\ Len(ws) = Len(list)
  /\ \A i \in 1 .. Len(list) : Wire(ws[i], MessageFields(list[i]))

\* The fields of p, its list in any of the forms of L.
PullResponseFields(p, L) ==
  {A(1, "I32", p.Code), A(2, "STRING", p.Msg)}
    \cup (IF p.Messages = Nil THEN {} ELSE {A(3, "LIST", ws) : ws \in L})
    \cup (IF p.HasMore = Nil THEN {} ELSE {A(4, "BOOL", p.HasMore)})
    \cup (IF p.NextCursor = Nil THEN {} ELSE {A(5, "I64", p.NextCursor)})

PullResponseWire(p, w) ==
  \E L : /\ p.Messages # Nil => L # {} /\ \A ws \in L : ListWire(p.Messages, ws)
         /\ Wire(w, PullResponseFields(p, L))

LEMMA ListRead ==
  ASSUME NEW list \in Seq(Messages), NEW ws, ListWire(list, ws)
  PROVE  /\ ReadList([j \in DOMAIN ws |-> ReadMessage(ws[j])]) = list
         /\ FastReadList([j \in DOMAIN ws |-> FastReadMessage(ws[j])])
              = [val |-> list, offset |-> BodySize(A(3, "LIST", ws))]
         /\ Size(A(3, "LIST", ws)) = BodySize(A(3, "LIST", ws))
<1>. DEFINE read == [j \in DOMAIN ws |-> ReadMessage(ws[j])]
            fast == [j \in DOMAIN ws |-> FastReadMessage(ws[j])]
            again == [j \in DOMAIN fast |-> fast[j].val]
<1>1. DOMAIN ws = 1 .. Len(list) /\ DOMAIN list = 1 .. Len(list) /\ Len(list) \in Nat
  BY DEF ListWire
<1>2. \A j \in 1 .. Len(list) : list[j] \in Messages /\ list[j] # Error
  BY <1>1, NilAssumption DEF Data
<1>3. \A j \in 1 .. Len(list) :
        /\ ReadMessage(ws[j]) = list[j]
        /\ FastReadMessage(ws[j]) = [val |-> list[j], offset |-> PlainBytes(ws[j])]
        /\ BodyBytes(ws[j]) = PlainBytes(ws[j])
  BY <1>2, MessageRead DEF ListWire
<1>4. list = [j \in 1 .. Len(list) |-> list[j]]
  BY <1>1
<1>5. read = list
  BY <1>1, <1>3, <1>4
<1>6. again = list
  BY <1>1, <1>3, <1>4
<1>7. ReadList(read) = list
  BY <1>1, <1>2, <1>5 DEF ReadList
<1>8. BodySize(A(3, "LIST", ws)) = ListBegin + Sum([j \in DOMAIN ws |-> PlainBytes(ws[j])])
  BY DEF BodySize, Nested, A, PlainBytes
<1>9. [j \in DOMAIN fast |-> fast[j].offset] = [j \in DOMAIN ws |-> PlainBytes(ws[j])]
  BY <1>1, <1>3
<1>10. FastReadList(fast) = [val |-> list, offset |-> BodySize(A(3, "LIST", ws))]
  <2>1. ReadList(again) = list
    BY <1>5, <1>6, <1>7
  <2>. HIDE DEF fast
  <2>. QED
    BY <1>8, <1>9, <2>1 DEF FastReadList
<1>11. Size(A(3, "LIST", ws)) = BodySize(A(3, "LIST", ws))
  <2>1. Size(A(3, "LIST", ws)) = ListBegin + Sum([j \in DOMAIN ws |-> BodyBytes(ws[j])])
    BY DEF Size, Nested, A, BodyBytes
  <2>2. [j \in DOMAIN ws |-> BodyBytes(ws[j])] = [j \in DOMAIN ws |-> PlainBytes(ws[j])]
    BY <1>1, <1>3
  <2>. QED
    BY <1>8, <2>1, <2>2
<1>. QED
  BY <1>7, <1>10, <1>11

LEMMA PullResponseDescribed ==
  ASSUME NEW p \in PullResponseType, NEW L, p.Messages # Nil => L # {}
  PROVE  Describes(PullResponse, PullResponseFields(p, L), p)
<1>. DEFINE S == PullResponse
            F == PullResponseFields(p, L)
            f1 == A(1, "I32", p.Code)
            f2 == A(2, "STRING", p.Msg)
            F3 == {A(3, "LIST", ws) : ws \in L}
            f4 == A(4, "BOOL", p.HasMore)
            f5 == A(5, "I64", p.NextCursor)
            G == {f1, f2, f4, f5} \cup F3
<1>1. ~ Known(S, Foreign) /\ p = [k \in DOMAIN S.zero |-> p[k]]
  BY DEF Known, Foreign, PullResponse, Struct, PullResponseType
<1>2. \A f \in G : Known(S, f) /\ f.type # "END"
  BY DEF Known, PullResponse, Struct, A
<1>3. /\ f1 \in F /\ f2 \in F /\ (p.Messages = Nil \/ \E f3 \in F3 : f3 \in F)
      /\ (p.HasMore = Nil \/ f4 \in F) /\ (p.NextCursor = Nil \/ f5 \in F)
      /\ F \subseteq G
  BY DEF PullResponseFields
<1>4. \A r \in S.required : r = f1.id \/ r = f2.id
  BY DEF PullResponse, Struct, A
<1>5. /\ S.names[f1.id] = "Code" /\ S.names[f2.id] = "Msg"
      /\ \A f3 \in F3 : S.names[f3.id] = "Messages"
      /\ S.names[f4.id] = "HasMore" /\ S.names[f5.id] = "NextCursor"
  BY DEF PullResponse, Struct, A
<1>6. /\ DOMAIN S.zero = {"Code", "Msg", "Messages", "HasMore", "NextCursor"}
      /\ S.zero["Messages"] = Nil /\ S.zero["HasMore"] = Nil /\ S.zero["NextCursor"] = Nil
  BY DEF PullResponse, Struct
<1>. HIDE DEF f1, f2, F3, f4, f5, S, F
<1>7. ASSUME NEW k \in DOMAIN S.zero
      PROVE  p[k] = S.zero[k] \/ \E f \in F : S.names[f.id] = k
  <2>1. CASE k = "Code"
    BY <1>3, <1>5, <2>1
  <2>2. CASE k = "Msg"
    BY <1>3, <1>5, <2>2
  <2>3. CASE k = "Messages"
    BY <1>3, <1>5, <1>6, <2>3
  <2>4. CASE k = "HasMore"
    BY <1>3, <1>5, <1>6, <2>4
  <2>5. CASE k = "NextCursor"
    BY <1>3, <1>5, <1>6, <2>5
  <2>. QED
    BY <1>6, <2>1, <2>2, <2>3, <2>4, <2>5
<1>8. \A f \in F : Known(S, f) /\ f.type # "END"
  BY <1>2, <1>3
<1>9. \A r \in S.required : \E f \in F : f.id = r
  BY <1>3, <1>4
<1>10. Describes(S, F, p)
  BY <1>1, <1>7, <1>8, <1>9 DEF Describes
<1>. QED
  BY <1>10 DEF S, F

LEMMA PullResponseRead ==
  ASSUME NEW p \in PullResponseType, NEW w, PullResponseWire(p, w)
  PROVE  /\ ReadPullResponse(w) = p
         /\ FastReadPullResponse(w) = [val |-> p, offset |-> BodyBytes(w)]
<1>. DEFINE S == PullResponse
            Value(f) == IF f.type = "LIST"
                        THEN ReadList([j \in DOMAIN f.val |-> ReadMessage(f.val[j])])
                        ELSE Plain(f)
            Fast(f) == IF f.type = "LIST"
                       THEN FastReadList([j \in DOMAIN f.val |-> FastReadMessage(f.val[j])])
                       ELSE FastPlain(f)
            value == [i \in KnownFields(S, w) |-> Value(w[i])]
            fast  == [i \in KnownFields(S, w) |-> Fast(w[i])]
            again == [i \in KnownFields(S, w) |-> fast[i].val]
<1>1. PICK L : /\ p.Messages # Nil => L # {} /\ \A ws \in L : ListWire(p.Messages, ws)
               /\ Wire(w, PullResponseFields(p, L))
  BY DEF PullResponseWire
<1>. DEFINE F == PullResponseFields(p, L)
            f1 == A(1, "I32", p.Code)
            f2 == A(2, "STRING", p.Msg)
            F3 == {A(3, "LIST", ws) : ws \in L}
            f4 == A(4, "BOOL", p.HasMore)
            f5 == A(5, "I64", p.NextCursor)
<1>2. Describes(S, F, p)
  BY <1>1, PullResponseDescribed
<1>3. /\ p.Code # Error /\ p.Msg # Error /\ p.Messages # Error
      /\ p.HasMore # Error /\ p.NextCursor # Error
  BY NilAssumption DEF Data, PullResponseType
<1>4. \A f \in F : \/ f = f1 \/ f = f2 \/ (f \in F3 /\ p.Messages # Nil)
                   \/ f = f4 \/ f = f5
  BY DEF PullResponseFields
<1>5. /\ S.names[f1.id] = "Code" /\ S.names[f2.id] = "Msg"
      /\ \A f3 \in F3 : S.names[f3.id] = "Messages"
      /\ S.names[f4.id] = "HasMore" /\ S.names[f5.id] = "NextCursor"
  BY DEF PullResponse, Struct, A
<1>6. ASSUME p.Messages # Nil, NEW f3 \in F3
      PROVE  /\ Value(f3) = p.Messages
             /\ Fast(f3) = [val |-> p.Messages, offset |-> BodySize(f3)]
             /\ Size(f3) = BodySize(f3)
  <2>1. p.Messages \in Seq(Messages)
    BY <1>6 DEF PullResponseType
  <2>2. PICK ws \in L : f3 = A(3, "LIST", ws)
    BY <1>6
  <2>3. /\ ReadList([j \in DOMAIN ws |-> ReadMessage(ws[j])]) = p.Messages
        /\ FastReadList([j \in DOMAIN ws |-> FastReadMessage(ws[j])])
             = [val |-> p.Messages, offset |-> BodySize(f3)]
        /\ Size(f3) = BodySize(f3)
    BY <1>1, <1>6, <2>1, <2>2, ListRead
  <2>4. f3.type = "LIST" /\ f3.val = ws
    BY <2>2 DEF A
  <2>. QED
    BY <2>3, <2>4
<1>7. ASSUME NEW f \in {f1, f2, f4, f5}
      PROVE  /\ Value(f) = p[S.names[f.id]]
             /\ Fast(f) = [val |-> p[S.names[f.id]], offset |-> BodySize(f)]
             /\ Size(f) = BodySize(f)
  <2>1. f.type \in {"I32", "STRING", "BOOL", "I64"} /\ f.val = p[S.names[f.id]]
    BY <1>5 DEF A
  <2>2. BodySize(f) = PlainSize(f) /\ Size(f) = PlainSize(f)
    <3>1. f.type # "STRUCT" /\ f.type # "LIST"
      BY <2>1
    <3>. QED
      BY <3>1 DEF BodySize, Size, Nested
  <2>. QED
    BY <2>1, <2>2 DEF Plain, FastPlain
<1>. HIDE DEF f1, f2, F3, f4, f5, Value, Fast, S
<1>8. \A f \in F : /\ Value(f) = p[S.names[f.id]] /\ p[S.names[f.id]] # Error
                   /\ Fast(f) = [val |-> p[S.names[f.id]], offset |-> BodySize(f)]
                   /\ Size(f) = BodySize(f)
  BY <1>3, <1>4, <1>5, <1>6, <1>7
<1>9. /\ \A i \in DOMAIN w : w[i] \in F \/ w[i] = Foreign
      /\ \A i \in DOMAIN w : w[i] \in F => i \in KnownFields(S, w)
      /\ ~ Known(S, Foreign)
  <2>1. \A i \in DOMAIN w : w[i] \in F \/ w[i] = Foreign
    BY <1>1, FieldsOnWire
  <2>. QED
    BY <1>2, <2>1 DEF KnownFields, Describes
<1>. HIDE DEF F
<1>10. ReadLoop(S, w, value) = p
  <2>1. \A i \in DOMAIN w : w[i] \in F => value[i] = p[S.names[w[i].id]] /\ value[i] # Error
    BY <1>8, <1>9
  <2>2. Wire(w, F)
    BY <1>1 DEF F
  <2>. HIDE DEF value
  <2>. QED
    BY <1>2, <2>1, <2>2, ReadsAs
<1>11. ReadLoop(S, w, again) = p
  <2>1. \A i \in DOMAIN w : w[i] \in F => again[i] = p[S.names[w[i].id]] /\ again[i] # Error
    BY <1>8, <1>9
  <2>2. Wire(w, F)
    BY <1>1 DEF F
  <2>. HIDE DEF again
  <2>. QED
    BY <1>2, <2>1, <2>2, ReadsAs
<1>12. /\ \A i \in DOMAIN w : BodySize(w[i]) = Size(w[i])
       /\ \A i \in DOMAIN w : Known(S, w[i]) => fast[i].offset = Size(w[i])
  <2>1. Size(Foreign) = BodySize(Foreign)
    BY DEF Size, BodySize, Nested, Foreign
  <2>2. ASSUME NEW i \in DOMAIN w, w[i] \in F
        PROVE  BodySize(w[i]) = Size(w[i]) /\ fast[i].offset = Size(w[i])
    BY <1>8, <1>9, <2>2
  <2>. HIDE DEF fast
  <2>. QED
    BY <1>9, <2>1, <2>2
<1>. HIDE DEF fast
<1>13. BodyBytes(w) = Bytes(w)
  <2>1. \A i \in DOMAIN w : BodySize(w[i]) = Size(w[i])
    BY <1>12
  <2>. QED
    BY <2>1, SameBytes
<1>14. FastReadLoop(S, w, fast) = [val |-> p, offset |-> BodyBytes(w)]
  <2>1. FastReadLoop(S, w, fast) = [val |-> p, offset |-> Bytes(w)]
    BY <1>11, <1>12, InStep
  <2>. QED
    BY <1>13, <2>1
<1>. QED
  BY <1>10, <1>14 DEF ReadPullResponse, FastReadPullResponse, S, Value, Fast, fast

LEMMA ListWritten ==
  ASSUME NEW list \in Seq(Messages)
  PROVE  /\ ListWire(list, [i \in DOMAIN list |-> WriteMessage(list[i])])
         /\ ListWire(list, [i \in DOMAIN list |-> FastWriteMessage(list[i])])
         /\ BodySize(A(3, "LIST", [i \in DOMAIN list |-> FastWriteMessage(list[i])]))
              = ListBegin + Sum([i \in DOMAIN list |-> MessageLength(list[i])])
         /\ Sum([i \in DOMAIN list |-> MessageLength(list[i])]) \in Int
<1>. DEFINE ws == [i \in DOMAIN list |-> WriteMessage(list[i])]
            fs == [i \in DOMAIN list |-> FastWriteMessage(list[i])]
            ns == [i \in DOMAIN list |-> MessageLength(list[i])]
<1>1. DOMAIN list = 1 .. Len(list) /\ Len(list) \in Nat
  OBVIOUS
<1>2. \A i \in 1 .. Len(list) :
        /\ Wire(WriteMessage(list[i]), MessageFields(list[i]))
        /\ Wire(FastWriteMessage(list[i]), MessageFields(list[i]))
        /\ PlainBytes(FastWriteMessage(list[i])) = MessageLength(list[i])
        /\ MessageLength(list[i]) \in Int
  <2>1. ASSUME NEW m \in Messages
        PROVE  /\ Wire(WriteMessage(m), MessageFields(m))
               /\ Wire(FastWriteMessage(m), MessageFields(m))
               /\ PlainBytes(FastWriteMessage(m)) = MessageLength(m)
               /\ MessageLength(m) \in Int
    BY MessageWritten, MessageFits, MessageRead
  <2>2. \A i \in 1 .. Len(list) : list[i] \in Messages
    OBVIOUS
  <2>. QED
    BY <2>1, <2>2
<1>3. ws \in Seq(Range(ws)) /\ Len(ws) = Len(list)
  <2>1. \A i \in 1 .. Len(list) : ws[i] \in Range(ws)
    BY <1>1 DEF Range
  <2>. QED
    BY <1>1, <2>1
<1>4. fs \in Seq(Range(fs)) /\ Len(fs) = Len(list)
  <2>1. \A i \in 1 .. Len(list) : fs[i] \in Range(fs)
    BY <1>1 DEF Range
  <2>. QED
    BY <1>1, <2>1
<1>5. ListWire(list, ws) /\ ListWire(list, fs)
  <2>1. \A i \in 1 .. Len(list) : ws[i] = WriteMessage(list[i]) /\ fs[i] = FastWriteMessage(list[i])
    BY <1>1
  <2>. HIDE DEF ws, fs
  <2>. QED
    BY <1>2, <1>3, <1>4, <2>1 DEF ListWire
<1>6. BodySize(A(3, "LIST", fs)) = ListBegin + Sum(ns)
  <2>1. BodySize(A(3, "LIST", fs)) = ListBegin + Sum([j \in DOMAIN fs |-> PlainBytes(fs[j])])
    <3>. HIDE DEF fs
    <3>. QED
      BY DEF BodySize, Nested, A, PlainBytes
  <2>2. [j \in DOMAIN fs |-> PlainBytes(fs[j])] = ns
    BY <1>1, <1>2
  <2>. QED
    BY <2>1, <2>2
<1>7. Sum(ns) \in Int
  <2>1. ns \in Seq(Int)
    BY <1>1, <1>2
  <2>. HIDE DEF ns
  <2>. QED
    BY <2>1, SumOfConcat
<1>. QED
  BY <1>5, <1>6, <1>7

LEMMA PullResponseWritten ==
  ASSUME NEW p \in PullResponseType
  PROVE  /\ PullResponseWire(p, WritePullResponse(p))
         /\ PullResponseWire(p, FastWritePullResponse(p))
         /\ BodyBytes(FastWritePullResponse(p)) = PullResponseLength(p)
         /\ PullResponseLength(p) \in Int
<1>. DEFINE list == p.Messages
            ws == [i \in DOMAIN list |-> WriteMessage(list[i])]
            fs == [i \in DOMAIN list |-> FastWriteMessage(list[i])]
            w1 == Field(1, "I32", p.Code)
            w2 == Field(2, "STRING", p.Msg)
            w3 == IF list = Nil THEN << >> ELSE Field(3, "LIST", ws)
            x3 == IF list = Nil THEN << >> ELSE Field(3, "LIST", fs)
            w4 == Optional(4, "BOOL", p.HasMore)
            w5 == Optional(5, "I64", p.NextCursor)
            F1 == {A(1, "I32", p.Code)}
            F2 == {A(2, "STRING", p.Msg)}
            F3 == IF list = Nil THEN {} ELSE {A(3, "LIST", ws)}
            G3 == IF list = Nil THEN {} ELSE {A(3, "LIST", fs)}
            F4 == IF p.HasMore = Nil THEN {} ELSE {A(4, "BOOL", p.HasMore)}
            F5 == IF p.NextCursor = Nil THEN {} ELSE {A(5, "I64", p.NextCursor)}
            n1 == FieldBegin + 4
            n2 == FieldBegin + StringLength(p.Msg)
            n3 == IF list = Nil THEN 0
                  ELSE FieldBegin + ListBegin
                         + Sum([i \in DOMAIN list |-> MessageLength(list[i])])
            n4 == IF p.HasMore = Nil THEN 0 ELSE FieldBegin + 1
            n5 == IF p.NextCursor = Nil THEN 0 ELSE FieldBegin + 8
<1>1. p # Nil
  BY NilAssumption DEF Data
<1>2. /\ WritePullResponse(p) = w1 \o w2 \o w3 \o w4 \o w5
      /\ FastWritePullResponse(p) = w1 \o w4 \o w5 \o w2 \o x3
  BY <1>1 DEF WritePullResponse, FastWritePullResponse, Listed, Unless
<1>3. list # Nil =>
        /\ ListWire(list, ws) /\ ListWire(list, fs)
        /\ BodySize(A(3, "LIST", fs))
             = ListBegin + Sum([i \in DOMAIN list |-> MessageLength(list[i])])
        /\ Sum([i \in DOMAIN list |-> MessageLength(list[i])]) \in Int
  <2>1. list = Nil \/ list \in Seq(Messages)
    BY DEF PullResponseType
  <2>. HIDE DEF list
  <2>. QED
    BY <2>1, ListWritten
<1>4. Wire(w1, F1) /\ Wire(w2, F2) /\ Wire(w4, F4) /\ Wire(w5, F5)
  BY WireOfField
<1>5. Wire(w3, F3) /\ Wire(x3, G3)
  <2>. HIDE DEF list, ws, fs
  <2>1. CASE list = Nil
    BY <2>1, WireOfField
  <2>2. CASE list # Nil
    BY <2>2, WireOfField
  <2>. QED
    BY <2>1, <2>2
<1>6. /\ PullResponseFields(p, {ws}) = F1 \cup F2 \cup F3 \cup F4 \cup F5
      /\ PullResponseFields(p, {fs}) = F1 \cup F2 \cup G3 \cup F4 \cup F5
  <2>. HIDE DEF ws, fs
  <2>. QED
    BY DEF PullResponseFields
<1>7. PullResponseLength(p) = FieldStop + (n1 + n2 + n3 + n4 + n5)
  BY <1>1 DEF PullResponseLength
<1>8. Takes(w1, n1) /\ Takes(w2, n2) /\ Takes(w4, n4) /\ Takes(w5, n5)
  BY PlainTaken, TakenByOptional DEF PullResponseType
<1>9. Takes(x3, n3)
  <2>1. CASE list = Nil
    BY <2>1, TakenByNone
  <2>2. CASE list # Nil
    <3>. DEFINE s == Sum([i \in DOMAIN list |-> MessageLength(list[i])])
    <3>. HIDE DEF list, fs, s
    <3>1. BodySize(A(3, "LIST", fs)) = ListBegin + s /\ s \in Int /\ ListBegin + s \in Int
      BY <1>3, <2>2 DEF s, ListBegin
    <3>2. Takes(Field(3, "LIST", fs), FieldBegin + (ListBegin + s))
      BY <3>1, TakenByField
    <3>3. FieldBegin + (ListBegin + s) = FieldBegin + ListBegin + s
      BY <3>1 DEF FieldBegin, ListBegin
    <3>. QED
      BY <2>2, <3>2, <3>3 DEF s
  <2>. QED
    BY <2>1, <2>2
<1>10. n1 \in Int /\ n2 \in Int /\ n3 \in Int /\ n4 \in Int /\ n5 \in Int
  BY <1>8, <1>9 DEF Takes
<1>. HIDE DEF list, ws, fs, w1, w2, w3, x3, w4, w5, F1, F2, F3, G3, F4, F5, n1, n2, n3, n4, n5
<1>11. Wire(w1 \o w2 \o w3 \o w4 \o w5, F1 \cup F2 \cup F3 \cup F4 \cup F5)
  BY <1>4, <1>5, WireOfConcat, Zenon
<1>12. Wire(w1 \o w4 \o w5 \o w2 \o x3, F1 \cup F4 \cup F5 \cup F2 \cup G3)
  BY <1>4, <1>5, WireOfConcat, Zenon
<1>13. F1 \cup F4 \cup F5 \cup F2 \cup G3 = F1 \cup F2 \cup G3 \cup F4 \cup F5
  OBVIOUS
<1>14. Takes(w1 \o w4 \o w5 \o w2 \o x3, n1 + n4 + n5 + n2 + n3)
  BY <1>8, <1>9, TakenByConcat, Zenon
<1>15. BodyBytes(w1 \o w4 \o w5 \o w2 \o x3) = FieldStop + (n1 + n4 + n5 + n2 + n3)
  BY <1>14, BytesTaken
<1>16. /\ FieldStop + (n1 + n4 + n5 + n2 + n3) = FieldStop + (n1 + n2 + n3 + n4 + n5)
       /\ FieldStop + (n1 + n2 + n3 + n4 + n5) \in Int
  BY <1>10 DEF FieldStop
<1>17. BodyBytes(FastWritePullResponse(p)) = PullResponseLength(p) /\ PullResponseLength(p) \in Int
  BY <1>2, <1>7, <1>15, <1>16
<1>18. PullResponseWire(p, WritePullResponse(p))
  <2>1. Wire(WritePullResponse(p), PullResponseFields(p, {ws}))
    BY <1>2, <1>6, <1>11
  <2>2. p.Messages # Nil => ListWire(p.Messages, ws)
    BY <1>3 DEF list
  <2>. QED
    BY <2>1, <2>2 DEF PullResponseWire
<1>19. PullResponseWire(p, FastWritePullResponse(p))
  <2>1. Wire(FastWritePullResponse(p), PullResponseFields(p, {fs}))
    BY <1>2, <1>6, <1>12, <1>13
  <2>2. p.Messages # Nil => ListWire(p.Messages, fs)
    BY <1>3 DEF list
  <2>. QED
    BY <2>1, <2>2 DEF PullResponseWire
<1>. QED
  BY <1>17, <1>18, <1>19

-----------------------------------------------------------------------------
(* Arguments and results                                                   *)

SendArgsWire(r, w) ==
  \E V : (\A v \in V : SendRequestWire(r, v)) /\ Holds(w, 1, V)

PullArgsWire(r, w) ==
  \E V : (\A v \in V : Wire(v, PullRequestFields(r))) /\ Holds(w, 2, V)

SendResultWire(p, w) ==
  \E V : (\A v \in V : Wire(v, SendResponseFields(p))) /\ Holds(w, 0, V)

PullResultWire(p, w) ==
  \E V : (\A v \in V : PullResponseWire(p, v)) /\ Holds(w, 0, V)

LEMMA BodyHeld ==
  ASSUME NEW id, NEW V
  PROVE  \A f \in Structs(id, V) : f.val \in V /\ Size(f) = BodyBytes(f.val)
<1>1. \A v : Size(A(id, "STRUCT", v)) = BodyBytes(v)
  BY DEF Size, Nested, A, BodyBytes
<1>. QED
  BY <1>1 DEF Structs, A

LEMMA SendArgsRead ==
  ASSUME NEW r \in SendRequestType, NEW w, SendArgsWire(r, w)
  PROVE  /\ ReadSendArgs(w) = One("Req", r)
         /\ FastReadSendArgs(w) = [val |-> One("Req", r), offset |-> Bytes(w)]
<1>. DEFINE S == SendArgs
            value == [i \in KnownFields(S, w) |-> ReadSendRequest(w[i].val)]
            fast  == [i \in KnownFields(S, w) |-> FastReadSendRequest(w[i].val)]
<1>1. PICK V : (\A v \in V : SendRequestWire(r, v)) /\ Holds(w, 1, V)
  BY DEF SendArgsWire
<1>2. r # Error
  BY NilAssumption DEF Data
<1>3. Wraps(S, 1, "Req")
  BY DEF Wraps, Known, Foreign, SendArgs, Struct, Only
<1>4. ASSUME NEW v \in V
      PROVE  /\ ReadSendRequest(v) = r
             /\ FastReadSendRequest(v) = [val |-> r, offset |-> BodyBytes(v)]
  BY <1>1, SendRequestRead
<1>5. InnerRead(S, w, 1, V, value, fast, r)
  <2>. HIDE DEF S
  <2>. QED
    BY <1>4, BodyHeld DEF InnerRead
<1>. HIDE DEF S, value, fast
<1>6. /\ ReadLoop(S, w, value) = One("Req", r)
      /\ FastReadLoop(S, w, fast) = [val |-> One("Req", r), offset |-> Bytes(w)]
  BY <1>1, <1>2, <1>3, <1>5, WrapperReads
<1>. QED
  BY <1>6 DEF ReadSendArgs, FastReadSendArgs, S, value, fast

LEMMA PullArgsRead ==
  ASSUME NEW r \in PullRequestType, NEW w, PullArgsWire(r, w)
  PROVE  /\ ReadPullArgs(w) = One("Req", r)
         /\ FastReadPullArgs(w) = [val |-> One("Req", r), offset |-> Bytes(w)]
<1>. DEFINE S == PullArgs
            value == [i \in KnownFields(S, w) |-> ReadPullRequest(w[i].val)]
            fast  == [i \in KnownFields(S, w) |-> FastReadPullRequest(w[i].val)]
<1>1. PICK V : (\A v \in V : Wire(v, PullRequestFields(r))) /\ Holds(w, 2, V)
  BY DEF PullArgsWire
<1>2. r # Error
  BY NilAssumption DEF Data
<1>3. Wraps(S, 2, "Req")
  BY DEF Wraps, Known, Foreign, PullArgs, Struct, Only
<1>4. ASSUME NEW v \in V
      PROVE  /\ ReadPullRequest(v) = r
             /\ FastReadPullRequest(v) = [val |-> r, offset |-> BodyBytes(v)]
  BY <1>1, PullRequestRead
<1>5. InnerRead(S, w, 2, V, value, fast, r)
  <2>. HIDE DEF S
  <2>. QED
    BY <1>4, BodyHeld DEF InnerRead
<1>. HIDE DEF S, value, fast
<1>6. /\ ReadLoop(S, w, value) = One("Req", r)
      /\ FastReadLoop(S, w, fast) = [val |-> One("Req", r), offset |-> Bytes(w)]
  BY <1>1, <1>2, <1>3, <1>5, WrapperReads
<1>. QED
  BY <1>6 DEF ReadPullArgs, FastReadPullArgs, S, value, fast

LEMMA SendResultRead ==
  ASSUME NEW p \in SendResponseType, NEW w, SendResultWire(p, w)
  PROVE  /\ ReadSendResult(w) = One("Success", p)
         /\ FastReadSendResult(w) = [val |-> One("Success", p), offset |-> Bytes(w)]
<1>. DEFINE S == SendResult
            value == [i \in KnownFields(S, w) |-> ReadSendResponse(w[i].val)]
            fast  == [i \in KnownFields(S, w) |-> FastReadSendResponse(w[i].val)]
<1>1. PICK V : (\A v \in V : Wire(v, SendResponseFields(p))) /\ Holds(w, 0, V)
  BY DEF SendResultWire
<1>2. p # Error
  BY NilAssumption DEF Data
<1>3. Wraps(S, 0, "Success")
  BY DEF Wraps, Known, Foreign, SendResult, Struct, Only
<1>4. ASSUME NEW v \in V
      PROVE  /\ ReadSendResponse(v) = p
             /\ FastReadSendResponse(v) = [val |-> p, offset |-> BodyBytes(v)]
  BY <1>1, SendResponseRead
<1>5. InnerRead(S, w, 0, V, value, fast, p)
  <2>. HIDE DEF S
  <2>. QED
    BY <1>4, BodyHeld DEF InnerRead
<1>. HIDE DEF S, value, fast
<1>6. /\ ReadLoop(S, w, value) = One("Success", p)
      /\ FastReadLoop(S, w, fast) = [val |-> One("Success", p), offset |-> Bytes(w)]
  BY <1>1, <1>2, <1>3, <1>5, WrapperReads
<1>. QED
  BY <1>6 DEF ReadSendResult, FastReadSendResult, S, value, fast

LEMMA PullResultRead ==
  ASSUME NEW p \in PullResponseType, NEW w, PullResultWire(p, w)
  PROVE  /\ ReadPullResult(w) = One("Success", p)
         /\ FastReadPullResult(w) = [val |-> One("Success", p), offset |-> Bytes(w)]
<1>. DEFINE S == PullResult
            value == [i \in KnownFields(S, w) |-> ReadPullResponse(w[i].val)]
            fast  == [i \in KnownFields(S, w) |-> FastReadPullResponse(w[i].val)]
<1>1. PICK V : (\A v \in V : PullResponseWire(p, v)) /\ Holds(w, 0, V)
  BY DEF PullResultWire
<1>2. p # Error
  BY NilAssumption DEF Data
<1>3. Wraps(S, 0, "Success")
  BY DEF Wraps, Known, Foreign, PullResult, Struct, Only
<1>4. ASSUME NEW v \in V
      PROVE  /\ ReadPullResponse(v) = p
             /\ FastReadPullResponse(v) = [val |-> p, offset |-> BodyBytes(v)]
  BY <1>1, PullResponseRead
<1>5. InnerRead(S, w, 0, V, value, fast, p)
  <2>. HIDE DEF S
  <2>. QED
    BY <1>4, BodyHeld DEF InnerRead
<1>. HIDE DEF S, value, fast
<1>6. /\ ReadLoop(S, w, value) = One("Success", p)
      /\ FastReadLoop(S, w, fast) = [val |-> One("Success", p), offset |-> Bytes(w)]
  BY <1>1, <1>2, <1>3, <1>5, WrapperReads
<1>. QED
  BY <1>6 DEF ReadPullResult, FastReadPullResult, S, value, fast

\* Either writer writes the arguments or the result, FastWriteNocopy in the
\* bytes that BLength has announced.
LEMMA ArgsWritten ==
  /\ \A r \in SendRequestType :
       /\ SendArgsWire(r, WriteSendArgs([Req |-> r]))
       /\ SendArgsWire(r, FastWriteSendArgs([Req |-> r]))
       /\ Bytes(FastWriteSendArgs([Req |-> r])) = SendArgsLength([Req |-> r])
  /\ \A r \in PullRequestType :
       /\ PullArgsWire(r, WritePullArgs([Req |-> r]))
       /\ PullArgsWire(r, FastWritePullArgs([Req |-> r]))
       /\ Bytes(FastWritePullArgs([Req |-> r])) = PullArgsLength([Req |-> r])
<1>1. ASSUME NEW r \in SendRequestType
      PROVE  /\ SendArgsWire(r, WriteSendArgs([Req |-> r]))
             /\ SendArgsWire(r, FastWriteSendArgs([Req |-> r]))
             /\ Bytes(FastWriteSendArgs([Req |-> r])) = SendArgsLength([Req |-> r])
  <2>. DEFINE w == WriteSendRequest(r)
              x == FastWriteSendRequest(r)
  <2>1. /\ WriteSendArgs([Req |-> r]) = Field(1, "STRUCT", w)
        /\ FastWriteSendArgs([Req |-> r]) = Field(1, "STRUCT", x)
        /\ SendArgsLength([Req |-> r]) = FieldStop + FieldBegin + SendRequestLength(r)
    BY DEF WriteSendArgs, FastWriteSendArgs, SendArgsLength
  <2>2. /\ SendRequestWire(r, w) /\ SendRequestWire(r, x)
        /\ BodyBytes(x) = SendRequestLength(r) /\ SendRequestLength(r) \in Int
    BY SendRequestWritten
  <2>. HIDE DEF w, x
  <2>3. Holds(Field(1, "STRUCT", w), 1, {w})
    BY HoldsField
  <2>4. /\ Holds(Field(1, "STRUCT", x), 1, {x})
        /\ Bytes(Field(1, "STRUCT", x)) = FieldStop + FieldBegin + SendRequestLength(r)
    BY <2>2, WrapperWritten
  <2>. QED
    BY <2>1, <2>2, <2>3, <2>4 DEF SendArgsWire
<1>2. ASSUME NEW r \in PullRequestType
      PROVE  /\ PullArgsWire(r, WritePullArgs([Req |-> r]))
             /\ PullArgsWire(r, FastWritePullArgs([Req |-> r]))
             /\ Bytes(FastWritePullArgs([Req |-> r])) = PullArgsLength([Req |-> r])
  <2>. DEFINE w == WritePullRequest(r)
              x == FastWritePullRequest(r)
  <2>1. /\ WritePullArgs([Req |-> r]) = Field(2, "STRUCT", w)
        /\ FastWritePullArgs([Req |-> r]) = Field(2, "STRUCT", x)
        /\ PullArgsLength([Req |-> r]) = FieldStop + FieldBegin + PullRequestLength(r)
    BY DEF WritePullArgs, FastWritePullArgs, PullArgsLength
  <2>2. /\ Wire(w, PullRequestFields(r)) /\ Wire(x, PullRequestFields(r))
        /\ BodyBytes(x) = PullRequestLength(r) /\ PullRequestLength(r) \in Int
    BY PullRequestWritten
  <2>. HIDE DEF w, x
  <2>3. Holds(Field(2, "STRUCT", w), 2, {w})
    BY HoldsField
  <2>4. /\ Holds(Field(2, "STRUCT", x), 2, {x})
        /\ Bytes(Field(2, "STRUCT", x)) = FieldStop + FieldBegin + PullRequestLength(r)
    BY <2>2, WrapperWritten
  <2>. QED
    BY <2>1, <2>2, <2>3, <2>4 DEF PullArgsWire
<1>. QED
  BY <1>1, <1>2

LEMMA ResultsWritten ==
  /\ \A p \in SendResponseType :
       /\ SendResultWire(p, WriteSendResult([Success |-> p]))
       /\ SendResultWire(p, FastWriteSendResult([Success |-> p]))
       /\ Bytes(FastWriteSendResult([Success |-> p])) = SendResultLength([Success |-> p])
  /\ \A p \in PullResponseType :
       /\ PullResultWire(p, WritePullResult([Success |-> p]))
       /\ PullResultWire(p, FastWritePullResult([Success |-> p]))
       /\ Bytes(FastWritePullResult([Success |-> p])) = PullResultLength([Success |-> p])
<1>1. ASSUME NEW p \in SendResponseType
      PROVE  /\ SendResultWire(p, WriteSendResult([Success |-> p]))
             /\ SendResultWire(p, FastWriteSendResult([Success |-> p]))
             /\ Bytes(FastWriteSendResult([Success |-> p])) = SendResultLength([Success |-> p])
  <2>. DEFINE w == WriteSendResponse(p)
              x == FastWriteSendResponse(p)
              n == SendResponseLength(p)
  <2>1. /\ WriteSendResult([Success |-> p]) = Field(0, "STRUCT", w)
        /\ FastWriteSendResult([Success |-> p]) = Field(0, "STRUCT", x)
        /\ SendResultLength([Success |-> p]) = FieldStop + (FieldBegin + n)
    BY NilAssumption DEF Data, WriteSendResult, FastWriteSendResult, SendResultLength
  <2>2. /\ Wire(w, SendResponseFields(p)) /\ Wire(x, SendResponseFields(p))
        /\ BodyBytes(x) = n /\ n \in Int
    BY SendResponseWritten
  <2>. HIDE DEF w, x, n
  <2>3. Holds(Field(0, "STRUCT", w), 0, {w})
    BY HoldsField
  <2>4. /\ Holds(Field(0, "STRUCT", x), 0, {x})
        /\ Bytes(Field(0, "STRUCT", x)) = FieldStop + FieldBegin + n
    BY <2>2, WrapperWritten
  <2>5. FieldStop + (FieldBegin + n) = FieldStop + FieldBegin + n
    BY <2>2 DEF FieldStop, FieldBegin
  <2>. QED
    BY <2>1, <2>2, <2>3, <2>4, <2>5 DEF SendResultWire
<1>2. ASSUME NEW p \in PullResponseType
      PROVE  /\ PullResultWire(p, WritePullResult([Success |-> p]))
             /\ PullResultWire(p, FastWritePullResult([Success |-> p]))
             /\ Bytes(FastWritePullResult([Success |-> p])) = PullResultLength([Success |-> p])
  <2>. DEFINE w == WritePullResponse(p)
              x == FastWritePullResponse(p)
              n == PullResponseLength(p)
  <2>1. /\ WritePullResult([Success |-> p]) = Field(0, "STRUCT", w)
        /\ FastWritePullResult([Success |-> p]) = Field(0, "STRUCT", x)
        /\ PullResultLength([Success |-> p]) = FieldStop + (FieldBegin + n)
    BY NilAssumption DEF Data, WritePullResult, FastWritePullResult, PullResultLength
  <2>2. /\ PullResponseWire(p, w) /\ PullResponseWire(p, x)
        /\ BodyBytes(x) = n /\ n \in Int
    BY PullResponseWritten
  <2>. HIDE DEF w, x, n
  <2>3. Holds(Field(0, "STRUCT", w), 0, {w})
    BY HoldsField
  <2>4. /\ Holds(Field(0, "STRUCT", x), 0, {x})
        /\ Bytes(Field(0, "STRUCT", x)) = FieldStop + FieldBegin + n
    BY <2>2, WrapperWritten
  <2>5. FieldStop + (FieldBegin + n) = FieldStop + FieldBegin + n
    BY <2>2 DEF FieldStop, FieldBegin
  <2>. QED
    BY <2>1, <2>2, <2>3, <2>4, <2>5 DEF PullResultWire
<1>. QED
  BY <1>1, <1>2

-----------------------------------------------------------------------------
(* A newer peer's fields                                                   *)

Inserted(w, i) == SubSeq(w, 1, i) \o Added \o SubSeq(w, i + 1, Len(w))

LEMMA InsertedWire ==
  ASSUME NEW w, NEW F, Wire(w, F), NEW i \in 0 .. Len(w)
  PROVE  Wire(Inserted(w, i), F)
<1>. DEFINE u == SubSeq(w, 1, i)
            v == SubSeq(w, i + 1, Len(w))
            V == F \cup {Foreign}
<1>1. w \in Seq(V) /\ Len(w) \in Nat /\ i \in Nat /\ i <= Len(w)
  BY FieldsOnWire DEF Wire
<1>. HIDE DEF V
<1>2. /\ u \in Seq(V) /\ Len(u) = i /\ \A j \in 1 .. i : u[j] = w[j]
      /\ v \in Seq(V) /\ Len(v) = Len(w) - i /\ \A j \in 1 .. Len(w) - i : v[j] = w[i + j]
  <2>1. u \in Seq(V) /\ Len(u) = i /\ \A j \in 1 .. i : u[j] = w[j]
    BY <1>1
  <2>2. v \in Seq(V) /\ Len(v) = Len(w) - i
    BY <1>1
  <2>3. ASSUME NEW j \in 1 .. Len(w) - i
        PROVE  v[j] = w[i + j]
    BY <1>1
  <2>. QED
    BY <2>1, <2>2, <2>3
<1>. HIDE DEF u, v
<1>3. Wire(u, F \cap Range(u)) /\ Wire(v, F \cap Range(v))
  <2>1. u \in Seq((F \cap Range(u)) \cup {Foreign})
    BY <1>1, <1>2 DEF V, Range
  <2>2. v \in Seq((F \cap Range(v)) \cup {Foreign})
    BY <1>1, <1>2 DEF V, Range
  <2>. QED
    BY <2>1, <2>2 DEF Wire
<1>4. Wire(Added, {})
  BY DEF Wire, Added, Field, Foreign
<1>5. Wire(u \o Added \o v, (F \cap Range(u)) \cup {} \cup (F \cap Range(v)))
  BY <1>3, <1>4, WireOfConcat, Zenon
<1>6. ASSUME NEW f \in F
      PROVE  f \in Range(u) \cup Range(v)
  <2>1. PICK k \in 1 .. Len(w) : w[k] = f
    BY FieldsOnWire
  <2>2. CASE k <= i
    <3>1. k \in 1 .. i /\ u[k] = f /\ k \in DOMAIN u
      BY <1>1, <1>2, <2>1, <2>2
    <3>. QED
      BY <3>1 DEF Range
  <2>3. CASE ~ k <= i
    <3>1. k - i \in 1 .. Len(w) - i /\ i + (k - i) = k
      BY <1>1, <2>1, <2>3
    <3>2. v[k - i] = f /\ k - i \in DOMAIN v
      BY <1>1, <1>2, <2>1, <3>1
    <3>. QED
      BY <3>2 DEF Range
  <2>. QED
    BY <2>2, <2>3
<1>7. (F \cap Range(u)) \cup {} \cup (F \cap Range(v)) = F
  BY <1>6
<1>. QED
  BY <1>5, <1>7 DEF Inserted, u, v

LEMMA OneMoreWire ==
  ASSUME NEW w, NEW F, Wire(w, F)
  PROVE  \A y \in OneMore(w) : Wire(y, F)
BY InsertedWire DEF OneMore, Inserted

\* With g in the place of one of its fields, w has g and all of its other fields.
LEMMA Replaced ==
  ASSUME NEW w, NEW F, Wire(w, F), NEW i \in DOMAIN w, NEW g
  PROVE  \E H : /\ Wire([w EXCEPT ![i] = g], H)
               /\ H \subseteq F \cup {g} /\ g \in H
               /\ \A f \in F : f \in H \/ f = w[i]
<1>. DEFINE y == [w EXCEPT ![i] = g]
            H == (F \cup {g}) \cap Range(y)
<1>1. /\ \A k \in DOMAIN w : w[k] \in F \/ w[k] = Foreign
      /\ \A f \in F : \E k \in DOMAIN w : w[k] = f
      /\ Len(w) \in Nat /\ DOMAIN w = 1 .. Len(w)
  BY FieldsOnWire
<1>2. /\ DOMAIN y = DOMAIN w /\ y[i] = g
      /\ \A k \in DOMAIN w : k # i => y[k] = w[k]
      /\ y = [k \in DOMAIN w |-> y[k]]
  OBVIOUS
<1>. HIDE DEF y
<1>3. \A k \in DOMAIN w : y[k] \in H \cup {Foreign}
  BY <1>1, <1>2 DEF Range
<1>4. y \in Seq(H \cup {Foreign})
  <2>. HIDE DEF H
  <2>. QED
    BY <1>1, <1>2, <1>3
<1>5. Wire(y, H)
  BY <1>4 DEF Wire
<1>6. g \in H
  BY <1>2 DEF Range
<1>7. ASSUME NEW f \in F, f # w[i]
      PROVE  f \in H
  <2>1. PICK k \in DOMAIN w : w[k] = f
    BY <1>1
  <2>2. k # i /\ y[k] = f
    BY <1>2, <1>7, <2>1
  <2>. QED
    BY <1>2, <2>2 DEF Range
<1>8. H \subseteq F \cup {g}
  OBVIOUS
<1>. HIDE DEF H
<1>. QED
  BY <1>5, <1>6, <1>7, <1>8 DEF y

\* With v in the place of one of its structs, w holds v and all of the others.
LEMMA StructReplaced ==
  ASSUME NEW w, NEW id, NEW V, Holds(w, id, V), NEW i \in Inner(w), NEW v
  PROVE  /\ w[i].val \in V
         /\ \E U : U \subseteq V \cup {v} /\ Holds(With(w, i, v), id, U)
<1>. DEFINE g == A(id, "STRUCT", v)
<1>1. i \in DOMAIN w /\ w[i].type = "STRUCT" /\ Wire(w, Structs(id, V))
  BY DEF Inner, Holds
<1>2. PICK u \in V : w[i] = A(id, "STRUCT", u)
  <2>1. w[i] \in Structs(id, V)
    BY <1>1, FieldsOnWire DEF Foreign
  <2>. QED
    BY <2>1 DEF Structs
<1>3. w[i].val \in V
  BY <1>2 DEF A
<1>4. [w EXCEPT ![i].val = v] = [w EXCEPT ![i] = g]
  <2>1. [w[i] EXCEPT !.val = v] = g
    BY <1>2 DEF A
  <2>. HIDE DEF g
  <2>. QED
    BY <2>1
<1>5. PICK H : Wire([w EXCEPT ![i] = g], H) /\ H \subseteq Structs(id, V) \cup {g} /\ g \in H
  <2>. DEFINE F == Structs(id, V)
  <2>. HIDE DEF g, F
  <2>1. Wire(w, F) /\ i \in DOMAIN w
    BY <1>1 DEF F
  <2>2. \E H : /\ Wire([w EXCEPT ![i] = g], H)
              /\ H \subseteq F \cup {g} /\ g \in H
              /\ \A f \in F : f \in H \/ f = w[i]
    BY <2>1, Replaced
  <2>. QED
    BY <2>2 DEF F
<1>. DEFINE U == {x \in V \cup {v} : A(id, "STRUCT", x) \in H}
<1>6. H = Structs(id, U)
  <2>1. \A h \in H : \E x \in V \cup {v} : h = A(id, "STRUCT", x)
    BY <1>5 DEF Structs
  <2>. QED
    BY <2>1 DEF Structs
<1>7. U # {}
  BY <1>5
<1>8. U \subseteq V \cup {v}
  OBVIOUS
<1>. HIDE DEF U, g
<1>9. Holds(With(w, i, v), id, U)
  BY <1>4, <1>5, <1>6, <1>7 DEF Holds, With
<1>. QED
  BY <1>3, <1>8, <1>9

\* What a newer peer may make of the arguments or the result.
Grown(w, y) ==
  \/ y \in OneMore(w)
  \/ \E i \in Inner(w) : \E v \in NewerBody(w[i].val) : y = With(w, i, v)

LEMMA WrapperGrown ==
  ASSUME NEW w, NEW id, NEW V, Holds(w, id, V), NEW y, Grown(w, y)
  PROVE  \E U : /\ Holds(y, id, U)
               /\ \A u \in U : u \in V \/ \E v \in V : u \in NewerBody(v)
<1>1. CASE y \in OneMore(w)
  <2>1. Holds(y, id, V)
    BY <1>1, OneMoreWire DEF Holds
  <2>. QED
    BY <2>1
<1>2. ASSUME NEW i \in Inner(w), NEW v \in NewerBody(w[i].val), y = With(w, i, v)
      PROVE  \E U : /\ Holds(y, id, U)
                   /\ \A u \in U : u \in V \/ \E x \in V : u \in NewerBody(x)
  <2>1. w[i].val \in V /\ \E U : U \subseteq V \cup {v} /\ Holds(y, id, U)
    BY <1>2, StructReplaced
  <2>. QED
    BY <2>1
<1>. QED
  BY <1>1, <1>2 DEF Grown

\* What is in a request or a response stays, in its messages and in itself.
LEMMA BodyGrown ==
  ASSUME NEW w, NEW y \in NewerBody(w)
  PROVE  \/ y \in OneMore(w)
         \/ \E i \in Inner(w) : \E v \in OneMore(w[i].val) : y = With(w, i, v)
         \/ \E i \in DOMAIN w :
              /\ w[i].type = "LIST"
              /\ \E j \in DOMAIN w[i].val : \E v \in OneMore(w[i].val[j]) :
                   y = With(w, i, [w[i].val EXCEPT ![j] = v])
<1>1. CASE y \in OneMore(w)
  BY <1>1
<1>2. ASSUME NEW i \in DOMAIN w, NEW x \in Within(w[i]), y = With(w, i, x)
      PROVE  \/ \E k \in Inner(w) : \E v \in OneMore(w[k].val) : y = With(w, k, v)
             \/ \E k \in DOMAIN w :
                  /\ w[k].type = "LIST"
                  /\ \E j \in DOMAIN w[k].val : \E v \in OneMore(w[k].val[j]) :
                       y = With(w, k, [w[k].val EXCEPT ![j] = v])
  <2>1. CASE w[i].type = "STRUCT"
    BY <1>2, <2>1 DEF Within, Inner
  <2>2. CASE w[i].type = "LIST"
    <3>1. PICK j \in DOMAIN w[i].val :
            \E v \in OneMore(w[i].val[j]) : x = [w[i].val EXCEPT ![j] = v]
      BY <1>2, <2>2 DEF Within
    <3>. QED
      BY <1>2, <2>2, <3>1
  <2>3. CASE w[i].type # "STRUCT" /\ w[i].type # "LIST"
    BY <1>2, <2>3 DEF Within
  <2>. QED
    BY <2>1, <2>2, <2>3
<1>. QED
  BY <1>1, <1>2 DEF NewerBody

LEMMA PlainGrown ==
  ASSUME NEW w, NEW F, Wire(w, F), \A f \in F : f.type \notin {"STRUCT", "LIST"}
  PROVE  \A y \in NewerBody(w) : Wire(y, F)
<1>1. \A i \in DOMAIN w : w[i].type \notin {"STRUCT", "LIST"}
  BY FieldsOnWire DEF Foreign
<1>2. ASSUME NEW y \in NewerBody(w)
      PROVE  y \in OneMore(w)
  BY <1>1, BodyGrown DEF Inner
<1>. QED
  BY <1>2, OneMoreWire

LEMMA SendRequestGrown ==
  ASSUME NEW r, NEW w, SendRequestWire(r, w), NEW y \in NewerBody(w)
  PROVE  SendRequestWire(r, y)
<1>. DEFINE F == MessageFields(r.Message)
<1>1. PICK V : (\A v \in V : Wire(v, F)) /\ Holds(w, 1, V)
  BY DEF SendRequestWire
<1>2. \A i \in DOMAIN w : w[i].type # "LIST"
  <2>1. \A i \in DOMAIN w : w[i] \in Structs(1, V) \/ w[i] = Foreign
    BY <1>1, FieldsOnWire DEF Holds
  <2>. QED
    BY <2>1 DEF Structs, A, Foreign
<1>. HIDE DEF F
<1>3. CASE y \in OneMore(w)
  <2>1. Holds(y, 1, V)
    BY <1>1, <1>3, OneMoreWire DEF Holds
  <2>. QED
    BY <1>1, <2>1 DEF SendRequestWire, F
<1>4. ASSUME NEW i \in Inner(w), NEW v \in OneMore(w[i].val), y = With(w, i, v)
      PROVE  SendRequestWire(r, y)
  <2>1. w[i].val \in V /\ \E U : U \subseteq V \cup {v} /\ Holds(y, 1, U)
    BY <1>1, <1>4, StructReplaced
  <2>2. PICK U : U \subseteq V \cup {v} /\ Holds(y, 1, U)
    BY <2>1
  <2>3. Wire(v, F)
    BY <1>1, <2>1, OneMoreWire
  <2>4. \A u \in U : Wire(u, F)
    BY <1>1, <2>2, <2>3
  <2>. QED
    BY <2>2, <2>4 DEF SendRequestWire, F
<1>. QED
  BY <1>2, <1>3, <1>4, BodyGrown

LEMMA ListGrown ==
  ASSUME NEW list, NEW ws, ListWire(list, ws), NEW j \in DOMAIN ws, NEW v \in OneMore(ws[j])
  PROVE  ListWire(list, [ws EXCEPT ![j] = v])
<1>. DEFINE xs == [ws EXCEPT ![j] = v]
<1>1. /\ ws \in Seq(Range(ws)) /\ Len(ws) = Len(list) /\ Len(ws) \in Nat
      /\ DOMAIN ws = 1 .. Len(ws)
      /\ \A i \in 1 .. Len(list) : Wire(ws[i], MessageFields(list[i]))
  <2>1. ws \in Seq(Range(ws))
    BY DEF ListWire
  <2>2. Len(ws) \in Nat /\ DOMAIN ws = 1 .. Len(ws)
    BY <2>1
  <2>. QED
    BY <2>1, <2>2 DEF ListWire
<1>2. /\ DOMAIN xs = 1 .. Len(ws) /\ xs[j] = v
      /\ \A i \in 1 .. Len(ws) : i # j => xs[i] = ws[i]
      /\ xs = [i \in 1 .. Len(ws) |-> xs[i]]
  BY <1>1
<1>. HIDE DEF xs
<1>3. \A i \in 1 .. Len(list) : Wire(xs[i], MessageFields(list[i]))
  <2>1. Wire(v, MessageFields(list[j]))
    BY <1>1, OneMoreWire
  <2>. QED
    BY <1>1, <1>2, <2>1
<1>4. \A i \in 1 .. Len(ws) : xs[i] \in Range(xs)
  BY <1>2 DEF Range
<1>5. xs \in Seq(Range(xs)) /\ Len(xs) = Len(ws)
  BY <1>1, <1>2, <1>4
<1>. QED
  BY <1>1, <1>3, <1>5 DEF ListWire, xs

LEMMA PullResponseGrown ==
  ASSUME NEW p, NEW w, PullResponseWire(p, w), NEW y \in NewerBody(w)
  PROVE  PullResponseWire(p, y)
<1>1. PICK L : /\ p.Messages # Nil => L # {} /\ \A ws \in L : ListWire(p.Messages, ws)
               /\ Wire(w, PullResponseFields(p, L))
  BY DEF PullResponseWire
<1>. DEFINE F(M) == PullResponseFields(p, M)
<1>2. \A i \in DOMAIN w : w[i] \in F(L) \/ w[i] = Foreign
  BY <1>1, FieldsOnWire
<1>3. CASE y \in OneMore(w)
  <2>1. Wire(y, F(L))
    BY <1>1, <1>3, OneMoreWire
  <2>. QED
    BY <1>1, <2>1 DEF PullResponseWire
<1>4. \A i \in DOMAIN w : w[i].type # "STRUCT"
  <2>1. \A f \in F(L) : f.type # "STRUCT"
    BY DEF PullResponseFields, A
  <2>. QED
    BY <1>2, <2>1 DEF Foreign
<1>5. ASSUME NEW i \in DOMAIN w, w[i].type = "LIST",
             NEW j \in DOMAIN w[i].val, NEW v \in OneMore(w[i].val[j]),
             y = With(w, i, [w[i].val EXCEPT ![j] = v])
      PROVE  PullResponseWire(p, y)
  <2>1. w[i] \in F(L)
    BY <1>2, <1>5 DEF Foreign
  <2>2. p.Messages # Nil /\ \E ws \in L : w[i] = A(3, "LIST", ws)
    BY <1>5, <2>1 DEF PullResponseFields, A
  <2>3. PICK ws \in L : w[i] = A(3, "LIST", ws)
    BY <2>2
  <2>. DEFINE xs == [ws EXCEPT ![j] = v]
              g == A(3, "LIST", xs)
  <2>4. w[i].val = ws
    BY <2>3 DEF A
  <2>5. ListWire(p.Messages, xs)
    BY <1>1, <1>5, <2>2, <2>4, ListGrown
  <2>6. y = [w EXCEPT ![i] = g]
    <3>1. [w[i] EXCEPT !.val = xs] = g
      BY <2>3 DEF A
    <3>2. y = [w EXCEPT ![i].val = xs]
      BY <1>5, <2>4 DEF With
    <3>. HIDE DEF g, xs
    <3>. QED
      BY <3>1, <3>2
  <2>7. PICK H : /\ Wire(y, H)
                 /\ H \subseteq F(L) \cup {g} /\ g \in H
                 /\ \A f \in F(L) : f \in H \/ f = w[i]
    <3>. HIDE DEF g, F
    <3>1. Wire(w, F(L))
      BY <1>1 DEF F
    <3>2. \E H : /\ Wire([w EXCEPT ![i] = g], H)
                /\ H \subseteq F(L) \cup {g} /\ g \in H
                /\ \A f \in F(L) : f \in H \/ f = w[i]
      BY <3>1, Replaced
    <3>. QED
      BY <2>6, <3>2
  <2>. DEFINE M == {zs \in L \cup {xs} : A(3, "LIST", zs) \in H}
  <2>8. H = F(M)
    <3>. DEFINE Rest == {f \in F(L) : f.type # "LIST"}
    <3>1. \A f \in F(L) : f \in Rest \/ \E zs \in L : f = A(3, "LIST", zs)
      BY DEF PullResponseFields, A
    <3>2. F(M) = Rest \cup {A(3, "LIST", zs) : zs \in M}
      <4>. DEFINE plain == {A(1, "I32", p.Code), A(2, "STRING", p.Msg)}
                             \cup (IF p.HasMore = Nil THEN {} ELSE {A(4, "BOOL", p.HasMore)})
                             \cup (IF p.NextCursor = Nil THEN {} ELSE {A(5, "I64", p.NextCursor)})
                  lists(K) == {A(3, "LIST", zs) : zs \in K}
      <4>1. F(M) = plain \cup lists(M) /\ F(L) = plain \cup lists(L)
        BY <2>2 DEF PullResponseFields
      <4>2. \A f \in plain : f.type # "LIST"
        BY DEF A
      <4>3. \A f \in lists(L) : f.type = "LIST"
        BY DEF A
      <4>. HIDE DEF F, plain, lists
      <4>4. Rest = plain
        BY <4>1, <4>2, <4>3
      <4>. QED
        BY <4>1, <4>4 DEF lists
    <3>3. Rest \subseteq H
      BY <1>5, <2>7
    <3>4. {A(3, "LIST", zs) : zs \in M} \subseteq H
      OBVIOUS
    <3>5. ASSUME NEW h \in H
          PROVE  h \in Rest \/ \E zs \in M : h = A(3, "LIST", zs)
      <4>1. h \in Rest \/ \E zs \in L \cup {xs} : h = A(3, "LIST", zs)
        <5>. HIDE DEF F, Rest, xs
        <5>. QED
          BY <2>7, <3>1
      <4>. HIDE DEF Rest, xs
      <4>. QED
        BY <4>1
    <3>. HIDE DEF Rest, M, F
    <3>. QED
      BY <3>2, <3>3, <3>4, <3>5
  <2>9. M # {} /\ \A zs \in M : ListWire(p.Messages, zs)
    BY <1>1, <2>2, <2>5, <2>7
  <2>. HIDE DEF M
  <2>. QED
    BY <2>7, <2>8, <2>9 DEF PullResponseWire
<1>. QED
  BY <1>3, <1>4, <1>5, BodyGrown DEF Inner

LEMMA NoneNested ==
  /\ \A r : \A f \in PullRequestFields(r) : f.type \notin {"STRUCT", "LIST"}
  /\ \A p : \A f \in SendResponseFields(p) : f.type \notin {"STRUCT", "LIST"}
BY DEF PullRequestFields, SendResponseFields, A

LEMMA ArgsGrown ==
  ASSUME NEW w, NEW y, Grown(w, y), NEW r
  PROVE  /\ SendArgsWire(r, w) => SendArgsWire(r, y)
         /\ PullArgsWire(r, w) => PullArgsWire(r, y)
<1>1. ASSUME SendArgsWire(r, w)
      PROVE  SendArgsWire(r, y)
  <2>1. PICK V : (\A v \in V : SendRequestWire(r, v)) /\ Holds(w, 1, V)
    BY <1>1 DEF SendArgsWire
  <2>2. PICK U : /\ Holds(y, 1, U)
                 /\ \A u \in U : u \in V \/ \E v \in V : u \in NewerBody(v)
    BY <2>1, WrapperGrown
  <2>3. \A u \in U : SendRequestWire(r, u)
    BY <2>1, <2>2, SendRequestGrown
  <2>. QED
    BY <2>2, <2>3 DEF SendArgsWire
<1>2. ASSUME PullArgsWire(r, w)
      PROVE  PullArgsWire(r, y)
  <2>1. PICK V : (\A v \in V : Wire(v, PullRequestFields(r))) /\ Holds(w, 2, V)
    BY <1>2 DEF PullArgsWire
  <2>2. PICK U : /\ Holds(y, 2, U)
                 /\ \A u \in U : u \in V \/ \E v \in V : u \in NewerBody(v)
    BY <2>1, WrapperGrown
  <2>3. \A u \in U : Wire(u, PullRequestFields(r))
    BY <2>1, <2>2, PlainGrown, NoneNested
  <2>. QED
    BY <2>2, <2>3 DEF PullArgsWire
<1>. QED
  BY <1>1, <1>2

LEMMA ResultGrown ==
  ASSUME NEW w, NEW y, Grown(w, y), NEW p
  PROVE  /\ SendResultWire(p, w) => SendResultWire(p, y)
         /\ PullResultWire(p, w) => PullResultWire(p, y)
<1>1. ASSUME SendResultWire(p, w)
      PROVE  SendResultWire(p, y)
  <2>1. PICK V : (\A v \in V : Wire(v, SendResponseFields(p))) /\ Holds(w, 0, V)
    BY <1>1 DEF SendResultWire
  <2>2. PICK U : /\ Holds(y, 0, U)
                 /\ \A u \in U : u \in V \/ \E v \in V : u \in NewerBody(v)
    BY <2>1, WrapperGrown
  <2>3. \A u \in U : Wire(u, SendResponseFields(p))
    BY <2>1, <2>2, PlainGrown, NoneNested
  <2>. QED
    BY <2>2, <2>3 DEF SendResultWire
<1>2. ASSUME PullResultWire(p, w)
      PROVE  PullResultWire(p, y)
  <2>1. PICK V : (\A v \in V : PullResponseWire(p, v)) /\ Holds(w, 0, V)
    BY <1>2 DEF PullResultWire
  <2>2. PICK U : /\ Holds(y, 0, U)
                 /\ \A u \in U : u \in V \/ \E v \in V : u \in NewerBody(v)
    BY <2>1, WrapperGrown
  <2>3. \A u \in U : PullResponseWire(p, u)
    BY <2>1, <2>2, PullResponseGrown
  <2>. QED
    BY <2>2, <2>3 DEF PullResultWire
<1>. QED
  BY <1>1, <1>2

\* A struct that ends too early is not read.
LEMMA CutNotRead ==
  ASSUME NEW w, \E i \in DOMAIN w : Cut(w[i])
  PROVE  /\ ReadSendArgs(w) = Error /\ FastReadSendArgs(w).val = Error
         /\ ReadPullArgs(w) = Error /\ FastReadPullArgs(w).val = Error
         /\ ReadSendResult(w) = Error /\ FastReadSendResult(w).val = Error
         /\ ReadPullResult(w) = Error /\ FastReadPullResult(w).val = Error
<1>1. ASSUME NEW S, NEW value
      PROVE  ReadLoop(S, w, value) = Error
  BY DEF ReadLoop
<1>2. ASSUME NEW S, NEW value
      PROVE  FastReadLoop(S, w, value).val = Error
  <2>1. ReadLoop(S, w, [i \in KnownFields(S, w) |-> value[i].val]) = Error
    BY <1>1
  <2>. QED
    BY <2>1 DEF FastReadLoop
<1>. QED
  BY <1>1, <1>2 DEF ReadSendArgs, FastReadSendArgs, ReadPullArgs, FastReadPullArgs,
                    ReadSendResult, FastReadSendResult, ReadPullResult, FastReadPullResult

\* Nor is one that breaks off at its end.
LEMMA BrokenOff ==
  ASSUME NEW w, Len(w) \in Nat, w = [i \in 1 .. Len(w) |-> w[i]]
  PROVE  \E i \in DOMAIN (w \o End) : Cut((w \o End)[i])
<1>. DEFINE e == [id |-> 0, type |-> "END", val |-> 0]
<1>1. w \in Seq(Range(w) \cup {e})
  BY DEF Range
<1>2. End = <<e>>
  BY DEF End, Field
<1>3. <<e>> \in Seq(Range(w) \cup {e}) /\ Len(<<e>>) = 1 /\ <<e>>[1] = e
  OBVIOUS
<1>. HIDE DEF e
<1>4. Len(w) + 1 \in DOMAIN (w \o <<e>>) /\ (w \o <<e>>)[Len(w) + 1] = e
  BY <1>1, <1>3
<1>5. Cut(e)
  BY DEF Cut, e
<1>. QED
  BY <1>2, <1>4, <1>5

LEMMA EndCut == \E i \in DOMAIN End : Cut(End[i])
<1>1. Len(<< >>) = 0 /\ << >> = [i \in 1 .. 0 |-> << >>[i]]
  OBVIOUS
<1>. QED
  BY DEF End, Field, Cut

-----------------------------------------------------------------------------
(* The call                                                                *)

\* What each wire carries, by the method called.
RequestOn(m, r, w)  == IF m = "Send" THEN SendArgsWire(r, w) ELSE PullArgsWire(r, w)
ResponseOn(m, p, w) == IF m = "Send" THEN SendResultWire(p, w) ELSE PullResultWire(p, w)

Requests(m) == IF m = "Send" THEN SendRequests ELSE PullRequests
Outcomes(m) == IF m = "Send" THEN SendOutcomes ELSE PullOutcomes

CallInv ==
  /\ step \in Steps /\ method \in {"Send", "Pull"} /\ damaged \in BOOLEAN
  /\ step # "start" => given \in Requests(method)

\* What is under way is the request or the response, or is seen to be broken.
WireInv ==
  /\ step = "sent" /\ ~ damaged => RequestOn(method, given, wire)
  /\ step = "answered" /\ ~ damaged => ResponseOn(method, served, wire)
  /\ damaged => step \in {"sent", "answered", "error"}
  /\ damaged /\ step # "error" => \E i \in DOMAIN wire : Cut(wire[i])

\* What has been read is what was written.
ReadInv ==
  /\ step \in {"arrived", "answering", "answered", "done"} => heard = given
  /\ step \in {"answering", "answered", "done"} =>
       \E o \in Outcomes(method) : ~ o.err /\ served = o.resp
  /\ step = "done" => got = served

\* The bytes announced are those of what is written.
RoomInv == room # Nil => room = Bytes(wire)

\* Only a broken connection or the handler ends a call in an error.
ErrorInv ==
  /\ step \in {"answering", "answered", "done"} => heard # Nil
  /\ step = "error" => damaged \/ (heard # Nil /\ served = Nil)

RpcInv == CallInv /\ WireInv /\ ReadInv /\ RoomInv /\ ErrorInv

LEMMA Typed ==
  /\ \A r \in Requests("Send") : r \in SendRequestType
  /\ \A r \in Requests("Pull") : r \in PullRequestType
  /\ \A o \in Outcomes("Send") : o.resp \in SendResponseType
  /\ \A o \in Outcomes("Pull") : o.resp \in PullResponseType
  /\ \A m \in {"Send", "Pull"} : \A o \in Outcomes(m) : o.err \/ o.resp.Code = 0
BY CallAssumption DEF CallAssumption, Requests, Outcomes

\* The arguments and the result are values, Nil and Error are not.
LEMMA Values ==
  /\ \A r \in SendRequestType : One("Req", r) # Error /\ One("Req", r).Req = r
  /\ \A r \in PullRequestType : One("Req", r) # Error /\ One("Req", r).Req = r
  /\ \A p \in SendResponseType :
       One("Success", p) # Error /\ One("Success", p).Success = p /\ p # Nil
  /\ \A p \in PullResponseType :
       One("Success", p) # Error /\ One("Success", p).Success = p /\ p # Nil
<1>1. \A r : One("Req", r) = [Req |-> r] /\ One("Req", r).Req = r
  BY DEF One
<1>2. \A p : One("Success", p) = [Success |-> p] /\ One("Success", p).Success = p
  BY DEF One
<1>3. \A r \in SendRequestType : [Req |-> r] \in Data
  BY DEF Data
<1>4. \A r \in PullRequestType : [Req |-> r] \in Data
  BY DEF Data
<1>5. \A p \in SendResponseType : [Success |-> p] \in Data /\ p \in Data
  BY DEF Data
<1>6. \A p \in PullResponseType : [Success |-> p] \in Data /\ p \in Data
  BY DEF Data
<1>7. Nil \notin Data /\ Error \notin Data
  BY NilAssumption DEF NilAssumption
<1>. QED
  BY <1>1, <1>2, <1>3, <1>4, <1>5, <1>6, <1>7

\* What the handler hears: the request, or nothing if the connection broke.
LEMMA Hearing ==
  ASSUME CallInv, WireInv, ReadArgs
  PROVE  IF damaged THEN Fail
         ELSE step' = "arrived" /\ heard' = given /\ got' = got
<1>1. step = "sent" /\ given \in Requests(method) /\ method \in {"Send", "Pull"}
  BY DEF ReadArgs, CallInv
<1>2. CASE damaged
  <2>1. \E i \in DOMAIN wire : Cut(wire[i])
    BY <1>1, <1>2 DEF WireInv
  <2>2. /\ ReadSendArgs(wire) = Error /\ FastReadSendArgs(wire).val = Error
        /\ ReadPullArgs(wire) = Error /\ FastReadPullArgs(wire).val = Error
    BY <2>1, CutNotRead
  <2>. QED
    BY <1>2, <2>2 DEF ReadArgs, Hear
<1>3. CASE ~ damaged /\ method = "Send"
  <2>1. given \in SendRequestType /\ SendArgsWire(given, wire)
    BY <1>1, <1>3, Typed DEF WireInv, RequestOn
  <2>2. /\ ReadSendArgs(wire) = One("Req", given)
        /\ FastReadSendArgs(wire) = [val |-> One("Req", given), offset |-> Bytes(wire)]
    BY <2>1, SendArgsRead
  <2>3. One("Req", given) # Error /\ One("Req", given).Req = given
    BY <2>1, Values
  <2>. QED
    BY <1>3, <2>2, <2>3 DEF ReadArgs, Hear
<1>4. CASE ~ damaged /\ method = "Pull"
  <2>1. given \in PullRequestType /\ PullArgsWire(given, wire)
    BY <1>1, <1>4, Typed DEF WireInv, RequestOn
  <2>2. /\ ReadPullArgs(wire) = One("Req", given)
        /\ FastReadPullArgs(wire) = [val |-> One("Req", given), offset |-> Bytes(wire)]
    BY <2>1, PullArgsRead
  <2>3. One("Req", given) # Error /\ One("Req", given).Req = given
    BY <2>1, Values
  <2>. QED
    BY <1>4, <2>2, <2>3 DEF ReadArgs, Hear
<1>. QED
  BY <1>1, <1>2, <1>3, <1>4 DEF CallInv

LEMMA ServedTyped ==
  ASSUME CallInv, ReadInv, step \in {"answering", "answered", "done"}
  PROVE  /\ method = "Send" => served \in SendResponseType
         /\ method = "Pull" => served \in PullResponseType
         /\ served # Nil /\ served.Code = 0
<1>1. PICK o \in Outcomes(method) : ~ o.err /\ served = o.resp
  BY DEF ReadInv
<1>2. method \in {"Send", "Pull"}
  BY DEF CallInv
<1>3. /\ method = "Send" => served \in SendResponseType
      /\ method = "Pull" => served \in PullResponseType
      /\ served.Code = 0
  BY <1>1, <1>2, Typed
<1>. QED
  BY <1>2, <1>3, Values

\* What the client gets, likewise.
LEMMA Receiving ==
  ASSUME CallInv, WireInv, ReadInv, ReadResult
  PROVE  IF damaged THEN Fail
         ELSE step' = "done" /\ got' = served /\ heard' = heard
<1>1. step = "answered" /\ method \in {"Send", "Pull"}
  BY DEF ReadResult, CallInv
<1>2. CASE damaged
  <2>1. \E i \in DOMAIN wire : Cut(wire[i])
    BY <1>1, <1>2 DEF WireInv
  <2>2. /\ ReadSendResult(wire) = Error /\ FastReadSendResult(wire).val = Error
        /\ ReadPullResult(wire) = Error /\ FastReadPullResult(wire).val = Error
    BY <2>1, CutNotRead
  <2>. QED
    BY <1>2, <2>2 DEF ReadResult, Receive
<1>3. CASE ~ damaged /\ method = "Send"
  <2>1. served \in SendResponseType /\ SendResultWire(served, wire)
    BY <1>1, <1>3, ServedTyped DEF WireInv, ResponseOn
  <2>2. /\ ReadSendResult(wire) = One("Success", served)
        /\ FastReadSendResult(wire) = [val |-> One("Success", served), offset |-> Bytes(wire)]
    BY <2>1, SendResultRead
  <2>3. One("Success", served) # Error /\ One("Success", served).Success = served
    BY <2>1, Values
  <2>. QED
    BY <1>3, <2>2, <2>3 DEF ReadResult, Receive, GetSuccess
<1>4. CASE ~ damaged /\ method = "Pull"
  <2>1. served \in PullResponseType /\ PullResultWire(served, wire)
    BY <1>1, <1>4, ServedTyped DEF WireInv, ResponseOn
  <2>2. /\ ReadPullResult(wire) = One("Success", served)
        /\ FastReadPullResult(wire) = [val |-> One("Success", served), offset |-> Bytes(wire)]
    BY <2>1, PullResultRead
  <2>3. One("Success", served) # Error /\ One("Success", served).Success = served
    BY <2>1, Values
  <2>. QED
    BY <1>4, <2>2, <2>3 DEF ReadResult, Receive, GetSuccess
<1>. QED
  BY <1>1, <1>2, <1>3, <1>4 DEF CallInv

\* However the connection breaks, the struct under way is cut off.
LEMMA Breaking ==
  ASSUME CallInv, WireInv, Break
  PROVE  \E i \in DOMAIN wire' : Cut(wire'[i])
<1>1. step \in {"sent", "answered"} /\ ~ damaged
  BY DEF Break, UnderWay
<1>2. \E id, V : Holds(wire, id, V)
  <2>1. CASE step = "sent"
    <3>1. SendArgsWire(given, wire) \/ PullArgsWire(given, wire)
      BY <1>1, <2>1 DEF WireInv, RequestOn
    <3>. QED
      BY <3>1 DEF SendArgsWire, PullArgsWire
  <2>2. CASE step = "answered"
    <3>1. SendResultWire(served, wire) \/ PullResultWire(served, wire)
      BY <1>1, <2>2 DEF WireInv, ResponseOn
    <3>. QED
      BY <3>1 DEF SendResultWire, PullResultWire
  <2>. QED
    BY <1>1, <2>1, <2>2
<1>3. PICK T : wire \in Seq(T)
  BY <1>2 DEF Holds, Wire
<1>4. Len(wire) \in Nat /\ DOMAIN wire = 1 .. Len(wire)
  BY <1>3
<1>5. ASSUME NEW n \in 0 .. Len(wire)
      PROVE  /\ Len(SubSeq(wire, 1, n)) = n /\ n \in Nat
             /\ SubSeq(wire, 1, n) = [i \in 1 .. n |-> SubSeq(wire, 1, n)[i]]
  <2>. DEFINE x == SubSeq(wire, 1, n)
  <2>1. x \in Seq(T) /\ Len(x) = n /\ n \in Nat
    BY <1>3, <1>4
  <2>. HIDE DEF x
  <2>2. x = [i \in 1 .. n |-> x[i]]
    BY <2>1
  <2>. QED
    BY <2>1, <2>2 DEF x
<1>6. ASSUME NEW n \in 0 .. Len(wire), wire' = SubSeq(wire, 1, n) \o End
      PROVE  \E i \in DOMAIN wire' : Cut(wire'[i])
  <2>. DEFINE x == SubSeq(wire, 1, n)
  <2>1. Len(x) \in Nat /\ x = [i \in 1 .. Len(x) |-> x[i]] /\ wire' = x \o End
    BY <1>5, <1>6
  <2>. HIDE DEF x
  <2>. QED
    BY <2>1, BrokenOff
<1>7. ASSUME NEW n \in Inner(wire), NEW v,
             wire' = [SubSeq(wire, 1, n) EXCEPT ![n].val = v] \o End
      PROVE  \E i \in DOMAIN wire' : Cut(wire'[i])
  <2>. DEFINE x == SubSeq(wire, 1, n)
              y == [x EXCEPT ![n].val = v]
  <2>1. n \in 0 .. Len(wire)
    BY <1>4 DEF Inner
  <2>2. Len(x) = n /\ n \in Nat /\ x = [i \in 1 .. n |-> x[i]]
    BY <1>5, <2>1
  <2>. HIDE DEF x
  <2>3. DOMAIN y = 1 .. n /\ y = [i \in 1 .. n |-> y[i]]
    BY <2>2
  <2>4. wire' = y \o End
    BY <1>7 DEF x
  <2>. HIDE DEF y
  <2>5. Len(y) = n
    BY <2>2, <2>3
  <2>6. Len(y) \in Nat /\ y = [i \in 1 .. Len(y) |-> y[i]]
    BY <2>2, <2>3, <2>5
  <2>. QED
    BY <2>4, <2>6, BrokenOff
<1>. QED
  BY <1>6, <1>7 DEF Break

\* The writers put the request on the wire, and announce its bytes.
LEMMA WritingArgs ==
  ASSUME CallInv, WriteArgs
  PROVE  RequestOn(method, given, wire') /\ (room' = Nil \/ room' = Bytes(wire'))
<1>1. given \in Requests(method) /\ method \in {"Send", "Pull"}
  BY DEF WriteArgs, CallInv
<1>2. CASE method = "Send"
  <2>1. given \in SendRequestType
    BY <1>1, <1>2, Typed
  <2>2. \/ wire' = WriteSendArgs([Req |-> given]) /\ room' = Nil
        \/ /\ wire' = FastWriteSendArgs([Req |-> given])
           /\ room' = SendArgsLength([Req |-> given])
    BY <1>2 DEF WriteArgs, Stream, Buffer
  <2>. QED
    BY <1>2, <2>1, <2>2, ArgsWritten DEF RequestOn
<1>3. CASE method = "Pull"
  <2>1. given \in PullRequestType
    BY <1>1, <1>3, Typed
  <2>2. \/ wire' = WritePullArgs([Req |-> given]) /\ room' = Nil
        \/ /\ wire' = FastWritePullArgs([Req |-> given])
           /\ room' = PullArgsLength([Req |-> given])
    BY <1>3 DEF WriteArgs, Stream, Buffer
  <2>. QED
    BY <1>3, <2>1, <2>2, ArgsWritten DEF RequestOn
<1>. QED
  BY <1>1, <1>2, <1>3

LEMMA WritingResult ==
  ASSUME CallInv, ReadInv, WriteResult
  PROVE  ResponseOn(method, served, wire') /\ (room' = Nil \/ room' = Bytes(wire'))
<1>1. method \in {"Send", "Pull"} /\ step = "answering"
  BY DEF WriteResult, CallInv
<1>2. CASE method = "Send"
  <2>1. served \in SendResponseType
    BY <1>1, <1>2, ServedTyped
  <2>2. \/ wire' = WriteSendResult([Success |-> served]) /\ room' = Nil
        \/ /\ wire' = FastWriteSendResult([Success |-> served])
           /\ room' = SendResultLength([Success |-> served])
    BY <1>2 DEF WriteResult, Stream, Buffer
  <2>. QED
    BY <1>2, <2>1, <2>2, ResultsWritten DEF ResponseOn
<1>3. CASE method = "Pull"
  <2>1. served \in PullResponseType
    BY <1>1, <1>3, ServedTyped
  <2>2. \/ wire' = WritePullResult([Success |-> served]) /\ room' = Nil
        \/ /\ wire' = FastWritePullResult([Success |-> served])
           /\ room' = PullResultLength([Success |-> served])
    BY <1>3 DEF WriteResult, Stream, Buffer
  <2>. QED
    BY <1>3, <2>1, <2>2, ResultsWritten DEF ResponseOn
<1>. QED
  BY <1>1, <1>2, <1>3

\* A newer peer's fields leave the request and the response on their wires.
LEMMA MakingNewer ==
  ASSUME CallInv, WireInv, Newer
  PROVE  /\ step = "sent" => RequestOn(method, given, wire')
         /\ step = "answered" => ResponseOn(method, served, wire')
<1>1. Grown(wire, wire') /\ ~ damaged
  BY DEF Newer, UnderWay, Grown
<1>2. CASE step = "sent"
  <2>1. RequestOn(method, given, wire)
    BY <1>1, <1>2 DEF WireInv
  <2>. QED
    BY <1>1, <1>2, <2>1, ArgsGrown DEF RequestOn
<1>3. CASE step = "answered"
  <2>1. ResponseOn(method, served, wire)
    BY <1>1, <1>3 DEF WireInv
  <2>. QED
    BY <1>1, <1>3, <2>1, ResultGrown DEF ResponseOn
<1>. QED
  BY <1>2, <1>3

LEMMA CallPreserved == RpcInv /\ [CNext]_cvars => CallInv'
<1>. SUFFICES ASSUME RpcInv, [CNext]_cvars
              PROVE  CallInv'
  OBVIOUS
<1>. USE DEF RpcInv, CallInv, Steps
<1>1. CASE Call
  BY <1>1 DEF Call, Requests
<1>2. CASE WriteArgs
  BY <1>2 DEF WriteArgs
<1>3. CASE Newer
  BY <1>3 DEF Newer
<1>4. CASE Break
  BY <1>4 DEF Break
<1>5. CASE ReadArgs
  BY <1>5, Hearing DEF ReadArgs, Fail
<1>6. CASE Handle
  BY <1>6 DEF Handle
<1>7. CASE WriteResult
  BY <1>7 DEF WriteResult
<1>8. CASE ReadResult
  BY <1>8, Receiving DEF ReadResult, Fail
<1>9. CASE UNCHANGED cvars
  BY <1>9 DEF cvars
<1>. QED
  BY <1>1, <1>2, <1>3, <1>4, <1>5, <1>6, <1>7, <1>8, <1>9 DEF CNext, Carry

LEMMA WirePreserved == RpcInv /\ [CNext]_cvars => WireInv'
<1>. SUFFICES ASSUME RpcInv, [CNext]_cvars
              PROVE  WireInv'
  OBVIOUS
<1>0. CallInv /\ WireInv /\ ReadInv
  BY DEF RpcInv
<1>1. CASE Call
  BY <1>0, <1>1 DEF Call, WireInv
<1>2. CASE WriteArgs
  <2>1. RequestOn(method, given, wire')
    BY <1>0, <1>2, WritingArgs
  <2>. QED
    BY <1>0, <1>2, <2>1 DEF WriteArgs, WireInv
<1>3. CASE Newer
  <2>1. /\ step = "sent" => RequestOn(method, given, wire')
        /\ step = "answered" => ResponseOn(method, served, wire')
    BY <1>0, <1>3, MakingNewer
  <2>. QED
    BY <1>0, <1>3, <2>1 DEF Newer, UnderWay, WireInv
<1>4. CASE Break
  <2>1. \E i \in DOMAIN wire' : Cut(wire'[i])
    BY <1>0, <1>4, Breaking
  <2>. QED
    BY <1>0, <1>4, <2>1 DEF Break, UnderWay, WireInv
<1>5. CASE ReadArgs
  <2>1. IF damaged THEN step' = "error" ELSE step' = "arrived"
    BY <1>0, <1>5, Hearing DEF Fail
  <2>. QED
    BY <1>0, <1>5, <2>1 DEF ReadArgs, WireInv
<1>6. CASE Handle
  BY <1>0, <1>6 DEF Handle, WireInv
<1>7. CASE WriteResult
  <2>1. ResponseOn(method, served, wire')
    BY <1>0, <1>7, WritingResult
  <2>. QED
    BY <1>0, <1>7, <2>1 DEF WriteResult, WireInv
<1>8. CASE ReadResult
  <2>1. IF damaged THEN step' = "error" ELSE step' = "done"
    BY <1>0, <1>8, Receiving DEF Fail
  <2>. QED
    BY <1>0, <1>8, <2>1 DEF ReadResult, WireInv
<1>9. CASE UNCHANGED cvars
  BY <1>0, <1>9 DEF cvars, WireInv
<1>. QED
  BY <1>1, <1>2, <1>3, <1>4, <1>5, <1>6, <1>7, <1>8, <1>9 DEF CNext, Carry

LEMMA ReadPreserved == RpcInv /\ [CNext]_cvars => ReadInv'
<1>. SUFFICES ASSUME RpcInv, [CNext]_cvars
              PROVE  ReadInv'
  OBVIOUS
<1>0. CallInv /\ WireInv /\ ReadInv
  BY DEF RpcInv
<1>1. CASE Call
  BY <1>0, <1>1 DEF Call, ReadInv
<1>2. CASE WriteArgs
  BY <1>0, <1>2 DEF WriteArgs, ReadInv
<1>3. CASE Newer
  BY <1>0, <1>3 DEF Newer, UnderWay, ReadInv
<1>4. CASE Break
  BY <1>0, <1>4 DEF Break, UnderWay, ReadInv
<1>5. CASE ReadArgs
  <2>1. step' = "error" \/ (step' = "arrived" /\ heard' = given)
    BY <1>0, <1>5, Hearing DEF Fail
  <2>. QED
    BY <1>0, <1>5, <2>1 DEF ReadArgs, ReadInv
<1>6. CASE Handle
  <2>1. step = "arrived" /\ method' = method /\ given' = given /\ heard' = heard
    BY <1>6 DEF Handle
  <2>2. \/ step' = "error"
        \/ step' = "answering" /\ \E o \in Outcomes(method) : ~ o.err /\ served' = o.resp
    BY <1>6 DEF Handle, Outcomes, Dropped
  <2>. QED
    BY <1>0, <2>1, <2>2 DEF ReadInv
<1>7. CASE WriteResult
  BY <1>0, <1>7 DEF WriteResult, ReadInv
<1>8. CASE ReadResult
  <2>1. step' = "error" \/ (step' = "done" /\ got' = served /\ heard' = heard)
    BY <1>0, <1>8, Receiving DEF Fail
  <2>. QED
    BY <1>0, <1>8, <2>1 DEF ReadResult, ReadInv
<1>9. CASE UNCHANGED cvars
  BY <1>0, <1>9 DEF cvars, ReadInv
<1>. QED
  BY <1>1, <1>2, <1>3, <1>4, <1>5, <1>6, <1>7, <1>8, <1>9 DEF CNext, Carry

LEMMA RoomPreserved == RpcInv /\ [CNext]_cvars => RoomInv'
<1>. SUFFICES ASSUME RpcInv, [CNext]_cvars
              PROVE  RoomInv'
  OBVIOUS
<1>0. CallInv /\ ReadInv /\ RoomInv
  BY DEF RpcInv
<1>1. CASE WriteArgs
  BY <1>0, <1>1, WritingArgs DEF RoomInv
<1>2. CASE WriteResult
  BY <1>0, <1>2, WritingResult DEF RoomInv
<1>3. CASE Newer \/ Break
  BY <1>3 DEF Newer, Break, RoomInv
<1>4. CASE Call \/ ReadArgs \/ Handle \/ ReadResult \/ UNCHANGED cvars
  BY <1>0, <1>4 DEF Call, ReadArgs, Handle, ReadResult, cvars, RoomInv
<1>. QED
  BY <1>1, <1>2, <1>3, <1>4 DEF CNext, Carry

LEMMA ErrorPreserved == RpcInv /\ [CNext]_cvars => ErrorInv'
<1>. SUFFICES ASSUME RpcInv, [CNext]_cvars
              PROVE  ErrorInv'
  OBVIOUS
<1>0. CallInv /\ WireInv /\ ReadInv /\ ErrorInv
  BY DEF RpcInv
<1>1. CASE Call \/ WriteArgs \/ WriteResult
  BY <1>0, <1>1 DEF Call, WriteArgs, WriteResult, ErrorInv
<1>2. CASE Newer \/ Break
  BY <1>0, <1>2 DEF Newer, Break, UnderWay, ErrorInv
<1>3. CASE ReadArgs
  <2>1. damaged \/ step' = "arrived"
    BY <1>0, <1>3, Hearing
  <2>. QED
    BY <1>3, <2>1, Hearing, <1>0 DEF ReadArgs, Fail, ErrorInv
<1>4. CASE Handle
  <2>1. heard # Nil
    <3>1. heard = given /\ given \in Requests(method) /\ method \in {"Send", "Pull"}
      BY <1>0, <1>4 DEF Handle, ReadInv, CallInv
    <3>2. given \in SendRequestType \cup PullRequestType
      BY <3>1, Typed
    <3>. QED
      BY <3>1, <3>2, NilAssumption DEF Data
  <2>. QED
    BY <1>4, <2>1 DEF Handle, ErrorInv
<1>5. CASE ReadResult
  <2>1. IF damaged THEN step' = "error" ELSE step' = "done" /\ heard' = heard
    BY <1>0, <1>5, Receiving DEF Fail
  <2>. QED
    BY <1>0, <1>5, <2>1 DEF ReadResult, ErrorInv
<1>6. CASE UNCHANGED cvars
  BY <1>0, <1>6 DEF cvars, ErrorInv
<1>. QED
  BY <1>1, <1>2, <1>3, <1>4, <1>5, <1>6 DEF CNext, Carry

THEOREM RpcInvariant == CSpec => []RpcInv
<1>1. CInit => RpcInv
  BY DEF CInit, RpcInv, CallInv, WireInv, ReadInv, RoomInv, ErrorInv, Steps
<1>2. RpcInv /\ [CNext]_cvars => RpcInv'
  BY CallPreserved, WirePreserved, ReadPreserved, RoomPreserved, ErrorPreserved DEF RpcInv
<1>. QED
  BY <1>1, <1>2, PTL DEF CSpec

(***************************************************************************)
(* What the handler sees is what the HTTP server asked: no writer leaves a *)
(* field out, no reader takes one for another, and fields a newer peer has *)
(* added are stepped over.                                                 *)
(***************************************************************************)
THEOREM RequestsArrive == CSpec => []RequestArrives
<1>1. RpcInv => RequestArrives
  <2>. SUFFICES ASSUME RpcInv, step \in {"arrived", "answering", "answered", "done"}
                PROVE  IF method = "Send" THEN EqualSendRequest(heard, given)
                                          ELSE EqualPullRequest(heard, given)
    BY DEF RequestArrives
  <2>1. heard = given /\ given \in Requests(method) /\ method \in {"Send", "Pull"}
    BY DEF RpcInv, CallInv, ReadInv
  <2>2. CASE method = "Send"
    BY <2>1, <2>2 DEF EqualSendRequest, EqualMessage
  <2>3. CASE method = "Pull"
    BY <2>1, <2>3 DEF EqualPullRequest
  <2>. QED
    BY <2>1, <2>2, <2>3
<1>. QED
  BY RpcInvariant, <1>1, PTL

LEMMA EqualItself ==
  /\ \A p : EqualSendResponse(p, p)
  /\ \A p : EqualPullResponse(p, p)
<1>1. \A m : EqualMessage(m, m)
  BY DEF EqualMessage
<1>. QED
  BY <1>1 DEF EqualSendResponse, EqualPullResponse

(***************************************************************************)
(* What the client returns without error is what the handler answered      *)
(* with: never nil, and with code 0.                                       *)
(***************************************************************************)
THEOREM ResponsesArrive == CSpec => []ResponseArrives
<1>1. RpcInv => ResponseArrives
  <2>. SUFFICES ASSUME RpcInv, step = "done"
                PROVE  /\ got # Nil /\ got.Code = 0
                       /\ IF method = "Send" THEN EqualSendResponse(got, served)
                                             ELSE EqualPullResponse(got, served)
    BY DEF ResponseArrives
  <2>1. got = served
    BY DEF RpcInv, ReadInv
  <2>2. served # Nil /\ served.Code = 0
    BY ServedTyped DEF RpcInv
  <2>. QED
    BY <2>1, <2>2, EqualItself
<1>. QED
  BY RpcInvariant, <1>1, PTL

(***************************************************************************)
(* The buffer reserved for a struct has exactly the bytes it takes.        *)
(***************************************************************************)
THEOREM BuffersFit == CSpec => []BufferFits
<1>1. RpcInv => BufferFits
  BY DEF RpcInv, RoomInv, BufferFits, Bytes
<1>. QED
  BY RpcInvariant, <1>1, PTL

(***************************************************************************)
(* No call fails but for a broken connection or an error of the handler:   *)
(* the bytes each step of FastRead counts are those that were written, and *)
(* every required field is there, whatever a newer peer has put between.   *)
(***************************************************************************)
THEOREM FailuresHaveCause == CSpec => []FailsForCause
<1>1. RpcInv => FailsForCause
  BY DEF RpcInv, ErrorInv, FailsForCause
<1>. QED
  BY RpcInvariant, <1>1, PTL

(***************************************************************************)
(* A connection that breaks under a request or a response ends the call in *)
(* an error: no reader takes what is left for a struct.                    *)
(***************************************************************************)
THEOREM BreaksNoticed == CSpec => []BreakNoticed
<1>1. RpcInv => BreakNoticed
  BY DEF RpcInv, WireInv, BreakNoticed
<1>. QED
  BY RpcInvariant, <1>1, PTL

-----------------------------------------------------------------------------
(* The HTTP request                                                        *)

(***************************************************************************)
(* A request over HTTP makes at most one call, and that call does what a   *)
(* call does: all that is proved of RpcCall holds under HttpApi.           *)
(***************************************************************************)
THEOREM HttpCalls == HSpec => CSpec
<1>1. HInit => CInit
  BY DEF HInit
<1>2. [HNext]_hvars => [CNext]_cvars
  <2>1. CASE Refuse
    BY <2>1 DEF Refuse
  <2>2. CASE Ask
    BY <2>2 DEF Ask, CNext
  <2>3. CASE Carry
    BY <2>3 DEF CNext
  <2>4. CASE Answer
    BY <2>4 DEF Answer
  <2>5. CASE UNCHANGED hvars
    BY <2>5 DEF hvars
  <2>. QED
    BY <2>1, <2>2, <2>3, <2>4, <2>5 DEF HNext
<1>. QED
  BY <1>1, <1>2, PTL DEF HSpec, CSpec

\* JSON drops no field but those marked, and these only if they are zero.
LEMMA JsonReads ==
  ASSUME NEW struct, NEW zero, NEW omitempty, NEW json,
         json = Json(struct, zero, omitempty), NEW f \in DOMAIN struct
  PROVE  /\ f \notin omitempty => f \in DOMAIN json
         /\ f \in DOMAIN json => json[f] = struct[f]
         /\ f \in omitempty => (f \in DOMAIN json <=> struct[f] # zero[f])
BY DEF Json

\* A message as a reader of its JSON takes it.
Shown(j) ==
  [Chat |-> Reads(j, "chat", << >>), Text |-> Reads(j, "text", << >>),
   Sender |-> Reads(j, "sender", << >>), SendTime |-> Reads(j, "send_time", 0)]

LEMMA MessageShown ==
  ASSUME NEW m \in Messages
  PROVE  EqualMessage(m, Shown(MessageJson(m)))
<1>. DEFINE s == [chat |-> m.Chat, text |-> m.Text, sender |-> m.Sender, send_time |-> m.SendTime]
            j == MessageJson(m)
<1>1. j = Json(s, ApiMessage, DOMAIN ApiMessage)
  BY DEF MessageJson
<1>2. /\ Reads(j, "chat", ApiMessage["chat"]) = s["chat"]
      /\ Reads(j, "text", ApiMessage["text"]) = s["text"]
      /\ Reads(j, "sender", ApiMessage["sender"]) = s["sender"]
      /\ Reads(j, "send_time", ApiMessage["send_time"]) = s["send_time"]
  <2>1. DOMAIN s = {"chat", "text", "sender", "send_time"}
    OBVIOUS
  <2>. HIDE DEF s, j
  <2>2. ASSUME NEW f \in DOMAIN s
        PROVE  Reads(j, f, ApiMessage[f]) = s[f]
    BY <1>1 DEF Json, Reads
  <2>. QED
    BY <2>1, <2>2
<1>3. /\ Reads(j, "chat", << >>) = m.Chat /\ Reads(j, "text", << >>) = m.Text
      /\ Reads(j, "sender", << >>) = m.Sender /\ Reads(j, "send_time", 0) = m.SendTime
  <2>1. /\ ApiMessage["chat"] = << >> /\ ApiMessage["text"] = << >>
        /\ ApiMessage["sender"] = << >> /\ ApiMessage["send_time"] = 0
    BY DEF ApiMessage
  <2>2. /\ s["chat"] = m.Chat /\ s["text"] = m.Text
        /\ s["sender"] = m.Sender /\ s["send_time"] = m.SendTime
    OBVIOUS
  <2>. HIDE DEF s, j
  <2>. QED
    BY <1>2, <2>1, <2>2
<1>. HIDE DEF j
<1>4. Shown(j) = m
  BY <1>3 DEF Shown, Messages
<1>5. m # Nil
  BY NilAssumption DEF NilAssumption, Data
<1>. QED
  BY <1>4, <1>5 DEF EqualMessage, j

\* What PageShown asks of a body, for the response it was made of.
Shows(body, resp) ==
  /\ {"messages", "has_more"} \subseteq DOMAIN body
  /\ body.has_more = resp.HasMore
  /\ ("next_cursor" \in DOMAIN body) <=> resp.HasMore
  /\ resp.HasMore => body.next_cursor = resp.NextCursor
  /\ Len(body.messages) = Len(resp.Messages)
  /\ \A i \in DOMAIN body.messages : EqualMessage(resp.Messages[i], Shown(body.messages[i]))

\* The pages PageAssumption describes.
Page(resp) ==
  /\ resp.Messages \in Seq(Messages) /\ resp.HasMore \in BOOLEAN
  /\ IF resp.HasMore THEN resp.NextCursor \in Int \ {0} ELSE resp.NextCursor = Nil

LEMMA PageShows ==
  ASSUME NEW resp, Page(resp)
  PROVE  Shows(PullResponseRest(resp), resp)
<1>. DEFINE list == ApiMessages(resp.Messages)
            more == GetHasMore(resp)
            next == GetNextCursor(resp)
            s == [messages |-> list, has_more |-> more, next_cursor |-> next]
            body == PullResponseRest(resp)
<1>1. Nil \notin Int /\ Nil \notin BOOLEAN /\ Nil \notin Seq(Messages)
  BY NilAssumption DEF NilAssumption, Data
<1>2. list = [i \in DOMAIN resp.Messages |-> MessageJson(resp.Messages[i])]
  BY <1>1 DEF ApiMessages, Page
<1>3. more = resp.HasMore
  BY <1>1 DEF GetHasMore, OrZero, Page
<1>4. (resp.HasMore => next = resp.NextCursor) /\ (next # 0 <=> resp.HasMore)
  BY <1>1 DEF GetNextCursor, OrZero, Page
<1>. HIDE DEF list, more, next
<1>5. body = Json(s, NoPage, OmitEmpty)
  BY DEF PullResponseRest, list, more, next
<1>6. /\ DOMAIN s = {"messages", "has_more", "next_cursor"}
      /\ s["messages"] = list /\ s["has_more"] = more /\ s["next_cursor"] = next
      /\ NoPage["next_cursor"] = 0
  BY DEF NoPage
<1>. HIDE DEF s, body
<1>7. /\ "messages" \in DOMAIN body /\ body.messages = list
      /\ "has_more" \in DOMAIN body /\ body.has_more = more
  BY <1>5, <1>6, JsonReads DEF OmitEmpty
<1>8. /\ "next_cursor" \in DOMAIN body <=> next # 0
      /\ "next_cursor" \in DOMAIN body => body.next_cursor = next
  BY <1>5, <1>6, JsonReads DEF OmitEmpty
<1>9. Len(list) = Len(resp.Messages) /\ DOMAIN list = DOMAIN resp.Messages
  BY <1>2 DEF Page
<1>10. ASSUME NEW i \in DOMAIN list
       PROVE  EqualMessage(resp.Messages[i], Shown(list[i]))
  <2>1. resp.Messages[i] \in Messages
    BY <1>9, <1>10 DEF Page
  <2>2. list[i] = MessageJson(resp.Messages[i])
    BY <1>2, <1>9, <1>10
  <2>. QED
    BY <2>1, <2>2, MessageShown
<1>11. resp.HasMore \in BOOLEAN
  BY DEF Page
<1>. QED
  BY <1>3, <1>4, <1>7, <1>8, <1>9, <1>10, <1>11 DEF Shows, body

\* The body of an answer is made of the response that has arrived.
ReplyInv ==
  reply # Nil /\ reply.status = 200 =>
    step = "done" /\ (method = "Pull" => reply.body = PullResponseRest(got))

(***************************************************************************)
(* The user of a pull sees the page the handler answered with, whatever    *)
(* carries it: every message as it was served, whether there is more, and  *)
(* where it begins.                                                        *)
(***************************************************************************)
THEOREM PagesShown == HSpec => []PageShown
<1>1. HInit => ReplyInv
  BY DEF HInit, ReplyInv
<1>2. ReplyInv /\ [HNext]_hvars => ReplyInv'
  <2>. SUFFICES ASSUME ReplyInv, [HNext]_hvars
                PROVE  ReplyInv'
    OBVIOUS
  <2>1. CASE Refuse
    BY <2>1 DEF Refuse, ReplyInv
  <2>2. CASE Ask
    BY <2>2 DEF Ask, Call, ReplyInv
  <2>3. CASE Carry /\ UNCHANGED <<form, reply>>
    <3>1. step # "done"
      BY <2>3 DEF Carry, WriteArgs, Newer, Break, UnderWay, ReadArgs, Handle, WriteResult,
                  ReadResult
    <3>. QED
      BY <2>3, <3>1 DEF ReplyInv
  <2>4. CASE Answer
    BY <2>4 DEF Answer, cvars, ReplyInv
  <2>5. CASE UNCHANGED hvars
    BY <2>5 DEF hvars, cvars, ReplyInv
  <2>. QED
    BY <2>1, <2>2, <2>3, <2>4, <2>5 DEF HNext
<1>3. RpcInv /\ ReplyInv => PageShown
  <2>. SUFFICES ASSUME RpcInv, ReplyInv, reply # Nil, reply.status = 200, method = "Pull"
                PROVE  Shows(reply.body, served)
    BY DEF PageShown, Shows, Shown
  <2>1. step = "done" /\ reply.body = PullResponseRest(got)
    BY DEF ReplyInv
  <2>2. got = served
    BY <2>1 DEF RpcInv, ReadInv
  <2>3. PICK o \in PullOutcomes : ~ o.err /\ served = o.resp
    BY <2>1 DEF RpcInv, ReadInv, Outcomes
  <2>4. served \in PullResponseType
    BY <2>1, ServedTyped DEF RpcInv
  <2>5. Page(served)
    BY <2>3, <2>4, PageAssumption DEF PageAssumption, Page, PullResponseType
  <2>. QED
    BY <2>1, <2>2, <2>5, PageShows
<1>. QED
  BY <1>1, <1>2, <1>3, HttpCalls, RpcInvariant, PTL DEF HSpec

=============================================================================
