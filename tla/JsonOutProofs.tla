---------------------------- MODULE JsonOutProofs ----------------------------
(****************************************************************************)
(* What jsonout prints has the brackets and commas of one object, tasks     *)
(* without quotes in their strings, no hidden command line, the members     *)
(* that the list asks for and each task once, for any sample and any list   *)
(* of labels.                                                               *)
(****************************************************************************)
EXTENDS JsonOut, WellFoundedInduction, TLAPS

----------------------------------------------------------------------------
(* Induction, over the members of a set                                     *)

LEMMA LeastExists ==
    ASSUME NEW T, T \subseteq Nat, T # {}
    PROVE  \E x \in T : \A y \in T : x <= y
  <1> DEFINE R == OpToRel(<, Nat)
  <1>1. IsWellFoundedOn(R, Nat)
    BY NatLessThanWellFounded, Zenon
  <1>2. \A x, y \in Nat : x < y => <<x, y>> \in R
    BY DEF OpToRel
  <1> HIDE DEF R
  <1>3. PICK x \in T : \A y \in T : ~(<<y, x>> \in R)
    BY <1>1, WFMin
  <1>4. \A y \in T : x <= y
    <2> SUFFICES ASSUME NEW y \in T PROVE x <= y
      OBVIOUS
    <2>1. x \in Nat /\ y \in Nat
      OBVIOUS
    <2>2. ~(y < x)
      BY <1>2, <1>3, <2>1
    <2> QED BY <2>1, <2>2
  <1> QED BY <1>4

(* A set of numbers that has 1, and with each number the next, has all.     *)
LEMMA Induction ==
    ASSUME NEW T, 1 \in T, \A n \in Nat \ {0} : n \in T => n + 1 \in T
    PROVE  \A n \in Nat \ {0} : n \in T
  <1> SUFFICES ASSUME (Nat \ {0}) \ T # {} PROVE FALSE
    OBVIOUS
  <1> DEFINE bad == (Nat \ {0}) \ T
  <1>1. PICK m \in bad : \A y \in bad : m <= y
    <2>1. bad \subseteq Nat /\ bad # {}
      OBVIOUS
    <2> HIDE DEF bad
    <2> QED BY <2>1, LeastExists
  <1>2. m \in Nat \ {0} /\ m \notin T /\ m # 1
    OBVIOUS
  <1>3. m - 1 \in Nat \ {0} /\ ~(m <= m - 1)
    BY <1>2
  <1>4. m - 1 \in T
    BY <1>1, <1>3
  <1> QED BY <1>2, <1>3, <1>4

(* FlattenSeq, turn by turn.                                                *)
LEMMA FlattenTurns ==
    ASSUME NEW S, NEW seqs \in Seq(Seq(S)), Len(seqs) # 0
    PROVE  \E f : /\ \A i \in 1 .. Len(seqs) : f[i] \in Seq(S)
                  /\ f[1] = seqs[1]
                  /\ \A i \in 2 .. Len(seqs) : f[i] = f[i - 1] \o seqs[i]
                  /\ FlattenSeq(seqs) = f[Len(seqs)]
  <1> DEFINE n == Len(seqs)
             Body(g) == [i \in 1 .. n |-> IF i = 1 THEN seqs[i] ELSE g[i - 1] \o seqs[i]]
             F == CHOOSE g : g = Body(g)
             Upto(m) == \E g \in [1 .. m -> Seq(S)] :
                           /\ g[1] = seqs[1]
                           /\ \A i \in 2 .. m : g[i] = g[i - 1] \o seqs[i]
             T == { m \in Nat \ {0} : m <= n => Upto(m) }
  <1>1. n \in Nat \ {0} /\ \A i \in 1 .. n : seqs[i] \in Seq(S)
    OBVIOUS
  <1>2. FlattenSeq(seqs) = F[n]
    BY <1>1 DEF FlattenSeq
  <1> HIDE DEF Upto
  <1>3. 1 \in T
    <2> DEFINE g == [i \in 1 .. 1 |-> seqs[1]]
    <2>1. g \in [1 .. 1 -> Seq(S)] /\ g[1] = seqs[1]
      BY <1>1
    <2> HIDE DEF g
    <2>2. Upto(1)
      BY <2>1 DEF Upto
    <2> QED BY <2>2
  <1>4. ASSUME NEW m \in Nat \ {0}, m \in T PROVE m + 1 \in T
    <2> SUFFICES ASSUME m + 1 <= n PROVE Upto(m + 1)
      BY <1>1
    <2>1. m <= n
      BY <1>1
    <2>2. PICK g \in [1 .. m -> Seq(S)] : /\ g[1] = seqs[1]
                                          /\ \A i \in 2 .. m : g[i] = g[i - 1] \o seqs[i]
      BY <1>4, <2>1 DEF Upto
    <2> DEFINE w == g[m] \o seqs[m + 1]
               h == [i \in 1 .. m + 1 |-> IF i = m + 1 THEN w ELSE g[i]]
    <2>3. g[m] \in Seq(S) /\ seqs[m + 1] \in Seq(S)
      BY <1>1, <2>2
    <2>4. w \in Seq(S)
      BY <2>3
    <2> HIDE DEF w
    <2>5. \A i \in 1 .. m + 1 : i # m + 1 => i \in 1 .. m
      OBVIOUS
    <2>6. h \in [1 .. m + 1 -> Seq(S)]
      BY <2>2, <2>4, <2>5
    <2>a. 1 \in 1 .. m /\ m + 1 \in 1 .. m + 1 /\ \A i \in 1 .. m : i \in 1 .. m + 1 /\ i # m + 1
      OBVIOUS
    <2>b. h[m + 1] = w /\ \A i \in 1 .. m : h[i] = g[i]
      BY <2>a
    <2> HIDE DEF h
    <2>7. h[1] = seqs[1] /\ h[m + 1] = g[m] \o seqs[m + 1] /\ \A i \in 1 .. m : h[i] = g[i]
      BY <2>2, <2>a, <2>b DEF w
    <2>8. \A i \in 2 .. m + 1 : h[i] = h[i - 1] \o seqs[i]
      <3> SUFFICES ASSUME NEW i \in 2 .. m + 1 PROVE h[i] = h[i - 1] \o seqs[i]
        OBVIOUS
      <3>1. CASE i = m + 1
        <4>1. i - 1 = m /\ m \in 1 .. m
          BY <3>1
        <4>2. h[i - 1] = g[m]
          BY <2>7, <4>1
        <4> QED BY <2>7, <3>1, <4>2
      <3>2. CASE i # m + 1
        <4>1. i \in 2 .. m /\ i \in 1 .. m /\ i - 1 \in 1 .. m
          BY <3>2
        <4> QED BY <2>2, <2>7, <4>1
      <3> QED BY <3>1, <3>2
    <2> QED BY <2>6, <2>7, <2>8 DEF Upto
  <1>5. Upto(n)
    <2>1. \A k \in Nat \ {0} : k \in T
      <3> HIDE DEF T
      <3> QED BY <1>3, <1>4, Induction
    <2> QED BY <1>1, <2>1
  <1>6. \E g : g = Body(g)
    <2>1. PICK g \in [1 .. n -> Seq(S)] : /\ g[1] = seqs[1]
                                          /\ \A i \in 2 .. n : g[i] = g[i - 1] \o seqs[i]
      BY <1>5 DEF Upto
    <2>2. \A i \in 1 .. n : g[i] = IF i = 1 THEN seqs[i] ELSE g[i - 1] \o seqs[i]
      <3> SUFFICES ASSUME NEW i \in 1 .. n, i # 1 PROVE g[i] = g[i - 1] \o seqs[i]
        BY <2>1
      <3>1. i \in 2 .. n
        BY <1>1
      <3> QED BY <2>1, <3>1
    <2>3. g = Body(g)
      BY <2>1, <2>2
    <2> HIDE DEF Body
    <2> QED BY <2>3
  <1>7. F = Body(F)
    <2> HIDE DEF Body
    <2> QED BY <1>6
  <1> HIDE DEF F
  <1>8. F[1] = seqs[1] /\ \A i \in 2 .. n : F[i] = F[i - 1] \o seqs[i]
    <2>1. \A i \in 1 .. n : F[i] = IF i = 1 THEN seqs[i] ELSE F[i - 1] \o seqs[i]
      BY <1>7
    <2>2. 1 \in 1 .. n /\ \A i \in 2 .. n : i \in 1 .. n /\ i # 1
      BY <1>1
    <2> HIDE DEF n
    <2> QED BY <2>1, <2>2
  <1> DEFINE U == { m \in Nat \ {0} : m <= n => F[m] \in Seq(S) }
  <1>9. 1 \in U
    BY <1>1, <1>8
  <1>10. ASSUME NEW m \in Nat \ {0}, m \in U PROVE m + 1 \in U
    <2> SUFFICES ASSUME m + 1 <= n PROVE F[m + 1] \in Seq(S)
      BY <1>1
    <2>1. F[m] \in Seq(S) /\ m + 1 \in 2 .. n /\ (m + 1) - 1 = m
      BY <1>1, <1>10
    <2>2. F[m + 1] = F[m] \o seqs[m + 1]
      BY <1>8, <2>1
    <2>3. seqs[m + 1] \in Seq(S)
      BY <1>1, <2>1
    <2> QED BY <2>1, <2>2, <2>3
  <1>11. \A i \in 1 .. n : F[i] \in Seq(S)
    <2>1. \A k \in Nat \ {0} : k \in U
      <3> HIDE DEF U
      <3> QED BY <1>9, <1>10, Induction
    <2> QED BY <1>1, <2>1
  <1> QED BY <1>2, <1>8, <1>11

----------------------------------------------------------------------------
(* Pieces that may stand next to each other                                 *)

Adjacent(s) == \A i \in 1 .. Len(s) - 1 : s[i + 1].kind \in MayFollow(s[i].kind)

(* A raw string that is a JSON string unless the sample has one that is not. *)
SafeRaw(raw) == raw \in RawText /\ (RawClean(sample) => raw \cap Special = {})

(* A piece whose text is a JSON string and hides what it should.            *)
SafePiece == { p \in PieceType : /\ p.text \cap Special = {}
                                 /\ hidecmdline => "command" \notin p.text
                                 /\ SafeRaw(p.raw) }

(* What a print function adds: nothing, or members of the object.           *)
Section(r) ==
    /\ r \in Seq(SafePiece) /\ Adjacent(r)
    /\ r # <<>> => /\ r[1].kind \in {"object", "begin"}
                   /\ r[Len(r)].kind \in {"object", "end"}

LEMMA ConcatFacts ==
    ASSUME NEW S, NEW a \in Seq(S), NEW b \in Seq(S)
    PROVE  /\ a \o b \in Seq(S) /\ Len(a \o b) = Len(a) + Len(b)
           /\ Len(a) \in Nat /\ Len(b) \in Nat
           /\ \A i \in 1 .. Len(a) : (a \o b)[i] = a[i]
           /\ \A i \in 1 .. Len(b) : (a \o b)[Len(a) + i] = b[i]
  <1>1. a \o b \in Seq(S) /\ Len(a \o b) = Len(a) + Len(b) /\ Len(a) \in Nat /\ Len(b) \in Nat
    OBVIOUS
  <1>2. \A i \in 1 .. Len(a) : (a \o b)[i] = a[i]
    OBVIOUS
  <1>3. \A i \in 1 .. Len(b) : (a \o b)[Len(a) + i] = b[i]
    OBVIOUS
  <1> QED BY <1>1, <1>2, <1>3

LEMMA Joined ==
    ASSUME NEW S, NEW a \in Seq(S), NEW b \in Seq(S), a # <<>>, b # <<>>,
           Adjacent(a), Adjacent(b), b[1].kind \in MayFollow(a[Len(a)].kind)
    PROVE  /\ a \o b \in Seq(S) /\ a \o b # <<>> /\ Adjacent(a \o b)
           /\ (a \o b)[1] = a[1] /\ (a \o b)[Len(a \o b)] = b[Len(b)]
  <1> DEFINE c == a \o b
  <1>1. /\ c \in Seq(S) /\ Len(c) = Len(a) + Len(b)
        /\ \A i \in 1 .. Len(a) : c[i] = a[i]
        /\ \A i \in 1 .. Len(b) : c[Len(a) + i] = b[i]
    BY ConcatFacts
  <1>2. Len(a) \in Nat \ {0} /\ Len(b) \in Nat \ {0}
    OBVIOUS
  <1> HIDE DEF c
  <1>3. c # <<>> /\ c[1] = a[1] /\ c[Len(c)] = b[Len(b)]
    BY <1>1, <1>2
  <1>4. Adjacent(c)
    <2> SUFFICES ASSUME NEW i \in 1 .. Len(c) - 1
                 PROVE  c[i + 1].kind \in MayFollow(c[i].kind)
      BY DEF Adjacent
    <2>1. CASE i < Len(a)
      <3>1. i \in 1 .. Len(a) - 1 /\ i \in 1 .. Len(a) /\ i + 1 \in 1 .. Len(a)
        BY <1>1, <1>2, <2>1
      <3> QED BY <1>1, <3>1 DEF Adjacent
    <2>2. CASE i = Len(a)
      <3>1. c[i] = a[Len(a)]
        BY <1>1, <1>2, <2>2
      <3>2. c[i + 1] = b[1]
        BY <1>1, <1>2, <2>2
      <3> QED BY <3>1, <3>2
    <2>3. CASE i > Len(a)
      <3> DEFINE j == i - Len(a)
      <3>1. j \in 1 .. Len(b) - 1 /\ j \in 1 .. Len(b) /\ j + 1 \in 1 .. Len(b)
            /\ i = Len(a) + j /\ i + 1 = Len(a) + (j + 1)
        BY <1>1, <1>2, <2>3
      <3> HIDE DEF j
      <3>2. c[i] = b[j] /\ c[i + 1] = b[j + 1]
        BY <1>1, <3>1
      <3> QED BY <3>1, <3>2 DEF Adjacent
    <2> QED BY <1>1, <1>2, <2>1, <2>2, <2>3
  <1> QED BY <1>1, <1>3, <1>4 DEF c

LEMMA SingleFacts ==
    ASSUME NEW S, NEW p \in S
    PROVE  /\ <<p>> \in Seq(S) /\ <<p>> # <<>> /\ Len(<<p>>) = 1 /\ <<p>>[1] = p
           /\ Adjacent(<<p>>)
  BY DEF Adjacent

LEMMA PairFacts ==
    ASSUME NEW S, NEW p \in S, NEW q \in S, q.kind \in MayFollow(p.kind)
    PROVE  /\ <<p, q>> \in Seq(S) /\ <<p, q>> # <<>> /\ Len(<<p, q>>) = 2
           /\ <<p, q>>[1] = p /\ <<p, q>>[2] = q /\ Adjacent(<<p, q>>)
  <1> DEFINE s == <<p, q>>
  <1>1. s \in Seq(S) /\ s # <<>> /\ Len(s) = 2 /\ s[1] = p /\ s[2] = q
    OBVIOUS
  <1> HIDE DEF s
  <1>2. Adjacent(s)
    BY <1>1 DEF Adjacent
  <1> QED BY <1>1, <1>2 DEF s

(* Two sections make one.                                                   *)
LEMMA SectionsJoin ==
    ASSUME NEW a, NEW b, Section(a), Section(b)
    PROVE  Section(a \o b)
  <1>1. a \in Seq(SafePiece) /\ b \in Seq(SafePiece)
    BY DEF Section
  <1>2. CASE a = <<>>
    <2>1. a \o b = b
      BY <1>1, <1>2
    <2> QED BY <2>1
  <1>3. CASE b = <<>>
    <2>1. a \o b = a
      BY <1>1, <1>3
    <2> QED BY <2>1
  <1>4. CASE a # <<>> /\ b # <<>>
    <2>1. /\ Adjacent(a) /\ Adjacent(b)
          /\ a[1].kind \in {"object", "begin"} /\ a[Len(a)].kind \in {"object", "end"}
          /\ b[1].kind \in {"object", "begin"} /\ b[Len(b)].kind \in {"object", "end"}
      BY <1>4 DEF Section
    <2>2. b[1].kind \in MayFollow(a[Len(a)].kind)
      BY <2>1 DEF MayFollow
    <2>3. /\ a \o b \in Seq(SafePiece) /\ a \o b # <<>> /\ Adjacent(a \o b)
          /\ (a \o b)[1] = a[1] /\ (a \o b)[Len(a \o b)] = b[Len(b)]
      BY <1>1, <1>4, <2>1, <2>2, Joined
    <2> QED BY <2>1, <2>3 DEF Section
  <1> QED BY <1>2, <1>3, <1>4

----------------------------------------------------------------------------
(* The arrays                                                               *)

(* What the turns of a loop print: the first one an item, each of the       *)
(* others nothing or a comma and an item.                                   *)
Turns(turns) ==
    /\ turns \in Seq(Seq(SafePiece))
    /\ turns # <<>> => \E p \in SafePiece : p.kind = "item" /\ turns[1] = <<p>>
    /\ \A i \in 2 .. Len(turns) :
          \/ turns[i] = <<>>
          \/ \E p \in SafePiece : p.kind = "item" /\ turns[i] = <<Comma, p>>

LEMMA PieceFacts ==
    /\ Comma \in SafePiece /\ Comma.kind = "comma"
    /\ End \in SafePiece /\ End.kind = "end"
    /\ Open \in SafePiece /\ Open.kind = "open"
    /\ Close \in SafePiece /\ Close.kind = "close"
    /\ Message \in SafePiece /\ Message.kind = "message"
    /\ \A key \in Labels : Begin(key) \in SafePiece /\ Begin(key).kind = "begin"
    /\ \A key \in Labels \cup {"NET_GENERAL"} :
          Object(key) \in SafePiece /\ Object(key).kind = "object"
  <1> DEFINE Kinds == {"message", "open", "close", "object", "begin", "comma", "end", "item"}
             Good(kind, key, raw) == LET p == Piece(kind, key, 0, {}, raw)
                                     IN  p \in SafePiece /\ p.kind = kind
  <1>1. ASSUME NEW kind \in Kinds, NEW key \in Labels \cup {"", "NET_GENERAL"},
               NEW raw, SafeRaw(raw)
        PROVE  Good(kind, key, raw)
    <2> DEFINE p == Piece(kind, key, 0, {}, raw)
    <2>1. raw \in RawText
      BY <1>1 DEF SafeRaw
    <2>2. p \in PieceType
      BY <2>1 DEF Piece, PieceType
    <2>3. p.text = {} /\ p.kind = kind /\ p.raw = raw
      BY DEF Piece
    <2> HIDE DEF p
    <2>4. p \in SafePiece
      BY <1>1, <2>2, <2>3 DEF SafePiece
    <2> QED BY <2>3, <2>4 DEF p
  <1>2. SafeRaw({}) /\ SafeRaw(NodeName)
    BY NodeAssumption DEF SafeRaw, RawText, RawClean
  <1>3. \A kind \in Kinds : \A key \in Labels \cup {"", "NET_GENERAL"} : Good(kind, key, {})
    <2> HIDE DEF Good, Kinds
    <2> QED BY <1>1, <1>2
  <1>4. Good("open", "", NodeName)
    <2> HIDE DEF Good
    <2> QED BY <1>1, <1>2
  <1> QED BY <1>3, <1>4 DEF Comma, End, Open, Close, Message, Begin, Object

(* One more item.                                                           *)
LEMMA ItemFollows ==
    ASSUME NEW s \in Seq(SafePiece), s # <<>>, Adjacent(s),
           s[1].kind = "item", s[Len(s)].kind = "item",
           NEW p \in SafePiece, p.kind = "item"
    PROVE  LET c == s \o <<Comma, p>>
           IN  /\ c \in Seq(SafePiece) /\ c # <<>> /\ Adjacent(c)
               /\ c[1].kind = "item" /\ c[Len(c)].kind = "item"
  <1> DEFINE t == <<Comma, p>>
  <1>1. "item" \in MayFollow("comma") /\ "comma" \in MayFollow("item")
    BY DEF MayFollow
  <1>2. t \in Seq(SafePiece) /\ t # <<>> /\ Len(t) = 2 /\ t[1] = Comma /\ t[2] = p /\ Adjacent(t)
    BY <1>1, PairFacts, PieceFacts
  <1>3. t[1].kind \in MayFollow(s[Len(s)].kind)
    BY <1>1, <1>2, PieceFacts
  <1> HIDE DEF t
  <1>a. t \in Seq(SafePiece) /\ t # <<>> /\ Adjacent(t)
    BY <1>2
  <1>4. /\ s \o t \in Seq(SafePiece) /\ s \o t # <<>> /\ Adjacent(s \o t)
        /\ (s \o t)[1] = s[1] /\ (s \o t)[Len(s \o t)] = t[Len(t)]
    BY <1>3, <1>a, Joined
  <1> QED BY <1>2, <1>4 DEF t

(* Flattened, the turns are a list of items between commas.                 *)
LEMMA TurnsFlatten ==
    ASSUME NEW turns, Turns(turns), turns # <<>>
    PROVE  LET s == FlattenSeq(turns)
           IN  /\ s \in Seq(SafePiece) /\ s # <<>> /\ Adjacent(s)
               /\ s[1].kind = "item" /\ s[Len(s)].kind = "item"
  <1> DEFINE n == Len(turns)
             Good(s) == /\ s \in Seq(SafePiece) /\ s # <<>> /\ Adjacent(s)
                        /\ s[1].kind = "item" /\ s[Len(s)].kind = "item"
  <1>1. turns \in Seq(Seq(SafePiece)) /\ n \in Nat \ {0}
    BY DEF Turns
  <1>2. PICK f : /\ \A i \in 1 .. n : f[i] \in Seq(SafePiece)
                 /\ f[1] = turns[1]
                 /\ \A i \in 2 .. n : f[i] = f[i - 1] \o turns[i]
                 /\ FlattenSeq(turns) = f[n]
    BY <1>1, FlattenTurns
  <1> DEFINE T == { m \in Nat \ {0} : m <= n => Good(f[m]) }
  <1>3. ASSUME NEW p \in SafePiece, p.kind = "item" PROVE Good(<<p>>)
    BY <1>3, SingleFacts
  <1>4. ASSUME NEW s, Good(s), NEW p \in SafePiece, p.kind = "item"
        PROVE  Good(s \o <<Comma, p>>)
    BY <1>4, ItemFollows
  <1> HIDE DEF Good
  <1>5. 1 \in T
    <2>1. PICK p \in SafePiece : p.kind = "item" /\ turns[1] = <<p>>
      BY DEF Turns
    <2>2. Good(f[1])
      BY <1>2, <1>3, <2>1
    <2> QED BY <2>2
  <1>6. ASSUME NEW m \in Nat \ {0}, m \in T PROVE m + 1 \in T
    <2> SUFFICES ASSUME m + 1 <= n PROVE Good(f[m + 1])
      BY <1>1
    <2>1. Good(f[m]) /\ m + 1 \in 2 .. n /\ (m + 1) - 1 = m
      BY <1>1, <1>6
    <2>2. f[m + 1] = f[m] \o turns[m + 1]
      BY <1>2, <2>1
    <2>3. CASE turns[m + 1] = <<>>
      <3>1. f[m] \in Seq(SafePiece)
        BY <2>1 DEF Good
      <3>2. f[m + 1] = f[m]
        BY <2>2, <2>3, <3>1
      <3> QED BY <2>1, <3>2
    <2>4. ASSUME NEW p \in SafePiece, p.kind = "item", turns[m + 1] = <<Comma, p>>
          PROVE  Good(f[m + 1])
      BY <1>4, <2>1, <2>2, <2>4
    <2> QED BY <2>1, <2>3, <2>4 DEF Turns
  <1>7. Good(f[n])
    <2>1. \A k \in Nat \ {0} : k \in T
      <3> HIDE DEF T
      <3> QED BY <1>5, <1>6, Induction
    <2> QED BY <1>1, <2>1
  <1> QED BY <1>2, <1>7 DEF Good

(* An array is a member of the object, with or without items.               *)
LEMMA ArraySection ==
    ASSUME NEW key \in Labels, NEW turns, Turns(turns)
    PROVE  Section(Array(key, turns))
  <1> DEFINE b == <<Begin(key)>>
             s == FlattenSeq(turns)
             e == <<End>>
  <1>0. turns \in Seq(Seq(SafePiece)) /\ Array(key, turns) = b \o s \o e
    BY DEF Turns, Array
  <1>1. b \in Seq(SafePiece) /\ b # <<>> /\ Adjacent(b) /\ Len(b) = 1 /\ b[1].kind = "begin"
    BY SingleFacts, PieceFacts
  <1>2. e \in Seq(SafePiece) /\ e # <<>> /\ Adjacent(e) /\ Len(e) = 1 /\ e[1].kind = "end"
    BY SingleFacts, PieceFacts
  <1>3. "item" \in MayFollow("begin") /\ "end" \in MayFollow("begin") /\ "end" \in MayFollow("item")
    BY DEF MayFollow
  <1> SUFFICES Section(b \o s \o e)
    BY <1>0
  <1>4. CASE turns = <<>>
    <2>1. s = <<>>
      BY <1>4 DEF FlattenSeq
    <2> HIDE DEF b, e, s
    <2>2. b \o s = b
      BY <1>1, <2>1
    <2>3. /\ b \o e \in Seq(SafePiece) /\ b \o e # <<>> /\ Adjacent(b \o e)
          /\ (b \o e)[1] = b[1] /\ (b \o e)[Len(b \o e)] = e[Len(e)]
      BY <1>1, <1>2, <1>3, Joined
    <2> QED BY <1>1, <1>2, <2>2, <2>3 DEF Section
  <1>5. CASE turns # <<>>
    <2>1. /\ s \in Seq(SafePiece) /\ s # <<>> /\ Adjacent(s)
          /\ s[1].kind = "item" /\ s[Len(s)].kind = "item"
      BY <1>5, TurnsFlatten
    <2> HIDE DEF b, e, s
    <2> DEFINE c == b \o s
    <2>2. /\ c \in Seq(SafePiece) /\ c # <<>> /\ Adjacent(c)
          /\ c[1] = b[1] /\ c[Len(c)] = s[Len(s)]
      BY <1>1, <1>3, <2>1, Joined
    <2> HIDE DEF c
    <2>3. /\ c \o e \in Seq(SafePiece) /\ c \o e # <<>> /\ Adjacent(c \o e)
          /\ (c \o e)[1] = c[1] /\ (c \o e)[Len(c \o e)] = e[Len(e)]
      BY <1>2, <1>3, <2>1, <2>2, Joined
    <2>4. Section(c \o e)
      BY <1>1, <1>2, <2>2, <2>3 DEF Section
    <2> QED BY <2>4 DEF c
  <1> QED BY <1>4, <1>5

----------------------------------------------------------------------------
(* The print functions                                                      *)

AllText == {"name", "command", "hash", "stars"} \cup Special

SafeText(text) == text \subseteq AllText /\ text \cap Special = {}
                  /\ (hidecmdline => "command" \notin text)

(* A sample as PrintHeader leaves it: its texts are safe, and its first     *)
(* task is not a thread that the loops skip.                                *)
Printable(s) ==
    /\ s \in Sample
    /\ RawClean(sample) => RawClean(s)
    /\ s.tasks # <<>> => ~IsMainThread(s.tasks[1])
    /\ \A i \in DOMAIN s.tasks : SafeText(s.tasks[i].name) /\ SafeText(s.tasks[i].cmdline)

LEMMA LabelSet ==
    /\ Labels = {"CPU", "cpu", "CPL", "GPU", "MEM", "SWP", "PAG", "PSI", "LVM", "MDD",
                 "DSK", "NFM", "NFC", "NFS", "NET", "IFB", "NUM", "NUC", "LLC",
                 "PRG", "PRC", "PRM", "PRD", "PRN", "PRE"}
    /\ Len(labeldef) = 25 /\ DOMAIN labeldef = 1 .. 25
    /\ \A k \in 1 .. 25 : labeldef[k] \in Labels
  <1>1. Len(labeldef) = 25 /\ DOMAIN labeldef = 1 .. 25
    BY DEF labeldef
  <1>2. \A k \in DOMAIN labeldef : labeldef[k] \in Labels
    BY DEF Labels, Range
  <1>3. Labels = {"CPU", "cpu", "CPL", "GPU", "MEM", "SWP", "PAG", "PSI", "LVM", "MDD",
                  "DSK", "NFM", "NFC", "NFS", "NET", "IFB", "NUM", "NUC", "LLC",
                  "PRG", "PRC", "PRM", "PRD", "PRN", "PRE"}
    BY <1>1 DEF Labels, Range, labeldef
  <1> QED BY <1>1, <1>2, <1>3

LEMMA ItemFacts ==
    ASSUME NEW key \in Labels, NEW id \in Nat, NEW text, SafeText(text), NEW raw, SafeRaw(raw)
    PROVE  LET p == Item(key, id, text, raw) IN p \in SafePiece /\ p.kind = "item"
  <1>1. Item(key, id, text, raw) \in PieceType
    BY DEF Item, Piece, PieceType, SafeText, AllText, SafeRaw
  <1>2. LET p == Item(key, id, text, raw) IN p.text = text /\ p.kind = "item" /\ p.raw = raw
    BY DEF Item, Piece
  <1> QED BY <1>1, <1>2 DEF SafePiece, SafeText

(* A loop whose turns print an item or, except the first, may print none.   *)
LEMMA LoopTurns ==
    ASSUME NEW n \in Nat, NEW item, NEW skipped,
           \A i \in 1 .. n : item[i] \in SafePiece /\ item[i].kind = "item",
           1 \notin skipped
    PROVE  Turns([i \in 1 .. n |-> IF i \in skipped THEN <<>> ELSE Separated(i, item[i])])
  <1> DEFINE turns == [i \in 1 .. n |-> IF i \in skipped THEN <<>> ELSE Separated(i, item[i])]
  <1>1. ASSUME NEW i \in 1 .. n
        PROVE  /\ Separated(i, item[i]) \in Seq(SafePiece)
               /\ i = 1 => Separated(i, item[i]) = <<item[i]>>
               /\ i # 1 => Separated(i, item[i]) = <<Comma, item[i]>>
    <2>1. <<item[i]>> \in Seq(SafePiece) /\ <<Comma, item[i]>> \in Seq(SafePiece)
      BY PieceFacts
    <2> QED BY <2>1 DEF Separated
  <1>2. \A i \in 1 .. n : turns[i] = IF i \in skipped THEN <<>> ELSE Separated(i, item[i])
    OBVIOUS
  <1>3. turns \in Seq(Seq(SafePiece)) /\ Len(turns) = n
    <2>1. \A i \in 1 .. n : (IF i \in skipped THEN <<>> ELSE Separated(i, item[i])) \in Seq(SafePiece)
      BY <1>1
    <2> QED BY <2>1
  <1> HIDE DEF turns
  <1>4. turns # <<>> => \E p \in SafePiece : p.kind = "item" /\ turns[1] = <<p>>
    <2> SUFFICES ASSUME turns # <<>> PROVE \E p \in SafePiece : p.kind = "item" /\ turns[1] = <<p>>
      OBVIOUS
    <2>1. 1 \in 1 .. n
      BY <1>3
    <2> QED BY <1>1, <1>2, <2>1
  <1>5. \A i \in 2 .. n : \/ turns[i] = <<>>
                          \/ \E p \in SafePiece : p.kind = "item" /\ turns[i] = <<Comma, p>>
    <2> SUFFICES ASSUME NEW i \in 2 .. n, turns[i] # <<>>
                 PROVE  \E p \in SafePiece : p.kind = "item" /\ turns[i] = <<Comma, p>>
      OBVIOUS
    <2>1. i \in 1 .. n /\ i # 1
      OBVIOUS
    <2> QED BY <1>1, <1>2, <2>1
  <1>6. Turns(turns)
    BY <1>3, <1>4, <1>5 DEF Turns
  <1> QED BY <1>6 DEF turns

(* The elements of a label and their names.                                 *)
LEMMA UnitFacts ==
    ASSUME NEW s, Printable(s), NEW key \in Counted
    PROVE  /\ Len(s.units[key]) \in Nat /\ key \in Labels
           /\ \A i \in 1 .. Len(s.units[key]) :
                 SafeRaw(IF key \in Named THEN s.units[key][i] ELSE {})
  <1>1. s.units[key] \in Seq(RawText)
    BY DEF Printable, Sample
  <1>2. key \in Labels
    BY LabelSet DEF Counted
  <1>3. SafeRaw({})
    BY DEF SafeRaw, RawText
  <1>4. ASSUME NEW i \in 1 .. Len(s.units[key]), key \in Named PROVE SafeRaw(s.units[key][i])
    <2>1. i \in DOMAIN s.units[key] /\ s.units[key][i] \in RawText
      BY <1>1
    <2>2. RawClean(sample) => s.units[key][i] \cap Special = {}
      BY <1>4, <2>1 DEF Printable, RawClean
    <2> QED BY <2>1, <2>2 DEF SafeRaw
  <1> QED BY <1>1, <1>2, <1>3, <1>4

(* A container's name, or none.                                             *)
LEMMA RawOfTask ==
    ASSUME NEW s, Printable(s), NEW i \in DOMAIN s.tasks, NEW raws \in SUBSET {"cid"}
    PROVE  SafeRaw(UNION { s.tasks[i][f] : f \in raws })
  <1>1. s.tasks[i] \in Task
    <2>1. s.tasks \in Seq(Task)
      BY DEF Printable, Sample
    <2> QED BY <2>1
  <1>2. SafeRaw(s.tasks[i]["cid"])
    <2>1. s.tasks[i]["cid"] \in RawText
      BY <1>1 DEF Task
    <2>2. RawClean(sample) => s.tasks[i].cid \cap Special = {}
      BY DEF Printable, RawClean
    <2> QED BY <2>1, <2>2 DEF SafeRaw
  <1>3. \A f \in raws : SafeRaw(s.tasks[i][f])
    BY <1>2
  <1> QED BY <1>3 DEF SafeRaw, RawText

LEMMA CountedSection ==
    ASSUME NEW s, Printable(s), NEW key \in Counted
    PROVE  Section(CountedArray(key, s))
  <1> DEFINE n == Len(s.units[key])
             Raw(i) == IF key \in Named THEN s.units[key][i] ELSE {}
             item == [i \in 1 .. n |-> Item(key, i, {}, Raw(i))]
             skipped == {}
             turns == [i \in 1 .. n |-> IF i \in skipped THEN <<>> ELSE Separated(i, item[i])]
  <1>1. n \in Nat /\ key \in Labels /\ \A i \in 1 .. n : SafeRaw(Raw(i))
    BY UnitFacts
  <1>2. \A i \in 1 .. n : item[i] = Item(key, i, {}, Raw(i))
    OBVIOUS
  <1>3. SafeText({})
    BY DEF SafeText
  <1> HIDE DEF Raw
  <1>4. \A i \in 1 .. n : item[i] \in SafePiece /\ item[i].kind = "item"
    BY <1>1, <1>2, <1>3, ItemFacts
  <1>5. turns = [i \in 1 .. n |-> Separated(i, Item(key, i, {}, Raw(i)))]
    BY <1>2
  <1>6. Turns(turns)
    <2>1. 1 \notin skipped
      OBVIOUS
    <2> HIDE DEF n, item, skipped
    <2> QED BY <1>1, <1>4, <2>1, LoopTurns
  <1>7. CountedArray(key, s) = Array(key, turns)
    BY <1>5 DEF CountedArray, Raw
  <1> HIDE DEF turns
  <1> QED BY <1>1, <1>6, <1>7, ArraySection

LEMMA TaskSection ==
    ASSUME NEW s, Printable(s), NEW key \in TaskLabels,
           NEW texts \in SUBSET {"name", "cmdline"}, NEW raws \in SUBSET {"cid"}
    PROVE  Section(TaskArray(key, s, texts, raws))
  <1> DEFINE n == Len(s.tasks)
             Text(i) == UNION { s.tasks[i][f] : f \in texts }
             Raw(i) == UNION { s.tasks[i][f] : f \in raws }
             item == [i \in 1 .. n |-> Item(key, s.tasks[i].pid, Text(i), Raw(i))]
             skipped == { i \in 1 .. n : IsMainThread(s.tasks[i]) }
             turns == [i \in 1 .. n |-> IF i \in skipped THEN <<>> ELSE Separated(i, item[i])]
  <1>1. s.tasks \in Seq(Task) /\ key \in Labels
    BY LabelSet DEF Printable, Sample, TaskLabels
  <1>2. n \in Nat /\ DOMAIN s.tasks = 1 .. n /\ \A i \in 1 .. n : s.tasks[i].pid \in Nat
    <2>1. n \in Nat /\ DOMAIN s.tasks = 1 .. n /\ \A i \in 1 .. n : s.tasks[i] \in Task
      BY <1>1
    <2>2. \A t \in Task : t.pid \in Nat
      BY DEF Task
    <2> QED BY <2>1, <2>2
  <1>3. 1 \notin skipped
    BY <1>1, <1>2 DEF Printable
  <1>4. ASSUME NEW i \in 1 .. n PROVE SafeText(Text(i))
    <2>1. SafeText(s.tasks[i]["name"]) /\ SafeText(s.tasks[i]["cmdline"])
      BY <1>2 DEF Printable
    <2>2. \A f \in texts : SafeText(s.tasks[i][f])
      BY <2>1
    <2> QED BY <2>2 DEF SafeText
  <1>5. \A i \in 1 .. n : item[i] = Item(key, s.tasks[i].pid, Text(i), Raw(i))
    OBVIOUS
  <1>a. \A i \in 1 .. n : SafeRaw(Raw(i))
    BY <1>2, RawOfTask
  <1> HIDE DEF Text, Raw
  <1>6. \A i \in 1 .. n : item[i] \in SafePiece /\ item[i].kind = "item"
    BY <1>1, <1>2, <1>4, <1>5, <1>a, ItemFacts
  <1>7. Turns(turns)
    <2> HIDE DEF n, item, skipped
    <2> QED BY <1>2, <1>3, <1>6, LoopTurns
  <1>8. turns = [i \in DOMAIN s.tasks |->
                    IF IsMainThread(s.tasks[i]) THEN <<>>
                    ELSE Separated(i, Item(key, s.tasks[i].pid, Text(i), Raw(i)))]
    BY <1>2, <1>5
  <1>9. TaskArray(key, s, texts, raws) = Array(key, turns)
    BY <1>8 DEF TaskArray, Text, Raw
  <1> HIDE DEF turns
  <1> QED BY <1>1, <1>7, <1>9, ArraySection

LEMMA ObjectSection ==
    ASSUME NEW key \in Labels \cup {"NET_GENERAL"}
    PROVE  Section(<<Object(key)>>)
  <1> DEFINE p == Object(key)
  <1>1. p \in SafePiece /\ p.kind = "object"
    BY PieceFacts
  <1> HIDE DEF p
  <1>2. /\ <<p>> \in Seq(SafePiece) /\ <<p>> # <<>> /\ Len(<<p>>) = 1 /\ <<p>>[1] = p
        /\ Adjacent(<<p>>)
    BY <1>1, SingleFacts
  <1>3. Section(<<p>>)
    BY <1>1, <1>2 DEF Section
  <1> QED BY <1>3 DEF p

LEMMA EmptySection == Section(<<>>)
  BY DEF Section, Adjacent

(* Each print function adds members of the object.                          *)
LEMMA PrintsSection ==
    ASSUME NEW s, Printable(s), NEW label \in Labels
    PROVE  Section(prifunc(label, s))
  <1>1. \A key \in Counted : Section(CountedArray(key, s))
    BY CountedSection
  <1>2. \A key \in TaskLabels : Section(TaskArray(key, s, {}, {}))
    BY TaskSection
  <1>3. Section(TaskArray("PRG", s, {"name", "cmdline"}, {"cid"}))
    BY TaskSection DEF TaskLabels
  <1>4. \A key \in Labels : Section(<<Object(key)>>)
    BY ObjectSection
  <1>5. Section(<<Object("NET_GENERAL")>> \o CountedArray("NET", s))
    <2>1. "NET" \in Counted
      BY DEF Counted
    <2> QED BY <1>1, <2>1, ObjectSection, SectionsJoin
  <1>6. CASE label \in {"CPU", "CPL", "MEM", "SWP", "PAG", "NFC", "NFS"}
    <2>1. prifunc(label, s) = <<Object(label)>>
      BY <1>6 DEF prifunc, json_print_CPU, json_print_CPL, json_print_MEM, json_print_SWP,
                  json_print_PAG, json_print_NFC, json_print_NFS
    <2> QED BY <1>4, <2>1
  <1>7. CASE label \in {"cpu", "GPU", "LVM", "MDD", "DSK", "NFM", "IFB", "NUM", "NUC", "LLC"}
    <2>1. prifunc(label, s) = CountedArray(label, s)
      BY <1>7 DEF prifunc, json_print_cpu, json_print_GPU, json_print_LVM, json_print_MDD,
                  json_print_DSK, json_print_NFM, json_print_IFB, json_print_NUM,
                  json_print_NUC, json_print_LLC
    <2>2. label \in Counted
      BY <1>7 DEF Counted
    <2> QED BY <1>1, <2>1, <2>2
  <1>8. CASE label \in {"PRC", "PRM", "PRD"}
    <2>1. prifunc(label, s) = TaskArray(label, s, {}, {})
      BY <1>8 DEF prifunc, json_print_PRC, json_print_PRM, json_print_PRD
    <2>2. label \in TaskLabels
      BY <1>8 DEF TaskLabels
    <2> QED BY <1>2, <2>1, <2>2
  <1>9. CASE label \in {"PRN", "PRE"}
    <2>1. prifunc(label, s) \in {TaskArray(label, s, {}, {}), <<>>}
      BY <1>9 DEF prifunc, json_print_PRN, json_print_PRE
    <2>2. label \in TaskLabels
      BY <1>9 DEF TaskLabels
    <2> QED BY <1>2, <2>1, <2>2, EmptySection
  <1>10. CASE label = "PSI"
    <2>1. prifunc(label, s) \in {<<Object("PSI")>>, <<>>}
      BY <1>10 DEF prifunc, json_print_PSI
    <2> QED BY <1>4, <1>10, <2>1, EmptySection
  <1>11. CASE label = "NET"
    <2>1. prifunc(label, s) = <<Object("NET_GENERAL")>> \o CountedArray("NET", s)
      BY <1>11 DEF prifunc, json_print_NET
    <2> QED BY <1>5, <2>1
  <1>12. CASE label = "PRG"
    <2>1. prifunc(label, s) = TaskArray("PRG", s, {"name", "cmdline"}, {"cid"})
      BY <1>12 DEF prifunc, json_print_PRG
    <2> QED BY <1>3, <2>1
  <1> QED BY <1>6, <1>7, <1>8, <1>9, <1>10, <1>11, <1>12, LabelSet

----------------------------------------------------------------------------
(* The invariant                                                            *)

(* What has been printed so far, at each stage.                             *)
PrintedInv ==
    /\ out \in Seq(SafePiece) /\ Adjacent(out)
    /\ pc \in {"idle", "jsondef"} => out = <<>>
    /\ pc = "labels" => /\ out # <<>> /\ out[1].kind = "open"
                        /\ out[Len(out)].kind \in {"open", "object", "end"}
    /\ pc = "done" => /\ out # <<>> /\ out[1].kind \in {"open", "message"}
                      /\ out[Len(out)].kind \in {"close", "message"}

(* Before PrintHeader the sample is as the rawlog holds it, then as the     *)
(* print functions need it.                                                 *)
SampleInv ==
    /\ pc = "jsondef" /\ sample.tasks # <<>> => ~IsMainThread(sample.tasks[1])
    /\ pc = "labels" => Printable(sample)

JsonInv == JsonTypeOK /\ PrintedInv /\ SampleInv

(* Escaping removes what ends a JSON string.                                *)
LEMMA EscapedFacts ==
    ASSUME NEW text
    PROVE  /\ Escaped(text) \cap Special = {}
           /\ text \in NameText => Escaped(text) \in NameText
           /\ text \in CommandText => Escaped(text) \in CommandText
  <1>1. "hash" \notin Special
    BY DEF Special
  <1>2. Escaped(text) \cap Special = {} /\ Escaped(text) \subseteq text \cup {"hash"}
    BY <1>1 DEF Escaped
  <1>3. text \in NameText => Escaped(text) \in NameText
    BY <1>2 DEF NameText
  <1>4. text \in CommandText => Escaped(text) \in CommandText
    BY <1>2 DEF CommandText
  <1> QED BY <1>2, <1>3, <1>4

LEMMA CleanedFacts ==
    ASSUME NEW t \in Task
    PROVE  /\ Cleaned(t) \in Task
           /\ SafeText(Cleaned(t).name) /\ SafeText(Cleaned(t).cmdline)
           /\ IsMainThread(Cleaned(t)) <=> IsMainThread(t)
           /\ Cleaned(t).pid = t.pid /\ Cleaned(t).cid = t.cid
  <1> DEFINE name == Escaped(t.name)
             cmdline == IF hidecmdline THEN {"stars"} ELSE Escaped(t.cmdline)
  <1>1. Cleaned(t) = [t EXCEPT !.name = name, !.cmdline = cmdline]
    BY DEF Cleaned
  <1>2. t.name \in NameText /\ t.cmdline \in CommandText
    BY DEF Task
  <1>3. {"stars"} \in CommandText /\ {"stars"} \cap Special = {} /\ "command" \notin {"stars"}
    BY DEF CommandText, Special
  <1>4. name \in NameText /\ name \cap Special = {}
    BY <1>2, EscapedFacts
  <1>5. cmdline \in CommandText /\ cmdline \cap Special = {}
        /\ (hidecmdline => "command" \notin cmdline)
    BY <1>2, <1>3, EscapedFacts
  <1>6. SafeText(name) /\ SafeText(cmdline)
    <2>1. "command" \notin name
      BY <1>4 DEF NameText, Special
    <2> HIDE DEF name, cmdline
    <2>2. name \subseteq AllText /\ cmdline \subseteq AllText
      BY <1>4, <1>5 DEF AllText, NameText, CommandText
    <2> QED BY <1>4, <1>5, <2>1, <2>2 DEF SafeText
  <1> HIDE DEF name, cmdline
  <1>7. /\ Cleaned(t) \in Task /\ Cleaned(t).name = name /\ Cleaned(t).cmdline = cmdline
        /\ Cleaned(t).pid = t.pid /\ Cleaned(t).cid = t.cid /\ Cleaned(t).tgid = t.tgid /\ Cleaned(t).isproc = t.isproc
    BY <1>1, <1>4, <1>5 DEF Task
  <1>8. IsMainThread(Cleaned(t)) <=> IsMainThread(t)
    BY <1>7 DEF IsMainThread
  <1> QED BY <1>6, <1>7, <1>8

(* PrintHeader makes any sample printable, and touches no raw string.       *)
LEMMA CleanedSample ==
    ASSUME NEW s \in Sample, s.tasks # <<>> => ~IsMainThread(s.tasks[1]),
           RawClean(sample) => RawClean(s)
    PROVE  LET c == [s EXCEPT !.tasks = [i \in DOMAIN @ |-> Cleaned(@[i])]]
           IN  Printable(c) /\ (RawClean(c) <=> RawClean(s))
  <1> DEFINE tasks == [i \in DOMAIN s.tasks |-> Cleaned(s.tasks[i])]
             c == [s EXCEPT !.tasks = tasks]
  <1>1. s.tasks \in Seq(Task)
    BY DEF Sample
  <1>2. Len(s.tasks) \in Nat /\ DOMAIN s.tasks = 1 .. Len(s.tasks)
        /\ \A i \in DOMAIN s.tasks : s.tasks[i] \in Task
    BY <1>1
  <1>3. \A i \in DOMAIN s.tasks : tasks[i] = Cleaned(s.tasks[i]) /\ tasks[i] \in Task
    BY <1>2, CleanedFacts
  <1>4. tasks \in Seq(Task) /\ DOMAIN tasks = DOMAIN s.tasks
    <2> DEFINE n == Len(s.tasks)
    <2>1. tasks \in [1 .. n -> Task] /\ DOMAIN tasks = 1 .. n
      BY <1>2, <1>3
    <2>2. n \in Nat
      BY <1>2
    <2> HIDE DEF tasks, n
    <2>3. tasks \in Seq(Task)
      BY <2>1, <2>2
    <2> QED BY <1>2, <2>1, <2>3 DEF n
  <1>5. tasks # <<>> => ~IsMainThread(tasks[1])
    <2> SUFFICES ASSUME tasks # <<>> PROVE ~IsMainThread(tasks[1])
      OBVIOUS
    <2>1. s.tasks # <<>>
      <3>1. CASE s.tasks = <<>>
        <4>1. DOMAIN tasks = {}
          BY <1>4, <3>1
        <4> HIDE DEF tasks
        <4>2. tasks = <<>>
          BY <1>4, <4>1
        <4> QED BY <4>2
      <3> QED BY <3>1
    <2>2. 1 \in DOMAIN s.tasks
      BY <1>1, <2>1
    <2> QED BY <1>2, <1>3, <2>1, <2>2, CleanedFacts
  <1>6. \A i \in DOMAIN tasks : SafeText(tasks[i].name) /\ SafeText(tasks[i].cmdline)
    BY <1>2, <1>3, <1>4, CleanedFacts
  <1>a. \A i \in DOMAIN s.tasks : tasks[i].cid = s.tasks[i].cid
    BY <1>2, <1>3, CleanedFacts
  <1> HIDE DEF tasks
  <1>7. c \in Sample /\ c.tasks = tasks /\ c.units = s.units
    BY <1>4 DEF Sample
  <1> HIDE DEF c
  <1>8. RawClean(c) <=> RawClean(s)
    <2>1. \A i \in DOMAIN s.tasks : c.tasks[i].cid = s.tasks[i].cid
      BY <1>a, <1>7
    <2> QED BY <1>4, <1>7, <2>1, Zenon DEF RawClean
  <1>9. Printable(c)
    BY <1>5, <1>6, <1>7, <1>8 DEF Printable
  <1> QED BY <1>8, <1>9 DEF c, tasks

(* The first task that atop writes is a process.                            *)
LEMMA FirstIsProcess ==
    ASSUME NEW s \in Samples
    PROVE  s \in Sample /\ (s.tasks # <<>> => ~IsMainThread(s.tasks[1]))
  <1>1. s \in Sample /\ AsAtopWrites(s.tasks)
    BY SamplesAssumption
  <1>2. s.tasks \in Seq(Task)
    BY <1>1 DEF Sample
  <1>3. ASSUME s.tasks # <<>> PROVE s.tasks[1].isproc
    <2>1. 1 \in DOMAIN s.tasks
      BY <1>2, <1>3
    <2>2. 1 .. 1 - 1 = {}
      OBVIOUS
    <2> QED BY <1>1, <2>1, <2>2 DEF AsAtopWrites
  <1> QED BY <1>1, <1>3 DEF IsMainThread

----------------------------------------------------------------------------
(* Steps                                                                    *)

LEMMA SafeIsPiece ==
    ASSUME NEW s \in Seq(SafePiece)
    PROVE  s \in Seq(PieceType)
  <1>1. SafePiece \subseteq PieceType
    BY DEF SafePiece
  <1> QED BY <1>1

LEMMA TailFacts ==
    ASSUME NEW S, NEW s \in Seq(S), s # <<>>
    PROVE  Head(s) \in S /\ Tail(s) \in Seq(S)
  OBVIOUS

LEMMA TypesStay ==
    ASSUME JsonTypeOK, UNCHANGED <<hidecmdline>>,
           pc' \in {"idle", "jsondef", "labels", "done"},
           asked' \in LabelLists \cup {<<>>}, rest' \in Seq(STRING), valid' \subseteq Labels,
           sample' \in Sample, row' \in 0 .. Len(labeldef), out' \in Seq(SafePiece)
    PROVE  JsonTypeOK'
  <1>1. out' \in Seq(PieceType)
    BY SafeIsPiece
  <1> QED BY <1>1, Zenon DEF JsonTypeOK

(* Adding one piece.                                                        *)
LEMMA PieceAdded ==
    ASSUME NEW s \in Seq(SafePiece), Adjacent(s), NEW p \in SafePiece,
           s = <<>> \/ p.kind \in MayFollow(s[Len(s)].kind)
    PROVE  LET c == Append(s, p)
           IN  /\ c \in Seq(SafePiece) /\ c # <<>> /\ Adjacent(c) /\ c[Len(c)] = p
               /\ c[1] = IF s = <<>> THEN p ELSE s[1]
  <1> DEFINE t == <<p>>
  <1>1. t \in Seq(SafePiece) /\ t # <<>> /\ Adjacent(t) /\ t[1] = p
    BY SingleFacts
  <1>2. t[Len(t)] = p
    OBVIOUS
  <1>3. Append(s, p) = s \o t
    OBVIOUS
  <1> HIDE DEF t
  <1>4. CASE s = <<>>
    <2>1. s \o t = t
      BY <1>1, <1>4
    <2> QED BY <1>1, <1>2, <1>3, <1>4, <2>1
  <1>5. CASE s # <<>>
    <2>1. /\ s \o t \in Seq(SafePiece) /\ s \o t # <<>> /\ Adjacent(s \o t)
          /\ (s \o t)[1] = s[1] /\ (s \o t)[Len(s \o t)] = t[Len(t)]
      BY <1>1, <1>5, Joined
    <2> QED BY <1>2, <1>3, <1>5, <2>1
  <1> QED BY <1>4, <1>5

LEMMA JsonInvInit == Init => JsonInv
  <1> SUFFICES ASSUME Init PROVE JsonInv
    OBVIOUS
  <1>1. NoSample \in Sample
    <2>1. <<>> \in Seq(Task) /\ [a \in Counted |-> <<>>] \in [Counted -> Seq(RawText)]
      OBVIOUS
    <2> QED BY <2>1, Zenon DEF NoSample, Sample
  <1>2. <<>> \in Seq(STRING) /\ <<>> \in Seq(PieceType) /\ <<>> \in Seq(SafePiece)
    OBVIOUS
  <1>3. row \in 0 .. Len(labeldef)
    BY LabelSet DEF Init
  <1>4. JsonTypeOK
    BY <1>1, <1>2, <1>3, Zenon DEF Init, JsonTypeOK
  <1>5. PrintedInv
    BY <1>2 DEF Init, PrintedInv, Adjacent
  <1>6. SampleInv
    BY DEF Init, SampleInv
  <1> QED BY <1>4, <1>5, <1>6 DEF JsonInv

LEMMA JsonInvNext == JsonInv /\ [Next]_vars => JsonInv'
  <1> SUFFICES ASSUME JsonInv, [Next]_vars PROVE JsonInv'
    OBVIOUS
  <1>0. /\ JsonTypeOK /\ PrintedInv /\ SampleInv
        /\ pc \in {"idle", "jsondef", "labels", "done"}
        /\ asked \in LabelLists \cup {<<>>} /\ rest \in Seq(STRING)
        /\ valid \subseteq Labels /\ sample \in Sample /\ row \in 0 .. Len(labeldef)
        /\ out \in Seq(SafePiece) /\ Adjacent(out)
    BY DEF JsonInv, JsonTypeOK, PrintedInv
  <1>a. (hidecmdline' = hidecmdline /\ (RawClean(sample') <=> RawClean(sample)))
            => SafePiece' = SafePiece
    BY DEF SafePiece, SafeRaw
  <1>b. sample' = sample => (RawClean(sample') <=> RawClean(sample))
    OBVIOUS
  <1>1. CASE UNCHANGED vars
    <2>1. UNCHANGED <<hidecmdline, pc, asked, rest, valid, sample, row, out>>
      BY <1>1 DEF vars
    <2>2. JsonTypeOK'
      BY <1>0, <2>1, Zenon DEF JsonTypeOK
    <2>3. PrintedInv'
      BY <1>0, <1>a, <1>b, <2>1 DEF PrintedInv, Adjacent
    <2>4. SampleInv'
      BY <1>0, <2>1 DEF SampleInv, Printable, SafeText
    <2> QED BY <2>2, <2>3, <2>4 DEF JsonInv
  <1>2. ASSUME NEW list \in LabelLists, NEW s \in Samples, jsonout(list, s) PROVE JsonInv'
    <2>1. /\ pc = "idle" /\ pc' = "jsondef" /\ asked' = list /\ rest' = list /\ sample' = s
          /\ UNCHANGED <<hidecmdline, valid, row, out>>
      BY <1>2 DEF jsonout
    <2>2. list \in Seq(STRING) /\ s \in Sample /\ (s.tasks # <<>> => ~IsMainThread(s.tasks[1]))
      BY ListsAssumption, FirstIsProcess
    <2>3. JsonTypeOK'
      BY <1>0, <2>1, <2>2, TypesStay
    <2>4. PrintedInv'
      <3>1. out' = <<>>
        BY <1>0, <2>1 DEF PrintedInv
      <3> QED BY <2>1, <3>1 DEF PrintedInv, Adjacent
    <2>5. SampleInv'
      BY <2>1, <2>2 DEF SampleInv
    <2> QED BY <2>3, <2>4, <2>5 DEF JsonInv
  <1>3. CASE KnownLabel \/ LabelAll
    <2>1. /\ pc = "jsondef" /\ rest # <<>> /\ UNCHANGED <<hidecmdline, pc, asked, sample, row, out>>
          /\ valid' \subseteq Labels /\ rest' \in {Tail(rest), <<>>}
      BY <1>0, <1>3 DEF KnownLabel, LabelAll
    <2>2. rest' \in Seq(STRING)
      <3>1. Tail(rest) \in Seq(STRING) /\ <<>> \in Seq(STRING)
        BY <1>0, <2>1, TailFacts
      <3> QED BY <2>1, <3>1
    <2>3. JsonTypeOK'
      BY <1>0, <2>1, <2>2, TypesStay
    <2>4. PrintedInv'
      BY <1>0, <1>a, <1>b, <2>1 DEF PrintedInv, Adjacent
    <2>5. SampleInv'
      BY <1>0, <2>1 DEF SampleInv
    <2> QED BY <2>3, <2>4, <2>5 DEF JsonInv
  <1>4. CASE UnknownLabel
    <2>1. /\ pc = "jsondef" /\ pc' = "done" /\ out' = Append(out, Message)
          /\ UNCHANGED <<hidecmdline, asked, rest, valid, sample, row>>
      BY <1>4 DEF UnknownLabel
    <2>2. /\ out' \in Seq(SafePiece) /\ out' # <<>> /\ Adjacent(out')
          /\ out'[1] = Message /\ out'[Len(out')] = Message
      BY <1>0, <2>1, PieceAdded, PieceFacts DEF PrintedInv
    <2>3. JsonTypeOK'
      BY <1>0, <2>1, <2>2, TypesStay
    <2>4. PrintedInv'
      BY <1>a, <1>b, <2>1, <2>2, PieceFacts DEF PrintedInv, Adjacent
    <2>5. SampleInv'
      BY <2>1 DEF SampleInv
    <2> QED BY <2>3, <2>4, <2>5 DEF JsonInv
  <1>5. CASE PrintHeader
    <2>1. /\ pc = "jsondef" /\ pc' = "labels" /\ out' = Append(out, Open)
          /\ sample' = [sample EXCEPT !.tasks = [i \in DOMAIN @ |-> Cleaned(@[i])]]
          /\ UNCHANGED <<hidecmdline, asked, rest, valid, row>>
      BY <1>5 DEF PrintHeader
    <2>2. /\ out' \in Seq(SafePiece) /\ out' # <<>> /\ Adjacent(out')
          /\ out'[1] = Open /\ out'[Len(out')] = Open
      BY <1>0, <2>1, PieceAdded, PieceFacts DEF PrintedInv
    <2>3. Printable(sample') /\ (RawClean(sample') <=> RawClean(sample))
      <3>1. sample \in Sample /\ (sample.tasks # <<>> => ~IsMainThread(sample.tasks[1]))
        BY <1>0, <2>1 DEF SampleInv
      <3> DEFINE c == [sample EXCEPT !.tasks = [i \in DOMAIN @ |-> Cleaned(@[i])]]
      <3>2. Printable(c) /\ (RawClean(c) <=> RawClean(sample))
        BY <3>1, CleanedSample
      <3>3. sample' = c
        BY <2>1
      <3> HIDE DEF c
      <3> QED BY <3>2, <3>3
    <2>4. sample' \in Sample
      BY <2>3 DEF Printable
    <2>5. JsonTypeOK'
      BY <1>0, <2>1, <2>2, <2>4, TypesStay
    <2>6. PrintedInv'
      BY <1>a, <2>1, <2>2, <2>3, PieceFacts DEF PrintedInv, Adjacent
    <2>7. SampleInv'
      BY <2>1, <2>3 DEF SampleInv, Printable, SafeText
    <2> QED BY <2>5, <2>6, <2>7 DEF JsonInv
  <1>6. ASSUME NEW k \in DOMAIN labeldef, PrintLabel(k) PROVE JsonInv'
    <2> DEFINE r == prifunc(labeldef[k], sample)
    <2>1. /\ pc = "labels" /\ pc' = pc /\ out' = out \o r /\ row' = k
          /\ UNCHANGED <<hidecmdline, pc, asked, rest, valid, sample>>
      BY <1>6 DEF PrintLabel
    <2>2. Section(r)
      <3>1. labeldef[k] \in Labels
        BY LabelSet
      <3>2. Printable(sample)
        BY <1>0, <2>1 DEF SampleInv
      <3> QED BY <3>1, <3>2, PrintsSection
    <2> HIDE DEF r
    <2>3. /\ out # <<>> /\ out[1].kind = "open"
          /\ out[Len(out)].kind \in {"open", "object", "end"}
      BY <1>0, <2>1 DEF PrintedInv
    <2>4. /\ out' \in Seq(SafePiece) /\ out' # <<>> /\ Adjacent(out')
          /\ out'[1].kind = "open" /\ out'[Len(out')].kind \in {"open", "object", "end"}
      <3>1. CASE r = <<>>
        <4>1. out' = out
          BY <1>0, <2>1, <3>1
        <4> QED BY <1>0, <2>3, <4>1
      <3>2. CASE r # <<>>
        <4>1. /\ r \in Seq(SafePiece) /\ Adjacent(r)
              /\ r[1].kind \in {"object", "begin"} /\ r[Len(r)].kind \in {"object", "end"}
          BY <2>2, <3>2 DEF Section
        <4>2. r[1].kind \in MayFollow(out[Len(out)].kind)
          BY <2>3, <4>1 DEF MayFollow
        <4>3. /\ out \o r \in Seq(SafePiece) /\ out \o r # <<>> /\ Adjacent(out \o r)
              /\ (out \o r)[1] = out[1] /\ (out \o r)[Len(out \o r)] = r[Len(r)]
          BY <1>0, <2>3, <3>2, <4>1, <4>2, Joined
        <4> QED BY <2>1, <2>3, <4>1, <4>3
      <3> QED BY <3>1, <3>2
    <2>5. row' \in 0 .. Len(labeldef)
      BY <2>1, LabelSet
    <2>6. JsonTypeOK'
      BY <1>0, <2>1, <2>4, <2>5, TypesStay
    <2>7. PrintedInv'
      BY <1>a, <1>b, <2>1, <2>4 DEF PrintedInv, Adjacent
    <2>8. SampleInv'
      BY <1>0, <2>1 DEF SampleInv, Printable, SafeText
    <2> QED BY <2>6, <2>7, <2>8 DEF JsonInv
  <1>7. CASE PrintClose
    <2>1. /\ pc = "labels" /\ pc' = "done" /\ out' = Append(out, Close)
          /\ UNCHANGED <<hidecmdline, asked, rest, valid, sample, row>>
      BY <1>7 DEF PrintClose
    <2>2. /\ out # <<>> /\ out[1].kind = "open" /\ "close" \in MayFollow(out[Len(out)].kind)
      BY <1>0, <2>1 DEF PrintedInv, MayFollow
    <2>3. /\ out' \in Seq(SafePiece) /\ out' # <<>> /\ Adjacent(out')
          /\ out'[1] = out[1] /\ out'[Len(out')] = Close
      BY <1>0, <2>1, <2>2, PieceAdded, PieceFacts
    <2>4. JsonTypeOK'
      BY <1>0, <2>1, <2>3, TypesStay
    <2>5. PrintedInv'
      BY <1>a, <1>b, <2>1, <2>2, <2>3, PieceFacts DEF PrintedInv, Adjacent
    <2>6. SampleInv'
      BY <2>1 DEF SampleInv
    <2> QED BY <2>4, <2>5, <2>6 DEF JsonInv
  <1>8. CASE Return
    <2>1. /\ pc' = "idle" /\ asked' = <<>> /\ rest' = <<>> /\ valid' = {} /\ sample' = NoSample
          /\ row' = 0 /\ out' = <<>> /\ UNCHANGED hidecmdline
      BY <1>8 DEF Return
    <2>2. NoSample \in Sample
      <3>1. <<>> \in Seq(Task) /\ [a \in Counted |-> <<>>] \in [Counted -> Seq(RawText)]
        OBVIOUS
      <3> QED BY <3>1, Zenon DEF NoSample, Sample
    <2>3. <<>> \in Seq(STRING) /\ <<>> \in Seq(SafePiece) /\ 0 \in 0 .. Len(labeldef)
      BY LabelSet
    <2>4. JsonTypeOK'
      BY <1>0, <2>1, <2>2, <2>3, TypesStay
    <2>5. PrintedInv'
      BY <2>1 DEF PrintedInv, Adjacent
    <2>6. SampleInv'
      BY <2>1 DEF SampleInv
    <2> QED BY <2>4, <2>5, <2>6 DEF JsonInv
  <1> QED BY <1>1, <1>2, <1>3, <1>4, <1>5, <1>6, <1>7, <1>8 DEF Next, Printing

----------------------------------------------------------------------------
(* The theorems                                                             *)

LEMMA JsonInvAlways == Spec => []JsonInv
  BY JsonInvInit, JsonInvNext, PTL DEF Spec

(* jsonout and jsondef keep every variable in its type: the cursor inside   *)
(* labeldef, the marks among its labels, the output a sequence of pieces.   *)
THEOREM JsonTyped == Spec => []JsonTypeOK
  BY JsonInvAlways, PTL DEF JsonInv

(* Whatever the list of labels and whatever the sample, the output_samp     *)
(* calls of jsonout and of the print functions have the shape of one        *)
(* object: commas between the elements and only there, every array ended,   *)
(* the object closed, or the one message of jsondef; no name or command     *)
(* line of a task has a quote or a backslash; and no other string has one   *)
(* unless one of the raw strings had it in the sample or the host's name.   *)
THEOREM PrintsWellFormed == Spec => []WellFormed
  <1>1. JsonInv => WellFormed
    <2> SUFFICES ASSUME JsonInv PROVE WellFormed
      OBVIOUS
    <2>1. out \in Seq(SafePiece) /\ Adjacent(out)
      BY DEF JsonInv, PrintedInv
    <2>2. out # <<>> => out[1].kind \in {"open", "message"}
      BY DEF JsonInv, JsonTypeOK, PrintedInv
    <2>3. pc = "done" => MayFollow(Last(out).kind) = {}
      <3>1. pc = "done" => Last(out).kind \in {"close", "message"}
        BY DEF JsonInv, PrintedInv, Last
      <3> QED BY <3>1 DEF MayFollow
    <2>4. \A i \in DOMAIN out :
             /\ out[i].text \cap Special = {}
             /\ RawClean(sample) => out[i].raw \cap Special = {}
      <3>1. \A i \in DOMAIN out : out[i] \in SafePiece
        BY <2>1
      <3> QED BY <3>1 DEF SafePiece, SafeRaw
    <2> QED BY <2>1, <2>2, <2>3, <2>4 DEF WellFormed, Adjacent
  <1> QED BY <1>1, JsonInvAlways, PTL

(* With hidecmdline set, no piece of the output holds a command line: the   *)
(* stars that jsonout writes over the sample come before the first print    *)
(* function reads it.                                                       *)
THEOREM CommandsStayHidden == Spec => []CommandsHidden
  <1>1. JsonInv => CommandsHidden
    <2> SUFFICES ASSUME JsonInv PROVE CommandsHidden
      OBVIOUS
    <2>1. \A i \in DOMAIN out : out[i] \in SafePiece
      BY DEF JsonInv, PrintedInv
    <2> QED BY <2>1 DEF SafePiece, CommandsHidden
  <1> QED BY <1>1, JsonInvAlways, PTL

----------------------------------------------------------------------------
(* Which members and which elements are printed                             *)

(* Where the members of the object and the elements of its arrays stand,    *)
(* and what tells them apart: the key, and the id of an element.            *)
Marked(s) == { i \in DOMAIN s : s[i].kind \in {"object", "begin", "item"} }
Mark(p)   == IF p.kind = "item" THEN <<p.key, "item", p.id>> ELSE <<p.key, "member", 0>>
Marks(s)  == { Mark(s[i]) : i \in Marked(s) }
Once(s)   == \A i, j \in Marked(s) : Mark(s[i]) = Mark(s[j]) => i = j

(* What the print function of a label should print of a sample.             *)
Lacks(label, s) == \/ label = "PSI" /\ ~s.psi
                   \/ label = "PRN" /\ "NETATOP" \notin s.flags
                   \/ label = "PRE" /\ "GPUSTAT" \notin s.flags
Ids(label, s)   == IF label \in Counted THEN 1 .. Len(s.units[label])
                   ELSE IF label \in TaskLabels THEN { t.pid : t \in Range(s.tasks) }
                   ELSE {}
LabelMarks(label, s) ==
    IF Lacks(label, s) THEN {}
    ELSE {<<label, "member", 0>>} \cup { <<label, "item", id>> : id \in Ids(label, s) }
         \cup IF label = "NET" THEN {<<"NET_GENERAL", "member", 0>>} ELSE {}

MarksOf(labels, s) == UNION { LabelMarks(label, s) : label \in labels }

(* The labels of the first n rows.                                          *)
Rows(n) == { labeldef[k] : k \in 1 .. n }

LEMMA MarksOfNone == Marks(<<>>) = {} /\ Once(<<>>)
  BY DEF Marks, Once, Marked

LEMMA MarksOfOne ==
    ASSUME NEW S, NEW p \in S
    PROVE  LET s == <<p>>
           IN  /\ s \in Seq(S) /\ Once(s)
               /\ p.kind \in {"object", "begin", "item"} => Marks(s) = {Mark(p)}
               /\ p.kind \notin {"object", "begin", "item"} => Marks(s) = {}
  <1> DEFINE s == <<p>>
  <1>1. s \in Seq(S) /\ DOMAIN s = {1} /\ s[1] = p
    OBVIOUS
  <1> HIDE DEF s
  <1>2. Once(s)
    BY <1>1 DEF Once, Marked
  <1>3. p.kind \in {"object", "begin", "item"} => Marks(s) = {Mark(p)}
    <2> SUFFICES ASSUME p.kind \in {"object", "begin", "item"} PROVE Marks(s) = {Mark(p)}
      OBVIOUS
    <2>1. Marked(s) = {1}
      BY <1>1 DEF Marked
    <2> QED BY <1>1, <2>1 DEF Marks
  <1>4. p.kind \notin {"object", "begin", "item"} => Marks(s) = {}
    BY <1>1 DEF Marks, Marked
  <1> QED BY <1>1, <1>2, <1>3, <1>4 DEF s

(* Printing one text after another adds up what they hold, and nothing is   *)
(* there twice when they have nothing in common.                            *)
LEMMA MarksAdd ==
    ASSUME NEW S, NEW a \in Seq(S), NEW b \in Seq(S)
    PROVE  LET c == a \o b
           IN  /\ c \in Seq(S) /\ Marks(c) = Marks(a) \cup Marks(b)
               /\ Once(a) /\ Once(b) /\ Marks(a) \cap Marks(b) = {} => Once(c)
  <1> DEFINE c == a \o b
             m == Len(a)
             n == Len(b)
             K == {"object", "begin", "item"}
  <1>1. /\ c \in Seq(S) /\ m \in Nat /\ n \in Nat
        /\ DOMAIN a = 1 .. m /\ DOMAIN b = 1 .. n /\ DOMAIN c = 1 .. m + n
    <2>1. c \in Seq(S) /\ Len(c) = m + n /\ m \in Nat /\ n \in Nat
      BY ConcatFacts
    <2> QED BY <2>1
  <1>2. \A i \in 1 .. m : c[i] = a[i]
    BY ConcatFacts
  <1>3. \A i \in 1 .. n : c[m + i] = b[i]
    BY ConcatFacts
  <1> HIDE DEF c, m, n
  <1>4. \A i \in 1 .. m : i \in 1 .. m + n /\ (i \in Marked(a) <=> i \in Marked(c))
    BY <1>1, <1>2 DEF Marked
  <1>5. \A i \in 1 .. n : m + i \in 1 .. m + n /\ (i \in Marked(b) <=> m + i \in Marked(c))
    BY <1>1, <1>3 DEF Marked
  <1>6. \A i \in 1 .. m + n : i \in 1 .. m \/ (i - m \in 1 .. n /\ m + (i - m) = i)
    BY <1>1
  <1>7. Marked(a) \subseteq 1 .. m /\ Marked(b) \subseteq 1 .. n /\ Marked(c) \subseteq 1 .. m + n
    BY <1>1 DEF Marked
  <1>8. Marks(c) = Marks(a) \cup Marks(b)
    <2>1. ASSUME NEW x \in Marks(c) PROVE x \in Marks(a) \cup Marks(b)
      <3>1. PICK i \in Marked(c) : x = Mark(c[i])
        BY DEF Marks
      <3>2. CASE i \in 1 .. m
        BY <1>2, <1>4, <3>1, <3>2 DEF Marks
      <3>3. CASE i - m \in 1 .. n /\ m + (i - m) = i
        <4>1. i - m \in Marked(b) /\ c[i] = b[i - m]
          BY <1>3, <1>5, <3>3
        <4> QED BY <3>1, <4>1 DEF Marks
      <3> QED BY <1>6, <1>7, <3>2, <3>3
    <2>2. ASSUME NEW x \in Marks(a) PROVE x \in Marks(c)
      <3>1. PICK i \in Marked(a) : x = Mark(a[i])
        BY DEF Marks
      <3> QED BY <1>2, <1>4, <1>7, <3>1 DEF Marks
    <2>3. ASSUME NEW x \in Marks(b) PROVE x \in Marks(c)
      <3>1. PICK i \in Marked(b) : x = Mark(b[i])
        BY DEF Marks
      <3>2. m + i \in Marked(c) /\ c[m + i] = b[i]
        BY <1>3, <1>5, <1>7
      <3> QED BY <3>1, <3>2 DEF Marks
    <2> QED BY <2>1, <2>2, <2>3
  <1>9. ASSUME Once(a), Once(b), Marks(a) \cap Marks(b) = {} PROVE Once(c)
    <2> SUFFICES ASSUME NEW i \in Marked(c), NEW j \in Marked(c), Mark(c[i]) = Mark(c[j])
                 PROVE  i = j
      BY DEF Once
    <2>1. \A k \in Marked(c) :
             \/ k \in Marked(a) /\ c[k] = a[k] /\ Mark(c[k]) \in Marks(a)
             \/ /\ k - m \in Marked(b) /\ c[k] = b[k - m] /\ m + (k - m) = k
                /\ Mark(c[k]) \in Marks(b)
      <3> SUFFICES ASSUME NEW k \in Marked(c)
                   PROVE  \/ k \in Marked(a) /\ c[k] = a[k] /\ Mark(c[k]) \in Marks(a)
                          \/ /\ k - m \in Marked(b) /\ c[k] = b[k - m] /\ m + (k - m) = k
                             /\ Mark(c[k]) \in Marks(b)
        OBVIOUS
      <3>1. CASE k \in 1 .. m
        BY <1>2, <1>4, <3>1 DEF Marks
      <3>2. CASE k - m \in 1 .. n /\ m + (k - m) = k
        <4>1. k - m \in Marked(b) /\ c[k] = b[k - m]
          BY <1>3, <1>5, <3>2
        <4> QED BY <3>2, <4>1 DEF Marks
      <3> QED BY <1>6, <1>7, <3>1, <3>2
    <2>2. CASE Mark(c[i]) \in Marks(a)
      <3>1. i \in Marked(a) /\ j \in Marked(a) /\ c[i] = a[i] /\ c[j] = a[j]
        BY <1>9, <2>1, <2>2
      <3> QED BY <1>9, <3>1 DEF Once
    <2>3. CASE Mark(c[i]) \in Marks(b)
      <3>1. /\ i - m \in Marked(b) /\ j - m \in Marked(b) /\ c[i] = b[i - m] /\ c[j] = b[j - m]
            /\ m + (i - m) = i /\ m + (j - m) = j
        BY <1>9, <2>1, <2>3
      <3>2. i - m = j - m
        BY <1>9, <3>1 DEF Once
      <3> QED BY <3>1, <3>2
    <2> QED BY <2>1, <2>2, <2>3
  <1> QED BY <1>1, <1>8, <1>9 DEF c

LEMMA PairJoins ==
    ASSUME NEW S, NEW p \in S, NEW q \in S
    PROVE  <<p>> \o <<q>> = <<p, q>>
  <1> DEFINE a == <<p>>
             b == <<q>>
             c == a \o b
             d == <<p, q>>
  <1>1. a \in Seq(S) /\ b \in Seq(S) /\ Len(a) = 1 /\ Len(b) = 1 /\ a[1] = p /\ b[1] = q
    OBVIOUS
  <1>2. d \in Seq(S) /\ Len(d) = 2 /\ d[1] = p /\ d[2] = q
    OBVIOUS
  <1> HIDE DEF a, b
  <1>3. c \in Seq(S) /\ Len(c) = Len(a) + Len(b) /\ c[1] = a[1] /\ c[Len(a) + 1] = b[1]
    <2>1. 1 \in 1 .. Len(a) /\ 1 \in 1 .. Len(b)
      BY <1>1
    <2> QED BY <1>1, <2>1, ConcatFacts
  <1> HIDE DEF c, d
  <1>4. c \in Seq(S) /\ Len(c) = 2 /\ c[1] = p /\ c[2] = q
    BY <1>1, <1>3
  <1>5. DOMAIN c = 1 .. 2 /\ DOMAIN d = 1 .. 2 /\ \A i \in 1 .. 2 : c[i] = d[i]
    BY <1>2, <1>4
  <1>6. c = d
    BY <1>2, <1>4, <1>5
  <1> QED BY <1>6 DEF a, b, c, d

(* One turn of a loop prints at most its item.                              *)
LEMMA TurnMarks ==
    ASSUME NEW i \in Nat, NEW p \in SafePiece, p.kind = "item"
    PROVE  LET t == Separated(i, p)
           IN  t \in Seq(SafePiece) /\ Once(t) /\ Marks(t) = {Mark(p)}
  <1> DEFINE a == <<Comma>>
             b == <<p>>
  <1>1. b \in Seq(SafePiece) /\ Once(b) /\ Marks(b) = {Mark(p)}
    BY MarksOfOne
  <1>2. a \in Seq(SafePiece) /\ Once(a) /\ Marks(a) = {}
    BY MarksOfOne, PieceFacts
  <1>3. a \o b = <<Comma, p>>
    BY PairJoins, PieceFacts
  <1> HIDE DEF a, b
  <1>4. a \o b \in Seq(SafePiece) /\ Once(a \o b) /\ Marks(a \o b) = {Mark(p)}
    BY <1>1, <1>2, MarksAdd
  <1>5. Separated(i, p) = a \o b \/ Separated(i, p) = b
    BY <1>3 DEF Separated, b
  <1> QED BY <1>1, <1>4, <1>5

(* What a loop should be given: it does not skip its first turn, and no two *)
(* items are alike.                                                         *)
Distinct(n, item, skipped) ==
    /\ n \in Nat /\ 1 \notin skipped
    /\ \A i \in 1 .. n : item[i] \in SafePiece /\ item[i].kind = "item"
    /\ \A i, j \in (1 .. n) \ skipped : Mark(item[i]) = Mark(item[j]) => i = j

(* A loop prints each item it does not skip, once.                          *)
LEMMA LoopMarks ==
    ASSUME NEW n, NEW item, NEW skipped, Distinct(n, item, skipped)
    PROVE  \A turns :
             turns = [i \in 1 .. n |-> IF i \in skipped THEN <<>> ELSE Separated(i, item[i])]
             => /\ FlattenSeq(turns) \in Seq(SafePiece) /\ Once(FlattenSeq(turns))
                /\ Marks(FlattenSeq(turns)) = { Mark(item[i]) : i \in (1 .. n) \ skipped }
  <1> USE DEF Distinct
  <1> DEFINE turns == [i \in 1 .. n |-> IF i \in skipped THEN <<>> ELSE Separated(i, item[i])]
             Printed(m) == { Mark(item[i]) : i \in (1 .. m) \ skipped }
             Good(m, s) == s \in Seq(SafePiece) /\ Once(s) /\ Marks(s) = Printed(m)
  <1>1. Turns(turns)
    BY LoopTurns
  <1>a. Len(turns) = n
    OBVIOUS
  <1>2. \A i \in 1 .. n : turns[i] = IF i \in skipped THEN <<>> ELSE Separated(i, item[i])
    OBVIOUS
  <1> HIDE DEF turns
  <1>3. turns \in Seq(Seq(SafePiece))
    BY <1>1 DEF Turns
  <1> SUFFICES Good(n, FlattenSeq(turns))
    BY DEF turns
  <1>4. CASE n = 0
    <2>1. turns = <<>>
      BY <1>a, <1>3, <1>4
    <2>2. FlattenSeq(turns) = <<>>
      BY <2>1 DEF FlattenSeq
    <2>3. Printed(n) = {}
      BY <1>4
    <2>4. <<>> \in Seq(SafePiece)
      OBVIOUS
    <2>5. Good(n, FlattenSeq(turns))
      BY <2>2, <2>3, <2>4, MarksOfNone
    <2> QED BY <2>5
  <1>5. CASE n # 0
    <2>1. PICK f : /\ \A i \in 1 .. n : f[i] \in Seq(SafePiece)
                   /\ f[1] = turns[1]
                   /\ \A i \in 2 .. n : f[i] = f[i - 1] \o turns[i]
                   /\ FlattenSeq(turns) = f[n]
      <3>1. Len(turns) # 0
        BY <1>a, <1>5
      <3> HIDE DEF Printed, Good
      <3>2. \E f : /\ \A i \in 1 .. Len(turns) : f[i] \in Seq(SafePiece)
                   /\ f[1] = turns[1]
                   /\ \A i \in 2 .. Len(turns) : f[i] = f[i - 1] \o turns[i]
                   /\ FlattenSeq(turns) = f[Len(turns)]
        BY <1>3, <3>1, FlattenTurns
      <3> QED BY <1>a, <3>2, Zenon
    <2> DEFINE T == { m \in Nat \ {0} : m <= n => Good(m, f[m]) }
    <2>2. 1 \in T
      <3>1. 1 \in 1 .. n /\ Printed(1) = {Mark(item[1])}
        BY <1>5
      <3>2. f[1] = Separated(1, item[1])
        BY <1>2, <2>1, <3>1
      <3> DEFINE p == item[1]
                 t == Separated(1, p)
      <3>a. p \in SafePiece /\ p.kind = "item"
        BY <3>1
      <3>b. t \in Seq(SafePiece) /\ Once(t) /\ Marks(t) = {Mark(p)}
        BY <3>a, TurnMarks
      <3> HIDE DEF t
      <3>3. Good(1, f[1])
        BY <3>1, <3>2, <3>b DEF t
      <3> QED BY <3>3
    <2>3. ASSUME NEW m \in Nat \ {0}, m \in T PROVE m + 1 \in T
      <3> SUFFICES ASSUME m + 1 <= n PROVE Good(m + 1, f[m + 1])
        BY <2>3
      <3>1. Good(m, f[m]) /\ m + 1 \in 2 .. n /\ m + 1 \in 1 .. n /\ (m + 1) - 1 = m
        BY <2>3
      <3>2. f[m + 1] = f[m] \o turns[m + 1]
        BY <2>1, <3>1
      <3>3. (1 .. m + 1) \ skipped = ((1 .. m) \ skipped) \cup ({m + 1} \ skipped)
        OBVIOUS
      <3>4. CASE m + 1 \in skipped
        <4>a. turns[m + 1] = <<>>
          BY <1>2, <3>1, <3>4
        <4>b. f[m] \in Seq(SafePiece)
          BY <3>1
        <4>1. f[m + 1] = f[m]
          <5> HIDE DEF Good, Printed
          <5> QED BY <3>2, <4>a, <4>b
        <4>2. Printed(m + 1) = Printed(m)
          BY <3>3, <3>4
        <4> QED BY <3>1, <4>1, <4>2
      <3>5. CASE m + 1 \notin skipped
        <4> DEFINE p == item[m + 1]
                   t == turns[m + 1]
        <4>1. t \in Seq(SafePiece) /\ Once(t) /\ Marks(t) = {Mark(p)}
          BY <1>2, <3>1, <3>5, TurnMarks
        <4>2. Printed(m + 1) = Printed(m) \cup {Mark(p)}
          BY <3>3, <3>5
        <4>3. Mark(p) \notin Printed(m)
          <5> SUFFICES ASSUME NEW i \in (1 .. m) \ skipped, Mark(item[i]) = Mark(p) PROVE FALSE
            OBVIOUS
          <5>1. i \in (1 .. n) \ skipped /\ m + 1 \in (1 .. n) \ skipped /\ i # m + 1
            BY <3>1, <3>5
          <5> QED BY <5>1
        <4> HIDE DEF p, t, Printed
        <4>4. /\ f[m] \o t \in Seq(SafePiece) /\ Marks(f[m] \o t) = Printed(m) \cup {Mark(p)}
              /\ Once(f[m] \o t)
          BY <3>1, <4>1, <4>3, MarksAdd
        <4> QED BY <3>2, <4>2, <4>4 DEF t
      <3> QED BY <3>4, <3>5
    <2>4. Good(n, f[n])
      <3>1. \A k \in Nat \ {0} : k \in T
        <4> HIDE DEF T
        <4> QED BY <2>2, <2>3, Induction
      <3> HIDE DEF Good
      <3>2. n \in T /\ n <= n
        BY <1>5, <3>1
      <3> QED BY <3>2
    <2> QED BY <2>1, <2>4
  <1> QED BY <1>4, <1>5

(* An array is one member, with its items.                                  *)
LEMMA ArrayMarks ==
    ASSUME NEW key \in Labels, NEW turns, NEW S,
           FlattenSeq(turns) \in Seq(SafePiece), Once(FlattenSeq(turns)),
           Marks(FlattenSeq(turns)) = S, <<key, "member", 0>> \notin S
    PROVE  LET r == Array(key, turns)
           IN  r \in Seq(SafePiece) /\ Once(r) /\ Marks(r) = {<<key, "member", 0>>} \cup S
  <1> DEFINE b == <<Begin(key)>>
             s == FlattenSeq(turns)
             e == <<End>>
  <1>1. Mark(Begin(key)) = <<key, "member", 0>>
    BY DEF Mark, Begin, Piece
  <1>2. b \in Seq(SafePiece) /\ Once(b) /\ Marks(b) = {<<key, "member", 0>>}
    BY <1>1, MarksOfOne, PieceFacts
  <1>3. e \in Seq(SafePiece) /\ Once(e) /\ Marks(e) = {}
    BY MarksOfOne, PieceFacts
  <1>4. Array(key, turns) = b \o s \o e
    BY DEF Array
  <1> HIDE DEF b, s, e
  <1> DEFINE c == b \o s
  <1>a. s \in Seq(SafePiece) /\ Once(s) /\ Marks(s) = S
    BY DEF s
  <1>5. c \in Seq(SafePiece) /\ Once(c) /\ Marks(c) = {<<key, "member", 0>>} \cup S
    BY <1>2, <1>a, MarksAdd
  <1> HIDE DEF c
  <1>6. c \o e \in Seq(SafePiece) /\ Once(c \o e) /\ Marks(c \o e) = {<<key, "member", 0>>} \cup S
    BY <1>3, <1>5, MarksAdd
  <1> QED BY <1>4, <1>6 DEF c

LEMMA ItemMark ==
    ASSUME NEW key, NEW id, NEW text, NEW raw
    PROVE  Mark(Item(key, id, text, raw)) = <<key, "item", id>>
  BY DEF Mark, Item, Piece

Elements(key, ids) == {<<key, "member", 0>>} \cup { <<key, "item", id>> : id \in ids }

LEMMA CountedMarks ==
    ASSUME NEW s, Printable(s), NEW key \in Counted
    PROVE  LET r == CountedArray(key, s)
           IN  r \in Seq(SafePiece) /\ Once(r) /\ Marks(r) = Elements(key, 1 .. Len(s.units[key]))
  <1> DEFINE n == Len(s.units[key])
             Raw(i) == IF key \in Named THEN s.units[key][i] ELSE {}
             item == [i \in 1 .. n |-> Item(key, i, {}, Raw(i))]
             skipped == {}
             turns == [i \in 1 .. n |-> IF i \in skipped THEN <<>> ELSE Separated(i, item[i])]
             S == { <<key, "item", id>> : id \in 1 .. n }
  <1>1. n \in Nat /\ key \in Labels /\ \A i \in 1 .. n : SafeRaw(Raw(i))
    BY UnitFacts
  <1>2. \A i \in 1 .. n : item[i] = Item(key, i, {}, Raw(i)) /\ Mark(item[i]) = <<key, "item", i>>
    BY ItemMark
  <1>3. SafeText({})
    BY DEF SafeText
  <1> HIDE DEF Raw
  <1>4. \A i \in 1 .. n : item[i] \in SafePiece /\ item[i].kind = "item"
    BY <1>1, <1>2, <1>3, ItemFacts
  <1>5. turns = [i \in 1 .. n |-> Separated(i, Item(key, i, {}, Raw(i)))]
    BY <1>2
  <1>6. 1 \notin skipped /\ (1 .. n) \ skipped = 1 .. n
    OBVIOUS
  <1>7. \A i, j \in (1 .. n) \ skipped : Mark(item[i]) = Mark(item[j]) => i = j
    <2>1. \A i \in 1 .. n : Mark(item[i]) = <<key, "item", i>>
      BY <1>2
    <2> HIDE DEF item, skipped
    <2> QED BY <1>6, <2>1
  <1>8. CountedArray(key, s) = Array(key, turns)
    BY <1>5 DEF CountedArray, Raw
  <1>9. /\ FlattenSeq(turns) \in Seq(SafePiece) /\ Once(FlattenSeq(turns))
        /\ Marks(FlattenSeq(turns)) = { Mark(item[i]) : i \in (1 .. n) \ skipped }
    <2>1. turns = [i \in 1 .. n |-> IF i \in skipped THEN <<>> ELSE Separated(i, item[i])]
      OBVIOUS
    <2> HIDE DEF n, item, skipped, turns
    <2>2. Distinct(n, item, skipped)
      BY <1>1, <1>4, <1>6, <1>7 DEF Distinct
    <2> QED BY <2>1, <2>2, LoopMarks
  <1>10. { Mark(item[i]) : i \in (1 .. n) \ skipped } = S
    BY <1>2, <1>6
  <1>11. <<key, "member", 0>> \notin S
    OBVIOUS
  <1> HIDE DEF n, item, skipped, turns, S
  <1>12. /\ Array(key, turns) \in Seq(SafePiece) /\ Once(Array(key, turns))
         /\ Marks(Array(key, turns)) = {<<key, "member", 0>>} \cup S
    BY <1>1, <1>9, <1>10, <1>11, ArrayMarks
  <1> QED BY <1>8, <1>12 DEF Elements, S, n

(* The threads that a loop skips are those that have a process with their   *)
(* pid in the sample.                                                       *)
LEMMA PidsPrinted ==
    ASSUME NEW tasks \in Seq(Task), AsAtopWrites(tasks)
    PROVE  LET shown == { i \in DOMAIN tasks : ~IsMainThread(tasks[i]) }
           IN  /\ \A i, j \in shown : tasks[i].pid = tasks[j].pid => i = j
               /\ { tasks[i].pid : i \in shown } = { t.pid : t \in Range(tasks) }
  <1> DEFINE shown == { i \in DOMAIN tasks : ~IsMainThread(tasks[i]) }
  <1>1. \A i \in DOMAIN tasks : tasks[i] \in Task /\ tasks[i].isproc \in BOOLEAN
    <2>1. \A i \in DOMAIN tasks : tasks[i] \in Task
      OBVIOUS
    <2> QED BY <2>1 DEF Task
  <1>2. ASSUME NEW i \in shown, NEW j \in shown, tasks[i].pid = tasks[j].pid PROVE i = j
    <2>1. i \in DOMAIN tasks /\ j \in DOMAIN tasks
      OBVIOUS
    <2>2. ~(tasks[i].isproc /\ ~tasks[j].isproc) /\ ~(tasks[j].isproc /\ ~tasks[i].isproc)
      BY <1>2, <2>1, Zenon DEF AsAtopWrites
    <2>3. tasks[i].isproc = tasks[j].isproc
      BY <1>1, <2>1, <2>2
    <2> QED BY <1>2, <2>1, <2>3, Zenon DEF AsAtopWrites
  <1>3. ASSUME NEW j \in DOMAIN tasks, j \notin shown
        PROVE  \E i \in shown : tasks[i].pid = tasks[j].pid
    <2>1. ~tasks[j].isproc /\ tasks[j].tgid = tasks[j].pid
      BY <1>3 DEF IsMainThread
    <2>2. PICK i \in 1 .. j - 1 : tasks[i].isproc /\ tasks[i].pid = tasks[j].tgid
      BY <2>1 DEF AsAtopWrites
    <2>3. i \in DOMAIN tasks
      <3>1. DOMAIN tasks = 1 .. Len(tasks) /\ Len(tasks) \in Nat
        OBVIOUS
      <3> QED BY <2>2, <3>1
    <2>4. i \in shown
      BY <2>2, <2>3 DEF IsMainThread
    <2> QED BY <2>1, <2>2, <2>4
  <1>4. Range(tasks) = { tasks[i] : i \in DOMAIN tasks }
    BY DEF Range
  <1>5. { tasks[i].pid : i \in shown } = { t.pid : t \in Range(tasks) }
    BY <1>3, <1>4
  <1> QED BY <1>2, <1>5

LEMMA TaskMarks ==
    ASSUME NEW s, Printable(s), AsAtopWrites(s.tasks), NEW key \in TaskLabels,
           NEW texts \in SUBSET {"name", "cmdline"}, NEW raws \in SUBSET {"cid"}
    PROVE  LET r == TaskArray(key, s, texts, raws)
           IN  /\ r \in Seq(SafePiece) /\ Once(r)
               /\ Marks(r) = Elements(key, { t.pid : t \in Range(s.tasks) })
  <1> DEFINE n == Len(s.tasks)
             Text(i) == UNION { s.tasks[i][f] : f \in texts }
             Raw(i) == UNION { s.tasks[i][f] : f \in raws }
             item == [i \in 1 .. n |-> Item(key, s.tasks[i].pid, Text(i), Raw(i))]
             skipped == { i \in 1 .. n : IsMainThread(s.tasks[i]) }
             turns == [i \in 1 .. n |-> IF i \in skipped THEN <<>> ELSE Separated(i, item[i])]
             pids == { t.pid : t \in Range(s.tasks) }
             S == { <<key, "item", id>> : id \in pids }
  <1>1. s.tasks \in Seq(Task) /\ key \in Labels
    BY LabelSet DEF Printable, Sample, TaskLabels
  <1>2. n \in Nat /\ DOMAIN s.tasks = 1 .. n /\ \A i \in 1 .. n : s.tasks[i].pid \in Nat
    <2>1. n \in Nat /\ DOMAIN s.tasks = 1 .. n /\ \A i \in 1 .. n : s.tasks[i] \in Task
      BY <1>1
    <2>2. \A t \in Task : t.pid \in Nat
      BY DEF Task
    <2> QED BY <2>1, <2>2
  <1>3. 1 \notin skipped
    BY <1>1, <1>2 DEF Printable
  <1>4. ASSUME NEW i \in 1 .. n PROVE SafeText(Text(i))
    <2>1. SafeText(s.tasks[i]["name"]) /\ SafeText(s.tasks[i]["cmdline"])
      BY <1>2 DEF Printable
    <2>2. \A f \in texts : SafeText(s.tasks[i][f])
      BY <2>1
    <2> QED BY <2>2 DEF SafeText
  <1>5. \A i \in 1 .. n : item[i] = Item(key, s.tasks[i].pid, Text(i), Raw(i))
    OBVIOUS
  <1>a. \A i \in 1 .. n : SafeRaw(Raw(i))
    BY <1>2, RawOfTask
  <1> HIDE DEF Text, Raw
  <1>6. \A i \in 1 .. n : item[i] \in SafePiece /\ item[i].kind = "item"
    BY <1>1, <1>2, <1>4, <1>5, <1>a, ItemFacts
  <1>7. \A i \in 1 .. n : Mark(item[i]) = <<key, "item", s.tasks[i].pid>>
    BY <1>5, ItemMark
  <1>8. turns = [i \in DOMAIN s.tasks |->
                    IF IsMainThread(s.tasks[i]) THEN <<>>
                    ELSE Separated(i, Item(key, s.tasks[i].pid, Text(i), Raw(i)))]
    BY <1>2, <1>5
  <1>9. TaskArray(key, s, texts, raws) = Array(key, turns)
    BY <1>8 DEF TaskArray, Text, Raw
  <1>10. (1 .. n) \ skipped = { i \in DOMAIN s.tasks : ~IsMainThread(s.tasks[i]) }
    BY <1>2
  <1>11. /\ \A i, j \in (1 .. n) \ skipped : s.tasks[i].pid = s.tasks[j].pid => i = j
         /\ { s.tasks[i].pid : i \in (1 .. n) \ skipped } = pids
    BY <1>1, <1>10, PidsPrinted
  <1> HIDE DEF n, item, skipped, pids
  <1>12. \A i, j \in (1 .. n) \ skipped : Mark(item[i]) = Mark(item[j]) => i = j
    BY <1>7, <1>11
  <1>13. { Mark(item[i]) : i \in (1 .. n) \ skipped } = S
    BY <1>7, <1>11
  <1>14. /\ FlattenSeq(turns) \in Seq(SafePiece) /\ Once(FlattenSeq(turns))
         /\ Marks(FlattenSeq(turns)) = { Mark(item[i]) : i \in (1 .. n) \ skipped }
    <2>1. turns = [i \in 1 .. n |-> IF i \in skipped THEN <<>> ELSE Separated(i, item[i])]
      OBVIOUS
    <2>2. n \in Nat
      BY <1>2
    <2>3. Distinct(n, item, skipped)
      BY <1>3, <1>6, <1>12, <2>2 DEF Distinct
    <2> HIDE DEF turns
    <2> QED BY <2>1, <2>3, LoopMarks
  <1>15. <<key, "member", 0>> \notin S
    OBVIOUS
  <1> HIDE DEF turns, S
  <1>16. /\ Array(key, turns) \in Seq(SafePiece) /\ Once(Array(key, turns))
         /\ Marks(Array(key, turns)) = {<<key, "member", 0>>} \cup S
    BY <1>1, <1>13, <1>14, <1>15, ArrayMarks
  <1> QED BY <1>9, <1>16 DEF Elements, S, pids

LEMMA ObjectMarks ==
    ASSUME NEW key \in Labels \cup {"NET_GENERAL"}
    PROVE  LET r == <<Object(key)>>
           IN  r \in Seq(SafePiece) /\ Once(r) /\ Marks(r) = {<<key, "member", 0>>}
  <1>1. Mark(Object(key)) = <<key, "member", 0>>
    BY DEF Mark, Object, Piece
  <1>2. Object(key) \in SafePiece /\ Object(key).kind = "object"
    BY PieceFacts
  <1> QED BY <1>1, <1>2, MarksOfOne

(* Each print function prints what its label stands for.                    *)
LEMMA PrintsMarks ==
    ASSUME NEW s, Printable(s), AsAtopWrites(s.tasks), NEW label \in Labels
    PROVE  LET r == prifunc(label, s)
           IN  r \in Seq(SafePiece) /\ Once(r) /\ Marks(r) = LabelMarks(label, s)
  <1> DEFINE Good(r, M) == r \in Seq(SafePiece) /\ Once(r) /\ Marks(r) = M
             pids == { t.pid : t \in Range(s.tasks) }
  <1>1. \A key \in Counted : Good(CountedArray(key, s), Elements(key, 1 .. Len(s.units[key])))
    BY CountedMarks
  <1>2. \A key \in TaskLabels : Good(TaskArray(key, s, {}, {}), Elements(key, pids))
    BY TaskMarks
  <1>3. Good(TaskArray("PRG", s, {"name", "cmdline"}, {"cid"}), Elements("PRG", pids))
    BY TaskMarks DEF TaskLabels
  <1>4. \A key \in Labels \cup {"NET_GENERAL"} : Good(<<Object(key)>>, {<<key, "member", 0>>})
    BY ObjectMarks
  <1>5. Good(<<>>, {})
    <2>1. <<>> \in Seq(SafePiece)
      OBVIOUS
    <2> QED BY <2>1, MarksOfNone
  <1>6. Good(<<Object("NET_GENERAL")>> \o CountedArray("NET", s),
             {<<"NET_GENERAL", "member", 0>>} \cup Elements("NET", 1 .. Len(s.units["NET"])))
    <2> DEFINE a == <<Object("NET_GENERAL")>>
               b == CountedArray("NET", s)
               A == {<<"NET_GENERAL", "member", 0>>}
               B == Elements("NET", 1 .. Len(s.units["NET"]))
    <2>1. Good(a, A)
      BY <1>4
    <2>2. Good(b, B)
      BY <1>1 DEF Counted
    <2>3. A \cap B = {}
      BY DEF Elements
    <2> HIDE DEF a, b, A, B
    <2>4. Good(a \o b, A \cup B)
      BY <2>1, <2>2, <2>3, MarksAdd
    <2> QED BY <2>4 DEF a, b, A, B
  <1>7. ASSUME Lacks(label, s) PROVE prifunc(label, s) = <<>>
    BY <1>7 DEF Lacks, prifunc, json_print_PSI, json_print_PRN, json_print_PRE
  <1>8. ASSUME ~Lacks(label, s), label # "NET"
        PROVE  LabelMarks(label, s) = Elements(label, Ids(label, s))
    BY <1>8 DEF LabelMarks, Elements
  <1> SUFFICES Good(prifunc(label, s), LabelMarks(label, s))
    OBVIOUS
  <1> HIDE DEF Good
  <1>9. CASE Lacks(label, s)
    <2>1. LabelMarks(label, s) = {}
      BY <1>9 DEF LabelMarks
    <2> QED BY <1>5, <1>7, <1>9, <2>1
  <1>10. CASE ~Lacks(label, s) /\ label \in {"CPU", "CPL", "MEM", "SWP", "PAG", "PSI", "NFC", "NFS"}
    <2>1. prifunc(label, s) = <<Object(label)>>
      BY <1>10 DEF Lacks, prifunc, json_print_CPU, json_print_CPL, json_print_MEM, json_print_SWP,
                   json_print_PAG, json_print_PSI, json_print_NFC, json_print_NFS
    <2>2. Ids(label, s) = {}
      BY <1>10 DEF Ids, Counted, TaskLabels
    <2>3. Elements(label, {}) = {<<label, "member", 0>>}
      BY DEF Elements
    <2>4. LabelMarks(label, s) = {<<label, "member", 0>>}
      BY <1>8, <1>10, <2>2, <2>3
    <2> QED BY <1>4, <2>1, <2>4
  <1>11. CASE label \in {"cpu", "GPU", "LVM", "MDD", "DSK", "NFM", "IFB", "NUM", "NUC", "LLC"}
    <2>1. prifunc(label, s) = CountedArray(label, s)
      BY <1>11 DEF prifunc, json_print_cpu, json_print_GPU, json_print_LVM, json_print_MDD,
                   json_print_DSK, json_print_NFM, json_print_IFB, json_print_NUM,
                   json_print_NUC, json_print_LLC
    <2>2. label \in Counted /\ label # "NET" /\ ~Lacks(label, s)
      BY <1>11 DEF Counted, Lacks
    <2>3. LabelMarks(label, s) = Elements(label, 1 .. Len(s.units[label]))
      BY <1>8, <2>2 DEF Ids
    <2> QED BY <1>1, <2>1, <2>2, <2>3
  <1>12. CASE ~Lacks(label, s) /\ label \in TaskLabels
    <2>1. label \notin Counted /\ label # "NET"
      BY <1>12 DEF TaskLabels, Counted
    <2>2. LabelMarks(label, s) = Elements(label, pids)
      BY <1>8, <1>12, <2>1 DEF Ids
    <2>3. CASE label = "PRG"
      <3>1. prifunc(label, s) = TaskArray("PRG", s, {"name", "cmdline"}, {"cid"})
        BY <2>3 DEF prifunc, json_print_PRG
      <3> QED BY <1>3, <2>2, <2>3, <3>1
    <2>4. CASE label # "PRG"
      <3>1. label \in {"PRC", "PRM", "PRD", "PRN", "PRE"}
        BY <1>12, <2>4 DEF TaskLabels
      <3>2. prifunc(label, s) = TaskArray(label, s, {}, {})
        BY <1>12, <3>1 DEF Lacks, prifunc, json_print_PRC, json_print_PRM, json_print_PRD,
                           json_print_PRN, json_print_PRE
      <3> QED BY <1>2, <1>12, <2>2, <3>2
    <2> QED BY <2>3, <2>4
  <1>13. CASE label = "NET"
    <2>1. prifunc(label, s) = <<Object("NET_GENERAL")>> \o CountedArray("NET", s)
      BY <1>13 DEF prifunc, json_print_NET
    <2>2. Ids("NET", s) = 1 .. Len(s.units["NET"]) /\ ~Lacks(label, s)
      BY <1>13 DEF Ids, Counted, Lacks
    <2>3. LabelMarks(label, s) =
             {<<"NET_GENERAL", "member", 0>>} \cup Elements("NET", 1 .. Len(s.units["NET"]))
      BY <1>13, <2>2 DEF LabelMarks, Elements
    <2> QED BY <1>6, <2>1, <2>3
  <1> QED BY <1>9, <1>10, <1>11, <1>12, <1>13, LabelSet DEF TaskLabels

(* No label is in two rows of the table.                                    *)
LEMMA RowsDiffer == \A j, k \in 1 .. 25 : labeldef[j] = labeldef[k] => j = k
  <1> DEFINE Position(label) ==
    CASE label = "CPU" -> 1 [] label = "cpu" -> 2 [] label = "CPL" -> 3 [] label = "GPU" -> 4
      [] label = "MEM" -> 5 [] label = "SWP" -> 6 [] label = "PAG" -> 7 [] label = "PSI" -> 8
      [] label = "LVM" -> 9 [] label = "MDD" -> 10 [] label = "DSK" -> 11 [] label = "NFM" -> 12
      [] label = "NFC" -> 13 [] label = "NFS" -> 14 [] label = "NET" -> 15 [] label = "IFB" -> 16
      [] label = "NUM" -> 17 [] label = "NUC" -> 18 [] label = "LLC" -> 19 [] label = "PRG" -> 20
      [] label = "PRC" -> 21 [] label = "PRM" -> 22 [] label = "PRD" -> 23 [] label = "PRN" -> 24
      [] label = "PRE" -> 25
  <1>1. \A k \in 1 .. 25 : Position(labeldef[k]) = k
    BY DEF labeldef
  <1> HIDE DEF Position
  <1> QED BY <1>1

(* What two labels print has nothing in common.                             *)
LEMMA LabelsApart ==
    ASSUME NEW s, NEW k \in Labels, NEW l \in Labels, k # l
    PROVE  LabelMarks(k, s) \cap LabelMarks(l, s) = {}
  <1>1. "NET_GENERAL" \notin Labels
    BY LabelSet
  <1>2. ASSUME NEW label \in Labels, NEW m \in LabelMarks(label, s)
        PROVE  m[1] = label \/ (label = "NET" /\ m[1] = "NET_GENERAL")
    <2>1. \/ m = <<label, "member", 0>>
          \/ \E id \in Ids(label, s) : m = <<label, "item", id>>
          \/ label = "NET" /\ m = <<"NET_GENERAL", "member", 0>>
      BY <1>2, Zenon DEF LabelMarks
    <2> QED BY <2>1
  <1> QED BY <1>1, <1>2

----------------------------------------------------------------------------
(* The invariant for the members                                            *)

(* jsondef has read the list up to rest, and marked what it read.           *)
ReadSoFar ==
    LET n == Len(asked) - Len(rest)
    IN  \/ /\ n \in 0 .. Len(asked)
           /\ \A i \in 1 .. Len(rest) : rest[i] = asked[n + i]
           /\ \A i \in 1 .. n : asked[i] \in Labels
           /\ valid = { asked[i] : i \in 1 .. n }
        \/ /\ rest = <<>> /\ valid = Labels
           /\ \E k \in DOMAIN asked : asked[k] = "ALL" /\ \A j \in 1 .. k - 1 : asked[j] \in Labels

MembersInv ==
    /\ pc \in {"jsondef", "labels", "done"} => AsAtopWrites(sample.tasks)
    /\ pc = "idle" => valid = {}
    /\ pc \in {"idle", "jsondef"} => row = 0
    /\ pc = "jsondef" => ReadSoFar
    /\ pc = "labels" => /\ ~Rejected /\ valid = Wanted
                        /\ Once(out) /\ Marks(out) = MarksOf(valid \cap Rows(row), sample)
    /\ pc = "done" => \/ Rejected /\ Marks(out) = {}
                      \/ /\ ~Rejected /\ valid = Wanted
                         /\ Once(out) /\ Marks(out) = MarksOf(valid, sample)

MemberInv == JsonInv /\ MembersInv

LEMMA AskedList ==
    ASSUME JsonTypeOK
    PROVE  asked \in Seq(STRING) /\ Len(asked) \in Nat /\ DOMAIN asked = 1 .. Len(asked)
  <1>1. asked \in Seq(STRING)
    <2>1. <<>> \in Seq(STRING)
      OBVIOUS
    <2>2. asked \in LabelLists \cup {<<>>}
      BY Zenon DEF JsonTypeOK
    <2> QED BY <2>1, <2>2, ListsAssumption, Zenon
  <1> QED BY <1>1

(* A list that jsondef has read to its end is as it marked it.              *)
LEMMA AllRead ==
    ASSUME JsonTypeOK, ReadSoFar, rest = <<>>
    PROVE  ~Rejected /\ valid = Wanted
  <1>0. asked \in Seq(STRING) /\ Len(asked) \in Nat /\ DOMAIN asked = 1 .. Len(asked)
    BY AskedList
  <1>a. "ALL" \notin Labels
    BY LabelSet
  <1>b. Range(asked) = { asked[i] : i \in 1 .. Len(asked) }
    BY <1>0 DEF Range
  <1>1. CASE /\ \A i \in 1 .. Len(asked) : asked[i] \in Labels
             /\ valid = { asked[i] : i \in 1 .. Len(asked) }
    <2>1. ~Rejected
      BY <1>0, <1>1 DEF Rejected, Understood
    <2>2. "ALL" \notin Range(asked)
      BY <1>a, <1>b, <1>1
    <2> QED BY <1>b, <1>1, <2>1, <2>2 DEF Wanted
  <1>2. CASE /\ valid = Labels
             /\ \E k \in DOMAIN asked : asked[k] = "ALL" /\ \A j \in 1 .. k - 1 : asked[j] \in Labels
    <2>1. PICK k \in 1 .. Len(asked) :
             asked[k] = "ALL" /\ \A j \in 1 .. k - 1 : asked[j] \in Labels
      BY <1>0, <1>2
    <2>2. "ALL" \in Range(asked)
      BY <1>b, <2>1
    <2>3. ~Rejected
      <3> SUFFICES ASSUME NEW i \in 1 .. Len(asked), ~Understood(i),
                          \A j \in 1 .. i - 1 : asked[j] # "ALL"
                   PROVE  FALSE
        BY <1>0 DEF Rejected
      <3>1. i # k
        BY <2>1 DEF Understood
      <3>2. i < k => i \in 1 .. k - 1
        BY <1>0
      <3>3. k < i => k \in 1 .. i - 1
        BY <1>0
      <3>4. i < k \/ k < i
        BY <1>0, <3>1
      <3> QED BY <2>1, <3>2, <3>3, <3>4 DEF Understood
    <2> QED BY <1>2, <2>2, <2>3 DEF Wanted
  <1>3. Len(rest) = 0
    OBVIOUS
  <1> QED BY <1>0, <1>1, <1>2, <1>3 DEF ReadSoFar

(* The label that jsondef looks at next, after labels it has marked.        *)
LEMMA NextRead ==
    ASSUME JsonTypeOK, ReadSoFar, rest # <<>>
    PROVE  \E n \in Nat :
              /\ n = Len(asked) - Len(rest) /\ n + 1 \in 1 .. Len(asked)
              /\ Head(rest) = asked[n + 1] /\ Len(Tail(rest)) = Len(rest) - 1
              /\ \A i \in 1 .. Len(rest) - 1 : Tail(rest)[i] = asked[(n + 1) + i]
              /\ \A i \in 1 .. n : asked[i] \in Labels
              /\ valid = { asked[i] : i \in 1 .. n }
  <1>0. Len(asked) \in Nat
    BY AskedList
  <1>1. rest \in Seq(STRING)
    BY DEF JsonTypeOK
  <1>2. /\ Len(rest) \in Nat \ {0} /\ Head(rest) = rest[1] /\ Len(Tail(rest)) = Len(rest) - 1
        /\ \A i \in 1 .. Len(rest) - 1 : Tail(rest)[i] = rest[i + 1]
    BY <1>1
  <1> DEFINE n == Len(asked) - Len(rest)
  <1>3. /\ n \in 0 .. Len(asked)
        /\ \A i \in 1 .. Len(rest) : rest[i] = asked[n + i]
        /\ \A i \in 1 .. n : asked[i] \in Labels
        /\ valid = { asked[i] : i \in 1 .. n }
    BY DEF ReadSoFar
  <1>4. n \in Nat /\ n + 1 \in 1 .. Len(asked) /\ Head(rest) = asked[n + 1]
    <2>1. 1 \in 1 .. Len(rest)
      BY <1>2
    <2> QED BY <1>0, <1>2, <1>3, <2>1
  <1>5. \A i \in 1 .. Len(rest) - 1 : Tail(rest)[i] = asked[(n + 1) + i]
    <2> SUFFICES ASSUME NEW i \in 1 .. Len(rest) - 1 PROVE Tail(rest)[i] = asked[(n + 1) + i]
      OBVIOUS
    <2>1. i + 1 \in 1 .. Len(rest) /\ n + (i + 1) = (n + 1) + i
      BY <1>2, <1>4
    <2>2. rest[i + 1] = asked[n + (i + 1)]
      BY <1>3, <2>1
    <2> QED BY <1>2, <2>1, <2>2
  <1> QED BY <1>2, <1>3, <1>4, <1>5

(* One row more, when the rows between are not valid.                       *)
LEMMA NextRow ==
    ASSUME JsonTypeOK, NEW k \in Pending, \A j \in Pending : k <= j, NEW s
    PROVE  /\ k \in 1 .. 25 /\ labeldef[k] \in Labels
           /\ MarksOf(valid \cap Rows(k), s) =
                 MarksOf(valid \cap Rows(row), s) \cup LabelMarks(labeldef[k], s)
           /\ MarksOf(valid \cap Rows(row), s) \cap LabelMarks(labeldef[k], s) = {}
  <1>0. Len(labeldef) = 25 /\ \A j \in 1 .. 25 : labeldef[j] \in Labels
    BY LabelSet
  <1>1. row \in 0 .. 25 /\ valid \subseteq Labels
    BY <1>0 DEF JsonTypeOK
  <1>2. k \in row + 1 .. 25 /\ labeldef[k] \in valid /\ k \in 1 .. 25
    BY <1>0, <1>1 DEF Pending
  <1>3. ASSUME NEW j \in 1 .. k, labeldef[j] \in valid PROVE j \in 1 .. row \/ j = k
    <2>1. j \in row + 1 .. 25 => j \in Pending
      BY <1>0, <1>3 DEF Pending
    <2> QED BY <1>1, <1>2, <2>1
  <1>4. valid \cap Rows(k) = (valid \cap Rows(row)) \cup {labeldef[k]}
    <2>1. \A j \in 1 .. row : j \in 1 .. k
      BY <1>1, <1>2
    <2>2. k \in 1 .. k
      BY <1>2
    <2> QED BY <1>2, <1>3, <2>1, <2>2 DEF Rows
  <1>5. MarksOf(valid \cap Rows(k), s) =
           MarksOf(valid \cap Rows(row), s) \cup LabelMarks(labeldef[k], s)
    BY <1>4 DEF MarksOf
  <1>6. \A label \in valid \cap Rows(row) : label \in Labels /\ label # labeldef[k]
    <2> SUFFICES ASSUME NEW label \in valid \cap Rows(row)
                 PROVE  label \in Labels /\ label # labeldef[k]
      OBVIOUS
    <2>1. PICK j \in 1 .. row : label = labeldef[j]
      BY DEF Rows
    <2>2. j \in 1 .. 25 /\ j # k
      BY <1>1, <1>2
    <2> QED BY <1>0, <1>2, <2>1, <2>2, RowsDiffer
  <1>7. MarksOf(valid \cap Rows(row), s) \cap LabelMarks(labeldef[k], s) = {}
    BY <1>0, <1>2, <1>6, LabelsApart DEF MarksOf
  <1> QED BY <1>0, <1>2, <1>5, <1>7

LEMMA LastRow ==
    ASSUME JsonTypeOK, Pending = {}
    PROVE  valid \cap Rows(row) = valid
  <1>0. /\ Len(labeldef) = 25 /\ DOMAIN labeldef = 1 .. 25
        /\ Labels = { labeldef[j] : j \in DOMAIN labeldef }
    BY LabelSet DEF Labels, Range
  <1>1. row \in 0 .. 25 /\ valid \subseteq Labels
    BY <1>0 DEF JsonTypeOK
  <1>2. ASSUME NEW label \in valid PROVE label \in Rows(row)
    <2>1. PICK j \in 1 .. 25 : label = labeldef[j]
      BY <1>0, <1>1
    <2>2. j \notin row + 1 .. 25
      BY <1>0, <2>1 DEF Pending
    <2>3. j \in 1 .. row
      BY <1>1, <2>2
    <2> QED BY <2>1, <2>3 DEF Rows
  <1> QED BY <1>2

(* Cleaning changes no pid, and no thread into a process.                   *)
LEMMA CleanedOrder ==
    ASSUME NEW tasks \in Seq(Task), AsAtopWrites(tasks)
    PROVE  AsAtopWrites([i \in DOMAIN tasks |-> Cleaned(tasks[i])])
  <1> DEFINE c == [i \in DOMAIN tasks |-> Cleaned(tasks[i])]
  <1>1. DOMAIN c = DOMAIN tasks /\ DOMAIN tasks = 1 .. Len(tasks) /\ Len(tasks) \in Nat
    OBVIOUS
  <1>2. ASSUME NEW i \in DOMAIN tasks
        PROVE  /\ c[i].pid = tasks[i].pid /\ c[i].tgid = tasks[i].tgid
               /\ c[i].isproc = tasks[i].isproc
    <2>1. tasks[i] \in Task /\ c[i] = Cleaned(tasks[i])
      OBVIOUS
    <2> HIDE DEF c
    <2> QED BY <2>1 DEF Task, Cleaned
  <1> HIDE DEF c
  <1>3. \A j \in DOMAIN tasks : IsMainThread(c[j]) <=> IsMainThread(tasks[j])
    BY <1>2 DEF IsMainThread
  <1>4. ASSUME NEW j \in DOMAIN c, ~c[j].isproc
        PROVE  \E i \in 1 .. j - 1 : c[i].isproc /\ c[i].pid = c[j].tgid
    <2>1. PICK i \in 1 .. j - 1 : tasks[i].isproc /\ tasks[i].pid = tasks[j].tgid
      BY <1>1, <1>2, <1>4 DEF AsAtopWrites
    <2>2. i \in DOMAIN tasks
      BY <1>1
    <2> QED BY <1>1, <1>2, <2>1, <2>2
  <1>5. \A i, j \in DOMAIN c : (c[i].pid = c[j].pid /\ c[i].isproc = c[j].isproc) => i = j
    BY <1>1, <1>2 DEF AsAtopWrites
  <1>6. \A i, j \in DOMAIN c :
           (c[i].isproc /\ ~c[j].isproc /\ c[i].pid = c[j].pid) => IsMainThread(c[j])
    BY <1>1, <1>2, <1>3 DEF AsAtopWrites
  <1>7. AsAtopWrites(c)
    BY <1>4, <1>5, <1>6, Zenon DEF AsAtopWrites
  <1> QED BY <1>7 DEF c

LEMMA FirstPiece ==
    /\ Marks(Append(<<>>, Open)) = {} /\ Once(Append(<<>>, Open))
    /\ Marks(Append(<<>>, Message)) = {}
  <1>1. Append(<<>>, Open) = <<Open>> /\ Append(<<>>, Message) = <<Message>>
    OBVIOUS
  <1> QED BY <1>1, MarksOfOne, PieceFacts

LEMMA MemberInvInit == Init => MemberInv
  <1> SUFFICES ASSUME Init PROVE MemberInv
    OBVIOUS
  <1>1. JsonInv
    BY JsonInvInit
  <1>2. MembersInv
    BY DEF Init, MembersInv
  <1> QED BY <1>1, <1>2 DEF MemberInv

LEMMA MemberInvNext == MemberInv /\ [Next]_vars => MemberInv'
  <1> SUFFICES ASSUME MemberInv, [Next]_vars PROVE MemberInv'
    OBVIOUS
  <1>0. JsonInv /\ MembersInv /\ JsonTypeOK /\ PrintedInv /\ SampleInv
    BY DEF MemberInv, JsonInv
  <1>1. JsonInv'
    BY <1>0, JsonInvNext
  <1> SUFFICES MembersInv'
    BY <1>1 DEF MemberInv
  <1>2. CASE UNCHANGED vars
    BY <1>0, <1>2 DEF vars, MembersInv, ReadSoFar, Rejected, Understood, Wanted
  <1>3. ASSUME NEW list \in LabelLists, NEW s \in Samples, jsonout(list, s) PROVE MembersInv'
    <2>1. /\ pc' = "jsondef" /\ asked' = list /\ rest' = list /\ sample' = s
          /\ valid' = {} /\ row' = 0
      BY <1>0, <1>3 DEF jsonout, MembersInv
    <2>2. AsAtopWrites(s.tasks)
      BY SamplesAssumption
    <2>3. ReadSoFar'
      <3>1. Len(list) \in Nat
        BY ListsAssumption
      <3>2. Len(list) - Len(list) = 0 /\ 0 \in 0 .. Len(list) /\ \A i \in 1 .. Len(list) : 0 + i = i
        BY <3>1
      <3>3. 1 .. 0 = {}
        OBVIOUS
      <3> QED BY <2>1, <3>2, <3>3 DEF ReadSoFar
    <2> QED BY <2>1, <2>2, <2>3 DEF MembersInv
  <1>4. CASE KnownLabel
    <2>1. /\ pc = "jsondef" /\ pc' = pc /\ rest # <<>> /\ Head(rest) \in Labels
          /\ valid' = valid \cup {Head(rest)} /\ rest' = Tail(rest)
          /\ asked' = asked /\ sample' = sample /\ row' = row
      BY <1>4 DEF KnownLabel
    <2>2. ReadSoFar /\ AsAtopWrites(sample.tasks) /\ row = 0
      BY <1>0, <2>1 DEF MembersInv
    <2>3. PICK n \in Nat :
              /\ n = Len(asked) - Len(rest) /\ n + 1 \in 1 .. Len(asked)
              /\ Head(rest) = asked[n + 1] /\ Len(Tail(rest)) = Len(rest) - 1
              /\ \A i \in 1 .. Len(rest) - 1 : Tail(rest)[i] = asked[(n + 1) + i]
              /\ \A i \in 1 .. n : asked[i] \in Labels
              /\ valid = { asked[i] : i \in 1 .. n }
      BY <1>0, <2>1, <2>2, NextRead
    <2>4. Len(asked) \in Nat /\ Len(rest) \in Nat
      <3>1. rest \in Seq(STRING)
        BY <1>0 DEF JsonTypeOK
      <3> QED BY <1>0, <3>1, AskedList
    <2>5. Len(asked') - Len(rest') = n + 1 /\ n + 1 \in 0 .. Len(asked')
      BY <2>1, <2>3, <2>4
    <2>6. 1 .. n + 1 = (1 .. n) \cup {n + 1}
      OBVIOUS
    <2>7. /\ \A i \in 1 .. n + 1 : asked'[i] \in Labels
          /\ valid' = { asked'[i] : i \in 1 .. n + 1 }
      <3>1. Head(rest) = asked[n + 1] /\ asked[n + 1] \in Labels
        BY <2>1, <2>3
      <3>2. \A i \in 1 .. n + 1 : asked[i] \in Labels
        BY <2>3, <2>6, <3>1
      <3>3. valid \cup {asked[n + 1]} = { asked[i] : i \in 1 .. n + 1 }
        BY <2>3, <2>6
      <3> QED BY <2>1, <3>1, <3>2, <3>3
    <2>8. \A i \in 1 .. Len(rest') : rest'[i] = asked'[(n + 1) + i]
      BY <2>1, <2>3
    <2>9. ReadSoFar'
      BY <2>5, <2>7, <2>8 DEF ReadSoFar
    <2> QED BY <2>1, <2>2, <2>9 DEF MembersInv
  <1>5. CASE LabelAll
    <2>1. /\ pc = "jsondef" /\ pc' = pc /\ rest # <<>> /\ Head(rest) = "ALL"
          /\ valid' = Labels /\ rest' = <<>>
          /\ asked' = asked /\ sample' = sample /\ row' = row
      BY <1>5 DEF LabelAll
    <2>2. ReadSoFar /\ AsAtopWrites(sample.tasks) /\ row = 0
      BY <1>0, <2>1 DEF MembersInv
    <2>3. PICK n \in Nat : /\ n + 1 \in 1 .. Len(asked) /\ Head(rest) = asked[n + 1]
                           /\ \A i \in 1 .. n : asked[i] \in Labels
      BY <1>0, <2>1, <2>2, NextRead
    <2>4. n + 1 \in DOMAIN asked /\ 1 .. (n + 1) - 1 = 1 .. n
      BY <1>0, <2>3, AskedList
    <2>5. ReadSoFar'
      BY <2>1, <2>3, <2>4 DEF ReadSoFar
    <2> QED BY <2>1, <2>2, <2>5 DEF MembersInv
  <1>6. CASE UnknownLabel
    <2>1. /\ pc = "jsondef" /\ pc' = "done" /\ rest # <<>> /\ Head(rest) \notin Labels \cup {"ALL"}
          /\ out' = Append(out, Message) /\ asked' = asked /\ sample' = sample
      BY <1>6 DEF UnknownLabel
    <2>2. ReadSoFar /\ AsAtopWrites(sample.tasks) /\ out = <<>>
      BY <1>0, <2>1 DEF MembersInv, PrintedInv
    <2>3. PICK n \in Nat : /\ n + 1 \in 1 .. Len(asked) /\ Head(rest) = asked[n + 1]
                           /\ \A i \in 1 .. n : asked[i] \in Labels
      BY <1>0, <2>1, <2>2, NextRead
    <2>4. n + 1 \in DOMAIN asked /\ 1 .. (n + 1) - 1 = 1 .. n
      BY <1>0, <2>3, AskedList
    <2>5. "ALL" \notin Labels
      BY LabelSet
    <2>6. Rejected'
      BY <2>1, <2>3, <2>4, <2>5 DEF Rejected, Understood
    <2>7. Marks(out') = {}
      BY <2>1, <2>2, FirstPiece
    <2> QED BY <2>1, <2>2, <2>6, <2>7 DEF MembersInv
  <1>7. CASE PrintHeader
    <2>1. /\ pc = "jsondef" /\ pc' = "labels" /\ rest = <<>> /\ out' = Append(out, Open)
          /\ sample' = [sample EXCEPT !.tasks = [i \in DOMAIN @ |-> Cleaned(@[i])]]
          /\ asked' = asked /\ valid' = valid /\ row' = row
      BY <1>7 DEF PrintHeader
    <2>2. ReadSoFar /\ AsAtopWrites(sample.tasks) /\ row = 0 /\ out = <<>>
      BY <1>0, <2>1 DEF MembersInv, PrintedInv
    <2>3. AsAtopWrites(sample'.tasks)
      <3>1. sample \in Sample /\ sample.tasks \in Seq(Task)
        BY <1>0 DEF JsonTypeOK, Sample
      <3>2. sample'.tasks = [i \in DOMAIN sample.tasks |-> Cleaned(sample.tasks[i])]
        BY <2>1, <3>1 DEF Sample
      <3> QED BY <2>2, <3>1, <3>2, CleanedOrder
    <2>4. ~Rejected' /\ valid' = Wanted'
      <3>1. ~Rejected /\ valid = Wanted
        BY <1>0, <2>1, <2>2, AllRead
      <3> QED BY <2>1, <3>1 DEF Rejected, Understood, Wanted
    <2>5. Once(out') /\ Marks(out') = {}
      BY <2>1, <2>2, FirstPiece
    <2>6. MarksOf(valid' \cap Rows(row'), sample') = {}
      <3>1. Rows(0) = {}
        BY DEF Rows
      <3> QED BY <2>1, <2>2, <3>1 DEF MarksOf
    <2> QED BY <2>1, <2>3, <2>4, <2>5, <2>6 DEF MembersInv
  <1>8. ASSUME NEW k \in DOMAIN labeldef, PrintLabel(k) PROVE MembersInv'
    <2> DEFINE r == prifunc(labeldef[k], sample)
    <2>1. /\ pc = "labels" /\ pc' = pc /\ out' = out \o r /\ row' = k
          /\ k \in Pending /\ \A j \in Pending : k <= j
          /\ asked' = asked /\ valid' = valid /\ sample' = sample
      BY <1>8 DEF PrintLabel
    <2>2. /\ AsAtopWrites(sample.tasks) /\ ~Rejected /\ valid = Wanted
          /\ Once(out) /\ Marks(out) = MarksOf(valid \cap Rows(row), sample)
      BY <1>0, <2>1 DEF MembersInv
    <2>3. /\ labeldef[k] \in Labels
          /\ MarksOf(valid \cap Rows(k), sample) =
                MarksOf(valid \cap Rows(row), sample) \cup LabelMarks(labeldef[k], sample)
          /\ MarksOf(valid \cap Rows(row), sample) \cap LabelMarks(labeldef[k], sample) = {}
      BY <1>0, <2>1, NextRow
    <2>4. r \in Seq(SafePiece) /\ Once(r) /\ Marks(r) = LabelMarks(labeldef[k], sample)
      <3>1. Printable(sample)
        BY <1>0, <2>1 DEF SampleInv
      <3> QED BY <2>2, <2>3, <3>1, PrintsMarks
    <2> HIDE DEF r
    <2>5. out \in Seq(SafePiece)
      BY <1>0 DEF PrintedInv
    <2>6. Once(out \o r) /\ Marks(out \o r) = MarksOf(valid \cap Rows(k), sample)
      <3>1. /\ Marks(out \o r) = Marks(out) \cup Marks(r)
            /\ Once(out) /\ Once(r) /\ Marks(out) \cap Marks(r) = {} => Once(out \o r)
        <4>1. r \in Seq(SafePiece)
          BY <2>4
        <4> QED BY <2>5, <4>1, MarksAdd
      <3>2. Marks(out) \cap Marks(r) = {}
        BY <2>2, <2>3, <2>4
      <3> QED BY <2>2, <2>3, <2>4, <3>1, <3>2
    <2>7. ~Rejected' /\ valid' = Wanted'
      BY <2>1, <2>2 DEF Rejected, Understood, Wanted
    <2> QED BY <2>1, <2>2, <2>6, <2>7 DEF MembersInv
  <1>9. CASE PrintClose
    <2>1. /\ pc = "labels" /\ pc' = "done" /\ Pending = {} /\ out' = Append(out, Close)
          /\ asked' = asked /\ valid' = valid /\ sample' = sample
      BY <1>9 DEF PrintClose
    <2>2. /\ AsAtopWrites(sample.tasks) /\ ~Rejected /\ valid = Wanted
          /\ Once(out) /\ Marks(out) = MarksOf(valid, sample)
      BY <1>0, <2>1, LastRow DEF MembersInv
    <2>3. Once(out') /\ Marks(out') = Marks(out)
      <3> DEFINE e == <<Close>>
      <3>1. out \in Seq(SafePiece)
        BY <1>0 DEF PrintedInv
      <3>2. e \in Seq(SafePiece) /\ Once(e) /\ Marks(e) = {}
        BY MarksOfOne, PieceFacts
      <3>3. out' = out \o e
        BY <2>1, <3>1
      <3> HIDE DEF e
      <3>4. Once(out \o e) /\ Marks(out \o e) = Marks(out)
        <4>1. e \in Seq(SafePiece)
          BY <3>2
        <4>2. /\ Marks(out \o e) = Marks(out) \cup Marks(e)
              /\ Once(out) /\ Once(e) /\ Marks(out) \cap Marks(e) = {} => Once(out \o e)
          BY <3>1, <4>1, MarksAdd
        <4> QED BY <2>2, <3>2, <4>2
      <3> QED BY <3>3, <3>4
    <2>4. ~Rejected' /\ valid' = Wanted'
      BY <2>1, <2>2 DEF Rejected, Understood, Wanted
    <2> QED BY <2>1, <2>2, <2>3, <2>4 DEF MembersInv
  <1>10. CASE Return
    BY <1>10 DEF Return, MembersInv
  <1> QED BY <1>2, <1>3, <1>4, <1>5, <1>6, <1>7, <1>8, <1>9, <1>10 DEF Next, Printing

LEMMA MemberInvAlways == Spec => []MemberInv
  BY MemberInvInit, MemberInvNext, PTL DEF Spec

----------------------------------------------------------------------------
(* The theorems about the members                                           *)

(* What a mark says about the label it belongs to.                          *)
LEMMA MarkFacts ==
    ASSUME NEW labels, labels \subseteq Labels, NEW s, NEW m \in MarksOf(labels, s)
    PROVE  \E label \in labels :
              /\ ~Lacks(label, s)
              /\ \/ m = <<label, "member", 0>>
                 \/ \E id \in Ids(label, s) : m = <<label, "item", id>>
                 \/ label = "NET" /\ m = <<"NET_GENERAL", "member", 0>>
  <1>1. PICK label \in labels : m \in LabelMarks(label, s)
    BY DEF MarksOf
  <1>2. ~Lacks(label, s)
    BY <1>1 DEF LabelMarks
  <1>3. \/ m = <<label, "member", 0>>
        \/ \E id \in Ids(label, s) : m = <<label, "item", id>>
        \/ label = "NET" /\ m = <<"NET_GENERAL", "member", 0>>
    BY <1>1, <1>2, Zenon DEF LabelMarks
  <1> QED BY <1>2, <1>3

LEMMA LabelHasMarks ==
    ASSUME NEW labels, NEW label \in labels, NEW s, ~Lacks(label, s)
    PROVE  /\ <<label, "member", 0>> \in MarksOf(labels, s)
           /\ \A id \in Ids(label, s) : <<label, "item", id>> \in MarksOf(labels, s)
           /\ label = "NET" => <<"NET_GENERAL", "member", 0>> \in MarksOf(labels, s)
  <1>1. /\ <<label, "member", 0>> \in LabelMarks(label, s)
        /\ \A id \in Ids(label, s) : <<label, "item", id>> \in LabelMarks(label, s)
        /\ label = "NET" => <<"NET_GENERAL", "member", 0>> \in LabelMarks(label, s)
    BY DEF LabelMarks
  <1> QED BY <1>1 DEF MarksOf

LEMMA PresentLabels ==
    ASSUME NEW label \in Labels
    PROVE  label \in Present <=> ~Lacks(label, sample)
  BY DEF Present, Lacks

LEMMA MemberMarks ==
    /\ \A i \in Members : i \in Marked(out) /\ Mark(out[i]) = <<out[i].key, "member", 0>>
    /\ \A m \in Marks(out) : m[2] = "member" => \E i \in Members : m = <<out[i].key, "member", 0>>
  <1>1. ASSUME NEW i \in Members
        PROVE  i \in Marked(out) /\ Mark(out[i]) = <<out[i].key, "member", 0>>
    BY DEF Members, Marked, Mark
  <1>2. ASSUME NEW m \in Marks(out), m[2] = "member"
        PROVE  \E i \in Members : m = <<out[i].key, "member", 0>>
    <2>1. PICK i \in Marked(out) : m = Mark(out[i])
      BY DEF Marks
    <2>2. out[i].kind # "item"
      BY <1>2, <2>1 DEF Mark
    <2>3. i \in Members
      BY <2>2 DEF Marked, Members
    <2> QED BY <1>1, <2>1, <2>3
  <1> QED BY <1>1, <1>2

(* The members of the printed object, in the words of the invariant.        *)
LEMMA MembersPrinted ==
    ASSUME MemberInv
    PROVE  MembersAsAsked
  <1> SUFFICES ASSUME pc = "done" PROVE MembersAsAsked
    BY DEF MembersAsAsked
  <1> DEFINE Keys == { out[i].key : i \in Members }
  <1>0. valid \subseteq Labels
    BY DEF MemberInv, JsonInv, JsonTypeOK
  <1>1. CASE Rejected /\ Marks(out) = {}
    <2>1. Members = {}
      BY <1>1, MemberMarks DEF Marks
    <2> QED BY <1>1, <2>1 DEF MembersAsAsked
  <1>2. CASE /\ ~Rejected /\ valid = Wanted
             /\ Once(out) /\ Marks(out) = MarksOf(valid, sample)
    <2>1. ASSUME NEW i \in Members, NEW j \in Members, out[i].key = out[j].key PROVE i = j
      <3>1. i \in Marked(out) /\ j \in Marked(out) /\ Mark(out[i]) = Mark(out[j])
        BY <2>1, MemberMarks
      <3> QED BY <1>2, <3>1 DEF Once
    <2> DEFINE Expected == (Wanted \cap Present)
                           \cup IF "NET" \in Wanted THEN {"NET_GENERAL"} ELSE {}
    <2>2. ASSUME NEW i \in Members PROVE out[i].key \in Expected
      <3> DEFINE m == <<out[i].key, "member", 0>>
      <3>1. m \in MarksOf(valid, sample)
        <4>1. i \in Marked(out) /\ Mark(out[i]) = m
          BY MemberMarks
        <4>2. m \in Marks(out)
          BY <4>1, Zenon DEF Marks
        <4> QED BY <1>2, <4>2
      <3>2. PICK label \in valid :
              /\ ~Lacks(label, sample)
              /\ \/ m = <<label, "member", 0>>
                 \/ \E id \in Ids(label, sample) : m = <<label, "item", id>>
                 \/ label = "NET" /\ m = <<"NET_GENERAL", "member", 0>>
        BY <1>0, <3>1, MarkFacts
      <3>3. out[i].key = label \/ (label = "NET" /\ out[i].key = "NET_GENERAL")
        BY <3>2
      <3>4. label \in Wanted /\ label \in Present
        BY <1>0, <1>2, <3>2, PresentLabels
      <3> QED BY <3>3, <3>4
    <2>3. ASSUME NEW key \in Expected PROVE \E i \in Members : out[i].key = key
      <3> DEFINE m == <<key, "member", 0>>
      <3>1. m \in MarksOf(valid, sample)
        <4>1. CASE key \in Wanted \cap Present
          <5>1. key \in valid /\ ~Lacks(key, sample)
            BY <1>0, <1>2, <4>1, PresentLabels
          <5> QED BY <5>1, LabelHasMarks
        <4>2. CASE "NET" \in Wanted /\ key = "NET_GENERAL"
          <5>1. "NET" \in valid /\ ~Lacks("NET", sample)
            BY <1>2, <4>2 DEF Lacks
          <5> QED BY <4>2, <5>1, LabelHasMarks
        <4> QED BY <4>1, <4>2
      <3>2. m \in Marks(out) /\ m[2] = "member"
        BY <1>2, <3>1
      <3>3. PICK i \in Members : m = <<out[i].key, "member", 0>>
        BY <3>2, MemberMarks
      <3> QED BY <3>3
    <2>4. Keys = Expected
      <3> HIDE DEF Expected
      <3> QED BY <2>2, <2>3
    <2> QED BY <1>2, <2>1, <2>4 DEF MembersAsAsked
  <1> QED BY <1>1, <1>2 DEF MemberInv, MembersInv

(* jsondef and the loop over labeldef: the members of the object are the    *)
(* labels asked for that the sample has, once each, with the counters that  *)
(* come with NET; a list with an unknown label before any ALL gets none.    *)
THEOREM MembersAreAsAsked == Spec => []MembersAsAsked
  BY MembersPrinted, MemberInvAlways, PTL

LEMMA TasksPrinted ==
    ASSUME MemberInv
    PROVE  TasksOnce
  <1> SUFFICES ASSUME pc = "done", NEW m \in Members, out[m].key \in TaskLabels
               PROVE  LET items == { i \in DOMAIN out : out[i].kind = "item" /\ out[i].key = out[m].key }
                      IN  /\ \A i, j \in items : out[i].id = out[j].id => i = j
                          /\ { out[i].id : i \in items } = { t.pid : t \in Range(sample.tasks) }
    BY Zenon DEF TasksOnce
  <1> DEFINE key == out[m].key
             items == { i \in DOMAIN out : out[i].kind = "item" /\ out[i].key = key }
             pids == { t.pid : t \in Range(sample.tasks) }
  <1>0. valid \subseteq Labels
    BY DEF MemberInv, JsonInv, JsonTypeOK
  <1>1. Once(out) /\ Marks(out) = MarksOf(valid, sample)
    <2>1. Marks(out) # {}
      BY MemberMarks DEF Marks
    <2> QED BY <2>1 DEF MemberInv, MembersInv
  <1>2. key \in valid /\ ~Lacks(key, sample)
    <2>1. <<key, "member", 0>> \in MarksOf(valid, sample)
      <3>1. m \in Marked(out) /\ Mark(out[m]) = <<key, "member", 0>>
        BY MemberMarks
      <3>2. Mark(out[m]) \in Marks(out)
        BY <3>1, Zenon DEF Marks
      <3> QED BY <1>1, <3>1, <3>2
    <2>2. PICK label \in valid :
            /\ ~Lacks(label, sample)
            /\ \/ <<key, "member", 0>> = <<label, "member", 0>>
               \/ \E id \in Ids(label, sample) : <<key, "member", 0>> = <<label, "item", id>>
               \/ label = "NET" /\ <<key, "member", 0>> = <<"NET_GENERAL", "member", 0>>
      BY <1>0, <2>1, MarkFacts
    <2>3. key # "NET_GENERAL"
      BY DEF TaskLabels
    <2>4. key = label
      BY <2>2, <2>3
    <2> QED BY <2>2, <2>4
  <1>3. Ids(key, sample) = pids
    <2>1. key \in TaskLabels /\ key \notin Counted
      BY DEF TaskLabels, Counted
    <2> QED BY <2>1 DEF Ids
  <1>4. \A i \in items : i \in Marked(out) /\ Mark(out[i]) = <<key, "item", out[i].id>>
    BY DEF Marked, Mark
  <1> HIDE DEF pids
  <1>5. ASSUME NEW i \in items, NEW j \in items, out[i].id = out[j].id PROVE i = j
    <2>1. Mark(out[i]) = Mark(out[j]) /\ i \in Marked(out) /\ j \in Marked(out)
      BY <1>4, <1>5
    <2> QED BY <1>1, <2>1 DEF Once
  <1>6. ASSUME NEW i \in items PROVE out[i].id \in pids
    <2> DEFINE x == <<key, "item", out[i].id>>
    <2>1. x \in MarksOf(valid, sample)
      <3>1. i \in Marked(out) /\ Mark(out[i]) = x
        BY <1>4
      <3>2. Mark(out[i]) \in Marks(out)
        BY <3>1, Zenon DEF Marks
      <3> QED BY <1>1, <3>1, <3>2
    <2>2. PICK label \in valid :
            \/ x = <<label, "member", 0>>
            \/ \E id \in Ids(label, sample) : x = <<label, "item", id>>
            \/ label = "NET" /\ x = <<"NET_GENERAL", "member", 0>>
      BY <1>0, <2>1, MarkFacts
    <2>3. key = label /\ out[i].id \in Ids(label, sample)
      BY <2>2
    <2> QED BY <1>3, <2>3
  <1>7. ASSUME NEW id \in pids PROVE \E i \in items : out[i].id = id
    <2>1. <<key, "item", id>> \in Marks(out)
      BY <1>1, <1>2, <1>3, LabelHasMarks
    <2>2. PICK i \in Marked(out) : <<key, "item", id>> = Mark(out[i])
      BY <2>1 DEF Marks
    <2>3. out[i].kind = "item"
      BY <2>2 DEF Mark
    <2>4. out[i].key = key /\ out[i].id = id
      BY <2>2, <2>3 DEF Mark
    <2> QED BY <2>3, <2>4 DEF Marked
  <1>8. { out[i].id : i \in items } = pids
    <2> HIDE DEF items
    <2> QED BY <1>6, <1>7
  <1> QED BY <1>5, <1>8 DEF pids

(* The six loops over the tasks: each array they print has every task of    *)
(* the sample exactly once, the threads that stand for their process left   *)
(* out.                                                                     *)
THEOREM TasksAppearOnce == Spec => []TasksOnce
  BY TasksPrinted, MemberInvAlways, PTL
=============================================================================
