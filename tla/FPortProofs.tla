----------------------------- MODULE FPortProofs -----------------------------
(***************************************************************************)
(* For packets of any bytes and of any length hdlc_frame_stuff and         *)
(* hdlc_frame_unstuff, which work in place, compute what Hdlc says, and    *)
(* unstuffing gives back what was stuffed.  For lines of any length, with  *)
(* any number of lost and added bytes, fport_task publishes all frames but *)
(* two for each byte lost or added, exactly those sent while there is      *)
(* none, and a client with the higher priority never sees half an update.  *)
(*                                                                         *)
(* The operators of Hdlc are recursive functions.  That they satisfy their *)
(* recursion, and what follows from it for all lengths, is proved by the   *)
(* least length at which it fails (LeastOf, UpTo).                         *)
(***************************************************************************)
EXTENDS FPort, HdlcLoops, FiniteSetTheorems, SequenceTheorems,
        WellFoundedInduction, TLAPS

-----------------------------------------------------------------------------
(* Induction up to a number, and recursive definitions                     *)

\* A nonempty set of natural numbers has a least element.
LEMMA LeastOf ==
  ASSUME NEW S, S \subseteq Nat, S # {}
  PROVE  \E x \in S : \A y \in S : x <= y
  <1> DEFINE R == OpToRel(<, Nat)
  <1>1. IsWellFoundedOn(R, Nat)
    BY NatLessThanWellFounded
  <1>2. \E x \in S : \A y \in S : ~ (<<y, x>> \in R)
    BY <1>1, WFMin, Zenon
  <1>3. R = {ss \in Nat \X Nat : ss[1] < ss[2]}
    BY Zenon DEF OpToRel
  <1> HIDE DEF R
  <1>4. \A x, y \in Nat : <<y, x>> \in R <=> y < x
    BY <1>3
  <1>5. PICK x \in S : \A y \in S : ~ (<<y, x>> \in R)
    BY <1>2
  <1>6. \A y \in S : ~(y < x)
    BY <1>4, <1>5
  <1>7. \A y \in S : x <= y
    BY <1>6
  <1> QED BY <1>5, <1>7

\* What holds of 0, and of a number when it holds of the one before.
LEMMA UpTo ==
  ASSUME NEW n \in Nat, NEW S, 0 \in S, \A i \in 1 .. n : i - 1 \in S => i \in S
  PROVE  \A i \in 0 .. n : i \in S
  <1> DEFINE B == {i \in 0 .. n : i \notin S}
  <1>1. SUFFICES ASSUME B # {} PROVE FALSE
    OBVIOUS
  <1>2. PICK x \in B : \A y \in B : x <= y
    <2>1. B \subseteq Nat
      OBVIOUS
    <2> HIDE DEF B
    <2> QED BY <1>1, <2>1, LeastOf
  <1>3. x \in 1 .. n
    BY <1>2
  <1>4. x - 1 \in S
    BY <1>2, <1>3
  <1> QED BY <1>2, <1>3, <1>4

-----------------------------------------------------------------------------
(* Hdlc: the definitions by recursion                                      *)

\* Flipping a bit twice gives the byte back.
LEMMA FlipTwice ==
  ASSUME NEW byte \in Nat
  PROVE  Flip(byte) \in Nat /\ Flip(Flip(byte)) = byte
  <1> DEFINE e == EscapeBits
             q == byte \div e
             r == byte % e
  <1>1. e \in Nat \ {0}
    BY HdlcAssumption
  <1>2. q \in Nat /\ r \in 0 .. (e - 1) /\ byte = q * e + r
    BY <1>1
  <1>3. ASSUME NEW p \in Nat PROVE (p * e + r) \div e = p
    BY <1>1, <1>2
  <1>4. (q + 1) * e + r = byte + e /\ (q - 1) * e + r = byte - e
    BY <1>1, <1>2
  <1>5. CASE q % 2 = 1
    <2>1. q - 1 \in Nat /\ (q - 1) % 2 = 0
      BY <1>2, <1>5
    <2>2. Flip(byte) = byte - e
      BY <1>5 DEF Flip
    <2>3. (byte - e) \div e = q - 1
      BY <1>3, <1>4, <2>1
    <2>4. byte - e \in Nat
      BY <1>1, <1>2, <1>4, <2>1
    <2> HIDE DEF q, r
    <2>5. Flip(byte - e) = byte - e + e
      BY <2>3, <2>1 DEF Flip
    <2> QED BY <1>1, <2>2, <2>4, <2>5
  <1>6. CASE q % 2 # 1
    <2>1. q + 1 \in Nat /\ (q + 1) % 2 = 1
      BY <1>2, <1>6
    <2>2. Flip(byte) = byte + e
      BY <1>6 DEF Flip
    <2>3. (byte + e) \div e = q + 1
      BY <1>3, <1>4, <2>1
    <2> HIDE DEF q, r
    <2>4. ((byte + e) \div e) % 2 = 1
      BY <2>1, <2>3
    <2>5. Flip(byte + e) = byte + e - e
      BY <1>1, <2>4 DEF Flip
    <2> QED BY <1>1, <2>2, <2>5
  <1> QED BY <1>5, <1>6

LEMMA UnitType ==
  ASSUME NEW byte \in Nat
  PROVE  /\ Unit(byte) \in Seq(Nat)
         /\ Special(byte) => Unit(byte) = <<Escape, Flip(byte)>>
         /\ ~Special(byte) => Unit(byte) = <<byte>>
  BY FlipTwice, HdlcAssumption DEF Unit

\* A function that appends, from the empty sequence on.
More(g, u, i) == g[i - 1] \o u[i]
Appends(g, n, u) == g = [i \in 0 .. n |-> IF i = 0 THEN <<>> ELSE More(g, u, i)]

\* Such a function exists, and what it returns are sequences.
LEMMA AppendingExists ==
  ASSUME NEW T, NEW n \in Nat, NEW u, u \in [1 .. n -> Seq(T)]
  PROVE  \E h : Appends(h, n, u)
  <1> DEFINE Good(g, k) ==
               /\ g = [i \in 0 .. k |-> g[i]] /\ g[0] = <<>>
               /\ \A i \in 1 .. k : g[i] = More(g, u, i)
             S == {k \in 0 .. n : \E g : Good(g, k)}
  <1>1. 0 \in S
    <2> DEFINE g == [i \in 0 .. 0 |-> <<>>]
    <2>1. Good(g, 0)
      OBVIOUS
    <2> HIDE DEF g, Good
    <2> QED BY <2>1
  <1>2. ASSUME NEW k \in 1 .. n, k - 1 \in S PROVE k \in S
    <2>1. PICK g : Good(g, k - 1)
      BY <1>2
    <2> DEFINE x == More(g, u, k)
               h == [i \in 0 .. k |-> IF i = k THEN x ELSE g[i]]
    <2>2. ASSUME NEW i \in 1 .. k PROVE h[i] = More(h, u, i)
      <3> HIDE DEF x
      <3>1. CASE i = k
        <4>1. h[i] = x /\ h[i - 1] = g[k - 1]
          BY <3>1
        <4> QED BY <3>1, <4>1, Zenon DEF x, More
      <3>2. CASE i # k
        <4>1. h[i] = g[i] /\ h[i - 1] = g[i - 1] /\ i \in 1 .. (k - 1)
          BY <3>2
        <4>2. g[i] = More(g, u, i)
          BY <2>1, <4>1, Zenon
        <4> QED BY <4>1, <4>2, Zenon DEF More
      <3> QED BY <3>1, <3>2
    <2>3. h[0] = <<>> /\ h = [i \in 0 .. k |-> h[i]]
      <3> HIDE DEF x
      <3> QED BY <2>1
    <2>4. Good(h, k)
      BY <2>2, <2>3, Zenon
    <2> HIDE DEF h, Good
    <2> QED BY <2>4
  <1>3. n \in S
    <2> HIDE DEF S
    <2>1. \A i \in 0 .. n : i \in S
      BY <1>1, <1>2, UpTo
    <2> QED BY <2>1
  <1>4. PICK h : Good(h, n)
    BY <1>3, Zenon
  <1>5. ASSUME NEW i \in 0 .. n
        PROVE  h[i] = IF i = 0 THEN <<>> ELSE More(h, u, i)
    <2>1. CASE i = 0
      BY <1>4, <2>1, Zenon
    <2>2. CASE i # 0
      <3>1. i \in 1 .. n
        BY <2>2
      <3> QED BY <1>4, <2>2, <3>1, Zenon
    <2> QED BY <2>1, <2>2
  <1>6. h = [i \in 0 .. n |-> h[i]]
    BY <1>4, Zenon
  <1>7. Appends(h, n, u)
    BY <1>5, <1>6, Zenon DEF Appends
  <1> QED BY <1>7, Zenon

LEMMA AppendingStep ==
  ASSUME NEW n \in Nat, NEW u, NEW g, Appends(g, n, u)
  PROVE  g[0] = <<>> /\ \A i \in 1 .. n : g[i] = More(g, u, i)
  <1>2. \A i \in 0 .. n : g[i] = IF i = 0 THEN <<>> ELSE More(g, u, i)
    BY Zenon DEF Appends
  <1>3. g[0] = <<>>
    BY <1>2, 0 \in 0 .. n, Zenon
  <1>4. ASSUME NEW i \in 1 .. n PROVE g[i] = More(g, u, i)
    <2>1. i \in 0 .. n /\ i # 0
      OBVIOUS
    <2> QED BY <1>2, <2>1, Zenon
  <1> QED BY <1>3, <1>4, Zenon

LEMMA AppendingType ==
  ASSUME NEW T, NEW n \in Nat, NEW u, u \in [1 .. n -> Seq(T)],
         NEW g, Appends(g, n, u)
  PROVE  g \in [0 .. n -> Seq(T)]
  <1> DEFINE S == {i \in 0 .. n : g[i] \in Seq(T)}
  <1>1. 0 \in S
    <2>1. <<>> \in Seq(T)
      OBVIOUS
    <2> QED BY AppendingStep, <2>1, 0 \in 0 .. n, Zenon
  <1>2. ASSUME NEW i \in 1 .. n, i - 1 \in S PROVE i \in S
    <2>1. g[i - 1] \in Seq(T) /\ u[i] \in Seq(T)
      BY <1>2
    <2>2. More(g, u, i) \in Seq(T)
      BY <2>1 DEF More
    <2>3. g[i] = More(g, u, i)
      BY AppendingStep, Zenon
    <2>4. g[i] \in Seq(T)
      BY <2>2, <2>3, Zenon
    <2>5. i \in 0 .. n
      OBVIOUS
    <2> QED BY <2>4, <2>5, Zenon
  <1>3. \A i \in 0 .. n : i \in S
    <2> HIDE DEF S
    <2> QED BY <1>1, <1>2, UpTo
  <1>4. \A i \in 0 .. n : g[i] \in Seq(T)
    BY <1>3, Zenon
  <1>5. g = [i \in 0 .. n |-> g[i]]
    BY Zenon DEF Appends
  <1> QED BY <1>4, <1>5, Zenon

LEMMA StuffedToRecursion ==
  ASSUME NEW s \in Seq(Nat)
  PROVE  /\ StuffedTo(s) \in [0 .. Len(s) -> Seq(Nat)]
         /\ StuffedTo(s)[0] = <<>>
         /\ \A i \in 1 .. Len(s) : StuffedTo(s)[i] = StuffedTo(s)[i - 1] \o Unit(s[i])
  <1> DEFINE n == Len(s)
             u == [i \in 1 .. n |-> Unit(s[i])]
             B(of) == of = [i \in 0 .. n |->
                              IF i = 0 THEN <<>> ELSE of[i - 1] \o Unit(s[i])]
  <1>1. n \in Nat /\ u \in [1 .. n -> Seq(Nat)]
    <2>1. n \in Nat /\ \A i \in 1 .. n : s[i] \in Nat
      OBVIOUS
    <2> HIDE DEF n
    <2>2. \A i \in 1 .. n : Unit(s[i]) \in Seq(Nat)
      BY <2>1, UnitType, Zenon
    <2> QED BY <2>1, <2>2, Zenon
  <1>2. \A i \in 1 .. n : u[i] = Unit(s[i])
    OBVIOUS
  <1>3. ASSUME NEW of PROVE Appends(of, n, u) <=> B(of)
    <2>1. ASSUME NEW i \in 0 .. n
          PROVE  (IF i = 0 THEN <<>> ELSE More(of, u, i))
                   = IF i = 0 THEN <<>> ELSE of[i - 1] \o Unit(s[i])
      <3> HIDE DEF u
      <3>1. CASE i = 0
        BY <3>1
      <3>2. CASE i # 0
        <4>1. i \in 1 .. n
          BY <3>2, <1>1
        <4> QED BY <1>2, <3>2, <4>1, Zenon DEF More
      <3> QED BY <3>1, <3>2
    <2> HIDE DEF u
    <2> QED BY <2>1, Zenon DEF Appends
  <1>4. \E of : Appends(of, n, u)
    <2> HIDE DEF n, u
    <2> QED BY <1>1, AppendingExists
  <1>5. StuffedTo(s) = CHOOSE of : B(of)
    BY Zenon DEF StuffedTo
  <1> DEFINE g == StuffedTo(s)
  <1>6. Appends(g, n, u)
    <2> HIDE DEF B, u, n
    <2> QED BY <1>3, <1>4, <1>5, Zenon
  <1>7. /\ g \in [0 .. n -> Seq(Nat)] /\ g[0] = <<>>
        /\ \A i \in 1 .. n : g[i] = More(g, u, i)
    <2> HIDE DEF n, u, g
    <2>1. g \in [0 .. n -> Seq(Nat)]
      BY <1>1, <1>6, AppendingType
    <2>2. g[0] = <<>>
      BY <1>1, <1>6, AppendingStep, Zenon
    <2>3. \A i \in 1 .. n : g[i] = More(g, u, i)
      BY <1>1, <1>6, AppendingStep, Zenon
    <2> QED BY <2>1, <2>2, <2>3, Zenon
  <1> HIDE DEF g, u
  <1> QED BY <1>2, <1>7, Zenon DEF g, More

\* A byte is escaped when the one before starts an escape sequence.
After(g, s, i) == i > 1 /\ s[i - 1] = Escape /\ ~g[i - 1]

LEMMA EscapedInRecursion ==
  ASSUME NEW s \in Seq(Nat)
  PROVE  EscapedIn(s) = [i \in 1 .. Len(s) |-> After(EscapedIn(s), s, i)]
  <1> DEFINE n == Len(s)
             Good(g, k) == \A i \in 1 .. k : g[i] <=> After(g, s, i)
             S == {k \in 0 .. n : \E g \in [1 .. k -> BOOLEAN] : Good(g, k)}
             B(esc) == esc = [i \in 1 .. n |-> After(esc, s, i)]
  <1>1. n \in Nat
    OBVIOUS
  <1> HIDE DEF n
  <1>2. 0 \in S
    <2> DEFINE g == [i \in 1 .. 0 |-> FALSE]
    <2>1. g \in [1 .. 0 -> BOOLEAN] /\ Good(g, 0)
      OBVIOUS
    <2>2. 0 \in 0 .. n
      BY <1>1
    <2> HIDE DEF g, Good
    <2> QED BY <2>1, <2>2, Zenon
  <1>3. ASSUME NEW k \in 1 .. n, k - 1 \in S PROVE k \in S
    <2>1. PICK g \in [1 .. (k - 1) -> BOOLEAN] : Good(g, k - 1)
      BY <1>3, Zenon
    <2> DEFINE x == After(g, s, k)
               h == [i \in 1 .. k |-> IF i = k THEN x ELSE g[i]]
    <2>2. x \in BOOLEAN
      BY Zenon DEF After
    <2>3. h \in [1 .. k -> BOOLEAN]
      <3> HIDE DEF x
      <3>1. ASSUME NEW i \in 1 .. k PROVE h[i] \in BOOLEAN
        <4>1. CASE i = k
          BY <2>2, <4>1, Zenon
        <4>2. CASE i # k
          <5>1. i \in 1 .. (k - 1)
            BY <4>2
          <5>2. h[i] = g[i]
            BY <4>2, Zenon
          <5> QED BY <5>1, <5>2, Zenon
        <4> QED BY <4>1, <4>2, Zenon
      <3> QED BY <3>1, Zenon
    <2>4. ASSUME NEW i \in 1 .. k, i # k PROVE h[i] = g[i]
      BY <2>4, Zenon
    <2>5. h[k] = x
      <3> k \in 1 .. k
        OBVIOUS
      <3> QED BY Zenon
    <2> HIDE DEF h, x
    <2>6. ASSUME NEW i \in 1 .. k PROVE h[i] <=> After(h, s, i)
      <3>1. ASSUME i > 1 PROVE h[i - 1] = g[i - 1]
        <4> i - 1 \in 1 .. k /\ i - 1 # k
          BY <3>1
        <4> QED BY <2>4, Zenon
      <3>2. After(h, s, i) <=> After(g, s, i)
        BY <3>1, Zenon DEF After
      <3>3. CASE i = k
        BY <2>5, <3>2, <3>3, Zenon DEF x
      <3>4. CASE i # k
        <4>1. i \in 1 .. (k - 1)
          BY <3>4
        <4>2. g[i] <=> After(g, s, i)
          BY <2>1, <4>1, Zenon
        <4> QED BY <2>4, <3>2, <3>4, <4>2, Zenon
      <3> QED BY <3>3, <3>4, Zenon
    <2>7. Good(h, k) /\ k \in 0 .. n
      BY <1>1, <2>6
    <2> HIDE DEF Good
    <2> QED BY <2>3, <2>7, Zenon
  <1>4. n \in S
    <2> HIDE DEF S
    <2>1. \A i \in 0 .. n : i \in S
      BY <1>1, <1>2, <1>3, UpTo
    <2> QED BY <1>1, <2>1
  <1>5. PICK h \in [1 .. n -> BOOLEAN] : Good(h, n)
    BY <1>4, Zenon
  <1>6. ASSUME NEW i \in 1 .. n PROVE h[i] = After(h, s, i)
    <2>1. After(h, s, i) \in BOOLEAN
      BY Zenon DEF After
    <2> QED BY <1>5, <2>1, Zenon
  <1>7. B(h)
    <2>1. h = [i \in 1 .. n |-> h[i]]
      BY Zenon
    <2> QED BY <1>6, <2>1, Zenon
  <1>8. EscapedIn(s) = CHOOSE esc : B(esc)
    BY Zenon DEF EscapedIn, After, n
  <1>9. B(EscapedIn(s))
    <2> HIDE DEF B
    <2> QED BY <1>7, <1>8, Zenon
  <1> QED BY <1>9, Zenon DEF n

LEMMA EscapedRule ==
  ASSUME NEW s \in Seq(Nat), NEW i \in 1 .. Len(s)
  PROVE  Escaped(s, i) <=> i > 1 /\ Starts(s, i - 1)
  <1>1. EscapedIn(s)[i] = After(EscapedIn(s), s, i)
    BY EscapedInRecursion, Zenon
  <1> QED BY <1>1, Zenon DEF Escaped, Starts, After

\* What one byte of a frame becomes.
Taken(t, i) == IF Starts(t, i) THEN <<>>
               ELSE IF Escaped(t, i) THEN <<Flip(t[i])>> ELSE <<t[i]>>

LEMMA UnstuffedToRecursion ==
  ASSUME NEW t \in Seq(Nat)
  PROVE  /\ UnstuffedTo(t) \in [0 .. Len(t) -> Seq(Nat)]
         /\ UnstuffedTo(t)[0] = <<>>
         /\ \A i \in 1 .. Len(t) : UnstuffedTo(t)[i] = UnstuffedTo(t)[i - 1] \o Taken(t, i)
  <1> DEFINE n == Len(t)
             u == [i \in 1 .. n |-> Taken(t, i)]
             B(of) == of = [i \in 0 .. n |->
                              IF i = 0 THEN <<>> ELSE of[i - 1] \o Taken(t, i)]
  <1>1. n \in Nat
    OBVIOUS
  <1>2. \A i \in 1 .. n : u[i] = Taken(t, i)
    BY Zenon
  <1>3. u \in [1 .. n -> Seq(Nat)]
    <2>1. ASSUME NEW i \in 1 .. n PROVE Taken(t, i) \in Seq(Nat)
      <3> Flip(t[i]) \in Nat
        BY FlipTwice
      <3> QED BY DEF Taken
    <2> QED BY <2>1, Zenon
  <1>4. ASSUME NEW of PROVE Appends(of, n, u) <=> B(of)
    <2>1. ASSUME NEW i \in 0 .. n
          PROVE  (IF i = 0 THEN <<>> ELSE More(of, u, i))
                   = IF i = 0 THEN <<>> ELSE of[i - 1] \o Taken(t, i)
      <3> HIDE DEF u
      <3>1. CASE i = 0
        BY <3>1
      <3>2. CASE i # 0
        <4>1. i \in 1 .. n
          BY <3>2, <1>1
        <4> QED BY <1>2, <3>2, <4>1, Zenon DEF More
      <3> QED BY <3>1, <3>2
    <2> HIDE DEF u
    <2> QED BY <2>1, Zenon DEF Appends
  <1>5. \E of : Appends(of, n, u)
    <2> HIDE DEF n, u
    <2> QED BY <1>1, <1>3, AppendingExists
  <1>6. UnstuffedTo(t) = CHOOSE of : B(of)
    BY Zenon DEF UnstuffedTo, Taken
  <1> DEFINE g == UnstuffedTo(t)
  <1>7. Appends(g, n, u)
    <2> HIDE DEF B, u, n
    <2> QED BY <1>4, <1>5, <1>6, Zenon
  <1>8. /\ g \in [0 .. n -> Seq(Nat)] /\ g[0] = <<>>
        /\ \A i \in 1 .. n : g[i] = More(g, u, i)
    <2> HIDE DEF n, u, g
    <2>1. g \in [0 .. n -> Seq(Nat)]
      BY <1>1, <1>3, <1>7, AppendingType
    <2>2. g[0] = <<>>
      BY <1>1, <1>7, AppendingStep, Zenon
    <2>3. \A i \in 1 .. n : g[i] = More(g, u, i)
      BY <1>1, <1>7, AppendingStep, Zenon
    <2> QED BY <2>1, <2>2, <2>3, Zenon
  <1> HIDE DEF g, u
  <1> QED BY <1>2, <1>8, Zenon DEF g, More

-----------------------------------------------------------------------------
(* Hdlc: what stuffing and unstuffing do                                   *)

\* What a sequence is after a byte, or two, are added.
LEMMA PutOne ==
  ASSUME NEW T, NEW x \in Seq(T), NEW a \in T, NEW y, y = x \o <<a>>
  PROVE  /\ y \in Seq(T) /\ Len(y) = Len(x) + 1 /\ y[Len(x) + 1] = a
         /\ \A k \in 1 .. Len(x) : y[k] = x[k]
  OBVIOUS

LEMMA PutTwo ==
  ASSUME NEW T, NEW x \in Seq(T), NEW a \in T, NEW b \in T, NEW y, y = x \o <<a, b>>
  PROVE  /\ y \in Seq(T) /\ Len(y) = Len(x) + 2
         /\ y[Len(x) + 1] = a /\ y[Len(x) + 2] = b
         /\ \A k \in 1 .. Len(x) : y[k] = x[k]
  OBVIOUS

LEMMA StuffedStep ==
  ASSUME NEW s \in Seq(Nat), NEW i \in 1 .. Len(s)
  PROVE  LET old == StuffedTo(s)[i - 1]
             new == StuffedTo(s)[i]
         IN /\ old \in Seq(Nat) /\ new \in Seq(Nat) /\ s[i] \in Nat
            /\ \A k \in 1 .. Len(old) : new[k] = old[k]
            /\ Special(s[i]) => /\ Len(new) = Len(old) + 2
                                /\ new[Len(old) + 1] = Escape
                                /\ new[Len(old) + 2] = Flip(s[i])
            /\ ~Special(s[i]) => Len(new) = Len(old) + 1 /\ new[Len(old) + 1] = s[i]
  <1> DEFINE old == StuffedTo(s)[i - 1]
             new == StuffedTo(s)[i]
             unit == Unit(s[i])
  <1>1. s[i] \in Nat /\ i \in 0 .. Len(s) /\ i - 1 \in 0 .. Len(s)
    OBVIOUS
  <1>2. old \in Seq(Nat) /\ new \in Seq(Nat)
    BY <1>1, StuffedToRecursion, Zenon
  <1>3. new = old \o unit
    BY StuffedToRecursion, Zenon
  <1>4. /\ unit \in Seq(Nat)
        /\ Special(s[i]) => unit = <<Escape, Flip(s[i])>>
        /\ ~Special(s[i]) => unit = <<s[i]>>
    BY <1>1, UnitType
  <1> HIDE DEF old, new, unit
  <1>5. Escape \in Nat /\ Flip(s[i]) \in Nat
    BY <1>1, FlipTwice, HdlcAssumption
  <1>6. ASSUME Special(s[i])
        PROVE  /\ Len(new) = Len(old) + 2
               /\ new[Len(old) + 1] = Escape
               /\ new[Len(old) + 2] = Flip(s[i])
               /\ \A k \in 1 .. Len(old) : new[k] = old[k]
    <2>1. new = old \o <<Escape, Flip(s[i])>>
      BY <1>3, <1>4, <1>6, Zenon
    <2> QED BY <1>2, <1>5, <2>1, PutTwo
  <1>7. ASSUME ~Special(s[i])
        PROVE  /\ Len(new) = Len(old) + 1 /\ new[Len(old) + 1] = s[i]
               /\ \A k \in 1 .. Len(old) : new[k] = old[k]
    <2>1. new = old \o <<s[i]>>
      BY <1>3, <1>4, <1>7, Zenon
    <2> QED BY <1>1, <1>2, <2>1, PutOne
  <1> QED BY <1>1, <1>2, <1>6, <1>7, Zenon DEF old, new

\* Stuffing adds at most a byte per byte.
LEMMA StuffedLength ==
  ASSUME NEW s \in Seq(Nat), NEW i \in 0 .. Len(s)
  PROVE  /\ StuffedTo(s)[i] \in Seq(Nat)
         /\ Len(StuffedTo(s)[i]) \in i .. (2 * i)
  <1> DEFINE S == {j \in 0 .. Len(s) : Len(StuffedTo(s)[j]) \in j .. (2 * j)}
  <1>0. Len(s) \in Nat
    OBVIOUS
  <1>1. 0 \in S
    <2>1. StuffedTo(s)[0] = <<>>
      BY StuffedToRecursion, Zenon
    <2> QED BY <2>1
  <1>2. ASSUME NEW j \in 1 .. Len(s), j - 1 \in S PROVE j \in S
    <2> DEFINE a == Len(StuffedTo(s)[j - 1])
               b == Len(StuffedTo(s)[j])
    <2>1. b = a + 2 \/ b = a + 1
      BY StuffedStep, Zenon
    <2>2. a \in (j - 1) .. (2 * (j - 1))
      BY <1>2
    <2> HIDE DEF a, b
    <2>3. b \in j .. (2 * j)
      BY <2>1, <2>2
    <2> QED BY <2>3 DEF b
  <1>3. \A j \in 0 .. Len(s) : j \in S
    <2> HIDE DEF S
    <2> QED BY <1>0, <1>1, <1>2, UpTo
  <1>4. StuffedTo(s)[i] \in Seq(Nat)
    BY StuffedToRecursion
  <1> QED BY <1>3, <1>4, Zenon

\* What a part of a packet becomes is the beginning of what the whole becomes.
LEMMA StuffedPrefix ==
  ASSUME NEW s \in Seq(Nat), NEW j \in 0 .. Len(s), NEW i \in 0 .. j
  PROVE  /\ Len(StuffedTo(s)[i]) <= Len(StuffedTo(s)[j])
         /\ \A k \in 1 .. Len(StuffedTo(s)[i]) : StuffedTo(s)[j][k] = StuffedTo(s)[i][k]
  <1> DEFINE Before(x, y) == /\ Len(x) <= Len(y)
                             /\ \A k \in 1 .. Len(x) : y[k] = x[k]
             S == {m \in 0 .. Len(s) :
                     m >= i => Before(StuffedTo(s)[i], StuffedTo(s)[m])}
  <1>1. i \in 0 .. Len(s) /\ Len(s) \in Nat
    OBVIOUS
  <1>2. StuffedTo(s)[i] \in Seq(Nat)
    BY <1>1, StuffedLength, Zenon
  <1>3. Before(StuffedTo(s)[i], StuffedTo(s)[i])
    BY <1>2
  <1>4. 0 \in S
    <2> HIDE DEF Before
    <2> QED BY <1>3
  <1>5. ASSUME NEW m \in 1 .. Len(s), m - 1 \in S PROVE m \in S
    <2>1. CASE m < i
      BY <2>1
    <2>2. CASE m = i
      <3> HIDE DEF Before
      <3> QED BY <1>3, <2>2
    <2>3. CASE m > i
      <3> DEFINE x == StuffedTo(s)[i]
                 y == StuffedTo(s)[m - 1]
                 z == StuffedTo(s)[m]
      <3>1. Before(x, y)
        <4>1. m - 1 >= i
          BY <2>3
        <4> HIDE DEF Before
        <4> QED BY <1>5, <4>1
      <3>2. y \in Seq(Nat) /\ z \in Seq(Nat) /\ \A k \in 1 .. Len(y) : z[k] = y[k]
        BY StuffedStep, Zenon
      <3>3. Len(z) = Len(y) + 2 \/ Len(z) = Len(y) + 1
        BY StuffedStep, Zenon
      <3>4. x \in Seq(Nat)
        BY <1>2
      <3> HIDE DEF x, y, z
      <3>5. Before(x, z)
        <4>1. /\ Len(x) <= Len(z)
              /\ \A k \in 1 .. Len(x) : k \in 1 .. Len(y)
          BY <3>1, <3>2, <3>3, <3>4
        <4> QED BY <3>1, <3>2, <4>1, Zenon
      <3> HIDE DEF Before
      <3> QED BY <3>5 DEF x, z
    <2> QED BY <2>1, <2>2, <2>3
  <1>6. \A m \in 0 .. Len(s) : m \in S
    <2> HIDE DEF S
    <2> QED BY <1>1, <1>4, <1>5, UpTo
  <1>7. j >= i
    OBVIOUS
  <1>8. Before(StuffedTo(s)[i], StuffedTo(s)[j])
    <2> HIDE DEF Before
    <2> QED BY <1>6, <1>7
  <1> QED BY <1>8, Zenon

\* No byte before the last one of a frame is a boundary.
LEMMA StuffedHasNoBoundary ==
  ASSUME NEW s \in Seq(Nat), NEW i \in 0 .. Len(s)
  PROVE  \A k \in 1 .. Len(StuffedTo(s)[i]) : StuffedTo(s)[i][k] # Boundary
  <1> DEFINE Free(x) == \A k \in 1 .. Len(x) : x[k] # Boundary
             S == {m \in 0 .. Len(s) : Free(StuffedTo(s)[m])}
  <1>0. Len(s) \in Nat
    OBVIOUS
  <1>1. 0 \in S
    <2>1. StuffedTo(s)[0] = <<>>
      BY StuffedToRecursion, Zenon
    <2> QED BY <2>1
  <1>2. ASSUME NEW m \in 1 .. Len(s), m - 1 \in S PROVE m \in S
    <2> DEFINE x == StuffedTo(s)[m - 1]
               y == StuffedTo(s)[m]
               c == s[m]
    <2>1. /\ x \in Seq(Nat) /\ y \in Seq(Nat)
          /\ \A k \in 1 .. Len(x) : y[k] = x[k]
          /\ Special(c) => /\ Len(y) = Len(x) + 2
                           /\ y[Len(x) + 1] = Escape
                           /\ y[Len(x) + 2] = Flip(c)
          /\ ~Special(c) => Len(y) = Len(x) + 1 /\ y[Len(x) + 1] = c
      BY StuffedStep, Zenon
    <2>2. Free(x)
      BY <1>2, Zenon
    <2>3. Special(c) => Flip(c) # Boundary
      BY HdlcAssumption, Zenon DEF Special
    <2>4. ~Special(c) => c # Boundary
      BY DEF Special
    <2>5. Escape # Boundary
      BY HdlcAssumption
    <2> HIDE DEF x, y, c
    <2>6. ASSUME NEW k \in 1 .. Len(y) PROVE y[k] # Boundary
      <3>1. CASE k \in 1 .. Len(x)
        BY <2>1, <2>2, <3>1
      <3>2. CASE k = Len(x) + 1
        BY <2>1, <2>4, <2>5, <3>2
      <3>3. CASE k = Len(x) + 2 /\ Special(c)
        BY <2>1, <2>3, <3>3
      <3>6. CASE k = Len(x) + 2 /\ ~Special(c)
        BY <2>1, <3>6
      <3>4. Len(x) \in Nat /\ Len(y) \in Nat
        BY <2>1
      <3>5. Len(y) = Len(x) + 1 \/ Len(y) = Len(x) + 2
        BY <2>1, Zenon
      <3> QED BY <3>1, <3>2, <3>3, <3>4, <3>5, <3>6
    <2>7. Free(y)
      BY <2>6, Zenon
    <2> HIDE DEF Free
    <2> QED BY <2>7 DEF y
  <1>3. \A m \in 0 .. Len(s) : m \in S
    <2> HIDE DEF S
    <2> QED BY <1>0, <1>1, <1>2, UpTo
  <1> QED BY <1>3, Zenon

LEMMA StuffedType ==
  ASSUME NEW s \in Seq(Nat)
  PROVE  LET all == StuffedTo(s)[Len(s)]
         IN /\ Stuffed(s) \in Seq(Nat)
            /\ Len(Stuffed(s)) = Len(all) + 1
            /\ all \in Seq(Nat) /\ Len(all) \in Len(s) .. (2 * Len(s))
            /\ Stuffed(s)[Len(all) + 1] = Boundary
            /\ \A k \in 1 .. Len(all) : Stuffed(s)[k] = all[k] /\ all[k] # Boundary
            /\ Truncated(Stuffed(s)) = all
  <1> DEFINE all == StuffedTo(s)[Len(s)]
  <1>1. Len(s) \in 0 .. Len(s)
    OBVIOUS
  <1>2. all \in Seq(Nat) /\ Len(all) \in Len(s) .. (2 * Len(s))
    BY <1>1, StuffedLength, Zenon
  <1>3. \A k \in 1 .. Len(all) : all[k] # Boundary
    BY <1>1, StuffedHasNoBoundary, Zenon
  <1>4. Stuffed(s) = Append(all, Boundary) /\ Boundary \in Nat
    BY HdlcAssumption, Zenon DEF Stuffed
  <1> HIDE DEF all
  <1>5. /\ Stuffed(s) \in Seq(Nat)
        /\ Len(Stuffed(s)) = Len(all) + 1
        /\ Stuffed(s)[Len(all) + 1] = Boundary
        /\ \A k \in 1 .. Len(all) : Stuffed(s)[k] = all[k]
    BY <1>2, <1>4
  <1>6. Truncated(Stuffed(s)) = SubSeq(Stuffed(s), 1, Len(all))
    BY <1>2, <1>5 DEF Truncated
  <1>7. SubSeq(Stuffed(s), 1, Len(all)) = all
    BY <1>2, <1>5
  <1> QED BY <1>2, <1>3, <1>5, <1>6, <1>7 DEF all

\* The bytes of a frame start an escape sequence, end one, or stand for
\* themselves.
LEMMA UnstuffedStep ==
  ASSUME NEW t \in Seq(Nat), NEW l \in Nat, l < Len(t)
  PROVE  /\ UnstuffedTo(t)[l] \in Seq(Nat) /\ UnstuffedTo(t)[l + 1] \in Seq(Nat)
         /\ t[l + 1] \in Nat /\ Flip(t[l + 1]) \in Nat
         /\ Escaped(t, l + 1) <=> l > 0 /\ Starts(t, l)
         /\ Starts(t, l + 1) <=> t[l + 1] = Escape /\ ~Escaped(t, l + 1)
         /\ Starts(t, l + 1) => UnstuffedTo(t)[l + 1] = UnstuffedTo(t)[l]
         /\ Escaped(t, l + 1) =>
              UnstuffedTo(t)[l + 1] = UnstuffedTo(t)[l] \o <<Flip(t[l + 1])>>
         /\ ~Starts(t, l + 1) /\ ~Escaped(t, l + 1) =>
              UnstuffedTo(t)[l + 1] = UnstuffedTo(t)[l] \o <<t[l + 1]>>
  <1> DEFINE j == l + 1
             old == UnstuffedTo(t)[l]
             new == UnstuffedTo(t)[j]
  <1>1. /\ j \in 1 .. Len(t) /\ j - 1 = l /\ (j > 1 <=> l > 0)
        /\ l \in 0 .. Len(t) /\ j \in 0 .. Len(t) /\ t[j] \in Nat
    OBVIOUS
  <1> HIDE DEF j
  <1>2. Flip(t[j]) \in Nat
    BY <1>1, FlipTwice
  <1>3. old \in Seq(Nat) /\ new \in Seq(Nat)
    BY <1>1, UnstuffedToRecursion, Zenon
  <1>4. Escaped(t, j) <=> l > 0 /\ Starts(t, l)
    BY <1>1, EscapedRule, Zenon
  <1>5. Starts(t, j) <=> t[j] = Escape /\ ~Escaped(t, j)
    BY Zenon DEF Starts
  <1>6. new = UnstuffedTo(t)[j - 1] \o Taken(t, j)
    BY <1>1, UnstuffedToRecursion, Zenon
  <1>7. new = old \o Taken(t, j)
    BY <1>1, <1>6, Zenon
  <1>8. Starts(t, j) => new = old
    <2>1. Starts(t, j) => new = old \o <<>>
      BY <1>7, Zenon DEF Taken
    <2> HIDE DEF old, new
    <2> QED BY <1>3, <2>1
  <1>9. Escaped(t, j) => new = old \o <<Flip(t[j])>>
    BY <1>5, <1>7, Zenon DEF Taken
  <1>10. ~Starts(t, j) /\ ~Escaped(t, j) => new = old \o <<t[j]>>
    BY <1>7, Zenon DEF Taken
  <1> QED BY <1>1, <1>2, <1>3, <1>4, <1>5, <1>8, <1>9, <1>10, Zenon DEF j

\* A frame that was stuffed is taken apart again, up to every byte of the
\* packet: no byte of it is taken for the start of an escape sequence that is
\* none, and none is left out.
LEMMA UnstuffsTo ==
  ASSUME NEW s \in Seq(Nat), NEW i \in 0 .. Len(s)
  PROVE  LET t == StuffedTo(s)[Len(s)]
             l == Len(StuffedTo(s)[i])
         IN /\ UnstuffedTo(t)[l] \in Seq(Nat) /\ Len(UnstuffedTo(t)[l]) = i
            /\ \A k \in 1 .. i : UnstuffedTo(t)[l][k] = s[k]
            /\ l > 0 => ~Starts(t, l)
  <1> DEFINE n == Len(s)
             t == StuffedTo(s)[n]
             L(j) == Len(StuffedTo(s)[j])
             U(l) == UnstuffedTo(t)[l]
             Good(j) == /\ Len(U(L(j))) = j
                        /\ \A k \in 1 .. j : U(L(j))[k] = s[k]
                        /\ L(j) > 0 => ~Starts(t, L(j))
             S == {j \in 0 .. n : Good(j)}
  <1>1. n \in Nat /\ n \in 0 .. n
    OBVIOUS
  <1>2. t \in Seq(Nat) /\ L(n) = Len(t) /\ Len(t) \in Nat
    BY <1>1, StuffedLength
  <1>3. U(0) = <<>> /\ \A l \in 0 .. Len(t) : U(l) \in Seq(Nat)
    BY <1>2, UnstuffedToRecursion, Zenon
  <1>5. ASSUME NEW j \in 0 .. n
        PROVE  L(j) \in 0 .. Len(t) /\ \A k \in 1 .. L(j) : t[k] = StuffedTo(s)[j][k]
    <2>1. StuffedTo(s)[j] \in Seq(Nat)
      BY <1>5, StuffedLength, Zenon
    <2>2. L(j) <= L(n) /\ \A k \in 1 .. L(j) : t[k] = StuffedTo(s)[j][k]
      BY <1>1, <1>5, StuffedPrefix, Zenon
    <2>3. L(j) \in Nat
      BY <2>1
    <2> HIDE DEF L, t
    <2>4. L(j) \in 0 .. Len(t)
      BY <1>2, <2>2, <2>3
    <2> QED BY <2>2, <2>4, Zenon
  <1>6. 0 \in S
    <2>1. StuffedTo(s)[0] = <<>>
      BY StuffedToRecursion, Zenon
    <2>2. L(0) = 0
      BY <2>1
    <2> HIDE DEF L, t, U
    <2>3. Len(U(0)) = 0
      BY <1>3
    <2>4. Good(0)
      BY <2>2, <2>3
    <2> QED BY <1>1, <2>4
  <1>7. ASSUME NEW j \in 1 .. n, j - 1 \in S PROVE j \in S
    <2> DEFINE a == L(j - 1)
               b == L(j)
               c == s[j]
    <2>0. j \in 0 .. n /\ j - 1 \in 0 .. n /\ Good(j - 1)
      <3>1. j \in 0 .. n /\ j - 1 \in 0 .. n
        BY <1>1
      <3>2. Good(j - 1)
        BY <1>7, Zenon
      <3> QED BY <3>1, <3>2, Zenon
    <2>1. j \in 0 .. n /\ j - 1 \in 0 .. n /\ Good(j - 1) /\ c \in Nat
      <3>1. c \in Nat
        BY <2>0
      <3> QED BY <2>0, <3>1, Zenon
    <2>2. /\ a \in 0 .. Len(t) /\ b \in 0 .. Len(t)
          /\ \A k \in 1 .. b : t[k] = StuffedTo(s)[j][k]
      BY <1>5, <2>1, Zenon
    <2>3. /\ Special(c) => /\ b = a + 2
                           /\ StuffedTo(s)[j][a + 1] = Escape
                           /\ StuffedTo(s)[j][a + 2] = Flip(c)
          /\ ~Special(c) => b = a + 1 /\ StuffedTo(s)[j][a + 1] = c
      BY StuffedStep, Zenon
    <2>9. ASSUME NEW l \in Nat, l < Len(t)
          PROVE  /\ Escaped(t, l + 1) <=> l > 0 /\ Starts(t, l)
                 /\ Starts(t, l + 1) <=> t[l + 1] = Escape /\ ~Escaped(t, l + 1)
                 /\ Starts(t, l + 1) => U(l + 1) = U(l)
                 /\ Escaped(t, l + 1) => U(l + 1) = U(l) \o <<Flip(t[l + 1])>>
                 /\ ~Starts(t, l + 1) /\ ~Escaped(t, l + 1) =>
                      U(l + 1) = U(l) \o <<t[l + 1]>>
      BY <1>2, <2>9, UnstuffedStep, Zenon
    <2>10. a \in Nat /\ a + 1 \in Nat /\ a + 1 + 1 = a + 2 /\ a + 1 > 0
      BY <2>2
    <2> HIDE DEF a, b, t, L, U
    <2>4. /\ U(a) \in Seq(Nat) /\ Len(U(a)) = j - 1
          /\ \A k \in 1 .. j - 1 : U(a)[k] = s[k]
          /\ a > 0 => ~Starts(t, a)
      BY <1>3, <2>1, <2>2 DEF a
    <2>5. a < Len(t) /\ ~Escaped(t, a + 1)
      <3>1. a < Len(t)
        BY <1>2, <2>2, <2>3
      <3> QED BY <2>4, <2>9, <2>10, <3>1, Zenon
    <2>6. U(b) \in Seq(Nat) /\ U(b) = U(a) \o <<c>> /\ ~Starts(t, b)
      <3>0. U(b) \in Seq(Nat)
        BY <1>3, <2>2, Zenon
      <3>1. CASE Special(c)
        <4>1. b = a + 2 /\ t[a + 1] = Escape /\ t[a + 2] = Flip(c) /\ a + 1 < Len(t)
          BY <1>2, <2>2, <2>3, <3>1
        <4>2. Starts(t, a + 1) /\ U(a + 1) = U(a)
          BY <2>5, <2>9, <2>10, <4>1, Zenon
        <4>3. Escaped(t, a + 1 + 1)
          BY <2>9, <2>10, <4>1, <4>2, Zenon
        <4>4. ~Starts(t, a + 1 + 1) /\ U(a + 1 + 1) = U(a + 1) \o <<Flip(t[a + 1 + 1])>>
          BY <2>9, <2>10, <4>1, <4>3, Zenon
        <4>5. Flip(Flip(c)) = c
          BY <2>1, FlipTwice
        <4> QED BY <2>10, <3>0, <4>1, <4>2, <4>4, <4>5, Zenon
      <3>2. CASE ~Special(c)
        <4>1. b = a + 1 /\ t[a + 1] = c
          BY <1>2, <2>2, <2>3, <3>2
        <4>2. c # Escape
          BY <3>2 DEF Special
        <4>3. ~Starts(t, a + 1)
          BY <4>1, <4>2, Zenon DEF Starts
        <4>4. U(a + 1) = U(a) \o <<t[a + 1]>>
          BY <2>5, <2>9, <2>10, <4>3, Zenon
        <4> QED BY <3>0, <4>1, <4>3, <4>4, Zenon
      <3> QED BY <3>1, <3>2
    <2>7. Len(U(b)) = j /\ \A k \in 1 .. j : U(b)[k] = s[k]
      <3> DEFINE x == U(a)
                 y == U(b)
      <3>1. x \in Seq(Nat) /\ Len(x) = j - 1 /\ y = x \o <<c>>
            /\ \A k \in 1 .. j - 1 : x[k] = s[k]
        BY <2>4, <2>6, Zenon
      <3> HIDE DEF x, y
      <3>2. /\ Len(y) = Len(x) + 1 /\ y[Len(x) + 1] = c
            /\ \A k \in 1 .. Len(x) : y[k] = x[k]
        BY <2>1, <3>1, PutOne
      <3>3. Len(y) = j
        BY <3>1, <3>2
      <3>4. ASSUME NEW k \in 1 .. j PROVE y[k] = s[k]
        <4>1. CASE k = j
          BY <3>1, <3>2, <4>1
        <4>2. CASE k # j
          <5>1. k \in 1 .. j - 1 /\ k \in 1 .. Len(x)
            BY <3>1, <4>2
          <5> QED BY <3>1, <3>2, <5>1, Zenon
        <4> QED BY <4>1, <4>2
      <3> QED BY <3>3, <3>4, Zenon DEF y
    <2>8. Good(j)
      BY <2>6, <2>7, Zenon DEF b
    <2> HIDE DEF Good
    <2> QED BY <2>1, <2>8
  <1>8. \A j \in 0 .. n : j \in S
    <2> HIDE DEF S, n
    <2> QED BY <1>1, <1>6, <1>7, UpTo
  <1>9. Good(i)
    <2> HIDE DEF Good
    <2> QED BY <1>8
  <1>10. U(L(i)) \in Seq(Nat)
    BY <1>3, <1>5, Zenon
  <1> QED BY <1>9, <1>10, Zenon

\* hdlc_frame_unstuff returns the packet that hdlc_frame_stuff was given.
LEMMA UnstuffStuffed ==
  ASSUME NEW s \in Seq(Nat)
  PROVE  Unstuffed(Stuffed(s)) = s /\ ~Malformed(Stuffed(s))
  <1> DEFINE t == StuffedTo(s)[Len(s)]
             r == UnstuffedTo(t)[Len(t)]
  <1>1. Len(s) \in 0 .. Len(s) /\ Len(s) \in Nat
    OBVIOUS
  <1>2. /\ Truncated(Stuffed(s)) = t /\ t \in Seq(Nat)
        /\ \A k \in 1 .. Len(t) : t[k] # Boundary
    BY StuffedType, Zenon
  <1>3. /\ r \in Seq(Nat) /\ Len(r) = Len(s)
        /\ \A k \in 1 .. Len(s) : r[k] = s[k]
        /\ Len(t) > 0 => ~Starts(t, Len(t))
    BY <1>1, UnstuffsTo, Zenon
  <1>4. Unstuffed(Stuffed(s)) = r
    BY <1>2, Zenon DEF Unstuffed
  <1> HIDE DEF r, t
  <1>5. r = s
    BY <1>3
  <1>6. t # <<>> => Len(t) > 0
    BY <1>2
  <1>7. ~Malformed(Stuffed(s))
    BY <1>2, <1>3, <1>6, Zenon DEF Malformed
  <1> QED BY <1>4, <1>5, <1>7

-----------------------------------------------------------------------------
(* HdlcLoops: the loops compute them                                       *)

\* The first rd bytes are counted.
Counting ==
  /\ origin = given /\ len = Len(given) /\ Len(bytes) = 2 * len + 1
  /\ rd \in 0 .. len
  /\ out_len = Len(StuffedTo(given)[rd])
  /\ \A k \in 1 .. len : bytes[k] = given[k]

\* The bytes up to rd are to be read, and those from wr on are the frame's;
\* wr is where the frame of the bytes to be read will end.
Stuffing ==
  /\ origin = given /\ len = Len(given) /\ Len(bytes) = 2 * len + 1
  /\ rd \in -1 .. len - 1
  /\ out_len = Len(StuffedTo(given)[len]) + 1
  /\ wr = Len(StuffedTo(given)[rd + 1])
  /\ \A k \in 1 .. rd + 1 : bytes[k] = given[k]
  /\ \A k \in wr + 1 .. out_len - 1 : bytes[k] = StuffedTo(given)[len][k]
  /\ bytes[out_len] = Boundary

\* What is unstuffed is a frame that was stuffed, or anything.
Known == origin = <<>> \/ given = Stuffed(origin)

\* The bytes up to wr are what those before rd stand for, and those from rd on
\* are still as given; no escape sequence is open at rd.
Unstuffing ==
  LET t == Truncated(given)
  IN /\ len = Len(t) /\ len <= Len(bytes)
     /\ rd \in 0 .. len
     /\ wr = Len(UnstuffedTo(t)[rd]) /\ wr <= rd
     /\ \A k \in 1 .. wr : bytes[k] = UnstuffedTo(t)[rd][k]
     /\ \A k \in rd + 1 .. len : bytes[k] = t[k]
     /\ \A k \in 1 .. rd : t[k] = Boundary => Escaped(t, k)
     /\ rd > 0 => ~Starts(t, rd)

HdlcIInv ==
  /\ HdlcTypeOK
  /\ loop = "idle" => wr = 0 /\ out_len = 0
  /\ loop = "count" => Counting
  /\ loop = "stuff" => Stuffing
  /\ loop = "stuffed" => origin = given /\ SubSeq(bytes, 1, out_len) = Stuffed(given)
  /\ loop \in {"unstuff", "unstuffed", "bad frame"} => Known
  /\ loop = "unstuff" => Unstuffing
  /\ loop = "unstuffed" => ~Malformed(given) /\ SubSeq(bytes, 1, wr) = Unstuffed(given)
  /\ loop = "bad frame" => Malformed(given)

LEMMA SetByte ==
  ASSUME NEW s \in Seq(Nat), NEW i \in 0 .. Len(s) - 1, NEW byte \in Nat
  PROVE  /\ Set(s, i, byte) \in Seq(Nat) /\ Len(Set(s, i, byte)) = Len(s)
         /\ Set(s, i, byte)[i + 1] = byte
         /\ \A k \in 1 .. Len(s) : k # i + 1 => Set(s, i, byte)[k] = s[k]
  BY DEF Set

LEMMA FirstBytes ==
  ASSUME NEW s \in Seq(Nat), NEW n \in 0 .. Len(s)
  PROVE  /\ SubSeq(s, 1, n) \in Seq(Nat) /\ Len(SubSeq(s, 1, n)) = n
         /\ \A k \in 1 .. n : SubSeq(s, 1, n)[k] = s[k]
  <1>1. n \in Nat /\ n <= Len(s) /\ \A k \in 1 .. n : s[k] \in Nat
    OBVIOUS
  <1>2. SubSeq(s, 1, n) = [k \in 1 .. n |-> s[k]]
    BY <1>1
  <1> QED BY <1>1, <1>2

LEMMA Joined ==
  ASSUME NEW s \in Seq(Nat), NEW t \in Seq(Nat)
  PROVE  /\ s \o t \in Seq(Nat) /\ Len(s \o t) = Len(s) + Len(t)
         /\ \A k \in 1 .. Len(s) : (s \o t)[k] = s[k]
  OBVIOUS

LEMMA PacketType ==
  ASSUME NEW s \in Packets
  PROVE  s \in Seq(Nat)
  <1>1. PICK n \in 0 .. MaxBytes : s \in [1 .. n -> Bytes]
    BY DEF Packets
  <1>2. n \in Nat /\ Bytes \subseteq Nat
    BY BytesAssumption
  <1>3. s \in [1 .. n -> Nat]
    BY <1>1, <1>2
  <1> QED BY <1>2, <1>3

LEMMA TruncatedType ==
  ASSUME NEW s \in Seq(Nat)
  PROVE  /\ Truncated(s) \in Seq(Nat)
         /\ Len(Truncated(s)) = IF Len(s) > 0 /\ s[Len(s)] = Boundary
                                THEN Len(s) - 1 ELSE Len(s)
         /\ \A k \in 1 .. Len(Truncated(s)) : Truncated(s)[k] = s[k]
  <1>1. CASE s # <<>> /\ s[Len(s)] = Boundary
    <2>1. Len(s) - 1 \in Nat /\ Truncated(s) = SubSeq(s, 1, Len(s) - 1)
      BY <1>1 DEF Truncated
    <2>2. Len(s) - 1 \in 0 .. Len(s) /\ Len(s) > 0
      BY <1>1
    <2>3. /\ Truncated(s) \in Seq(Nat) /\ Len(Truncated(s)) = Len(s) - 1
          /\ \A k \in 1 .. Len(s) - 1 : Truncated(s)[k] = s[k]
      BY <2>1, <2>2, FirstBytes, Zenon
    <2> QED BY <1>1, <2>2, <2>3, Zenon
  <1>2. CASE ~(s # <<>> /\ s[Len(s)] = Boundary)
    <2>1. Truncated(s) = s
      BY <1>2 DEF Truncated
    <2>2. ~(Len(s) > 0 /\ s[Len(s)] = Boundary)
      BY <1>2
    <2> QED BY <2>1, <2>2
  <1> QED BY <1>1, <1>2

LEMMA CallStuff ==
  ASSUME HdlcIInv, NEW s \in Packets, call_stuff(s)
  PROVE  HdlcIInv'
  <1> DEFINE zeros == [i \in 1 .. Len(s) + 1 |-> 0]
  <1>1. s \in Seq(Nat) /\ Len(s) \in Nat
    BY PacketType
  <1>2. zeros \in Seq(Nat) /\ Len(zeros) = Len(s) + 1
    BY <1>1
  <1>3. /\ loop' = "count" /\ origin' = s /\ given' = s /\ len' = Len(s)
        /\ bytes' = s \o zeros /\ rd' = 0 /\ out_len' = 0 /\ wr' = 0
    BY DEF HdlcIInv, call_stuff
  <1> HIDE DEF zeros
  <1>4. /\ bytes' \in Seq(Nat) /\ Len(bytes') = 2 * Len(s) + 1
        /\ \A k \in 1 .. Len(s) : bytes'[k] = s[k]
    <2>1. /\ bytes' \in Seq(Nat) /\ Len(bytes') = Len(s) + Len(zeros)
          /\ \A k \in 1 .. Len(s) : bytes'[k] = s[k]
      BY <1>1, <1>2, <1>3, Joined
    <2> QED BY <1>1, <1>2, <2>1
  <1>5. StuffedTo(s)[0] = <<>>
    BY <1>1, StuffedToRecursion, Zenon
  <1>6. HdlcTypeOK'
    BY <1>1, <1>3, <1>4 DEF HdlcTypeOK
  <1>7. Len(StuffedTo(given')[rd']) = 0
    BY <1>3, <1>5
  <1>8. Counting'
    BY <1>1, <1>3, <1>4, <1>7 DEF Counting
  <1> QED BY <1>3, <1>6, <1>8, Zenon DEF HdlcIInv

LEMMA StuffCount ==
  ASSUME HdlcIInv, stuff_count
  PROVE  HdlcIInv'
  <1>1. /\ loop = "count" /\ rd < len /\ rd' = rd + 1
        /\ out_len' = out_len + IF Special(bytes[rd + 1]) THEN 2 ELSE 1
        /\ UNCHANGED <<loop, origin, given, bytes, wr, len>>
    BY DEF stuff_count
  <1>2. Counting /\ HdlcTypeOK
    BY <1>1 DEF HdlcIInv
  <1>3. /\ given \in Seq(Nat) /\ bytes \in Seq(Nat)
        /\ rd \in Nat /\ rd + 1 \in 1 .. Len(given) /\ rd + 1 \in 0 .. Len(given)
        /\ bytes[rd + 1] = given[rd + 1] /\ len \in Nat /\ len = Len(given)
    <2>1. given \in Seq(Nat) /\ bytes \in Seq(Nat)
      BY <1>2, Zenon DEF HdlcTypeOK
    <2>2. /\ len = Len(given) /\ rd \in 0 .. len
          /\ \A k \in 1 .. len : bytes[k] = given[k]
      BY <1>2, Zenon DEF Counting
    <2>3. Len(given) \in Nat
      BY <2>1
    <2>4. /\ rd \in Nat /\ rd + 1 \in 1 .. len /\ rd + 1 \in 0 .. len /\ len \in Nat
      BY <1>1, <2>2, <2>3
    <2> QED BY <2>1, <2>2, <2>4, Zenon
  <1>4. out_len' = Len(StuffedTo(given)[rd + 1])
    <2> DEFINE a == Len(StuffedTo(given)[rd])
               b == Len(StuffedTo(given)[rd + 1])
               j == rd + 1
    <2>1. j - 1 = rd /\ j \in 1 .. Len(given)
      BY <1>3
    <2>2. /\ Special(given[j]) => Len(StuffedTo(given)[j]) = Len(StuffedTo(given)[j - 1]) + 2
          /\ ~Special(given[j]) => Len(StuffedTo(given)[j]) = Len(StuffedTo(given)[j - 1]) + 1
      <3> HIDE DEF j
      <3> QED BY <1>3, <2>1, StuffedStep, Zenon
    <2>3. /\ Special(given[j]) => b = a + 2
          /\ ~Special(given[j]) => b = a + 1
      BY <2>1, <2>2
    <2>4. out_len = a
      BY <1>2 DEF Counting
    <2> HIDE DEF a, b
    <2> QED BY <1>1, <1>3, <2>3, <2>4 DEF b
  <1>5. Len(StuffedTo(given)[rd + 1]) \in (rd + 1) .. (2 * (rd + 1))
    BY <1>3, StuffedLength, Zenon
  <1>6. HdlcTypeOK'
    <2> DEFINE b == Len(StuffedTo(given)[rd + 1])
    <2>1. out_len' = b /\ b \in (rd + 1) .. (2 * (rd + 1))
      BY <1>4, <1>5
    <2> HIDE DEF b
    <2>2. Len(bytes) = 2 * len + 1
      BY <1>2 DEF Counting
    <2>3. out_len' \in 0 .. Len(bytes) /\ rd' \in -1 .. Len(bytes)
      <3>1. rd \in Nat /\ len \in Nat /\ rd + 1 <= len /\ rd' = rd + 1
        BY <1>1, <1>3
      <3> QED BY <2>1, <2>2, <3>1
    <2> QED BY <1>1, <1>2, <2>3 DEF HdlcTypeOK
  <1>7. Counting'
    BY <1>1, <1>2, <1>3, <1>4 DEF Counting
  <1> QED BY <1>1, <1>6, <1>7, Zenon DEF HdlcIInv

LEMMA StuffBoundary ==
  ASSUME HdlcIInv, stuff_boundary
  PROVE  HdlcIInv'
  <1>1. /\ loop = "count" /\ rd = len /\ loop' = "stuff"
        /\ out_len' = out_len + 1 /\ wr' = out_len' - 1
        /\ bytes' = Set(bytes, wr', Boundary) /\ rd' = len - 1
        /\ UNCHANGED <<origin, given, len>>
    BY DEF stuff_boundary
  <1>2. Counting /\ HdlcTypeOK
    BY <1>1 DEF HdlcIInv
  <1> DEFINE all == Len(StuffedTo(given)[Len(given)])
  <1>3. /\ given \in Seq(Nat) /\ bytes \in Seq(Nat) /\ len \in Nat /\ len = Len(given)
        /\ Len(given) \in 0 .. Len(given)
        /\ out_len = all /\ Boundary \in Nat /\ Len(bytes) = 2 * len + 1
        /\ \A k \in 1 .. len : bytes[k] = given[k]
    BY <1>1, <1>2, HdlcAssumption DEF Counting, HdlcTypeOK
  <1>4. all \in len .. (2 * len)
    BY <1>3, StuffedLength, Zenon
  <1> HIDE DEF all
  <1>5. wr' = all /\ out_len' = all + 1 /\ all \in 0 .. Len(bytes) - 1
    BY <1>1, <1>3, <1>4
  <1>6. /\ bytes' \in Seq(Nat) /\ Len(bytes') = Len(bytes)
        /\ bytes'[all + 1] = Boundary
        /\ \A k \in 1 .. Len(bytes) : k # all + 1 => bytes'[k] = bytes[k]
    <2>1. bytes' = Set(bytes, all, Boundary)
      BY <1>1, <1>5
    <2> QED BY <1>3, <1>5, <2>1, SetByte
  <1>7. HdlcTypeOK'
    <2>1. /\ wr' \in 0 .. Len(bytes) /\ out_len' \in 0 .. Len(bytes)
          /\ rd' \in -1 .. Len(bytes)
      BY <1>1, <1>3, <1>5
    <2> QED BY <1>1, <1>2, <1>6, <2>1 DEF HdlcTypeOK
  <1>8. Stuffing'
    <2>1. origin' = given' /\ len' = Len(given') /\ Len(bytes') = 2 * len' + 1
      BY <1>1, <1>2, <1>3, <1>6 DEF Counting
    <2>2. rd' \in -1 .. len' - 1 /\ rd' + 1 = Len(given)
      BY <1>1, <1>3
    <2>3. wr' = Len(StuffedTo(given')[rd' + 1]) /\ out_len' = Len(StuffedTo(given')[len']) + 1
      BY <1>1, <1>3, <1>5, <2>2 DEF all
    <2>4. \A k \in 1 .. rd' + 1 : bytes'[k] = given'[k]
      BY <1>1, <1>3, <1>4, <1>6, <2>2
    <2>5. \A k \in wr' + 1 .. out_len' - 1 : bytes'[k] = StuffedTo(given')[len'][k]
      BY <1>4, <1>5
    <2>6. bytes'[out_len'] = Boundary
      BY <1>5, <1>6
    <2> QED BY <2>1, <2>2, <2>3, <2>4, <2>5, <2>6 DEF Stuffing
  <1> QED BY <1>1, <1>7, <1>8, Zenon DEF HdlcIInv

\* The byte that is read is still there, and what it becomes is put at its
\* place in the frame.
LEMMA StuffByte ==
  ASSUME HdlcIInv, stuff_byte
  PROVE  HdlcIInv'
  <1> DEFINE c == bytes[rd + 1]
             n == Len(given)
             all == StuffedTo(given)[n]
             new == StuffedTo(given)[rd + 1]
             old == StuffedTo(given)[rd]
             a == Len(old)
             b == Len(new)
             m == Len(all)
  <1>1. /\ loop = "stuff" /\ rd >= 0 /\ rd' = rd - 1
        /\ \/ /\ Special(c)
              /\ bytes' = Set(Set(bytes, wr - 1, Flip(c)), wr - 2, Escape)
              /\ wr' = wr - 2
           \/ /\ ~Special(c)
              /\ bytes' = Set(bytes, wr - 1, c)
              /\ wr' = wr - 1
        /\ UNCHANGED <<loop, origin, given, len, out_len>>
    BY DEF stuff_byte
  <1>2. Stuffing /\ HdlcTypeOK
    BY <1>1 DEF HdlcIInv
  <1>3. /\ given \in Seq(Nat) /\ bytes \in Seq(Nat) /\ n \in Nat /\ len = n
        /\ rd \in Nat /\ rd + 1 \in 1 .. n /\ rd + 1 \in 0 .. n /\ rd \in 0 .. n
        /\ n \in 0 .. n /\ rd + 1 - 1 = rd
        /\ out_len = m + 1 /\ wr = b /\ Len(bytes) = 2 * n + 1
    <2>1. given \in Seq(Nat) /\ bytes \in Seq(Nat)
      BY <1>2, Zenon DEF HdlcTypeOK
    <2>2. out_len = m + 1 /\ wr = b /\ len = n /\ Len(bytes) = 2 * n + 1
      BY <1>2, Zenon DEF Stuffing
    <2>3. n \in Nat /\ rd \in -1 .. n - 1
      BY <1>2, <2>1 DEF Stuffing
    <2> HIDE DEF n, m, b, all, new
    <2>4. /\ rd \in Nat /\ rd + 1 \in 1 .. n /\ rd + 1 \in 0 .. n /\ rd \in 0 .. n
          /\ n \in 0 .. n /\ rd + 1 - 1 = rd
      BY <1>1, <2>3
    <2> QED BY <2>1, <2>2, <2>3, <2>4, Zenon
  <1>4. /\ \A k \in 1 .. rd + 1 : bytes[k] = given[k]
        /\ \A k \in b + 1 .. m : bytes[k] = all[k]
        /\ bytes[m + 1] = Boundary
    BY <1>2, <1>3 DEF Stuffing
  <1>5. c = given[rd + 1] /\ c \in Nat /\ Flip(c) \in Nat /\ Escape \in Nat
    <2>1. c = given[rd + 1]
      <3>1. rd + 1 \in 1 .. rd + 1
        BY <1>3
      <3> QED BY <1>4, <3>1, Zenon
    <2>3. given[rd + 1] \in Nat
      BY <1>3
    <2>4. Escape \in Nat
      BY HdlcAssumption
    <2> HIDE DEF c
    <2> QED BY <2>1, <2>3, <2>4, FlipTwice, Zenon
  <1>6. /\ Special(c) => b = a + 2 /\ new[a + 1] = Escape /\ new[a + 2] = Flip(c)
        /\ ~Special(c) => b = a + 1 /\ new[a + 1] = c
    <2> DEFINE j == rd + 1
    <2> HIDE DEF j
    <2>1. j \in 1 .. Len(given) /\ j - 1 = rd /\ j = rd + 1
      BY <1>3 DEF j
    <2>2. /\ Special(given[j]) => /\ Len(StuffedTo(given)[j]) = Len(StuffedTo(given)[j - 1]) + 2
                                  /\ StuffedTo(given)[j][Len(StuffedTo(given)[j - 1]) + 1] = Escape
                                  /\ StuffedTo(given)[j][Len(StuffedTo(given)[j - 1]) + 2] = Flip(given[j])
          /\ ~Special(given[j]) => /\ Len(StuffedTo(given)[j]) = Len(StuffedTo(given)[j - 1]) + 1
                                   /\ StuffedTo(given)[j][Len(StuffedTo(given)[j - 1]) + 1] = given[j]
      BY <1>3, <2>1, StuffedStep, Zenon
    <2> QED BY <1>5, <2>1, <2>2, Zenon
  <1>7. b <= m /\ \A k \in 1 .. b : all[k] = new[k]
    BY <1>3, StuffedPrefix, Zenon
  <1>8. a \in rd .. (2 * rd) /\ m \in n .. (2 * n)
    BY <1>3, StuffedLength, Zenon
  <1> HIDE DEF c, n, all, new, old, a, b, m
  <1>9. a \in Nat /\ m \in Nat /\ m + 1 <= Len(bytes) /\ (b = a + 1 \/ b = a + 2) /\ rd <= a
    BY <1>3, <1>6, <1>8
  <1>10. /\ bytes' \in Seq(Nat) /\ Len(bytes') = Len(bytes) /\ wr' = a
         /\ \A k \in 1 .. Len(bytes) : k <= a \/ k > b => bytes'[k] = bytes[k]
         /\ \A k \in a + 1 .. b : bytes'[k] = new[k]
    <2>1. CASE Special(c)
      <3> DEFINE mid == Set(bytes, b - 1, Flip(c))
      <3>1. /\ b = a + 2 /\ b - 1 \in 0 .. Len(bytes) - 1 /\ b - 2 \in 0 .. Len(bytes) - 1
            /\ b - 1 + 1 = b /\ b - 2 + 1 = b - 1 /\ b - 1 = a + 1
        BY <1>6, <1>7, <1>9, <2>1
      <3>2. /\ mid \in Seq(Nat) /\ Len(mid) = Len(bytes) /\ mid[b - 1 + 1] = Flip(c)
            /\ \A k \in 1 .. Len(bytes) : k # b - 1 + 1 => mid[k] = bytes[k]
        <4>1. bytes \in Seq(Nat) /\ b - 1 \in 0 .. Len(bytes) - 1 /\ Flip(c) \in Nat
          BY <1>3, <1>5, <3>1, Zenon
        <4> QED BY <4>1, SetByte, Zenon
      <3>3. bytes' = Set(mid, b - 2, Escape) /\ wr' = b - 2
        BY <1>1, <1>3, <2>1
      <3> HIDE DEF mid
      <3>4. /\ bytes' \in Seq(Nat) /\ Len(bytes') = Len(mid) /\ bytes'[b - 2 + 1] = Escape
            /\ \A k \in 1 .. Len(mid) : k # b - 2 + 1 => bytes'[k] = mid[k]
        <4>1. b - 2 \in 0 .. Len(mid) - 1
          BY <3>1, <3>2
        <4>2. mid \in Seq(Nat)
          BY <3>2
        <4>3. /\ Set(mid, b - 2, Escape) \in Seq(Nat)
              /\ Len(Set(mid, b - 2, Escape)) = Len(mid)
              /\ Set(mid, b - 2, Escape)[b - 2 + 1] = Escape
              /\ \A k \in 1 .. Len(mid) :
                   k # b - 2 + 1 => Set(mid, b - 2, Escape)[k] = mid[k]
          BY <1>5, <4>1, <4>2, SetByte, Zenon
        <4> QED BY <3>3, <4>3, Zenon
      <3>5. bytes'[a + 1] = Escape /\ bytes'[a + 2] = Flip(c)
        <4>1. bytes'[a + 1] = Escape /\ mid[a + 2] = Flip(c)
          BY <3>1, <3>2, <3>4, Zenon
        <4>2. a + 2 \in 1 .. Len(mid) /\ a + 2 # b - 2 + 1
          BY <1>9, <3>1, <3>2
        <4> QED BY <3>4, <4>1, <4>2, Zenon
      <3>6. \A k \in a + 1 .. b : bytes'[k] = new[k]
        <4>1. \A k \in a + 1 .. b : k = a + 1 \/ k = a + 2
          BY <1>9, <3>1
        <4> QED BY <1>6, <2>1, <3>5, <4>1
      <3>7. \A k \in 1 .. Len(bytes) : k <= a \/ k > b => bytes'[k] = bytes[k]
        <4>1. ASSUME NEW k \in 1 .. Len(bytes), k <= a \/ k > b PROVE bytes'[k] = bytes[k]
          <5>1. k \in 1 .. Len(mid) /\ k # b - 1 + 1 /\ k # b - 2 + 1
            BY <1>9, <3>1, <3>2, <4>1
          <5> QED BY <3>2, <3>4, <5>1, Zenon
        <4> QED BY <4>1
      <3>8. wr' = a
        BY <1>9, <3>1, <3>3
      <3> QED BY <3>2, <3>4, <3>6, <3>7, <3>8
    <2>2. CASE ~Special(c)
      <3>1. /\ b = a + 1 /\ b - 1 \in 0 .. Len(bytes) - 1 /\ b - 1 + 1 = b
        BY <1>6, <1>7, <1>9, <2>2
      <3>2. bytes' = Set(bytes, b - 1, c) /\ wr' = b - 1
        BY <1>1, <1>3, <2>2
      <3>3. /\ bytes' \in Seq(Nat) /\ Len(bytes') = Len(bytes) /\ bytes'[b - 1 + 1] = c
            /\ \A k \in 1 .. Len(bytes) : k # b - 1 + 1 => bytes'[k] = bytes[k]
        <4>1. /\ Set(bytes, b - 1, c) \in Seq(Nat) /\ Len(Set(bytes, b - 1, c)) = Len(bytes)
              /\ Set(bytes, b - 1, c)[b - 1 + 1] = c
              /\ \A k \in 1 .. Len(bytes) :
                   k # b - 1 + 1 => Set(bytes, b - 1, c)[k] = bytes[k]
          <5>1. bytes \in Seq(Nat) /\ b - 1 \in 0 .. Len(bytes) - 1 /\ c \in Nat
            BY <1>3, <1>5, <3>1, Zenon
          <5> QED BY <5>1, SetByte, Zenon
        <4> QED BY <3>2, <4>1, Zenon
      <3>4. \A k \in a + 1 .. b : bytes'[k] = new[k]
        <4>1. \A k \in a + 1 .. b : k = a + 1
          BY <1>9, <3>1
        <4> QED BY <1>6, <2>2, <3>1, <3>3, <4>1
      <3>5. \A k \in 1 .. Len(bytes) : k <= a \/ k > b => bytes'[k] = bytes[k]
        BY <1>9, <3>1, <3>3
      <3>6. wr' = a
        BY <1>9, <3>1, <3>2
      <3> QED BY <3>3, <3>4, <3>5, <3>6
    <2> QED BY <2>1, <2>2
  <1>11. HdlcTypeOK'
    <2>1. wr' \in 0 .. Len(bytes) /\ rd' \in -1 .. Len(bytes)
      BY <1>1, <1>3, <1>7, <1>9, <1>10
    <2> QED BY <1>1, <1>2, <1>10, <2>1 DEF HdlcTypeOK
  <1>12. Stuffing'
    <2>1. origin' = given' /\ len' = Len(given') /\ Len(bytes') = 2 * len' + 1
      BY <1>1, <1>2, <1>10 DEF Stuffing
    <2>2. rd' \in -1 .. len' - 1 /\ rd' + 1 = rd
      BY <1>1, <1>3
    <2>3. out_len' = Len(StuffedTo(given')[len']) + 1
      BY <1>1, <1>2 DEF Stuffing
    <2>4. wr' = Len(StuffedTo(given')[rd' + 1])
      BY <1>1, <1>10, <2>2 DEF a, old
    <2>5. \A k \in 1 .. rd' + 1 : bytes'[k] = given'[k]
      <3>1. ASSUME NEW k \in 1 .. rd PROVE bytes'[k] = given[k]
        <4>1. k \in 1 .. rd + 1 /\ k \in 1 .. Len(bytes) /\ k <= a
          BY <1>3, <1>9
        <4> QED BY <1>4, <1>10, <4>1, Zenon
      <3> QED BY <1>1, <2>2, <3>1
    <2>6. \A k \in wr' + 1 .. out_len' - 1 : bytes'[k] = StuffedTo(given')[len'][k]
      <3>1. ASSUME NEW k \in a + 1 .. m PROVE bytes'[k] = all[k]
        <4>1. CASE k <= b
          <5>1. k \in a + 1 .. b /\ k \in 1 .. b
            BY <1>9, <4>1
          <5> QED BY <1>7, <1>10, <5>1, Zenon
        <4>2. CASE k > b
          <5>1. k \in b + 1 .. m /\ k \in 1 .. Len(bytes)
            BY <1>9, <4>2
          <5> QED BY <1>4, <1>10, <4>2, <5>1, Zenon
        <4> QED BY <1>9, <4>1, <4>2
      <3>2. out_len' - 1 = m /\ StuffedTo(given')[len'] = all
        BY <1>1, <1>3, <1>9 DEF all, n
      <3> QED BY <1>10, <3>1, <3>2
    <2>7. bytes'[out_len'] = Boundary
      <3>1. m + 1 \in 1 .. Len(bytes) /\ m + 1 > b
        BY <1>7, <1>9
      <3> QED BY <1>1, <1>3, <1>4, <1>10, <3>1
    <2> QED BY <2>1, <2>2, <2>3, <2>4, <2>5, <2>6, <2>7 DEF Stuffing
  <1> QED BY <1>1, <1>11, <1>12, Zenon DEF HdlcIInv

LEMMA StuffReturn ==
  ASSUME HdlcIInv, stuff_return
  PROVE  HdlcIInv'
  <1> DEFINE all == StuffedTo(given)[Len(given)]
             m == Len(all)
  <1>1. /\ loop = "stuff" /\ rd < 0 /\ loop' = "stuffed"
        /\ UNCHANGED <<origin, given, bytes, rd, wr, len, out_len>>
    BY DEF stuff_return
  <1>2. Stuffing /\ HdlcTypeOK
    BY <1>1 DEF HdlcIInv
  <1>3. /\ given \in Seq(Nat) /\ bytes \in Seq(Nat) /\ len = Len(given)
        /\ rd + 1 = 0 /\ out_len = m + 1 /\ wr = Len(StuffedTo(given)[rd + 1])
        /\ origin = given /\ out_len \in 0 .. Len(bytes)
    BY <1>1, <1>2 DEF Stuffing, HdlcTypeOK
  <1>4. wr = 0
    <2>1. StuffedTo(given)[0] = <<>>
      BY <1>3, StuffedToRecursion, Zenon
    <2> QED BY <1>3, <2>1
  <1>5. /\ Stuffed(given) \in Seq(Nat) /\ Len(Stuffed(given)) = m + 1
        /\ Stuffed(given)[m + 1] = Boundary
        /\ \A k \in 1 .. m : Stuffed(given)[k] = all[k]
        /\ all \in Seq(Nat)
    BY <1>3, StuffedType, Zenon
  <1>6. m \in Nat
    BY <1>5
  <1>7. (\A k \in 1 .. m : bytes[k] = all[k]) /\ bytes[m + 1] = Boundary
    <2> HIDE DEF m
    <2>1. wr + 1 = 1 /\ out_len - 1 = m
      BY <1>3, <1>4, <1>6
    <2>2. \A k \in wr + 1 .. out_len - 1 : bytes[k] = all[k]
      BY <1>2, <1>3, Zenon DEF Stuffing
    <2> QED BY <1>2, <1>3, <2>1, <2>2 DEF Stuffing
  <1> HIDE DEF all, m
  <1>8. SubSeq(bytes, 1, out_len) = Stuffed(given)
    <2> DEFINE x == SubSeq(bytes, 1, out_len)
               y == Stuffed(given)
    <2>1. x \in Seq(Nat) /\ Len(x) = out_len /\ \A k \in 1 .. out_len : x[k] = bytes[k]
      BY <1>3, FirstBytes, Zenon
    <2>2. \A k \in 1 .. m + 1 : bytes[k] = y[k]
      <3>1. \A k \in 1 .. m + 1 : k \in 1 .. m \/ k = m + 1
        BY <1>6
      <3> QED BY <1>5, <1>7, <3>1, Zenon
    <2>3. y \in Seq(Nat) /\ Len(y) = m + 1
      BY <1>5, Zenon
    <2> HIDE DEF x, y
    <2>4. \A k \in 1 .. Len(y) : x[k] = y[k]
      BY <1>3, <2>1, <2>2, <2>3, Zenon
    <2>5. x = y
      BY <1>3, <2>1, <2>3, <2>4
    <2> QED BY <2>5 DEF x, y
  <1>9. HdlcTypeOK'
    BY <1>1, <1>2 DEF HdlcTypeOK
  <1>10. (origin = given /\ SubSeq(bytes, 1, out_len) = Stuffed(given))'
    BY <1>1, <1>3, <1>8
  <1> QED BY <1>1, <1>9, <1>10, Zenon DEF HdlcIInv

LEMMA EnterUnstuff ==
  ASSUME HdlcIInv, NEW s \in Seq(Nat), NEW size \in 0 .. Len(s), enter_unstuff(s, size),
         out_len <= Len(s), origin' \in Seq(Nat), Known'
  PROVE  HdlcIInv'
  <1> DEFINE t == Truncated(SubSeq(s, 1, size))
  <1>1. /\ loop' = "unstuff" /\ given' = SubSeq(s, 1, size) /\ bytes' = s
        /\ len' = IF size > 0 /\ s[size] = Boundary THEN size - 1 ELSE size
        /\ rd' = 0 /\ wr' = 0 /\ out_len' = out_len
    BY DEF enter_unstuff
  <1>2. /\ given' \in Seq(Nat) /\ Len(given') = size
        /\ \A k \in 1 .. size : given'[k] = s[k]
    BY <1>1, FirstBytes
  <1>3. /\ t \in Seq(Nat) /\ \A k \in 1 .. Len(t) : t[k] = given'[k]
        /\ Len(t) = IF Len(given') > 0 /\ given'[Len(given')] = Boundary
                    THEN Len(given') - 1 ELSE Len(given')
    BY <1>1, <1>2, TruncatedType
  <1>4. UnstuffedTo(t)[0] = <<>>
    BY <1>3, UnstuffedToRecursion, Zenon
  <1>5. Truncated(given') = t
    BY <1>1, Zenon
  <1> HIDE DEF t
  <1>6. size \in Nat /\ size <= Len(s) /\ (size > 0 => given'[size] = s[size])
    BY <1>2
  <1>7. len' = Len(t) /\ Len(t) \in Nat /\ Len(t) <= size
    BY <1>1, <1>2, <1>3, <1>6
  <1>8. out_len \in Nat
    <2>1. bytes \in Seq(Nat) /\ {wr, len, out_len} \subseteq 0 .. Len(bytes)
      BY Zenon DEF HdlcIInv, HdlcTypeOK
    <2>2. Len(bytes) \in Nat /\ out_len \in 0 .. Len(bytes)
      BY <2>1
    <2> QED BY <2>2
  <1>9. HdlcTypeOK'
    <2>1. /\ rd' \in -1 .. Len(bytes') /\ wr' \in 0 .. Len(bytes')
          /\ len' \in 0 .. Len(bytes') /\ out_len' \in 0 .. Len(bytes')
      BY <1>1, <1>6, <1>7, <1>8
    <2> QED BY <1>1, <1>2, <2>1 DEF HdlcTypeOK
  <1>10. Unstuffing'
    <2>1. len' = Len(t) /\ len' <= Len(bytes') /\ rd' \in 0 .. len'
      BY <1>1, <1>6, <1>7
    <2>2. wr' = Len(UnstuffedTo(t)[rd']) /\ wr' <= rd'
      BY <1>1, <1>4
    <2>3. \A k \in 1 .. wr' : bytes'[k] = UnstuffedTo(t)[rd'][k]
      BY <1>1
    <2>4. \A k \in rd' + 1 .. len' : bytes'[k] = t[k]
      <3>1. ASSUME NEW k \in 1 .. Len(t) PROVE s[k] = t[k]
        <4>1. k \in 1 .. size
          BY <1>6, <1>7
        <4> QED BY <1>2, <1>3, <4>1, Zenon
      <3>2. rd' + 1 = 1
        BY <1>1
      <3> QED BY <1>1, <1>7, <3>1, <3>2, Zenon
    <2>5. (\A k \in 1 .. rd' : t[k] = Boundary => Escaped(t, k)) /\ ~(rd' > 0)
      BY <1>1
    <2> QED BY <1>5, <2>1, <2>2, <2>3, <2>4, <2>5, Zenon DEF Unstuffing
  <1> QED BY <1>1, <1>9, <1>10, Zenon DEF HdlcIInv

LEMMA CallUnstuff ==
  ASSUME HdlcIInv, NEW s \in Packets, call_unstuff(s)
  PROVE  HdlcIInv'
  <1>1. s \in Seq(Nat) /\ Len(s) \in 0 .. Len(s) /\ Len(s) \in Nat
    BY PacketType
  <1>2. loop = "idle" /\ origin' = <<>> /\ enter_unstuff(s, Len(s))
    BY DEF call_unstuff
  <1>3. out_len <= Len(s)
    BY <1>1, <1>2 DEF HdlcIInv
  <1>4. origin' \in Seq(Nat) /\ Known'
    BY <1>2 DEF Known
  <1> QED BY <1>1, <1>2, <1>3, <1>4, EnterUnstuff

LEMMA Deliver ==
  ASSUME HdlcIInv, deliver
  PROVE  HdlcIInv'
  <1>1. loop = "stuffed" /\ enter_unstuff(bytes, out_len) /\ origin' = origin
    BY DEF deliver
  <1>2. /\ bytes \in Seq(Nat) /\ out_len \in 0 .. Len(bytes) /\ origin \in Seq(Nat)
        /\ origin = given /\ SubSeq(bytes, 1, out_len) = Stuffed(given)
    BY <1>1 DEF HdlcIInv, HdlcTypeOK
  <1>3. given' = Stuffed(origin')
    BY <1>1, <1>2 DEF enter_unstuff
  <1>4. Known' /\ origin' \in Seq(Nat) /\ out_len <= Len(bytes)
    BY <1>1, <1>2, <1>3 DEF Known
  <1> QED BY <1>1, <1>2, <1>4, EnterUnstuff

\* What the loop of hdlc_frame_unstuff knows of the frame when it goes on.
LEMMA UnstuffingFacts ==
  ASSUME HdlcIInv, loop = "unstuff"
  PROVE  LET t == Truncated(given)
             U == UnstuffedTo(t)
         IN /\ given \in Seq(Nat) /\ bytes \in Seq(Nat) /\ t \in Seq(Nat)
            /\ len = Len(t) /\ len \in Nat /\ len <= Len(bytes)
            /\ rd \in 0 .. len /\ rd \in Nat /\ wr = Len(U[rd]) /\ wr <= rd /\ wr \in Nat
            /\ U[rd] \in Seq(Nat)
            /\ rd < len => bytes[rd + 1] = t[rd + 1] /\ ~Escaped(t, rd + 1)
  <1> DEFINE t == Truncated(given)
             U == UnstuffedTo(t)
  <1>1. given \in Seq(Nat) /\ bytes \in Seq(Nat)
    BY Zenon DEF HdlcIInv, HdlcTypeOK
  <1>2. t \in Seq(Nat)
    BY <1>1, TruncatedType, Zenon
  <1>3. /\ len = Len(t) /\ len <= Len(bytes) /\ rd \in 0 .. len
        /\ wr = Len(U[rd]) /\ wr <= rd
        /\ \A k \in rd + 1 .. len : bytes[k] = t[k]
        /\ rd > 0 => ~Starts(t, rd)
    BY Zenon DEF HdlcIInv, Unstuffing
  <1>4. U[rd] \in Seq(Nat)
    BY <1>2, <1>3, UnstuffedToRecursion, Zenon
  <1> HIDE DEF t, U
  <1>5. len \in Nat /\ rd \in Nat /\ wr \in Nat
    BY <1>2, <1>3, <1>4
  <1>6. ASSUME rd < len PROVE bytes[rd + 1] = t[rd + 1] /\ ~Escaped(t, rd + 1)
    <2>1. rd + 1 \in rd + 1 .. len
      BY <1>5, <1>6
    <2>2. Escaped(t, rd + 1) <=> rd > 0 /\ Starts(t, rd)
      BY <1>2, <1>3, <1>5, <1>6, UnstuffedStep, Zenon
    <2> QED BY <1>3, <2>1, <2>2, Zenon
  <1> QED BY <1>1, <1>2, <1>3, <1>4, <1>5, <1>6, Zenon DEF t, U

\* One byte is written, not behind what is still to be read.
LEMMA Unstuffs ==
  ASSUME HdlcIInv, loop = "unstuff", NEW byte \in Nat, NEW next \in Nat,
         next \in 1 .. len, next > wr, ~Starts(Truncated(given), next),
         UnstuffedTo(Truncated(given))[next] = UnstuffedTo(Truncated(given))[rd] \o <<byte>>,
         \A k \in 1 .. next : Truncated(given)[k] = Boundary => Escaped(Truncated(given), k),
         next > rd,
         bytes' = Set(bytes, wr, byte), rd' = next, wr' = wr + 1,
         UNCHANGED <<loop, origin, given, len, out_len>>
  PROVE  HdlcIInv'
  <1> DEFINE t == Truncated(given)
             U == UnstuffedTo(t)
             x == U[rd]
             y == U[next]
  <1>1. /\ given \in Seq(Nat) /\ bytes \in Seq(Nat) /\ t \in Seq(Nat)
        /\ len = Len(t) /\ len \in Nat /\ len <= Len(bytes)
        /\ rd \in Nat /\ wr = Len(x) /\ wr <= rd /\ wr \in Nat /\ x \in Seq(Nat)
    BY UnstuffingFacts, Zenon
  <1>2. /\ \A k \in 1 .. wr : bytes[k] = x[k]
        /\ \A k \in rd + 1 .. len : bytes[k] = t[k]
        /\ Known /\ HdlcTypeOK
    BY Zenon DEF HdlcIInv, Unstuffing
  <1>5. y = x \o <<byte>> /\ ~Starts(t, next)
        /\ \A k \in 1 .. next : t[k] = Boundary => Escaped(t, k)
    BY Zenon
  <1> HIDE DEF x, y
  <1>6. /\ Len(y) = Len(x) + 1 /\ y[Len(x) + 1] = byte
        /\ \A k \in 1 .. Len(x) : y[k] = x[k]
    BY <1>1, <1>5, PutOne
  <1> HIDE DEF t, U
  <1>3. /\ wr \in 0 .. Len(bytes) - 1 /\ Len(bytes) \in Nat
        /\ len \in Nat /\ len <= Len(bytes) /\ wr \in Nat /\ wr = Len(x)
        /\ rd \in Nat /\ next \in Nat /\ next > wr /\ next > rd /\ next <= len
    <2>1. Len(bytes) \in Nat
      BY <1>1
    <2> QED BY <1>1, <2>1
  <1>4. /\ bytes' \in Seq(Nat) /\ Len(bytes') = Len(bytes) /\ bytes'[wr + 1] = byte
        /\ \A k \in 1 .. Len(bytes) : k # wr + 1 => bytes'[k] = bytes[k]
    <2>1. bytes \in Seq(Nat) /\ bytes' = Set(bytes, wr, byte)
      BY <1>1
    <2>2. /\ Set(bytes, wr, byte) \in Seq(Nat) /\ Len(Set(bytes, wr, byte)) = Len(bytes)
          /\ Set(bytes, wr, byte)[wr + 1] = byte
          /\ \A k \in 1 .. Len(bytes) : k # wr + 1 => Set(bytes, wr, byte)[k] = bytes[k]
      BY <1>3, <2>1, SetByte, Zenon
    <2> QED BY <2>1, <2>2, Zenon
  <1>7. HdlcTypeOK'
    <2>1. rd' \in -1 .. Len(bytes') /\ wr' \in 0 .. Len(bytes')
      <3>1. next \in -1 .. Len(bytes) /\ wr + 1 \in 0 .. Len(bytes)
        BY <1>3
      <3> QED BY <1>4, <3>1, Zenon
    <2>2. {len, out_len} \subseteq 0 .. Len(bytes')
      <3>1. {len, out_len} \subseteq 0 .. Len(bytes)
        BY <1>2 DEF HdlcTypeOK
      <3> QED BY <1>4, <3>1, Zenon
    <2>3. {wr', len', out_len'} \subseteq 0 .. Len(bytes')
      BY <2>1, <2>2
    <2>4. /\ loop' = loop /\ origin' = origin /\ given' = given
      OBVIOUS
    <2> QED BY <1>2, <1>4, <2>1, <2>3, <2>4, Zenon DEF HdlcTypeOK
  <1>8. Unstuffing'
    <2>1. len' = Len(t) /\ len' <= Len(bytes') /\ rd' \in 0 .. len'
      BY <1>1, <1>4
    <2>2. wr' = Len(y) /\ wr' <= rd'
      BY <1>1, <1>6
    <2>3. \A k \in 1 .. wr' : bytes'[k] = y[k]
      <3>1. ASSUME NEW k \in 1 .. wr + 1 PROVE bytes'[k] = y[k]
        <4>1. CASE k = wr + 1
          BY <1>1, <1>4, <1>6, <4>1
        <4>2. CASE k # wr + 1
          <5>1. k \in 1 .. wr /\ k \in 1 .. Len(x) /\ k \in 1 .. Len(bytes)
            BY <1>3, <4>2
          <5> QED BY <1>2, <1>4, <1>6, <4>2, <5>1, Zenon
        <4> QED BY <4>1, <4>2
      <3> QED BY <3>1
    <2>4. \A k \in rd' + 1 .. len' : bytes'[k] = t[k]
      <3>1. ASSUME NEW k \in next + 1 .. len PROVE bytes'[k] = t[k]
        <4>1. k \in rd + 1 .. len /\ k # wr + 1 /\ k \in 1 .. Len(bytes)
          BY <1>3
        <4> QED BY <1>2, <1>4, <4>1, Zenon
      <3> QED BY <3>1
    <2>5. Truncated(given') = t /\ UnstuffedTo(t)[rd'] = y
      BY DEF t, U, y
    <2>6. (\A k \in 1 .. rd' : t[k] = Boundary => Escaped(t, k)) /\ ~Starts(t, rd')
      BY <1>5
    <2> QED BY <2>1, <2>2, <2>3, <2>4, <2>5, <2>6, Zenon DEF Unstuffing
  <1>9. Known'
    BY <1>2 DEF Known
  <1>10. loop' = "unstuff"
    OBVIOUS
  <1> QED BY <1>7, <1>8, <1>9, <1>10, Zenon DEF HdlcIInv

\* An escape character and the byte behind it.
LEMMA UnstuffEscape ==
  ASSUME HdlcIInv, unstuff_escape
  PROVE  HdlcIInv'
  <1> DEFINE t == Truncated(given)
             U == UnstuffedTo(t)
             byte == Flip(bytes[rd + 2])
  <1>1. /\ loop = "unstuff" /\ rd + 1 < len /\ bytes[rd + 1] = Escape
        /\ bytes' = Set(bytes, wr, byte) /\ rd' = rd + 2 /\ wr' = wr + 1
        /\ UNCHANGED <<loop, origin, given, len, out_len>>
    BY DEF unstuff_escape
  <1>2. /\ t \in Seq(Nat) /\ len = Len(t) /\ len \in Nat /\ rd \in Nat
        /\ wr \in Nat /\ wr <= rd
        /\ rd < len => bytes[rd + 1] = t[rd + 1] /\ ~Escaped(t, rd + 1)
    BY <1>1, UnstuffingFacts, Zenon
  <1>3. /\ \A k \in rd + 1 .. len : bytes[k] = t[k]
        /\ \A k \in 1 .. rd : t[k] = Boundary => Escaped(t, k)
    BY <1>1, Zenon DEF HdlcIInv, Unstuffing
  <1>4. /\ rd < len /\ rd + 1 \in Nat /\ rd + 1 < Len(t) /\ rd < Len(t)
        /\ rd + 1 + 1 = rd + 2 /\ rd + 2 \in rd + 1 .. len /\ rd + 1 > 0
        /\ rd + 2 \in Nat /\ rd + 2 \in 1 .. len /\ rd + 2 > wr /\ rd + 2 > rd
        /\ \A k \in 1 .. rd + 2 : k \in 1 .. rd \/ k = rd + 1 \/ k = rd + 2
    <2> HIDE DEF t, byte
    <2> QED BY <1>1, <1>2
  <1>5. t[rd + 1] = Escape /\ ~Escaped(t, rd + 1) /\ bytes[rd + 2] = t[rd + 2]
    BY <1>1, <1>2, <1>3, <1>4, Zenon
  <1>6. Starts(t, rd + 1) /\ U[rd + 1] = U[rd]
    BY <1>2, <1>4, <1>5, UnstuffedStep, Zenon
  <1>7. /\ Escaped(t, rd + 1 + 1) /\ ~Starts(t, rd + 1 + 1)
        /\ U[rd + 1 + 1] = U[rd + 1] \o <<Flip(t[rd + 1 + 1])>>
        /\ Flip(t[rd + 1 + 1]) \in Nat
    BY <1>2, <1>4, <1>6, UnstuffedStep, Zenon
  <1>8. /\ Escaped(t, rd + 2) /\ ~Starts(t, rd + 2) /\ byte \in Nat
        /\ U[rd + 2] = U[rd] \o <<byte>>
    BY <1>4, <1>5, <1>6, <1>7, Zenon
  <1>9. \A k \in 1 .. rd + 2 : t[k] = Boundary => Escaped(t, k)
    BY <1>3, <1>4, <1>5, <1>8, HdlcAssumption, Zenon
  <1> HIDE DEF byte
  <1> QED BY <1>1, <1>4, <1>8, <1>9, Unstuffs, Zenon

\* A byte that stands for itself.
LEMMA UnstuffNormal ==
  ASSUME HdlcIInv, unstuff_normal
  PROVE  HdlcIInv'
  <1> DEFINE t == Truncated(given)
             U == UnstuffedTo(t)
             byte == bytes[rd + 1]
  <1>1. /\ loop = "unstuff" /\ rd < len /\ byte \notin {Boundary, Escape}
        /\ bytes' = Set(bytes, wr, byte) /\ rd' = rd + 1 /\ wr' = wr + 1
        /\ UNCHANGED <<loop, origin, given, len, out_len>>
    BY DEF unstuff_normal
  <1>2. /\ t \in Seq(Nat) /\ len = Len(t) /\ len \in Nat /\ rd \in Nat
        /\ wr \in Nat /\ wr <= rd
        /\ rd < len => bytes[rd + 1] = t[rd + 1] /\ ~Escaped(t, rd + 1)
    BY <1>1, UnstuffingFacts, Zenon
  <1>3. \A k \in 1 .. rd : t[k] = Boundary => Escaped(t, k)
    BY <1>1, Zenon DEF HdlcIInv, Unstuffing
  <1>4. byte = t[rd + 1] /\ ~Escaped(t, rd + 1) /\ byte # Boundary /\ byte # Escape
    BY <1>1, <1>2, Zenon
  <1>5. /\ rd < Len(t) /\ rd + 1 \in Nat /\ rd + 1 \in 1 .. len /\ rd + 1 > wr /\ rd + 1 > rd
        /\ \A k \in 1 .. rd + 1 : k \in 1 .. rd \/ k = rd + 1
    <2> HIDE DEF t, byte
    <2> QED BY <1>1, <1>2
  <1>6. /\ ~Starts(t, rd + 1) /\ byte \in Nat /\ U[rd + 1] = U[rd] \o <<byte>>
    BY <1>2, <1>4, <1>5, UnstuffedStep, Zenon
  <1>7. \A k \in 1 .. rd + 1 : t[k] = Boundary => Escaped(t, k)
    BY <1>3, <1>4, <1>5, Zenon
  <1> HIDE DEF byte
  <1> QED BY <1>1, <1>5, <1>6, <1>7, Unstuffs, Zenon

LEMMA UnstuffError ==
  ASSUME HdlcIInv, unstuff_error
  PROVE  HdlcIInv'
  <1> DEFINE t == Truncated(given)
  <1>1. /\ loop = "unstuff" /\ rd < len
        /\ bytes[rd + 1] = Boundary \/ (bytes[rd + 1] = Escape /\ rd + 1 = len)
        /\ loop' = "bad frame" /\ rd' = rd + 1
        /\ UNCHANGED <<origin, given, bytes, wr, len, out_len>>
    BY DEF unstuff_error
  <1>2. /\ t \in Seq(Nat) /\ len = Len(t) /\ len \in Nat /\ rd \in Nat
        /\ rd < len => bytes[rd + 1] = t[rd + 1] /\ ~Escaped(t, rd + 1)
        /\ bytes \in Seq(Nat) /\ len <= Len(bytes)
    BY <1>1, UnstuffingFacts, Zenon
  <1>3. t[rd + 1] = bytes[rd + 1] /\ ~Escaped(t, rd + 1)
    BY <1>1, <1>2, Zenon
  <1>4. rd + 1 \in 1 .. Len(t) /\ t # <<>> /\ rd + 1 \in -1 .. Len(bytes)
    <2> HIDE DEF t
    <2>1. rd < len /\ rd \in Nat /\ len \in Nat /\ len <= Len(bytes) /\ bytes \in Seq(Nat)
      BY <1>1, <1>2, Zenon
    <2>2. Len(bytes) \in Nat
      BY <2>1
    <2>3. rd + 1 \in 1 .. len /\ rd + 1 \in -1 .. Len(bytes) /\ len # 0
      BY <2>1, <2>2
    <2> QED BY <1>2, <2>3
  <1>5. Malformed(given)
    <2>1. CASE bytes[rd + 1] = Boundary
      BY <1>3, <1>4, <2>1, Zenon DEF Malformed
    <2>2. CASE bytes[rd + 1] = Escape /\ rd + 1 = len
      <3>1. Starts(t, Len(t))
        BY <1>2, <1>3, <2>2, Zenon DEF Starts
      <3> QED BY <1>4, <3>1, Zenon DEF Malformed
    <2> QED BY <1>1, <2>1, <2>2
  <1>6. HdlcTypeOK /\ Known
    BY <1>1, Zenon DEF HdlcIInv
  <1> HIDE DEF t
  <1>7. HdlcTypeOK'
    BY <1>1, <1>4, <1>6 DEF HdlcTypeOK
  <1>8. Known' /\ Malformed(given')
    BY <1>1, <1>5, <1>6, Zenon DEF Known
  <1> QED BY <1>1, <1>7, <1>8, Zenon DEF HdlcIInv

LEMMA UnstuffReturn ==
  ASSUME HdlcIInv, unstuff_return
  PROVE  HdlcIInv'
  <1> DEFINE t == Truncated(given)
             x == UnstuffedTo(t)[rd]
             y == SubSeq(bytes, 1, wr)
  <1>1. /\ loop = "unstuff" /\ rd = len /\ loop' = "unstuffed"
        /\ UNCHANGED <<origin, given, bytes, rd, wr, len, out_len>>
    BY DEF unstuff_return
  <1>2. /\ t \in Seq(Nat) /\ len = Len(t) /\ len \in Nat /\ rd \in Nat
        /\ wr \in Nat /\ wr <= rd /\ wr = Len(x) /\ x \in Seq(Nat)
        /\ bytes \in Seq(Nat) /\ len <= Len(bytes)
    BY <1>1, UnstuffingFacts, Zenon
  <1>3. /\ \A k \in 1 .. wr : bytes[k] = x[k]
        /\ \A k \in 1 .. rd : t[k] = Boundary => Escaped(t, k)
        /\ rd > 0 => ~Starts(t, rd)
        /\ HdlcTypeOK /\ Known
    BY <1>1, Zenon DEF HdlcIInv, Unstuffing
  <1>4. Unstuffed(given) = x
    BY <1>1, <1>2, Zenon DEF Unstuffed
  <1>5. ~Malformed(given)
    <2>1. t # <<>> => rd > 0
      <3> HIDE DEF t
      <3> QED BY <1>1, <1>2
    <2> QED BY <1>1, <1>2, <1>3, <2>1, Zenon DEF Malformed
  <1>6. y = x
    <2>1. wr \in 0 .. Len(bytes)
      <3> HIDE DEF t, x
      <3>1. Len(bytes) \in Nat
        BY <1>2
      <3> QED BY <1>1, <1>2, <3>1
    <2>2. y \in Seq(Nat) /\ Len(y) = wr /\ \A k \in 1 .. wr : y[k] = bytes[k]
      BY <1>2, <2>1, FirstBytes, Zenon
    <2>3. \A k \in 1 .. wr : y[k] = x[k]
      BY <1>3, <2>2, Zenon
    <2>4. /\ x \in Seq(Nat) /\ y \in Seq(Nat) /\ Len(x) = Len(y)
          /\ \A k \in 1 .. Len(y) : y[k] = x[k]
      BY <1>2, <2>2, <2>3, Zenon
    <2> HIDE DEF t, x, y
    <2> QED BY <2>4
  <1> HIDE DEF t, x
  <1>7. HdlcTypeOK'
    BY <1>1, <1>3 DEF HdlcTypeOK
  <1>8. Known' /\ ~Malformed(given') /\ SubSeq(bytes', 1, wr') = Unstuffed(given')
    BY <1>1, <1>3, <1>4, <1>5, <1>6, Zenon DEF Known
  <1> QED BY <1>1, <1>7, <1>8, Zenon DEF HdlcIInv

LEMMA HdlcReturn ==
  ASSUME HdlcIInv, hdlc_return
  PROVE  HdlcIInv'
  <1>1. /\ loop' = "idle" /\ origin' = <<>> /\ given' = <<>> /\ bytes' = <<>>
        /\ rd' = 0 /\ wr' = 0 /\ len' = 0 /\ out_len' = 0
    BY DEF hdlc_return
  <1>2. HdlcTypeOK'
    BY <1>1 DEF HdlcTypeOK
  <1> QED BY <1>1, <1>2, Zenon DEF HdlcIInv

LEMMA HdlcInvariant == HdlcSpec => []HdlcIInv
  <1>1. HdlcInit => HdlcIInv
    <2> SUFFICES ASSUME HdlcInit PROVE HdlcIInv
      OBVIOUS
    <2>1. HdlcTypeOK
      BY DEF HdlcInit, HdlcTypeOK
    <2>2. loop = "idle" /\ wr = 0 /\ out_len = 0
      BY DEF HdlcInit
    <2> QED BY <2>1, <2>2, Zenon DEF HdlcIInv
  <1>2. HdlcIInv /\ [HdlcNext]_hdlcVars => HdlcIInv'
    <2> SUFFICES ASSUME HdlcIInv, [HdlcNext]_hdlcVars PROVE HdlcIInv'
      OBVIOUS
    <2>1. CASE \E s \in Packets : call_stuff(s) \/ call_unstuff(s)
      BY <2>1, CallStuff, CallUnstuff, Zenon
    <2>2. CASE stuff_count
      BY <2>2, StuffCount, Zenon
    <2>3. CASE stuff_boundary
      BY <2>3, StuffBoundary, Zenon
    <2>4. CASE stuff_byte
      BY <2>4, StuffByte, Zenon
    <2>5. CASE stuff_return
      BY <2>5, StuffReturn, Zenon
    <2>6. CASE deliver
      BY <2>6, Deliver, Zenon
    <2>7. CASE unstuff_escape
      BY <2>7, UnstuffEscape, Zenon
    <2>8. CASE unstuff_normal
      BY <2>8, UnstuffNormal, Zenon
    <2>9. CASE unstuff_error
      BY <2>9, UnstuffError, Zenon
    <2>10. CASE unstuff_return
      BY <2>10, UnstuffReturn, Zenon
    <2>11. CASE hdlc_return
      BY <2>11, HdlcReturn, Zenon
    <2>12. CASE UNCHANGED hdlcVars
      <3>1. /\ loop' = loop /\ origin' = origin /\ given' = given /\ bytes' = bytes
            /\ rd' = rd /\ wr' = wr /\ len' = len /\ out_len' = out_len
        BY <2>12, Zenon DEF hdlcVars
      <3>2. HdlcTypeOK' = HdlcTypeOK /\ Known' = Known
        BY <3>1, Zenon DEF HdlcTypeOK, Known
      <3>3. Counting' = Counting /\ Stuffing' = Stuffing /\ Unstuffing' = Unstuffing
        BY <3>1, Zenon DEF Counting, Stuffing, Unstuffing
      <3> QED BY <3>1, <3>2, <3>3, Zenon DEF HdlcIInv
    <2> QED BY <2>1, <2>2, <2>3, <2>4, <2>5, <2>6, <2>7, <2>8, <2>9, <2>10, <2>11,
               <2>12, Zenon DEF HdlcNext
  <1> QED BY <1>1, <1>2, PTL DEF HdlcSpec

\* The indices of the loops stay within the buffer, for packets of any length.
THEOREM HdlcTypeCorrect == HdlcSpec => []HdlcTypeOK
  <1>1. HdlcIInv => HdlcTypeOK
    BY Zenon DEF HdlcIInv
  <1> QED BY <1>1, HdlcInvariant, PTL

\* For every packet the loops of hdlc_frame_stuff and hdlc_frame_unstuff
\* return what Stuffed and Unstuffed say, and refuse the malformed frames
\* only: in place they never overwrite what they have still to read.
LEMMA LoopsCompute == HdlcSpec => []LoopsComputeHdlc
  <1>1. HdlcIInv => LoopsComputeHdlc
    <2> SUFFICES ASSUME HdlcIInv PROVE LoopsComputeHdlc
      OBVIOUS
    <2>1. ~(loop = "unstuffed" /\ loop = "bad frame")
      OBVIOUS
    <2> QED BY <2>1, Zenon DEF HdlcIInv, LoopsComputeHdlc
  <1> QED BY <1>1, HdlcInvariant, PTL

\* Whatever packet a frame was made of, it is what the other end takes from
\* the frame, and no byte of a frame but the last is a boundary.
LEMMA RoundTripHolds == HdlcSpec => []RoundTrip
  <1>1. HdlcIInv => RoundTrip
    <2> SUFFICES ASSUME HdlcIInv PROVE RoundTrip
      OBVIOUS
    <2>1. origin \in Seq(Nat) /\ given \in Seq(Nat) /\ bytes \in Seq(Nat)
      BY Zenon DEF HdlcIInv, HdlcTypeOK
    <2>2. ASSUME loop = "unstuffed", origin # <<>> PROVE SubSeq(bytes, 1, wr) = origin
      <3>1. given = Stuffed(origin) /\ SubSeq(bytes, 1, wr) = Unstuffed(given)
        BY <2>2, Zenon DEF HdlcIInv, Known
      <3> QED BY <2>1, <3>1, UnstuffStuffed, Zenon
    <2>3. ASSUME loop = "bad frame", origin # <<>> PROVE FALSE
      <3>1. given = Stuffed(origin) /\ Malformed(given)
        BY <2>3, Zenon DEF HdlcIInv, Known
      <3> QED BY <2>1, <3>1, UnstuffStuffed, Zenon
    <2>4. ASSUME loop = "stuffed", NEW i \in 1 .. out_len
          PROVE  bytes[i] = Boundary <=> i = out_len
      <3> DEFINE x == SubSeq(bytes, 1, out_len)
                 all == StuffedTo(given)[Len(given)]
                 m == Len(all)
      <3>1. x = Stuffed(given) /\ out_len \in 0 .. Len(bytes)
        <4>1. HdlcTypeOK /\ SubSeq(bytes, 1, out_len) = Stuffed(given)
          BY <2>4, Zenon DEF HdlcIInv
        <4>2. {wr, len, out_len} \subseteq 0 .. Len(bytes)
          BY <4>1, Zenon DEF HdlcTypeOK
        <4> QED BY <4>1, <4>2
      <3>2. Len(x) = out_len /\ x[i] = bytes[i]
        BY <2>1, <2>4, <3>1, FirstBytes, Zenon
      <3>3. /\ Len(Stuffed(given)) = m + 1 /\ Stuffed(given)[m + 1] = Boundary
            /\ \A k \in 1 .. m : Stuffed(given)[k] = all[k] /\ all[k] # Boundary
            /\ all \in Seq(Nat)
        BY <2>1, StuffedType, Zenon
      <3>5. out_len = m + 1 /\ m \in Nat
        <4>1. m \in Nat
          <5> HIDE DEF all
          <5> QED BY <3>3
        <4> QED BY <3>1, <3>2, <3>3, <4>1, Zenon
      <3> HIDE DEF x, all, m
      <3>4. CASE i = m + 1
        BY <3>1, <3>2, <3>3, <3>4, <3>5, Zenon
      <3>7. CASE i # m + 1
        <4>1. i \in 1 .. m
          BY <2>4, <3>5, <3>7
        <4> QED BY <3>1, <3>2, <3>3, <3>5, <3>7, <4>1, Zenon
      <3> QED BY <3>4, <3>7
    <2> QED BY <2>2, <2>3, <2>4, Zenon DEF RoundTrip
  <1> QED BY <1>1, HdlcInvariant, PTL

\* In place and for every length, hdlc_frame_stuff and hdlc_frame_unstuff compute
\* the functions of Hdlc, and undo each other.
THEOREM HdlcIsCorrect == HdlcSpec => []HdlcCorrect
  <1>1. LoopsComputeHdlc /\ RoundTrip => HdlcCorrect
    BY Zenon DEF HdlcCorrect
  <1> QED BY <1>1, LoopsCompute, RoundTripHolds, PTL

-----------------------------------------------------------------------------
(* FPort: bytes and the checksum                                           *)

Byte == 0 .. Top

LEMMA ByteFacts ==
  /\ Byte \subseteq Nat /\ Boundary \in Byte /\ Escape \in Byte
  /\ \A byte \in Byte : Flip(byte) \in Byte
  BY ByteAssumption DEF Byte, Top

LEMMA BytesAreNumbers ==
  ASSUME NEW s \in Seq(Byte)
  PROVE  s \in Seq(Nat) /\ \A k \in 1 .. Len(s) : s[k] \in Byte
  <1>1. \A k \in 1 .. Len(s) : s[k] \in Byte
    OBVIOUS
  <1>2. \A k \in 1 .. Len(s) : s[k] \in Nat
    BY <1>1, ByteFacts
  <1> QED BY <1>1, <1>2

\* What stuffing makes of bytes are bytes.
LEMMA StuffedBytes ==
  ASSUME NEW s \in Seq(Byte)
  PROVE  Stuffed(s) \in Seq(Byte)
  <1> DEFINE g == StuffedTo(s)
             S == {i \in 0 .. Len(s) : g[i] \in Seq(Byte)}
  <1>1. s \in Seq(Nat) /\ (\A k \in 1 .. Len(s) : s[k] \in Byte) /\ Len(s) \in Nat
    BY BytesAreNumbers
  <1>2. g[0] = <<>> /\ \A i \in 1 .. Len(s) : g[i] = g[i - 1] \o Unit(s[i])
    BY <1>1, StuffedToRecursion, Zenon
  <1>3. 0 \in S
    <2>1. g[0] = <<>>
      BY <1>2, Zenon
    <2>2. <<>> \in Seq(Byte) /\ 0 \in 0 .. Len(s)
      BY <1>1
    <2> QED BY <2>1, <2>2, Zenon
  <1>4. ASSUME NEW i \in 1 .. Len(s), i - 1 \in S PROVE i \in S
    <2>1. Unit(s[i]) \in Seq(Byte)
      <3>1. s[i] \in Byte /\ Flip(s[i]) \in Byte /\ Escape \in Byte
        BY <1>1, ByteFacts, Zenon
      <3> QED BY <3>1 DEF Unit
    <2>2. g[i - 1] \in Seq(Byte) /\ i \in 0 .. Len(s)
      BY <1>4
    <2>3. g[i] = g[i - 1] \o Unit(s[i])
      BY <1>2, Zenon
    <2> HIDE DEF g
    <2>4. g[i] \in Seq(Byte)
      BY <2>1, <2>2, <2>3
    <2> QED BY <2>2, <2>4
  <1>5. Len(s) \in S
    <2> HIDE DEF S
    <2>1. \A i \in 0 .. Len(s) : i \in S
      BY <1>1, <1>3, <1>4, UpTo
    <2> QED BY <1>1, <2>1
  <1>6. g[Len(s)] \in Seq(Byte) /\ Boundary \in Byte
    BY <1>5, ByteFacts
  <1> HIDE DEF g
  <1> QED BY <1>6 DEF Stuffed, g

LEMMA UnstuffedBytes ==
  ASSUME NEW s \in Seq(Byte)
  PROVE  Unstuffed(s) \in Seq(Byte)
  <1> DEFINE t == Truncated(s)
             g == UnstuffedTo(t)
             S == {i \in 0 .. Len(t) : g[i] \in Seq(Byte)}
  <1>1. s \in Seq(Nat) /\ (\A k \in 1 .. Len(s) : s[k] \in Byte) /\ Len(s) \in Nat
    BY BytesAreNumbers
  <1>2. /\ t \in Seq(Nat) /\ \A k \in 1 .. Len(t) : t[k] = s[k]
        /\ Len(t) = IF Len(s) > 0 /\ s[Len(s)] = Boundary THEN Len(s) - 1 ELSE Len(s)
    BY <1>1, TruncatedType, Zenon
  <1>3. Len(t) \in Nat /\ \A k \in 1 .. Len(t) : t[k] \in Byte
    <2>1. Len(t) \in Nat /\ Len(t) <= Len(s)
      <3> HIDE DEF t
      <3> QED BY <1>1, <1>2
    <2>2. \A k \in 1 .. Len(t) : k \in 1 .. Len(s)
      <3> HIDE DEF t
      <3> QED BY <1>1, <2>1
    <2> QED BY <1>1, <1>2, <2>1, <2>2, Zenon
  <1>4. g[0] = <<>> /\ \A i \in 1 .. Len(t) : g[i] = g[i - 1] \o Taken(t, i)
    BY <1>2, UnstuffedToRecursion, Zenon
  <1> HIDE DEF t
  <1>5. 0 \in S
    <2>1. g[0] = <<>>
      BY <1>4, Zenon
    <2>2. <<>> \in Seq(Byte) /\ 0 \in 0 .. Len(t)
      BY <1>3
    <2> QED BY <2>1, <2>2, Zenon
  <1>6. ASSUME NEW i \in 1 .. Len(t), i - 1 \in S PROVE i \in S
    <2>1. Taken(t, i) \in Seq(Byte)
      <3>1. t[i] \in Byte /\ Flip(t[i]) \in Byte
        BY <1>3, ByteFacts, Zenon
      <3> QED BY <3>1 DEF Taken
    <2>2. g[i - 1] \in Seq(Byte) /\ i \in 0 .. Len(t)
      <3>1. i \in 0 .. Len(t)
        BY <1>3
      <3> QED BY <1>6, <3>1, Zenon
    <2>3. g[i] = g[i - 1] \o Taken(t, i)
      BY <1>4, Zenon
    <2> HIDE DEF g
    <2>4. g[i] \in Seq(Byte)
      BY <2>1, <2>2, <2>3
    <2> QED BY <2>2, <2>4
  <1>7. Len(t) \in S
    <2> HIDE DEF S
    <2>1. \A i \in 0 .. Len(t) : i \in S
      BY <1>3, <1>5, <1>6, UpTo
    <2> QED BY <1>3, <2>1
  <1> QED BY <1>7, Zenon DEF Unstuffed, t

\* What the folding of a sum ends with.
Digit(n) == IF n = 0 THEN 0 ELSE ((n - 1) % Top) + 1

LEMMA DigitFacts ==
  ASSUME NEW n \in Nat
  PROVE  /\ Digit(n) \in Byte
         /\ n <= Top => Digit(n) = n
         /\ n > Top => LET m == (n % (Top + 1)) + (n \div (Top + 1))
                       IN m \in Nat /\ m < n /\ Digit(n) = Digit(m)
  <1> DEFINE q == n \div 8
             r == n % 8
  <1>1. q \in Nat /\ r \in 0 .. 7 /\ n = 8 * q + r
    OBVIOUS
  <1>2. Digit(n) \in Byte
    BY DEF Digit, Byte, Top
  <1>3. n <= 7 => Digit(n) = n
    BY DEF Digit, Top
  <1>4. ASSUME n > 7
        PROVE  r + q \in Nat /\ r + q < n /\ Digit(n) = Digit(r + q)
    <2> HIDE DEF q, r
    <2>1. q >= 1 /\ r + q \in Nat /\ r + q < n /\ r + q # 0 /\ n # 0
      BY <1>1, <1>4
    <2>2. (8 * q + r - 1) % 7 = (r + q - 1) % 7
      BY <1>1, <2>1
    <2> QED BY <1>1, <2>1, <2>2 DEF Digit, Top
  <1>5. Top = 7 /\ Top + 1 = 8
    BY DEF Top
  <1> QED BY <1>2, <1>3, <1>4, <1>5, Zenon

LEMMA FoldedRule ==
  ASSUME NEW n \in Nat
  PROVE  Folded[n] = Digit(n)
  <1> DEFINE next(m) == (m % (Top + 1)) + (m \div (Top + 1))
             B(f) == f = [m \in Nat |-> IF m > Top THEN f[next(m)] ELSE m]
             h == [m \in Nat |-> Digit(m)]
  <1>1. \A m \in Nat : /\ m <= Top => Digit(m) = m
                       /\ m > Top => next(m) \in Nat /\ next(m) < m /\ Digit(m) = Digit(next(m))
    BY DigitFacts, Zenon
  <1> HIDE DEF next
  <1>2. Top \in Nat
    BY DEF Top
  <1>3. B(h)
    <2>1. ASSUME NEW m \in Nat PROVE h[m] = IF m > Top THEN h[next(m)] ELSE m
      <3>1. CASE m > Top
        BY <1>1, <3>1, Zenon
      <3>2. CASE ~(m > Top)
        <4>1. m <= Top
          BY <1>2, <3>2
        <4> QED BY <1>1, <3>2, <4>1, Zenon
      <3> QED BY <3>1, <3>2, Zenon
    <2>2. h = [m \in Nat |-> h[m]]
      BY Zenon
    <2> HIDE DEF h
    <2> QED BY <2>1, <2>2, Zenon
  <1>4. Folded = CHOOSE f : B(f)
    BY Zenon DEF Folded, next
  <1>5. B(Folded)
    <2> HIDE DEF B
    <2> QED BY <1>3, <1>4, Zenon
  <1>6. \A m \in Nat : Folded[m] = IF m > Top THEN Folded[next(m)] ELSE m
    BY <1>5, Zenon
  <1> DEFINE Wrong == {m \in Nat : Folded[m] # Digit(m)}
  <1>7. Wrong = {}
    <2>1. SUFFICES ASSUME Wrong # {} PROVE FALSE
      OBVIOUS
    <2>2. PICK m \in Wrong : \A k \in Wrong : m <= k
      <3>1. Wrong \subseteq Nat
        OBVIOUS
      <3> HIDE DEF Wrong
      <3> QED BY <2>1, <3>1, LeastOf
    <2>3. m \in Nat /\ Folded[m] # Digit(m)
      BY <2>2
    <2>4. CASE m > Top
      <3>1. next(m) \in Nat /\ next(m) < m /\ Digit(m) = Digit(next(m))
        BY <1>1, <2>3, <2>4
      <3>2. Folded[m] = Folded[next(m)]
        BY <1>6, <2>3, <2>4, Zenon
      <3>3. next(m) \in Wrong
        BY <2>3, <3>1, <3>2, Zenon
      <3>4. m <= next(m)
        BY <2>2, <3>3, Zenon
      <3> QED BY <2>3, <3>1, <3>4
    <2>5. CASE ~(m > Top)
      <3>1. m <= Top
        BY <1>2, <2>3, <2>5
      <3> QED BY <1>1, <1>6, <2>3, <2>5, <3>1, Zenon
    <2> QED BY <2>4, <2>5
  <1> QED BY <1>7

LEMMA Appended ==
  ASSUME NEW T, NEW x \in Seq(T), NEW a \in T, NEW y, y = Append(x, a)
  PROVE  /\ y \in Seq(T) /\ Len(y) = Len(x) + 1 /\ y[Len(x) + 1] = a
         /\ \A k \in 1 .. Len(x) : y[k] = x[k]
  OBVIOUS

LEMMA SumOf ==
  ASSUME NEW s \in Seq(Nat), Len(s) = 4 \/ Len(s) = 5
  PROVE  /\ Len(s) = 4 => Sum(s) = s[1] + s[2] + s[3] + s[4]
         /\ Len(s) = 5 => Sum(s) = s[1] + s[2] + s[3] + s[4] + s[5]
  <1> DEFINE n == Len(s)
             Rule(f, i) == IF i = 0 THEN 0 ELSE f[i - 1] + s[i]
             B(f) == f = [i \in 0 .. n |-> Rule(f, i)]
             c2 == s[1] + s[2]
             c3 == c2 + s[3]
             c4 == c3 + s[4]
             c5 == c4 + s[5]
             h == [i \in 0 .. n |-> IF i = 0 THEN 0 ELSE IF i = 1 THEN s[1]
                                    ELSE IF i = 2 THEN c2 ELSE IF i = 3 THEN c3
                                    ELSE IF i = 4 THEN c4 ELSE c5]
  <1>0. n \in Nat /\ (n = 4 \/ n = 5) /\ \A i \in 1 .. n : s[i] \in Nat
    OBVIOUS
  <1> HIDE DEF n
  <1>1. /\ s[1] \in Nat /\ c2 \in Nat /\ c3 \in Nat /\ c4 \in Nat
        /\ \A i \in 0 .. n : i \in {0, 1, 2, 3, 4, 5}
        /\ 0 \in 0 .. n /\ 1 \in 0 .. n /\ 2 \in 0 .. n /\ 3 \in 0 .. n /\ 4 \in 0 .. n
        /\ n = 5 => 5 \in 0 .. n
    <2>1. s[1] \in Nat /\ s[2] \in Nat /\ s[3] \in Nat /\ s[4] \in Nat
      BY <1>0
    <2>2. /\ \A i \in 0 .. n : i \in {0, 1, 2, 3, 4, 5}
          /\ 0 \in 0 .. n /\ 1 \in 0 .. n /\ 2 \in 0 .. n /\ 3 \in 0 .. n /\ 4 \in 0 .. n
          /\ n = 5 => 5 \in 0 .. n
      BY <1>0
    <2> HIDE DEF c2, c3, c4, c5
    <2>3. c2 \in Nat
      BY <2>1 DEF c2
    <2>4. c3 \in Nat
      BY <2>1, <2>3 DEF c3
    <2>5. c4 \in Nat
      BY <2>1, <2>4 DEF c4
    <2> QED BY <2>1, <2>2, <2>3, <2>4, <2>5, Zenon
  <1> HIDE DEF c2, c3, c4, c5
  <1>2. ASSUME NEW i \in 0 .. n PROVE h[i] = Rule(h, i)
    <2>1. i \in {0, 1, 2, 3, 4, 5}
      BY <1>1
    <2>2. CASE i = 0
      BY <2>2
    <2>3. CASE i = 1
      <3>1. h[0] = 0 /\ h[i] = s[1]
        BY <1>1, <2>3
      <3> HIDE DEF h
      <3> QED BY <1>1, <2>3, <3>1
    <2>4. CASE i = 2
      <3>1. h[1] = s[1] /\ h[i] = c2
        BY <1>1, <2>4
      <3> HIDE DEF h
      <3> QED BY <1>1, <2>4, <3>1 DEF c2
    <2>5. CASE i = 3
      <3>1. h[2] = c2 /\ h[i] = c3
        BY <1>1, <2>5
      <3> HIDE DEF h
      <3> QED BY <1>1, <2>5, <3>1 DEF c3
    <2>6. CASE i = 4
      <3>1. h[3] = c3 /\ h[i] = c4
        BY <1>1, <2>6
      <3> HIDE DEF h
      <3> QED BY <1>1, <2>6, <3>1 DEF c4
    <2>7. CASE i = 5
      <3>1. h[4] = c4 /\ h[i] = c5
        BY <1>1, <2>7
      <3> HIDE DEF h
      <3> QED BY <1>1, <2>7, <3>1 DEF c5
    <2> QED BY <2>1, <2>2, <2>3, <2>4, <2>5, <2>6, <2>7
  <1>3. B(h)
    <2>1. h = [i \in 0 .. n |-> h[i]]
      BY Zenon
    <2> HIDE DEF h, Rule
    <2> QED BY <1>2, <2>1, Zenon
  <1> DEFINE u == CHOOSE f : B(f)
  <1>4. Sum(s) = u[n]
    BY Zenon DEF Sum, n
  <1>5. B(u)
    <2> HIDE DEF B
    <2> QED BY <1>3, Zenon
  <1> HIDE DEF u, h
  <1>6. \A i \in 0 .. n : u[i] = Rule(u, i)
    <2> HIDE DEF Rule
    <2> QED BY <1>5, Zenon
  <1>7. u[0] = 0 /\ u[1] = s[1] /\ u[2] = c2 /\ u[3] = c3 /\ u[4] = c4
    <2>2. u[0] = 0
      BY <1>6, <1>1
    <2>3. u[1] = s[1]
      BY <1>1, <1>6, <2>2
    <2>4. u[2] = c2
      BY <1>6, <1>1, <2>3 DEF c2
    <2>5. u[3] = c3
      BY <1>6, <1>1, <2>4 DEF c3
    <2>6. u[4] = c4
      BY <1>6, <1>1, <2>5 DEF c4
    <2> QED BY <2>2, <2>3, <2>4, <2>5, <2>6
  <1>8. n = 5 => u[5] = c5
    BY <1>1, <1>6, <1>7 DEF c5
  <1> QED BY <1>4, <1>7, <1>8 DEF c2, c3, c4, c5, n

\* What is sent passes the tests of process and is the frame it was made of.
LEMMA PacketOfFrame ==
  ASSUME NEW f \in Frames
  PROVE  \E raw \in Seq(Byte) :
           /\ Len(raw) = ControlLen /\ Encode(f) = Stuffed(raw)
           /\ Checked(raw) /\ Control(raw)
           /\ [chn |-> raw[3], flags |-> Flags(raw[4])] = f
  <1> DEFINE b == Bit(f.flags[1]) + 2 * Bit(f.flags[2])
             body == <<ControlLen - 2, 0, f.chn, b>>
             d == Digit(3 + f.chn + b)
             raw == Append(body, Top - d)
  <1>1. /\ f.chn \in Channels /\ f.flags \in {<<FALSE, FALSE>>, <<TRUE, FALSE>>}
        /\ f = [chn |-> f.chn, flags |-> f.flags]
    BY DEF Frames
  <1>2. f.chn \in Byte
    BY <1>1, ByteAssumption DEF Byte
  <1>3. b \in {0, 1} /\ Flags(b) = f.flags
    <2>1. CASE f.flags = <<FALSE, FALSE>>
      <3>1. b = 0
        BY <2>1 DEF Bit
      <3>2. (0 % 2 = 1) = FALSE /\ ((0 \div 2) % 2 = 1) = FALSE
        OBVIOUS
      <3> HIDE DEF b
      <3> QED BY <2>1, <3>1, <3>2, Zenon DEF Flags
    <2>2. CASE f.flags = <<TRUE, FALSE>>
      <3>1. b = 1
        BY <2>2 DEF Bit
      <3>2. (1 % 2 = 1) = TRUE /\ ((1 \div 2) % 2 = 1) = FALSE
        OBVIOUS
      <3> HIDE DEF b
      <3> QED BY <2>2, <3>1, <3>2, Zenon DEF Flags
    <2> QED BY <1>1, <2>1, <2>2
  <1>4. f.chn \in Nat /\ f.chn <= 7 /\ b \in Nat
    BY <1>2, <1>3 DEF Byte, Top
  <1> HIDE DEF b
  <1>5. body \in Seq(Nat) /\ Len(body) = 4 /\ body = <<3, 0, f.chn, b>>
    BY <1>4 DEF ControlLen
  <1>6. Sum(body) = 3 + f.chn + b
    <2>1. Sum(body) = body[1] + body[2] + body[3] + body[4]
      BY <1>5, SumOf
    <2> QED BY <1>4, <1>5, <2>1
  <1>7. 3 + f.chn + b \in Nat /\ Folded[Sum(body)] = d /\ d \in Byte
    BY <1>4, <1>6, FoldedRule, DigitFacts
  <1>8. d \in 1 .. 7 /\ \E q \in Nat : 3 + f.chn + b = 7 * q + d
    <2> DEFINE m == 3 + f.chn + b
    <2>1. m \in Nat /\ m > 0
      BY <1>4
    <2> HIDE DEF m
    <2>2. d = ((m - 1) % 7) + 1
      BY <2>1 DEF Digit, Top, m
    <2>3. (m - 1) \div 7 \in Nat /\ m = 7 * ((m - 1) \div 7) + (((m - 1) % 7) + 1)
      BY <2>1
    <2>4. ((m - 1) % 7) + 1 \in 1 .. 7
      BY <2>1
    <2> QED BY <2>2, <2>3, <2>4 DEF m
  <1> HIDE DEF d
  <1>9. /\ raw \in Seq(Byte) /\ raw \in Seq(Nat) /\ Len(raw) = 5 /\ ControlLen = 5
        /\ raw[1] = 3 /\ raw[2] = 0 /\ raw[3] = f.chn /\ raw[4] = b /\ raw[5] = Top - d
    <2>1. /\ body \in Seq(Byte) /\ Len(body) = 4
          /\ body[1] = 3 /\ body[2] = 0 /\ body[3] = f.chn /\ body[4] = b
      BY <1>2, <1>3, <1>5 DEF Byte, Top
    <2>2. Top - d \in Byte
      BY <1>8 DEF Byte, Top
    <2> DEFINE last == Top - d
    <2>7. raw = Append(body, last) /\ last \in Byte
      BY <2>2
    <2> HIDE DEF body, raw, last
    <2>3. /\ raw \in Seq(Byte) /\ Len(raw) = Len(body) + 1 /\ raw[Len(body) + 1] = last
          /\ \A k \in 1 .. Len(body) : raw[k] = body[k]
      BY <2>1, <2>7, Appended
    <2>4. Len(raw) = 5 /\ raw[5] = Top - d /\ \A k \in 1 .. 4 : raw[k] = body[k]
      BY <2>1, <2>3 DEF last
    <2>5. raw[1] = body[1] /\ raw[2] = body[2] /\ raw[3] = body[3] /\ raw[4] = body[4]
      BY <2>4
    <2>6. raw \in Seq(Nat)
      BY <2>3, BytesAreNumbers, Zenon
    <2> QED BY <2>1, <2>3, <2>4, <2>5, <2>6 DEF ControlLen
  <1>10. Encode(f) = Stuffed(raw)
    <2>1. Top - Folded[Sum(body)] = Top - d
      BY <1>7, Zenon
    <2> QED BY <2>1, Zenon DEF Encode, b
  <1>11. Checked(raw)
    <2> DEFINE m == 3 + f.chn + b + (7 - d)
    <2>1. Sum(raw) = raw[1] + raw[2] + raw[3] + raw[4] + raw[5]
      BY <1>9, SumOf, Zenon
    <2>2. Sum(raw) = 3 + 0 + f.chn + b + (Top - d)
      BY <1>9, <2>1, Zenon
    <2>8. Sum(raw) = m
      <3> HIDE DEF raw, body
      <3> QED BY <1>4, <1>8, <2>2 DEF Top
    <2>3. PICK q \in Nat : 3 + f.chn + b = 7 * q + d
      BY <1>8
    <2>4. m = 7 * (q + 1) /\ m \in Nat /\ m # 0
      BY <1>4, <1>8, <2>3
    <2> HIDE DEF m
    <2>5. (m - 1) % 7 = 6
      BY <2>3, <2>4
    <2>6. Digit(m) = 7
      BY <2>4, <2>5 DEF Digit, Top
    <2>7. Folded[Sum(raw)] = Top
      BY <2>8, <2>4, <2>6, FoldedRule DEF Top
    <2> QED BY <1>9, <2>7 DEF Checked
  <1> HIDE DEF raw, body
  <1>12. Control(raw)
    BY <1>9 DEF Control
  <1>13. [chn |-> raw[3], flags |-> Flags(raw[4])] = f
    BY <1>1, <1>3, <1>9, Zenon
  <1> QED BY <1>9, <1>10, <1>11, <1>12, <1>13, Zenon

\* A complete frame has a boundary at its end only, fits the buffer, and
\* process takes the frame from it.
Accepted(s) == ~Malformed(s) /\ Checked(Unstuffed(s)) /\ Control(Unstuffed(s))
FrameIn(s) == [chn |-> Unstuffed(s)[3], flags |-> Flags(Unstuffed(s)[4])]

LEMMA EncodeFacts ==
  ASSUME NEW f \in Frames
  PROVE  /\ Encode(f) \in Seq(Byte) /\ Len(Encode(f)) \in 1 .. MaxPacket
         /\ Encode(f)[Len(Encode(f))] = Boundary
         /\ \A k \in 1 .. Len(Encode(f)) - 1 : Encode(f)[k] # Boundary
         /\ Accepted(Encode(f)) /\ FrameIn(Encode(f)) = f
  <1>1. PICK raw \in Seq(Byte) :
           /\ Len(raw) = ControlLen /\ Encode(f) = Stuffed(raw)
           /\ Checked(raw) /\ Control(raw)
           /\ [chn |-> raw[3], flags |-> Flags(raw[4])] = f
    BY PacketOfFrame
  <1> DEFINE all == StuffedTo(raw)[Len(raw)]
             m == Len(all)
  <1>2. raw \in Seq(Nat)
    BY BytesAreNumbers
  <1>3. Encode(f) \in Seq(Byte)
    BY <1>1, StuffedBytes
  <1>4. /\ Len(Encode(f)) = m + 1 /\ Encode(f)[m + 1] = Boundary
        /\ \A k \in 1 .. m : Encode(f)[k] = all[k] /\ all[k] # Boundary
        /\ m \in Len(raw) .. (2 * Len(raw))
    BY <1>1, <1>2, StuffedType, Zenon
  <1> HIDE DEF m, all
  <1>5. m \in 5 .. 10 /\ MaxPacket \in Nat /\ MaxPacket > 10
    BY <1>1, <1>4, PacketAssumption DEF ControlLen
  <1>6. Unstuffed(Encode(f)) = raw /\ ~Malformed(Encode(f))
    BY <1>1, <1>2, UnstuffStuffed, Zenon
  <1>7. Accepted(Encode(f)) /\ FrameIn(Encode(f)) = f
    BY <1>1, <1>6, Zenon DEF Accepted, FrameIn
  <1>8. Len(Encode(f)) - 1 = m
    BY <1>4, <1>5
  <1>9. Len(Encode(f)) \in 1 .. MaxPacket
    BY <1>4, <1>5
  <1> QED BY <1>3, <1>4, <1>7, <1>8, <1>9, Zenon

-----------------------------------------------------------------------------
(* FPort: types, and what a client sees                                    *)

FPortIInv ==
  /\ TypeOK
  /\ wire \in Seq(Byte)
  /\ frame \in [chn : Byte, flags : BOOLEAN \X BOOLEAN]
  /\ seen \in Byte \X (BOOLEAN \X BOOLEAN)
  /\ sent \in Seq(Frames) /\ faults \in Nat
  /\ applied \in Seq([chn : Byte, flags : BOOLEAN \X BOOLEAN])

\* A client above the task runs to its end before the task goes on, and then
\* no output is half written.
ClientIInv ==
  above =>
    /\ pending \/ client # "wait" => pc = "read"
    /\ pc \in {"read", "chn"} => published = <<f_chn, f_flags>>
    /\ client \in {"half", "done"} => seen[1] = f_chn
    /\ client = "done" => seen[2] = f_flags

LEMMA FlagsType ==
  /\ \A b : Flags(b) \in BOOLEAN \X BOOLEAN
  /\ Lost \in BOOLEAN \X BOOLEAN
  <1>1. ASSUME NEW b PROVE Flags(b) \in BOOLEAN \X BOOLEAN
    <2>1. (b % 2 = 1) \in BOOLEAN /\ ((b \div 2) % 2 = 1) \in BOOLEAN
      BY Zenon
    <2> QED BY <2>1, Zenon DEF Flags
  <1>2. Lost \in BOOLEAN \X BOOLEAN
    BY DEF Lost
  <1> QED BY <1>1, <1>2, Zenon

\* The sequence y stands in z behind the first o elements.
At(z, o, y) == o + Len(y) <= Len(z) /\ \A k \in 1 .. Len(y) : z[o + k] = y[k]

LEMMA Concatenated ==
  ASSUME NEW T, NEW x \in Seq(T), NEW y \in Seq(T), NEW z, z = x \o y
  PROVE  /\ z \in Seq(T) /\ Len(z) = Len(x) + Len(y)
         /\ At(z, 0, x) /\ At(z, Len(x), y)
  BY DEF At

LEMMA Taking ==
  ASSUME NEW T, NEW x \in Seq(T), NEW n \in 0 .. Len(x), NEW y, NEW z,
         y = SubSeq(x, 1, n), z = SubSeq(x, n + 1, Len(x))
  PROVE  /\ y \in Seq(T) /\ Len(y) = n /\ At(x, 0, y)
         /\ z \in Seq(T) /\ Len(z) = Len(x) - n /\ At(x, n, z)
  BY DEF At

LEMMA AcceptedType ==
  ASSUME NEW s \in Seq(Byte), Accepted(s)
  PROVE  FrameIn(s) \in [chn : Byte, flags : BOOLEAN \X BOOLEAN]
  <1> DEFINE p == Unstuffed(s)
  <1>1. p \in Seq(Byte)
    BY UnstuffedBytes, Zenon
  <1>2. Len(p) = ControlLen
    BY Zenon DEF Accepted, Control
  <1> HIDE DEF p
  <1>3. p[3] \in Byte
    <2>1. 3 \in 1 .. Len(p)
      BY <1>2 DEF ControlLen
    <2> QED BY <1>1, <2>1, BytesAreNumbers, Zenon
  <1> QED BY <1>3, FlagsType, Zenon DEF FrameIn, p

\* What a read of y does, with z left in the port.
LEMMA ReadBytes ==
  ASSUME FPortIInv, NEW n \in 1 .. Backlog, read_bytes(n)
  PROVE  \E x, y, z \in Seq(Byte) :
           /\ Start \in Seq(Byte) /\ Len(x) = Len(Start) + n /\ Len(x) <= MaxPacket
           /\ n \in Nat /\ n > 0 /\ Len(y) = n /\ Len(unread) = n + Len(z)
           /\ At(x, 0, Start) /\ At(x, Len(Start), y)
           /\ At(unread, 0, y) /\ At(unread, n, z) /\ unread' = z
           /\ \A k \in 1 .. n - 1 : unread[k] # Boundary
           /\ IF x[Len(x)] # Boundary
              THEN buf' = x /\ UNCHANGED <<pc, frame>>
              ELSE /\ buf' = <<>>
                   /\ IF Accepted(x) THEN frame' = FrameIn(x) /\ pc' = "chn"
                      ELSE UNCHANGED <<pc, frame>>
  <1> DEFINE y == SubSeq(unread, 1, n)
             z == SubSeq(unread, n + 1, Len(unread))
             x == Start \o y
  <1>1. /\ unread \in Seq(Byte) /\ buf \in Seq(Byte) /\ Len(buf) <= MaxPacket
        /\ n \in Nat /\ n > 0 /\ n <= Len(unread) /\ MaxPacket \in Nat
        /\ n \in 0 .. Len(unread)
    <2>1. TypeOK /\ n <= Len(unread)
      BY Zenon DEF FPortIInv, read_bytes
    <2>2. unread \in Seq(Byte) /\ buf \in Seq(Byte) /\ Len(buf) <= MaxPacket
      BY <2>1, Zenon DEF TypeOK, Byte
    <2>3. MaxPacket \in Nat
      BY PacketAssumption
    <2>4. n \in Nat /\ n > 0
      BY BoundAssumption
    <2>5. n \in 0 .. Len(unread)
      BY <2>1, <2>2, <2>4
    <2> QED BY <2>1, <2>2, <2>3, <2>4, <2>5, Zenon
  <1>2. Start \in Seq(Byte) /\ n <= MaxPacket - Len(Start) /\ Len(Start) \in Nat
    BY <1>1 DEF Start, read_bytes, Room
  <1>3. /\ y \in Seq(Byte) /\ Len(y) = n /\ At(unread, 0, y)
        /\ z \in Seq(Byte) /\ Len(z) = Len(unread) - n /\ At(unread, n, z)
    <2>1. y \in Seq(Byte) /\ Len(y) = n
      BY <1>1, Taking
    <2>2. z \in Seq(Byte) /\ Len(z) = Len(unread) - n
      BY <1>1, Taking
    <2>3. At(unread, 0, y)
      BY <1>1, Taking
    <2>4. At(unread, n, z)
      <3>1. n + Len(z) <= Len(unread)
        BY <1>1, <2>2
      <3>2. \A k \in 1 .. Len(z) : unread[n + k] = z[k]
        BY <1>1
      <3> QED BY <3>1, <3>2, Zenon DEF At
    <2> HIDE DEF y, z
    <2> QED BY <2>1, <2>2, <2>3, <2>4, Zenon
  <1>4. /\ x \in Seq(Byte) /\ Len(x) = Len(Start) + Len(y)
        /\ At(x, 0, Start) /\ At(x, Len(Start), y)
    BY <1>2, <1>3, Concatenated
  <1>5. Last(x) = x[Len(x)]
    BY Zenon DEF Last
  <1>6. process(x)
    BY Zenon DEF read_bytes
  <1>7. unread' = z /\ \A k \in 1 .. n - 1 : unread[k] # Boundary
    BY Zenon DEF read_bytes
  <1> HIDE DEF x, y, z
  <1>8. Len(x) = Len(Start) + n /\ Len(x) <= MaxPacket /\ Len(unread) = n + Len(z)
    BY <1>1, <1>2, <1>3, <1>4
  <1>9. IF x[Len(x)] # Boundary
        THEN buf' = x /\ UNCHANGED <<pc, frame>>
        ELSE /\ buf' = <<>>
             /\ IF Accepted(x) THEN frame' = FrameIn(x) /\ pc' = "chn"
                ELSE UNCHANGED <<pc, frame>>
    BY <1>5, <1>6, Zenon DEF process, Accepted, FrameIn
  <1> QED BY <1>1, <1>2, <1>3, <1>4, <1>7, <1>8, <1>9, Zenon

LEMMA FPortTypes == Spec => []FPortIInv
  <1>1. Init => FPortIInv
    <2> SUFFICES ASSUME Init PROVE FPortIInv
      OBVIOUS
    <2>4. /\ <<>> \in Seq(Byte) /\ Len(<<>>) <= Backlog /\ Len(<<>>) <= MaxPacket
          /\ 0 \in Byte
      BY PacketAssumption, BoundAssumption DEF Byte, Top
    <2>1. TypeOK
      BY <2>4, FlagsType, Zenon DEF Init, TypeOK, Byte
    <2>2. /\ wire \in Seq(Byte) /\ frame \in [chn : Byte, flags : BOOLEAN \X BOOLEAN]
          /\ seen \in Byte \X (BOOLEAN \X BOOLEAN)
      BY <2>4, FlagsType, Zenon DEF Init, NoFrame
    <2>3. /\ sent \in Seq(Frames) /\ faults \in Nat
          /\ applied \in Seq([chn : Byte, flags : BOOLEAN \X BOOLEAN])
      BY DEF Init
    <2> QED BY <2>1, <2>2, <2>3, Zenon DEF FPortIInv
  <1>2. FPortIInv /\ [Next]_vars => FPortIInv'
    <2> SUFFICES ASSUME FPortIInv, [Next]_vars PROVE FPortIInv'
      OBVIOUS
    <2>1. ASSUME NEW f \in Frames, send_frame(f) PROVE FPortIInv'
      <3>1. wire' = Encode(f) /\ sent' = Append(sent, f)
        BY <2>1 DEF send_frame
      <3>2. wire' \in Seq(Byte)
        BY <3>1, EncodeFacts, Zenon
      <3>3. sent' \in Seq(Frames)
        BY <3>1 DEF FPortIInv
      <3>4. UNCHANGED <<faults, unread, buf, pc, frame, f_chn, f_flags, applied, client, seen>>
        BY <2>1 DEF send_frame, clientVars
      <3> QED BY <3>2, <3>3, <3>4 DEF FPortIInv, TypeOK
    <2>2. CASE line_byte
      <3>1. /\ wire # <<>> /\ Len(unread) < Backlog /\ wire' = Tail(wire)
            /\ unread' = Append(unread, Head(wire))
        BY <2>2 DEF line_byte
      <3>2. wire \in Seq(Byte) /\ unread \in Seq(Byte) /\ Backlog \in Nat
        BY BoundAssumption DEF FPortIInv, TypeOK, Byte
      <3>3. wire' \in Seq(Byte) /\ unread' \in Seq(Byte) /\ Len(unread') <= Backlog
        BY <3>1, <3>2
      <3>4. UNCHANGED <<sent, faults, buf, pc, frame, f_chn, f_flags, applied, client, seen>>
        BY <2>2 DEF line_byte, clientVars
      <3> QED BY <3>3, <3>4 DEF FPortIInv, TypeOK, Byte
    <2>3. CASE line_lose
      <3>1. wire # <<>> /\ wire' = Tail(wire) /\ faults' = faults + 1
        BY <2>3 DEF line_lose
      <3>2. wire' \in Seq(Byte) /\ faults' \in Nat
        BY <3>1 DEF FPortIInv
      <3>4. UNCHANGED <<sent, unread, buf, pc, frame, f_chn, f_flags, applied, client, seen>>
        BY <2>3 DEF line_lose, clientVars
      <3> QED BY <3>2, <3>4 DEF FPortIInv, TypeOK
    <2>4. ASSUME NEW byte \in Noise, line_noise(byte) PROVE FPortIInv'
      <3>1. /\ Len(unread) < Backlog /\ unread' = Append(unread, byte) /\ faults' = faults + 1
        BY <2>4 DEF line_noise
      <3>2. unread \in Seq(Byte) /\ Backlog \in Nat /\ byte \in Byte /\ faults \in Nat
        BY BoundAssumption, ByteAssumption DEF FPortIInv, TypeOK, Byte
      <3>3. unread' \in Seq(Byte) /\ Len(unread') <= Backlog /\ faults' \in Nat
        BY <3>1, <3>2
      <3>4. UNCHANGED <<wire, sent, buf, pc, frame, f_chn, f_flags, applied, client, seen>>
        BY <2>4 DEF line_noise, clientVars
      <3> QED BY <3>3, <3>4 DEF FPortIInv, TypeOK, Byte
    <2>5. ASSUME NEW n \in 1 .. Backlog, read_bytes(n) PROVE FPortIInv'
      <3>1. PICK x, y, z \in Seq(Byte) :
           /\ n \in Nat /\ n > 0 /\ Len(x) <= MaxPacket
           /\ Len(unread) = n + Len(z) /\ unread' = z
           /\ IF x[Len(x)] # Boundary
              THEN buf' = x /\ UNCHANGED <<pc, frame>>
              ELSE /\ buf' = <<>>
                   /\ IF Accepted(x) THEN frame' = FrameIn(x) /\ pc' = "chn"
                      ELSE UNCHANGED <<pc, frame>>
        BY <2>5, ReadBytes, Zenon
      <3>2. unread \in Seq(Byte) /\ Len(unread) <= Backlog /\ Backlog \in Nat
        BY BoundAssumption DEF FPortIInv, TypeOK, Byte
      <3>3. unread' \in Seq(Byte) /\ Len(unread') <= Backlog
        BY <3>1, <3>2
      <3>4. buf' \in Seq(Byte) /\ Len(buf') <= MaxPacket
        <4>1. <<>> \in Seq(Byte) /\ Len(<<>>) <= MaxPacket
          BY PacketAssumption
        <4> QED BY <3>1, <4>1, Zenon
      <3>5. /\ frame' \in [chn : Byte, flags : BOOLEAN \X BOOLEAN]
            /\ pc' \in {"read", "chn", "flags", "trigger"}
        BY <3>1, AcceptedType, Zenon DEF FPortIInv, TypeOK
      <3>6. UNCHANGED <<wire, sent, faults, f_chn, f_flags, applied, client, seen>>
        BY <2>5 DEF read_bytes, lineVars, clientVars
      <3> QED BY <3>3, <3>4, <3>5, <3>6 DEF FPortIInv, TypeOK, Byte
    <2>6. CASE read_nothing
      <3>1. /\ f_flags' = Lost /\ buf' = Start
            /\ UNCHANGED <<wire, sent, faults, unread, pc, frame, f_chn, applied, client, seen>>
        BY <2>6 DEF read_nothing, lineVars, Trigger
      <3>2. f_flags' \in BOOLEAN \X BOOLEAN
        BY <3>1, FlagsType, Zenon
      <3>3. buf' \in Seq(0 .. Top) /\ Len(buf') <= MaxPacket
        <4>1. <<>> \in Seq(0 .. Top) /\ Len(<<>>) <= MaxPacket
          BY PacketAssumption
        <4> QED BY <3>1, <4>1, Zenon DEF Start, FPortIInv, TypeOK
      <3> QED BY <3>1, <3>2, <3>3 DEF FPortIInv, TypeOK
    <2>7. CASE write_chn
      <3>1. /\ f_chn' = frame.chn /\ pc' = "flags"
            /\ UNCHANGED <<wire, sent, faults, unread, buf, frame, f_flags, applied, client, seen>>
        BY <2>7 DEF write_chn, lineVars, clientVars
      <3>2. f_chn' \in 0 .. Top
        BY <3>1 DEF FPortIInv, Byte
      <3> QED BY <3>1, <3>2 DEF FPortIInv, TypeOK
    <2>8. CASE write_flags
      <3>1. /\ f_flags' = frame.flags /\ applied' = Append(applied, frame) /\ pc' = "trigger"
            /\ UNCHANGED <<wire, sent, faults, unread, buf, frame, f_chn, client, seen>>
        BY <2>8 DEF write_flags, lineVars, clientVars
      <3>2. f_flags' \in BOOLEAN \X BOOLEAN
        BY <3>1 DEF FPortIInv
      <3>3. applied' \in Seq([chn : Byte, flags : BOOLEAN \X BOOLEAN])
        BY <3>1 DEF FPortIInv
      <3> QED BY <3>1, <3>2, <3>3 DEF FPortIInv, TypeOK
    <2>9. CASE trigger
      <3>1. /\ pc' = "read" /\ frame' = NoFrame
            /\ UNCHANGED <<wire, sent, faults, unread, buf, f_chn, f_flags, applied, client, seen>>
        BY <2>9 DEF trigger, lineVars, Trigger
      <3>2. frame' \in [chn : Byte, flags : BOOLEAN \X BOOLEAN]
        <4>1. 0 \in Byte
          BY DEF Byte, Top
        <4> QED BY <3>1, <4>1, FlagsType, Zenon DEF NoFrame
      <3> QED BY <3>1, <3>2 DEF FPortIInv, TypeOK
    <2>10. CASE ClientRun
      <3>1. UNCHANGED <<wire, sent, faults, unread, buf, pc, frame, f_chn, f_flags, applied>>
        BY <2>10 DEF ClientRun, lineVars
      <3>2. /\ client' \in {"wait", "run", "half", "done"}
            /\ seen' \in Byte \X (BOOLEAN \X BOOLEAN)
        <4>1. /\ f_chn \in Byte /\ f_flags \in BOOLEAN \X BOOLEAN
              /\ seen \in Byte \X (BOOLEAN \X BOOLEAN)
          BY DEF FPortIInv, TypeOK, Byte
        <4> HIDE DEF Byte
        <4>2. [seen EXCEPT ![1] = f_chn] \in Byte \X (BOOLEAN \X BOOLEAN)
          BY <4>1
        <4>3. [seen EXCEPT ![2] = f_flags] \in Byte \X (BOOLEAN \X BOOLEAN)
          BY <4>1
        <4>4. client_run
          BY <2>10, Zenon DEF ClientRun
        <4> QED BY <4>1, <4>2, <4>3, <4>4, Zenon DEF client_run
      <3> QED BY <3>1, <3>2 DEF FPortIInv, TypeOK
    <2>11. CASE UNCHANGED vars
      BY <2>11 DEF FPortIInv, TypeOK, vars
    <2> QED BY <2>1, <2>2, <2>3, <2>4, <2>5, <2>6, <2>7, <2>8, <2>9, <2>10, <2>11,
               Zenon DEF Next, Line, fport_task
  <1> QED BY <1>1, <1>2, PTL DEF Spec

\* Every variable keeps its type, whatever the line does.
THEOREM FPortTypeCorrect == Spec => []TypeOK
  <1>1. FPortIInv => TypeOK
    BY Zenon DEF FPortIInv
  <1> QED BY <1>1, FPortTypes, PTL

\* A client above the task reads channel and flags of one update.
THEOREM ClientSees == Spec => []ClientSeesOneUpdate
  <1>1. Init => ClientIInv
    BY DEF Init, ClientIInv
  <1>2. FPortIInv /\ ClientIInv /\ [Next]_vars => ClientIInv'
    <2> SUFFICES ASSUME FPortIInv, ClientIInv, [Next]_vars, above'
                 PROVE  /\ pending' \/ client' # "wait" => pc' = "read"
                        /\ pc' \in {"read", "chn"} => published' = <<f_chn', f_flags'>>
                        /\ client' \in {"half", "done"} => seen'[1] = f_chn'
                        /\ client' = "done" => seen'[2] = f_flags'
      BY Zenon DEF ClientIInv
    <2>0. above
      BY DEF Next, Line, fport_task, send_frame, line_byte, line_lose, line_noise,
             read_bytes, read_nothing, write_chn, write_flags, trigger, ClientRun, vars
    <2>1. /\ pending \/ client # "wait" => pc = "read"
          /\ pc \in {"read", "chn"} => published = <<f_chn, f_flags>>
          /\ client \in {"half", "done"} => seen[1] = f_chn
          /\ client = "done" => seen[2] = f_flags
      BY <2>0, Zenon DEF ClientIInv
    <2>2. CASE Line
      <3>1. UNCHANGED <<pc, f_chn, f_flags, pending, client, seen, published>>
        BY <2>2 DEF Line, send_frame, line_byte, line_lose, line_noise, clientVars
      <3> QED BY <2>1, <3>1
    <2>3. ASSUME NEW n \in 1 .. Backlog, read_bytes(n)
          PROVE  /\ pending' \/ client' # "wait" => pc' = "read"
                 /\ pc' \in {"read", "chn"} => published' = <<f_chn', f_flags'>>
                 /\ client' \in {"half", "done"} => seen'[1] = f_chn'
                 /\ client' = "done" => seen'[2] = f_flags'
      <3>1. ~pending /\ client = "wait" /\ pc = "read"
        BY <2>0, <2>3, Zenon DEF read_bytes, CanRun
      <3>2. UNCHANGED <<f_chn, f_flags, pending, client, seen, published>>
        BY <2>3 DEF read_bytes, clientVars
      <3> QED BY <2>1, <3>1, <3>2
    <2>4. CASE read_nothing
      <3>1. /\ ~pending /\ client = "wait" /\ pc = "read"
            /\ pc' = pc /\ client' = client /\ published' = <<f_chn', f_flags'>>
        BY <2>0, <2>4 DEF read_nothing, CanRun, Trigger
      <3> QED BY <3>1
    <2>5. CASE write_chn
      <3>1. /\ ~pending /\ client = "wait" /\ pc' = "flags"
            /\ UNCHANGED <<pending, client>>
        BY <2>0, <2>5 DEF write_chn, CanRun, clientVars
      <3> QED BY <3>1
    <2>6. CASE write_flags
      <3>1. /\ ~pending /\ client = "wait" /\ pc' = "trigger"
            /\ UNCHANGED <<pending, client>>
        BY <2>0, <2>6 DEF write_flags, CanRun, clientVars
      <3> QED BY <3>1
    <2>7. CASE trigger
      <3>1. /\ ~pending /\ client = "wait" /\ pc' = "read"
            /\ client' = client /\ published' = <<f_chn', f_flags'>>
        BY <2>0, <2>7 DEF trigger, CanRun, Trigger
      <3> QED BY <3>1
    <2>8. CASE ClientRun
      <3>1. /\ client_run /\ UNCHANGED <<pc, f_chn, f_flags, published>>
        BY <2>8 DEF ClientRun
      <3>2. seen \in Byte \X (BOOLEAN \X BOOLEAN)
        BY DEF FPortIInv
      <3>3. CASE client = "wait" /\ pending
        BY <2>1, <3>1, <3>3 DEF client_run
      <3>4. CASE client = "run"
        <4>1. seen' = [seen EXCEPT ![1] = f_chn] /\ client' = "half" /\ pending' = pending
          BY <3>1, <3>4 DEF client_run
        <4>2. seen'[1] = f_chn
          BY <3>2, <4>1
        <4> QED BY <2>1, <3>1, <3>4, <4>1, <4>2
      <3>5. CASE client = "half"
        <4>1. seen' = [seen EXCEPT ![2] = f_flags] /\ client' = "done" /\ pending' = pending
          BY <3>1, <3>5 DEF client_run
        <4>2. seen'[1] = seen[1] /\ seen'[2] = f_flags
          BY <3>2, <4>1
        <4> QED BY <2>1, <3>1, <3>5, <4>1, <4>2
      <3>6. CASE client = "done"
        BY <2>1, <3>1, <3>6 DEF client_run
      <3> QED BY <3>1, <3>3, <3>4, <3>5, <3>6 DEF client_run
    <2>9. CASE UNCHANGED vars
      BY <2>1, <2>9 DEF vars
    <2> QED BY <2>2, <2>3, <2>4, <2>5, <2>6, <2>7, <2>8, <2>9, Zenon DEF Next, fport_task
  <1>3. FPortIInv /\ ClientIInv => ClientSeesOneUpdate
    <2> SUFFICES ASSUME FPortIInv, ClientIInv, above, client = "done"
                 PROVE  seen = published
      BY Zenon DEF ClientSeesOneUpdate
    <2>1. pc = "read" /\ published = <<f_chn, f_flags>> /\ seen[1] = f_chn /\ seen[2] = f_flags
      BY DEF ClientIInv
    <2>2. seen = <<seen[1], seen[2]>>
      BY DEF FPortIInv
    <2> QED BY <2>1, <2>2, Zenon
  <1> QED BY <1>1, <1>2, <1>3, FPortTypes, PTL DEF Spec

-----------------------------------------------------------------------------
(* FPort: where sequences of bytes stand in others                         *)

\* None of the first n bytes is a boundary.
Plain(x, n) == \A k \in 1 .. n : x[k] # Boundary

\* The first a bytes of t and u are the same.
Same(t, u, a) == a <= Len(t) /\ a <= Len(u) /\ \A k \in 1 .. a : u[k] = t[k]

LEMMA AtPart ==
  ASSUME NEW t \in Seq(Byte), NEW x \in Seq(Byte), NEW y \in Seq(Byte),
         NEW o \in Nat, NEW m \in Nat, At(t, o, x), At(x, m, y)
  PROVE  At(t, o + m, y)
  <1>1. Len(t) \in Nat /\ Len(x) \in Nat /\ Len(y) \in Nat
    OBVIOUS
  <1>2. o + Len(x) <= Len(t) /\ m + Len(y) <= Len(x)
    BY Zenon DEF At
  <1>3. ASSUME NEW k \in 1 .. Len(y) PROVE t[o + m + k] = y[k]
    <2>1. m + k \in 1 .. Len(x) /\ o + (m + k) = o + m + k
      BY <1>1, <1>2
    <2>2. t[o + (m + k)] = x[m + k] /\ x[m + k] = y[k]
      BY <2>1, Zenon DEF At
    <2> QED BY <2>1, <2>2
  <1>4. o + m + Len(y) <= Len(t)
    BY <1>1, <1>2
  <1> QED BY <1>3, <1>4, Zenon DEF At

LEMMA AtJoin ==
  ASSUME NEW t \in Seq(Byte), NEW x \in Seq(Byte), NEW y \in Seq(Byte), NEW z \in Seq(Byte),
         NEW o \in Nat, Len(z) = Len(x) + Len(y), At(z, 0, x), At(z, Len(x), y),
         At(t, o, x), At(t, o + Len(x), y)
  PROVE  At(t, o, z)
  <1>1. Len(t) \in Nat /\ Len(x) \in Nat /\ Len(y) \in Nat
    OBVIOUS
  <1>2. o + Len(x) + Len(y) <= Len(t)
    BY Zenon DEF At
  <1>3. ASSUME NEW k \in 1 .. Len(z) PROVE t[o + k] = z[k]
    <2>1. CASE k <= Len(x)
      <3>1. k \in 1 .. Len(x) /\ 0 + k = k
        BY <1>1, <2>1
      <3>2. z[0 + k] = x[k] /\ t[o + k] = x[k]
        BY <3>1, Zenon DEF At
      <3> QED BY <3>1, <3>2
    <2>2. CASE ~(k <= Len(x))
      <3> DEFINE j == k - Len(x)
      <3>1. j \in 1 .. Len(y) /\ Len(x) + j = k /\ o + Len(x) + j = o + k
        BY <1>1, <2>2
      <3> HIDE DEF j
      <3>2. z[Len(x) + j] = y[j] /\ t[o + Len(x) + j] = y[j]
        BY <3>1, Zenon DEF At
      <3> QED BY <3>1, <3>2, Zenon
    <2> QED BY <2>1, <2>2
  <1>4. o + Len(z) <= Len(t)
    BY <1>1, <1>2
  <1> QED BY <1>3, <1>4, Zenon DEF At

LEMMA AtSame ==
  ASSUME NEW t \in Seq(Byte), NEW u \in Seq(Byte), NEW x \in Seq(Byte), NEW o \in Nat,
         NEW a \in Nat, Same(t, u, a), At(t, o, x), o + Len(x) <= a
  PROVE  At(u, o, x)
  <1>1. Len(u) \in Nat /\ Len(x) \in Nat /\ a <= Len(u)
    BY Zenon, LenProperties DEF Same
  <1>2. ASSUME NEW k \in 1 .. Len(x) PROVE u[o + k] = x[k]
    <2>1. o + k \in 1 .. a
      BY <1>1
    <2> QED BY <2>1, Zenon DEF At, Same
  <1>3. o + Len(x) <= Len(u)
    BY <1>1
  <1> QED BY <1>2, <1>3, Zenon DEF At

\* The bytes behind the first a of t replaced by x.
LEMMA Splice ==
  ASSUME NEW t \in Seq(Byte), NEW a \in 0 .. Len(t), NEW x \in Seq(Byte)
  PROVE  \E u \in Seq(Byte) : Len(u) = a + Len(x) /\ Same(t, u, a) /\ At(u, a, x)
  <1> DEFINE h == SubSeq(t, 1, a)
             u == h \o x
  <1>1. h \in Seq(Byte) /\ Len(h) = a /\ At(t, 0, h)
    <2>1. h \in Seq(Byte)
      BY Taking
    <2>2. Len(h) = a
      BY Taking
    <2>3. At(t, 0, h)
      BY Taking
    <2> QED BY <2>1, <2>2, <2>3, Zenon
  <1> HIDE DEF h
  <1>2. u \in Seq(Byte) /\ Len(u) = Len(h) + Len(x) /\ At(u, 0, h) /\ At(u, Len(h), x)
    <2>1. u \in Seq(Byte)
      BY <1>1, Concatenated
    <2>2. Len(u) = Len(h) + Len(x)
      BY <1>1
    <2>3. At(u, 0, h)
      BY <1>1, Concatenated
    <2>4. At(u, Len(h), x)
      BY <1>1, Concatenated
    <2> QED BY <2>1, <2>2, <2>3, <2>4, Zenon
  <1> HIDE DEF u
  <1>3. Same(t, u, a)
    <2>1. a \in Nat /\ a <= Len(t) /\ a <= Len(u) /\ \A k \in 1 .. a : 0 + k = k
      BY <1>1, <1>2
    <2>2. \A k \in 1 .. a : u[0 + k] = h[k] /\ t[0 + k] = h[k]
      BY <1>1, <1>2, Zenon DEF At
    <2>3. \A k \in 1 .. a : u[k] = t[k]
      BY <2>1, <2>2, Zenon
    <2> QED BY <2>1, <2>3, Zenon DEF Same
  <1> QED BY <1>1, <1>2, <1>3, Zenon

-----------------------------------------------------------------------------
(* FPort: the complete frames that are still to be read                    *)

\* A frame stands in t behind the first p bytes, which end with a boundary.
FrameAt(t, p) == (p = 0 \/ t[p] = Boundary) /\ \E f \in Frames : At(t, p, Encode(f))

\* The places of the frames from o on.
Begins(t, o) == {p \in o .. Len(t) : FrameAt(t, p)}

\* The last byte is not a boundary: the next frame will be lost in what is there.
Open(t) == IF t = <<>> \/ t[Len(t)] = Boundary THEN 0 ELSE 1

LEMMA BeginsFinite ==
  ASSUME NEW t \in Seq(Byte), NEW o \in Nat
  PROVE  IsFiniteSet(Begins(t, o)) /\ Cardinality(Begins(t, o)) \in Nat
  <1>1. IsFiniteSet(o .. Len(t))
    <2>1. o \in Int /\ Len(t) \in Int
      OBVIOUS
    <2> QED BY <2>1, FS_Interval, Zenon
  <1>2. Begins(t, o) \in SUBSET (o .. Len(t))
    BY Zenon DEF Begins
  <1>3. IsFiniteSet(Begins(t, o))
    BY <1>1, <1>2, FS_Subset, Zenon
  <1> QED BY <1>3, FS_CardinalityType, Zenon

\* A set with at most one element more than another.
LEMMA OneMore ==
  ASSUME NEW S, NEW T, IsFiniteSet(T), NEW x, S \subseteq T \cup {x}
  PROVE  Cardinality(S) <= Cardinality(T) + 1 /\ Cardinality(S) \in Nat
  <1>1. /\ IsFiniteSet(T \cup {x}) /\ Cardinality(T) \in Nat
        /\ Cardinality(T \cup {x}) = IF x \in T THEN Cardinality(T) ELSE Cardinality(T) + 1
    BY FS_AddElement, FS_CardinalityType, Zenon
  <1>2. IsFiniteSet(S) /\ Cardinality(S) <= Cardinality(T \cup {x})
    BY <1>1, FS_Subset, Zenon
  <1>3. Cardinality(S) \in Nat /\ Cardinality(T \cup {x}) \in Nat
    BY <1>1, <1>2, FS_CardinalityType, Zenon
  <1> QED BY <1>1, <1>2, <1>3

\* Where a frame ends.
LEMMA EndOf ==
  ASSUME NEW t \in Seq(Byte), NEW p \in Nat, NEW f \in Frames, At(t, p, Encode(f)),
         NEW e, e = p + Len(Encode(f))
  PROVE  /\ e \in Nat /\ e > p /\ e <= p + MaxPacket /\ e <= Len(t) /\ t[e] = Boundary
         /\ \A k \in p + 1 .. e - 1 : t[k] # Boundary
  <1> DEFINE x == Encode(f)
  <1>1. /\ Len(x) \in 1 .. MaxPacket /\ x[Len(x)] = Boundary
        /\ \A k \in 1 .. Len(x) - 1 : x[k] # Boundary
    BY EncodeFacts, Zenon
  <1>2. p + Len(x) <= Len(t) /\ \A k \in 1 .. Len(x) : t[p + k] = x[k]
    BY Zenon DEF At
  <1> HIDE DEF x
  <1>3. e = p + Len(x) /\ Len(x) \in Nat /\ Len(x) > 0 /\ Len(x) <= MaxPacket
    BY <1>1, PacketAssumption DEF x
  <1>4. Len(x) \in 1 .. Len(x)
    BY <1>3
  <1>5. t[e] = Boundary
    BY <1>1, <1>2, <1>3, <1>4, Zenon
  <1>6. ASSUME NEW k \in p + 1 .. e - 1 PROVE t[k] # Boundary
    <2> DEFINE j == k - p
    <2>1. j \in 1 .. Len(x) /\ j \in 1 .. Len(x) - 1 /\ p + j = k
      BY <1>3
    <2> HIDE DEF j
    <2> QED BY <1>1, <1>2, <2>1, Zenon
  <1>7. e \in Nat /\ e > p /\ e <= p + MaxPacket /\ e <= Len(t)
    BY <1>2, <1>3, PacketAssumption
  <1> QED BY <1>5, <1>6, <1>7, Zenon

\* A frame that stands before the place where t and u differ.
LEMMA BeginsSame ==
  ASSUME NEW t \in Seq(Byte), NEW u \in Seq(Byte), NEW a \in Nat, Same(t, u, a),
         NEW o \in Nat, NEW p \in Begins(t, o), NEW f \in Frames, At(t, p, Encode(f)),
         p + Len(Encode(f)) <= a
  PROVE  p \in Begins(u, o)
  <1>1. /\ p \in Nat /\ p >= o /\ Encode(f) \in Seq(Byte) /\ Len(Encode(f)) \in Nat
        /\ p = 0 \/ t[p] = Boundary
    BY EncodeFacts DEF Begins, FrameAt
  <1>2. At(u, p, Encode(f))
    BY <1>1, AtSame, Zenon
  <1>3. a <= Len(u) /\ Len(u) \in Nat
    BY DEF Same
  <1>4. p \in o .. Len(u) /\ (p # 0 => p \in 1 .. a)
    BY <1>1, <1>3
  <1>5. p = 0 \/ u[p] = Boundary
    BY <1>1, <1>4, Zenon DEF Same
  <1> QED BY <1>2, <1>4, <1>5, Zenon DEF Begins, FrameAt

LEMMA NotFewer ==
  ASSUME NEW S, NEW T, IsFiniteSet(T), S \subseteq T
  PROVE  /\ Cardinality(S) \in Nat /\ Cardinality(T) \in Nat
         /\ Cardinality(S) <= Cardinality(T)
         /\ \A q \in T : q \notin S => Cardinality(S) + 1 <= Cardinality(T)
  <1>1. /\ IsFiniteSet(S) /\ Cardinality(S) <= Cardinality(T)
        /\ Cardinality(S) \in Nat /\ Cardinality(T) \in Nat
    BY FS_Subset, FS_CardinalityType, Zenon
  <1>2. ASSUME NEW q \in T, q \notin S PROVE Cardinality(S) + 1 <= Cardinality(T)
    <2>1. Cardinality(S \cup {q}) = Cardinality(S) + 1
      BY <1>1, <1>2, FS_AddElement, Zenon
    <2>2. S \cup {q} \in SUBSET T
      BY <1>2
    <2>3. Cardinality(S \cup {q}) <= Cardinality(T)
      BY <2>2, FS_Subset, Zenon
    <2> QED BY <2>1, <2>3, Zenon
  <1> QED BY <1>1, <1>2, Zenon

LEMMA BeginFacts ==
  ASSUME NEW t \in Seq(Byte), NEW o \in Nat, NEW p \in Begins(t, o)
  PROVE  /\ p \in Nat /\ p >= o /\ (p = 0 \/ t[p] = Boundary)
         /\ \E f \in Frames : At(t, p, Encode(f))
  <1>1. p \in o .. Len(t) /\ FrameAt(t, p)
    BY Zenon DEF Begins
  <1>2. p \in Nat /\ p >= o
    BY <1>1
  <1> QED BY <1>1, <1>2, Zenon DEF FrameAt

LEMMA EncodeType ==
  ASSUME NEW f \in Frames
  PROVE  Encode(f) \in Seq(Byte) /\ Len(Encode(f)) \in Nat /\ Len(Encode(f)) > 0
  <1>1. Encode(f) \in Seq(Byte) /\ Len(Encode(f)) \in 1 .. MaxPacket
    BY EncodeFacts, Zenon
  <1> QED BY <1>1

\* A frame that is sent is one more to be read, unless bytes are left in front
\* of it.
LEMMA SendBegins ==
  ASSUME NEW t \in Seq(Byte), NEW u \in Seq(Byte), NEW f \in Frames, NEW o \in Nat,
         o <= Len(t), Same(t, u, Len(t)), At(u, Len(t), Encode(f)),
         Len(u) = Len(t) + Len(Encode(f))
  PROVE  /\ Cardinality(Begins(u, o)) >= Cardinality(Begins(t, o)) + 1 - Open(t)
         /\ Open(u) = 0
  <1> DEFINE q == Len(t)
  <1>0. q \in Nat /\ Len(u) \in Nat
    OBVIOUS
  <1>1. ASSUME NEW p \in Begins(t, o) PROVE p \in Begins(u, o) /\ p # q
    <2>1. PICK g \in Frames : At(t, p, Encode(g))
      BY BeginFacts, Zenon
    <2>2. p \in Nat
      BY BeginFacts, Zenon
    <2>3. p + Len(Encode(g)) <= q /\ p + Len(Encode(g)) > p
      BY <2>1, <2>2, EndOf, Zenon
    <2>4. p \in Begins(u, o)
      BY <1>0, <2>1, <2>3, BeginsSame, Zenon
    <2>5. Len(Encode(g)) \in Nat
      BY EncodeType, Zenon
    <2>6. p # q
      <3> HIDE DEF q
      <3> QED BY <1>0, <2>2, <2>3, <2>5
    <2> QED BY <2>4, <2>6
  <1>2. Begins(t, o) \subseteq Begins(u, o) /\ q \notin Begins(t, o)
    BY <1>1
  <1>3. IsFiniteSet(Begins(u, o))
    BY BeginsFinite, Zenon
  <1>4. /\ Cardinality(Begins(t, o)) \in Nat /\ Cardinality(Begins(u, o)) \in Nat
        /\ Cardinality(Begins(t, o)) <= Cardinality(Begins(u, o))
        /\ q \in Begins(u, o) => Cardinality(Begins(t, o)) + 1 <= Cardinality(Begins(u, o))
    BY <1>2, <1>3, NotFewer, Zenon
  <1>5. Open(t) \in {0, 1}
    BY DEF Open
  <1>6. ASSUME Open(t) = 0 PROVE q \in Begins(u, o)
    <2>1. q = 0 \/ t[q] = Boundary
      BY <1>6 DEF Open
    <2>2. q = 0 \/ q \in 1 .. Len(t)
      <3> HIDE DEF q
      <3>1. q = Len(t)
        BY DEF q
      <3> QED BY <1>0, <3>1
    <2>3. q = 0 \/ u[q] = Boundary
      BY <2>1, <2>2, Zenon DEF Same
    <2>4. q \in o .. Len(u)
      <3>1. Len(Encode(f)) \in Nat
        BY EncodeType, Zenon
      <3> QED BY <1>0, <3>1
    <2> QED BY <2>3, <2>4, Zenon DEF Begins, FrameAt
  <1>7. Open(u) = 0
    <2>1. u[Len(t) + Len(Encode(f))] = Boundary
      BY <1>0, EndOf, Zenon
    <2> QED BY <2>1 DEF Open
  <1> HIDE DEF q
  <1>8. Cardinality(Begins(u, o)) >= Cardinality(Begins(t, o)) + 1 - Open(t)
    <2> DEFINE m == Cardinality(Begins(t, o))
               n == Cardinality(Begins(u, o))
               d == Open(t)
    <2>1. /\ m \in Nat /\ n \in Nat /\ m <= n /\ d \in {0, 1}
          /\ d = 0 => m + 1 <= n
      BY <1>4, <1>5, <1>6, Zenon
    <2> HIDE DEF m, n, d
    <2>2. n >= m + 1 - d
      BY <2>1
    <2> QED BY <2>2 DEF m, n, d
  <1> QED BY <1>7, <1>8

\* What happens to the last frame costs one frame at most.
LEMMA FaultBegins ==
  ASSUME NEW t \in Seq(Byte), NEW u \in Seq(Byte), NEW o \in Nat, NEW a \in Nat,
         Same(t, u, a), \A k \in a + 1 .. Len(t) - 1 : t[k] # Boundary
  PROVE  Cardinality(Begins(u, o)) + 1 >= Cardinality(Begins(t, o))
  <1> DEFINE Bad == {p \in Begins(t, o) : p \notin Begins(u, o)}
  <1>0. Len(t) \in Nat
    OBVIOUS
  <1>1. ASSUME NEW p \in Bad
        PROVE  /\ p \in Nat /\ p < Len(t) /\ (p = 0 \/ t[p] = Boundary)
               /\ \A k \in p + 1 .. Len(t) - 1 : t[k] # Boundary
    <2>1. p \in Begins(t, o) /\ p \notin Begins(u, o)
      OBVIOUS
    <2>2. p \in Nat /\ (p = 0 \/ t[p] = Boundary)
      BY <2>1, BeginFacts, Zenon
    <2>3. PICK g \in Frames : At(t, p, Encode(g))
      BY <2>1, BeginFacts, Zenon
    <2> DEFINE e == p + Len(Encode(g))
    <2> HIDE DEF Bad
    <2>4. /\ e \in Nat /\ e > p /\ e <= Len(t) /\ t[e] = Boundary
          /\ \A k \in p + 1 .. e - 1 : t[k] # Boundary
      <3>1. p \in Nat
        BY <2>2, Zenon
      <3> QED BY <2>3, <3>1, EndOf, Zenon
    <2>5. ~(e <= a)
      BY <2>1, <2>3, BeginsSame, Zenon
    <2> HIDE DEF e
    <2>6. e = Len(t)
      <3>1. CASE e < Len(t)
        <4>1. e \in a + 1 .. Len(t) - 1
          BY <1>0, <2>4, <2>5, <3>1
        <4> QED BY <2>4, <4>1, Zenon
      <3> QED BY <1>0, <2>4, <3>1
    <2> QED BY <2>2, <2>4, <2>6
  <1>2. ASSUME NEW p \in Bad, NEW q \in Bad PROVE p = q
    <2> HIDE DEF Bad
    <2>1. ASSUME NEW x \in Bad, NEW y \in Bad PROVE ~(x < y)
      <3>1. /\ x \in Nat /\ \A k \in x + 1 .. Len(t) - 1 : t[k] # Boundary
            /\ y \in Nat /\ y < Len(t) /\ (y = 0 \/ t[y] = Boundary)
        BY <1>1, Zenon
      <3>2. x < y => y \in x + 1 .. Len(t) - 1 /\ y # 0
        BY <1>0, <3>1
      <3> QED BY <3>1, <3>2, Zenon
    <2>2. p \in Nat /\ q \in Nat /\ ~(p < q) /\ ~(q < p)
      BY <1>1, <2>1, Zenon
    <2> QED BY <2>2
  <1>3. \E x : Begins(t, o) \subseteq Begins(u, o) \cup {x}
    <2>1. CASE Bad = {}
      BY <2>1
    <2>2. CASE Bad # {}
      <3>1. PICK x : x \in Bad
        BY <2>2
      <3>2. \A y \in Bad : y = x
        BY <1>2, <3>1, Zenon
      <3>3. Begins(t, o) \subseteq Begins(u, o) \cup {x}
        BY <3>2
      <3> QED BY <3>3
    <2> QED BY <2>1, <2>2
  <1>4. IsFiniteSet(Begins(u, o)) /\ Cardinality(Begins(u, o)) \in Nat
    BY BeginsFinite, Zenon
  <1>5. Cardinality(Begins(t, o)) \in Nat /\ Cardinality(Begins(t, o)) <= Cardinality(Begins(u, o)) + 1
    BY <1>3, <1>4, OneMore, Zenon
  <1> QED BY <1>4, <1>5

\* Passing over bytes with a boundary at the end passes over one frame at most.
LEMMA SkipBegins ==
  ASSUME NEW t \in Seq(Byte), NEW o \in Nat, NEW e \in Nat, e > o, e <= Len(t),
         \A k \in o + 1 .. e - 1 : t[k] # Boundary
  PROVE  /\ Cardinality(Begins(t, e)) + 1 >= Cardinality(Begins(t, o))
         /\ o \notin Begins(t, o) =>
              Cardinality(Begins(t, e)) >= Cardinality(Begins(t, o))
  <1>1. ASSUME NEW p \in Begins(t, o), p # o PROVE p \in Begins(t, e)
    <2>1. p \in Nat /\ p >= o /\ (p = 0 \/ t[p] = Boundary)
      BY BeginFacts, Zenon
    <2>2. p \in o .. Len(t) /\ FrameAt(t, p)
      BY Zenon DEF Begins
    <2>3. ~(p < e)
      <3>1. p < e => p \in o + 1 .. e - 1 /\ p # 0
        BY <1>1, <2>1
      <3> QED BY <2>1, <3>1, Zenon
    <2>4. p \in e .. Len(t)
      BY <2>1, <2>2, <2>3
    <2> QED BY <2>2, <2>4, Zenon DEF Begins
  <1>2. IsFiniteSet(Begins(t, e)) /\ Cardinality(Begins(t, e)) \in Nat
    BY BeginsFinite, Zenon
  <1>3. Begins(t, o) \subseteq Begins(t, e) \cup {o}
    BY <1>1
  <1>4. /\ Cardinality(Begins(t, o)) \in Nat
        /\ Cardinality(Begins(t, o)) <= Cardinality(Begins(t, e)) + 1
    BY <1>2, <1>3, OneMore, Zenon
  <1>5. ASSUME o \notin Begins(t, o)
        PROVE  Cardinality(Begins(t, o)) <= Cardinality(Begins(t, e))
    <2>1. Begins(t, o) \subseteq Begins(t, e)
      BY <1>1, <1>5
    <2> QED BY <1>2, <2>1, NotFewer, Zenon
  <1> QED BY <1>2, <1>4, <1>5

-----------------------------------------------------------------------------
(* FPort: what a fault costs                                               *)

\* The buffer, the port and the line hold the end of t, from o on.
Placed(t, o, b, r, w) ==
  /\ o + Len(b) + Len(r) + Len(w) = Len(t)
  /\ At(t, o, b) /\ At(t, o + Len(b), r) /\ At(t, o + Len(b) + Len(r), w)

\* A frame on the line ends with its only boundary.
OnLine(w) == Plain(w, Len(w) - 1) /\ (w # <<>> => w[Len(w)] = Boundary)

ShapeIInv == Plain(buf, Len(buf)) /\ OnLine(wire)

LEMMA PlainPart ==
  ASSUME NEW t \in Seq(Byte), NEW x \in Seq(Byte), NEW o \in Nat, NEW n \in Nat,
         n <= Len(x), At(t, o, x), Plain(x, n)
  PROVE  \A k \in o + 1 .. o + n : t[k] # Boundary
  <1>1. ASSUME NEW k \in o + 1 .. o + n PROVE t[k] # Boundary
    <2> DEFINE j == k - o
    <2>1. j \in 1 .. Len(x) /\ j \in 1 .. n /\ o + j = k
      OBVIOUS
    <2> HIDE DEF j
    <2> QED BY <2>1, Zenon DEF At, Plain
  <1> QED BY <1>1

LEMMA OnLineTail ==
  ASSUME NEW w \in Seq(Byte), w # <<>>, OnLine(w)
  PROVE  /\ Tail(w) \in Seq(Byte) /\ Len(Tail(w)) = Len(w) - 1 /\ At(w, 1, Tail(w))
         /\ Head(w) \in Byte /\ Head(w) = w[1]
         /\ OnLine(Tail(w))
  <1> DEFINE v == Tail(w)
  <1>1. /\ v \in Seq(Byte) /\ Len(v) = Len(w) - 1 /\ Len(w) \in Nat /\ Len(w) > 0
        /\ \A k \in 1 .. Len(v) : v[k] = w[k + 1]
        /\ Head(w) \in Byte /\ Head(w) = w[1]
    OBVIOUS
  <1> HIDE DEF v
  <1>2. \A k \in 1 .. Len(v) : 1 + k = k + 1 /\ k + 1 \in 1 .. Len(w)
    BY <1>1
  <1>3. At(w, 1, v)
    <2>1. 1 + Len(v) <= Len(w)
      BY <1>1
    <2> QED BY <1>1, <1>2, <2>1, Zenon DEF At
  <1>4. Plain(v, Len(v) - 1)
    <2>1. ASSUME NEW k \in 1 .. Len(v) - 1 PROVE v[k] # Boundary
      <3>1. k \in 1 .. Len(v) /\ k + 1 \in 1 .. Len(w) - 1
        BY <1>1
      <3> QED BY <1>1, <3>1, Zenon DEF OnLine, Plain
    <2> QED BY <2>1, Zenon DEF Plain
  <1>5. v # <<>> => v[Len(v)] = Boundary
    <2>1. ASSUME v # <<>> PROVE v[Len(v)] = Boundary
      <3>1. Len(v) \in 1 .. Len(v) /\ Len(v) + 1 = Len(w)
        BY <1>1, <2>1
      <3>2. w[Len(w)] = Boundary
        BY Zenon DEF OnLine
      <3> QED BY <1>1, <3>1, <3>2, Zenon
    <2> QED BY <2>1
  <1>6. OnLine(v)
    BY <1>4, <1>5, Zenon DEF OnLine
  <1> QED BY <1>1, <1>3, <1>6, Zenon DEF v

\* Bytes that end with the first boundary after o are the frame that stands
\* there.
LEMMA FrameThere ==
  ASSUME NEW t \in Seq(Byte), NEW o \in Nat, NEW x \in Seq(Byte), Len(x) > 0,
         At(t, o, x), x[Len(x)] = Boundary, Plain(x, Len(x) - 1),
         NEW f \in Frames, At(t, o, Encode(f))
  PROVE  x = Encode(f)
  <1> DEFINE y == Encode(f)
             e == o + Len(y)
  <1>2. y \in Seq(Byte) /\ Len(y) \in Nat /\ Len(y) > 0 /\ Len(x) \in Nat
    BY EncodeType
  <1>3. /\ e \in Nat /\ e > o /\ t[e] = Boundary
        /\ \A k \in o + 1 .. e - 1 : t[k] # Boundary
    BY EndOf, Zenon
  <1> HIDE DEF y
  <1>4. t[o + Len(x)] = Boundary
    <2>1. Len(x) \in 1 .. Len(x)
      BY <1>2
    <2> QED BY <2>1, Zenon DEF At
  <1>5. ~(Len(x) < Len(y))
    <2>1. Len(x) < Len(y) => o + Len(x) \in o + 1 .. e - 1
      BY <1>2
    <2> QED BY <1>3, <1>4, <2>1, Zenon
  <1>6. ~(Len(y) < Len(x))
    <2>1. ASSUME Len(y) < Len(x) PROVE FALSE
      <3>1. Len(y) \in 1 .. Len(x) /\ Len(y) \in 1 .. Len(x) - 1
        BY <1>2, <2>1
      <3>2. t[o + Len(y)] = x[Len(y)] /\ x[Len(y)] # Boundary
        BY <3>1, Zenon DEF At, Plain
      <3> QED BY <1>3, <3>2, Zenon
    <2> QED BY <2>1
  <1>7. Len(x) = Len(y)
    BY <1>2, <1>5, <1>6
  <1>8. \A k \in 1 .. Len(x) : x[k] = y[k]
    <2>1. \A k \in 1 .. Len(x) : t[o + k] = x[k]
      BY Zenon DEF At
    <2>2. \A k \in 1 .. Len(y) : t[o + k] = y[k]
      BY Zenon DEF At, y
    <2> QED BY <1>7, <2>1, <2>2, Zenon
  <1>9. x = y
    BY <1>2, <1>7, <1>8, SeqEqual, Zenon
  <1> QED BY <1>9 DEF y

\* Starting a full buffer over leaves out no frame.
LEMMA StartOver ==
  ASSUME FPortIInv, ShapeIInv, NEW t \in Seq(Byte), NEW o \in Nat,
         Placed(t, o, buf, unread, wire)
  PROVE  \E p \in Nat : /\ Placed(t, p, Start, unread, wire)
                        /\ Cardinality(Begins(t, p)) >= Cardinality(Begins(t, o))
  <1>0. /\ buf \in Seq(Byte) /\ unread \in Seq(Byte) /\ wire \in Seq(Byte)
        /\ Len(buf) \in Nat /\ Len(unread) \in Nat /\ Len(wire) \in Nat
        /\ MaxPacket \in Nat /\ MaxPacket > 0
    BY PacketAssumption DEF FPortIInv, TypeOK, Byte, ControlLen
  <1>1. CASE Len(buf) # MaxPacket
    <2>1. Start = buf
      BY <1>1 DEF Start
    <2>2. Cardinality(Begins(t, o)) \in Nat
      BY BeginsFinite, Zenon
    <2>3. Cardinality(Begins(t, o)) >= Cardinality(Begins(t, o))
      BY <2>2
    <2> QED BY <2>1, <2>3, Zenon
  <1>2. CASE Len(buf) = MaxPacket
    <2> DEFINE p == o + MaxPacket
    <2>1. Start = <<>> /\ Len(Start) = 0
      BY <1>2 DEF Start
    <2>2. /\ o + Len(buf) + Len(unread) + Len(wire) = Len(t) /\ At(t, o, buf)
          /\ At(t, o + Len(buf), unread) /\ At(t, o + Len(buf) + Len(unread), wire)
      BY Zenon DEF Placed
    <2>3. p \in Nat /\ p > o /\ p <= Len(t)
      BY <1>0, <1>2, <2>2
    <2>4. \A k \in o + 1 .. o + Len(buf) : t[k] # Boundary
      <3>1. Len(buf) <= Len(buf)
        BY <1>0
      <3> QED BY <1>0, <2>2, <3>1, PlainPart, Zenon DEF ShapeIInv
    <2>5. Placed(t, p, Start, unread, wire)
      <3>1. p + Len(Start) = o + Len(buf) /\ p + Len(Start) + Len(unread) = o + Len(buf) + Len(unread)
        BY <1>0, <1>2, <2>1
      <3>2. At(t, p, Start)
        BY <1>0, <2>1, <2>3 DEF At
      <3> QED BY <2>2, <3>1, <3>2, Zenon DEF Placed
    <2>6. o \notin Begins(t, o)
      <3>1. SUFFICES ASSUME o \in Begins(t, o) PROVE FALSE
        OBVIOUS
      <3>2. PICK f \in Frames : At(t, o, Encode(f))
        BY <3>1, BeginFacts, Zenon
      <3> DEFINE e == o + Len(Encode(f))
      <3>3. e \in Nat /\ e > o /\ e <= o + MaxPacket /\ t[e] = Boundary
        BY <3>2, EndOf, Zenon
      <3> HIDE DEF e
      <3>4. e \in o + 1 .. o + Len(buf)
        BY <1>0, <1>2, <3>3
      <3> QED BY <2>4, <3>3, <3>4, Zenon
    <2>7. \A k \in o + 1 .. p - 1 : t[k] # Boundary
      <3>1. \A k \in o + 1 .. p - 1 : k \in o + 1 .. o + Len(buf)
        BY <1>0, <1>2
      <3> QED BY <2>4, <3>1, Zenon
    <2> HIDE DEF p
    <2>8. Cardinality(Begins(t, p)) >= Cardinality(Begins(t, o))
      BY <2>3, <2>6, <2>7, SkipBegins, Zenon
    <2> QED BY <2>3, <2>5, <2>8, Zenon
  <1> QED BY <1>1, <1>2, Zenon

\* A frame that was taken and is not yet counted in applied.
Held == IF pc \in {"chn", "flags"} THEN 1 ELSE 0

\* The bytes before the last that a read adds to are no boundaries.
LEMMA ReadPlain ==
  ASSUME NEW x \in Seq(Byte), NEW b \in Seq(Byte), NEW y \in Seq(Byte), NEW r \in Seq(Byte),
         At(x, 0, b), At(x, Len(b), y), Len(x) = Len(b) + Len(y),
         Plain(b, Len(b)), At(r, 0, y), \A k \in 1 .. Len(y) - 1 : r[k] # Boundary
  PROVE  Plain(x, Len(x) - 1)
  <1>1. Len(x) \in Nat /\ Len(b) \in Nat /\ Len(y) \in Nat
    OBVIOUS
  <1>2. ASSUME NEW k \in 1 .. Len(x) - 1 PROVE x[k] # Boundary
    <2>1. CASE k <= Len(b)
      <3>1. k \in 1 .. Len(b) /\ 0 + k = k
        BY <2>1
      <3> QED BY <3>1, Zenon DEF At, Plain
    <2>2. CASE ~(k <= Len(b))
      <3> DEFINE j == k - Len(b)
      <3>1. j \in 1 .. Len(y) /\ j \in 1 .. Len(y) - 1 /\ Len(b) + j = k /\ 0 + j = j
        BY <1>1, <2>2
      <3> HIDE DEF j
      <3>2. x[Len(b) + j] = y[j] /\ r[0 + j] = y[j] /\ r[j] # Boundary
        BY <3>1, Zenon DEF At
      <3> QED BY <3>1, <3>2, Zenon
    <2> QED BY <2>1, <2>2
  <1> QED BY <1>2, Zenon DEF Plain

\* What a read does when the buffer it goes on with, the port and the line stand
\* at p in t.
LEMMA ReadPlaced ==
  ASSUME FPortIInv, ShapeIInv, NEW n \in 1 .. Backlog, read_bytes(n),
         NEW t \in Seq(Byte), NEW p \in Nat, Placed(t, p, Start, unread, wire)
  PROVE  \E x \in Seq(Byte) :
           /\ Len(x) \in Nat /\ Len(x) > 0 /\ p + Len(x) <= Len(t)
           /\ At(t, p, x) /\ Plain(x, Len(x) - 1)
           /\ IF x[Len(x)] # Boundary
              THEN /\ Placed(t, p, buf', unread', wire) /\ Plain(buf', Len(buf'))
                   /\ UNCHANGED <<pc, frame>>
              ELSE /\ Placed(t, p + Len(x), buf', unread', wire)
                   /\ Plain(buf', Len(buf'))
                   /\ IF Accepted(x) THEN frame' = FrameIn(x) /\ pc' = "chn"
                      ELSE UNCHANGED <<pc, frame>>
  <1>1. PICK x, y, z \in Seq(Byte) :
           /\ Start \in Seq(Byte) /\ Len(x) = Len(Start) + n /\ Len(x) <= MaxPacket
           /\ n \in Nat /\ n > 0 /\ Len(y) = n /\ Len(unread) = n + Len(z)
           /\ At(x, 0, Start) /\ At(x, Len(Start), y)
           /\ At(unread, 0, y) /\ At(unread, n, z) /\ unread' = z
           /\ \A k \in 1 .. n - 1 : unread[k] # Boundary
           /\ IF x[Len(x)] # Boundary
              THEN buf' = x /\ UNCHANGED <<pc, frame>>
              ELSE /\ buf' = <<>>
                   /\ IF Accepted(x) THEN frame' = FrameIn(x) /\ pc' = "chn"
                      ELSE UNCHANGED <<pc, frame>>
    BY ReadBytes, Zenon
  <1>3. /\ buf \in Seq(Byte) /\ unread \in Seq(Byte) /\ wire \in Seq(Byte)
        /\ Len(buf) \in Nat /\ Len(unread) \in Nat /\ Len(wire) \in Nat
        /\ Len(Start) \in Nat /\ Len(x) \in Nat /\ Len(z) \in Nat /\ Len(t) \in Nat
    <2>1. buf \in Seq(Byte) /\ unread \in Seq(Byte) /\ wire \in Seq(Byte)
      BY Zenon DEF FPortIInv, TypeOK, Byte
    <2>2. Start \in Seq(Byte) /\ x \in Seq(Byte) /\ z \in Seq(Byte)
      BY <1>1, Zenon
    <2>3. \A w \in Seq(Byte) : Len(w) \in Nat
      OBVIOUS
    <2> QED BY <2>1, <2>2, <2>3, Zenon
  <1>6. /\ p + Len(Start) + Len(unread) + Len(wire) = Len(t) /\ At(t, p, Start)
        /\ At(t, p + Len(Start), unread) /\ At(t, p + Len(Start) + Len(unread), wire)
    BY Zenon DEF Placed
  <1>7. At(t, p, x)
    <2>1. At(t, p + Len(Start), y)
      <3>1. At(t, p + Len(Start) + 0, y)
        BY <1>1, <1>3, <1>6, AtPart
      <3>2. p + Len(Start) + 0 = p + Len(Start)
        BY <1>3
      <3> QED BY <3>1, <3>2, Zenon
    <2> QED BY <1>1, <1>6, <2>1, AtJoin, Zenon
  <1>8. /\ At(t, p + Len(x), z) /\ At(t, p + Len(x) + Len(z), wire)
        /\ p + Len(x) + Len(z) + Len(wire) = Len(t)
    <2>1. At(t, p + Len(Start) + n, z)
      <3>1. p + Len(Start) \in Nat
        BY <1>3
      <3> QED BY <1>1, <1>3, <1>6, <3>1, AtPart, Zenon
    <2>2. /\ p + Len(Start) + n = p + Len(x)
          /\ p + Len(Start) + Len(unread) = p + Len(x) + Len(z)
          /\ p + Len(x) + Len(z) + Len(wire) = Len(t)
      BY <1>1, <1>3, <1>6
    <2> QED BY <1>6, <2>1, <2>2, Zenon
  <1>9. Plain(x, Len(x) - 1)
    <2>1. Plain(Start, Len(Start))
      <3>1. CASE Len(buf) = MaxPacket
        BY <3>1 DEF Start, Plain
      <3>2. CASE Len(buf) # MaxPacket
        BY <3>2, Zenon DEF Start, ShapeIInv
      <3> QED BY <3>1, <3>2
    <2> QED BY <1>1, <1>3, <2>1, ReadPlain, Zenon
  <1>2. Len(x) > 0 /\ p + Len(x) <= Len(t)
    BY <1>1, <1>3, <1>8
  <1>10. CASE x[Len(x)] # Boundary
    <2>1. buf' = x
      BY <1>1, <1>10, Zenon
    <2>2. Plain(x, Len(x))
      <3>1. \A k \in 1 .. Len(x) : k = Len(x) \/ k \in 1 .. Len(x) - 1
        BY <1>3
      <3> QED BY <1>9, <1>10, <3>1, Zenon DEF Plain
    <2>3. Placed(t, p, buf', unread', wire)
      BY <1>1, <1>7, <1>8, <2>1, Zenon DEF Placed
    <2> QED BY <1>1, <1>2, <1>3, <1>7, <1>9, <1>10, <2>1, <2>2, <2>3, Zenon
  <1>11. CASE x[Len(x)] = Boundary
    <2>1. buf' = <<>> /\ Len(<<>>) = 0
      BY <1>1, <1>11
    <2>2. Plain(buf', Len(buf'))
      BY <2>1 DEF Plain
    <2>3. Placed(t, p + Len(x), buf', unread', wire)
      <3> DEFINE q == p + Len(x)
      <3>1. q + Len(<<>>) = q /\ At(t, q, <<>>)
        BY <1>2, <1>3 DEF At
      <3> QED BY <1>1, <1>8, <2>1, <3>1, Zenon DEF Placed
    <2> QED BY <1>1, <1>2, <1>3, <1>7, <1>9, <1>11, <2>2, <2>3, Zenon
  <1> QED BY <1>10, <1>11, Zenon

\* A read goes on in t, and what it leaves behind is taken or was no frame.
LEMMA ReadLine ==
  ASSUME FPortIInv, ShapeIInv, NEW n \in 1 .. Backlog, read_bytes(n),
         NEW t \in Seq(Byte), NEW o \in Nat, Placed(t, o, buf, unread, wire)
  PROVE  /\ Plain(buf', Len(buf'))
         /\ \E q \in Nat : /\ Placed(t, q, buf', unread', wire)
                           /\ Cardinality(Begins(t, q)) + Held' >= Cardinality(Begins(t, o))
  <1>1. PICK p \in Nat : /\ Placed(t, p, Start, unread, wire)
                         /\ Cardinality(Begins(t, p)) >= Cardinality(Begins(t, o))
    BY StartOver, Zenon
  <1>2. PICK x \in Seq(Byte) :
           /\ Len(x) \in Nat /\ Len(x) > 0 /\ p + Len(x) <= Len(t)
           /\ At(t, p, x) /\ Plain(x, Len(x) - 1)
           /\ IF x[Len(x)] # Boundary
              THEN /\ Placed(t, p, buf', unread', wire) /\ Plain(buf', Len(buf'))
                   /\ UNCHANGED <<pc, frame>>
              ELSE /\ Placed(t, p + Len(x), buf', unread', wire)
                   /\ Plain(buf', Len(buf'))
                   /\ IF Accepted(x) THEN frame' = FrameIn(x) /\ pc' = "chn"
                      ELSE UNCHANGED <<pc, frame>>
    BY <1>1, ReadPlaced, Zenon
  <1>3. PICK h \in {0, 1} : h = Held' /\ (pc' = "chn" => h = 1)
    <2>1. Held' \in {0, 1} /\ (pc' = "chn" => Held' = 1)
      BY DEF Held
    <2> QED BY <2>1, Zenon
  <1>4. /\ Cardinality(Begins(t, o)) \in Nat
        /\ \A i \in Nat : Cardinality(Begins(t, i)) \in Nat
    BY BeginsFinite, Zenon
  <1> DEFINE q == p + Len(x)
             b == Cardinality(Begins(t, q))
             c == Cardinality(Begins(t, p))
             d == Cardinality(Begins(t, o))
  <1>5. q \in Nat /\ q > p /\ q <= Len(t)
    BY <1>2
  <1>6. b \in Nat /\ c \in Nat /\ d \in Nat /\ c >= d
    BY <1>1, <1>4, <1>5, Zenon
  <1>7. CASE x[Len(x)] # Boundary
    <2>1. c + Held' >= d
      <3> HIDE DEF b, c, d, q
      <3>1. c + h >= d
        BY <1>6
      <3> QED BY <1>3, <3>1, Zenon
    <2> QED BY <1>2, <1>7, <2>1, Zenon
  <1>8. CASE x[Len(x)] = Boundary
    <2>1. \A k \in p + 1 .. q - 1 : t[k] # Boundary
      <3>1. \A k \in p + 1 .. p + (Len(x) - 1) : t[k] # Boundary
        <4>1. Len(x) - 1 \in Nat /\ Len(x) - 1 <= Len(x)
          BY <1>2
        <4> QED BY <1>2, <4>1, PlainPart, Zenon
      <3>2. p + (Len(x) - 1) = q - 1
        BY <1>2
      <3> QED BY <3>1, <3>2, Zenon
    <2>2. b + 1 >= c /\ (p \notin Begins(t, p) => b >= c)
      <3> HIDE DEF q
      <3> QED BY <1>5, <2>1, SkipBegins, Zenon
    <2>3. ASSUME p \in Begins(t, p) PROVE h = 1
      <3>1. PICK f \in Frames : At(t, p, Encode(f))
        BY <2>3, BeginFacts, Zenon
      <3>2. x = Encode(f)
        BY <1>2, <1>8, <3>1, FrameThere, Zenon
      <3>3. Accepted(x)
        BY <3>2, EncodeFacts, Zenon
      <3> QED BY <1>2, <1>3, <1>8, <3>3, Zenon
    <2>4. b + Held' >= d
      <3> HIDE DEF b, c, d, q
      <3>1. CASE p \in Begins(t, p)
        <4>1. h = 1
          BY <2>3, <3>1
        <4>2. b + h >= d
          BY <1>6, <2>2, <4>1
        <4> QED BY <1>3, <4>2, Zenon
      <3>2. CASE p \notin Begins(t, p)
        <4>1. b + h >= d
          BY <1>6, <2>2, <3>2
        <4> QED BY <1>3, <4>1, Zenon
      <3> QED BY <3>1, <3>2
    <2> QED BY <1>2, <1>5, <1>8, <2>4, Zenon
  <1> QED BY <1>7, <1>8, Zenon

\* Frames taken and still to come make up for the frames that were sent, but
\* for two for each fault; bytes left over at the end will cost one more.
Counted(t, o, done, held, lost, made) ==
  done + held + 2 * lost + Cardinality(Begins(t, o)) >= made + Open(t)

LineIInv ==
  \E t \in Seq(Byte), o \in Nat :
    /\ Placed(t, o, buf, unread, wire)
    /\ Counted(t, o, Len(applied), Held, faults, Len(sent))

LEMMA CountType ==
  ASSUME NEW t \in Seq(Byte), NEW o \in Nat
  PROVE  Cardinality(Begins(t, o)) \in Nat /\ Open(t) \in {0, 1}
  <1>1. Open(t) \in {0, 1}
    BY DEF Open
  <1> QED BY <1>1, BeginsFinite, Zenon

LEMMA PlacedFacts ==
  ASSUME NEW t \in Seq(Byte), NEW o \in Nat, NEW b \in Seq(Byte), NEW r \in Seq(Byte),
         NEW w \in Seq(Byte), Placed(t, o, b, r, w),
         NEW a, a = o + Len(b) + Len(r)
  PROVE  /\ a \in Nat /\ a <= Len(t) /\ a + Len(w) = Len(t) /\ At(t, a, w)
         /\ OnLine(w) => \A k \in a + 1 .. Len(t) - 1 : t[k] # Boundary
  <1>1. /\ Len(t) \in Nat /\ Len(b) \in Nat /\ Len(r) \in Nat /\ Len(w) \in Nat
        /\ o + Len(b) + Len(r) + Len(w) = Len(t)
    BY DEF Placed
  <1>2. a \in Nat /\ a <= Len(t) /\ a + Len(w) = Len(t)
    BY <1>1
  <1>3. At(t, a, w)
    BY Zenon DEF Placed
  <1>4. ASSUME OnLine(w) PROVE \A k \in a + 1 .. Len(t) - 1 : t[k] # Boundary
    <2>1. CASE Len(w) = 0
      BY <1>2, <2>1
    <2>2. CASE Len(w) # 0
      <3>1. Len(w) - 1 \in Nat /\ Len(w) - 1 <= Len(w) /\ a + (Len(w) - 1) = Len(t) - 1
        BY <1>1, <1>2, <2>2
      <3>2. \A k \in a + 1 .. a + (Len(w) - 1) : t[k] # Boundary
        BY <1>2, <1>3, <1>4, <3>1, PlainPart, Zenon DEF OnLine
      <3> QED BY <3>1, <3>2, Zenon
    <2> QED BY <2>1, <2>2
  <1> QED BY <1>2, <1>3, <1>4, Zenon

\* Other bytes on the line.
LEMMA LineReplaced ==
  ASSUME NEW t \in Seq(Byte), NEW o \in Nat, NEW b \in Seq(Byte), NEW r \in Seq(Byte),
         NEW w \in Seq(Byte), Placed(t, o, b, r, w), NEW v \in Seq(Byte),
         NEW a, a = o + Len(b) + Len(r)
  PROVE  \E u \in Seq(Byte) :
           /\ Placed(u, o, b, r, v)
           /\ Len(u) = a + Len(v) /\ Same(t, u, a) /\ At(u, a, v)
  <1>1. a \in Nat /\ a <= Len(t) /\ Len(t) \in Nat
    BY PlacedFacts
  <1>2. a \in 0 .. Len(t)
    BY <1>1
  <1>3. PICK u \in Seq(Byte) : Len(u) = a + Len(v) /\ Same(t, u, a) /\ At(u, a, v)
    BY <1>2, Splice, Zenon
  <1>4. Len(b) \in Nat /\ Len(r) \in Nat /\ Len(v) \in Nat
    OBVIOUS
  <1>5. At(u, o, b)
    <2>1. o + Len(b) <= a
      BY <1>4
    <2> QED BY <1>1, <1>3, <2>1, AtSame, Zenon DEF Placed
  <1>6. At(u, o + Len(b), r)
    <2>1. o + Len(b) + Len(r) <= a /\ o + Len(b) \in Nat
      BY <1>4
    <2> QED BY <1>1, <1>3, <2>1, AtSame, Zenon DEF Placed
  <1>7. Placed(u, o, b, r, v)
    BY <1>3, <1>5, <1>6, Zenon DEF Placed
  <1> QED BY <1>3, <1>7, Zenon

\* A byte that leaves the line enters the port.
LEMMA ByteMoves ==
  ASSUME NEW t \in Seq(Byte), NEW o \in Nat, NEW b \in Seq(Byte), NEW r \in Seq(Byte),
         NEW v \in Seq(Byte), NEW w \in Seq(Byte), NEW byte \in Byte,
         Len(v) = Len(w) + 1, v[1] = byte, At(v, 1, w), Placed(t, o, b, r, v)
  PROVE  Placed(t, o, b, Append(r, byte), w)
  <1> DEFINE s == Append(r, byte)
             a == o + Len(b) + Len(r)
  <1>1. /\ s \in Seq(Byte) /\ Len(s) = Len(r) + 1 /\ s[Len(r) + 1] = byte
        /\ \A k \in 1 .. Len(r) : s[k] = r[k]
    OBVIOUS
  <1>2. /\ Len(t) \in Nat /\ Len(b) \in Nat /\ Len(r) \in Nat /\ Len(v) \in Nat
        /\ Len(w) \in Nat
    OBVIOUS
  <1>3. a \in Nat /\ a + Len(v) = Len(t) /\ At(t, a, v) /\ At(t, o, b) /\ At(t, o + Len(b), r)
    BY <1>2 DEF Placed
  <1>4. At(t, a + 1, w)
    BY <1>3, AtPart
  <1>5. t[a + 1] = byte
    <2>1. 1 \in 1 .. Len(v)
      BY <1>2
    <2> QED BY <1>3, <2>1, Zenon DEF At
  <1> HIDE DEF s
  <1>6. At(t, o + Len(b), s)
    <2>1. ASSUME NEW k \in 1 .. Len(s) PROVE t[o + Len(b) + k] = s[k]
      <3>1. CASE k = Len(r) + 1
        <4>1. o + Len(b) + k = a + 1
          BY <1>2, <3>1
        <4> QED BY <1>1, <1>5, <3>1, <4>1, Zenon
      <3>2. CASE k # Len(r) + 1
        <4>1. k \in 1 .. Len(r)
          BY <1>1, <1>2, <3>2
        <4> QED BY <1>1, <1>3, <4>1, Zenon DEF At
      <3> QED BY <3>1, <3>2
    <2>2. o + Len(b) + Len(s) <= Len(t)
      BY <1>1, <1>2, <1>3
    <2> QED BY <2>1, <2>2, Zenon DEF At
  <1>7. o + Len(b) + Len(s) = a + 1 /\ o + Len(b) + Len(s) + Len(w) = Len(t)
    BY <1>1, <1>2, <1>3
  <1>8. Placed(t, o, b, s, w)
    BY <1>3, <1>4, <1>6, <1>7, Zenon DEF Placed
  <1> QED BY <1>8 DEF s

\* A fault on the line costs two frames at most: the one it hits and the one
\* that comes after bytes without a boundary.
LEMMA FaultCounted ==
  ASSUME NEW t \in Seq(Byte), NEW u \in Seq(Byte), NEW o \in Nat, NEW a \in Nat,
         Same(t, u, a), \A k \in a + 1 .. Len(t) - 1 : t[k] # Boundary,
         NEW done \in Nat, NEW held \in Nat, NEW lost \in Nat, NEW made \in Nat,
         Counted(t, o, done, held, lost, made)
  PROVE  Counted(u, o, done, held, lost + 1, made)
  <1> DEFINE c == Cardinality(Begins(t, o))
             d == Cardinality(Begins(u, o))
             i == Open(t)
             j == Open(u)
  <1>1. d + 1 >= c
    BY FaultBegins, Zenon
  <1>2. c \in Nat /\ d \in Nat /\ i \in {0, 1} /\ j \in {0, 1}
    BY CountType, Zenon
  <1>3. done + held + 2 * lost + c >= made + i
    BY Zenon DEF Counted
  <1> HIDE DEF c, d, i, j
  <1>4. done + held + 2 * (lost + 1) + d >= made + j
    BY <1>1, <1>2, <1>3
  <1> QED BY <1>4, Zenon DEF Counted, d, j

LEMMA LineInit == Init => ShapeIInv /\ LineIInv
  <1> SUFFICES ASSUME Init PROVE ShapeIInv /\ LineIInv
    OBVIOUS
  <1>1. /\ wire = <<>> /\ buf = <<>> /\ unread = <<>> /\ sent = <<>> /\ applied = <<>>
        /\ faults = 0 /\ Held = 0
    BY DEF Init, Held
  <1>2. Placed(<<>>, 0, buf, unread, wire)
    BY <1>1 DEF Placed, At
  <1>3. Counted(<<>>, 0, Len(applied), Held, faults, Len(sent))
    <2> DEFINE c == Cardinality(Begins(<<>>, 0))
    <2>1. <<>> \in Seq(Byte) /\ Open(<<>>) = 0 /\ 0 \in Nat
      BY DEF Open
    <2>2. c \in Nat
      BY <2>1, CountType, Zenon
    <2> HIDE DEF c
    <2>3. Len(applied) + Held + 2 * faults + c >= Len(sent) + 0
      BY <1>1, <2>2
    <2> QED BY <2>1, <2>3, Zenon DEF Counted, c
  <1>4. ShapeIInv
    BY <1>1 DEF ShapeIInv, Plain, OnLine
  <1>5. <<>> \in Seq(Byte) /\ 0 \in Nat
    OBVIOUS
  <1> QED BY <1>2, <1>3, <1>4, <1>5, Zenon DEF LineIInv

LEMMA LineStep == FPortIInv /\ ShapeIInv /\ LineIInv /\ Line => (ShapeIInv /\ LineIInv)'
  <1> SUFFICES ASSUME FPortIInv, ShapeIInv, LineIInv, Line
               PROVE  (ShapeIInv /\ LineIInv)'
    OBVIOUS
  <1>1. PICK t \in Seq(Byte), o \in Nat :
          /\ Placed(t, o, buf, unread, wire)
          /\ Counted(t, o, Len(applied), Held, faults, Len(sent))
    BY Zenon DEF LineIInv
  <1>2. /\ buf \in Seq(Byte) /\ unread \in Seq(Byte) /\ wire \in Seq(Byte)
        /\ faults \in Nat /\ Len(applied) \in Nat /\ Len(sent) \in Nat /\ Held \in Nat
        /\ sent \in Seq(Frames)
    BY DEF FPortIInv, TypeOK, Byte, Held
  <1>3. Plain(buf, Len(buf)) /\ OnLine(wire)
    BY Zenon DEF ShapeIInv
  <1> DEFINE a == o + Len(buf) + Len(unread)
  <1>4. /\ a \in Nat /\ a <= Len(t) /\ a + Len(wire) = Len(t) /\ At(t, a, wire)
        /\ \A k \in a + 1 .. Len(t) - 1 : t[k] # Boundary
    <2>1. a = o + Len(buf) + Len(unread)
      OBVIOUS
    <2> HIDE DEF a
    <2>2. a \in Nat /\ a <= Len(t) /\ a + Len(wire) = Len(t) /\ At(t, a, wire)
      BY <1>1, <1>2, <2>1, PlacedFacts
    <2>3. \A k \in a + 1 .. Len(t) - 1 : t[k] # Boundary
      BY <1>1, <1>2, <1>3, <2>1, PlacedFacts
    <2> QED BY <2>2, <2>3, Zenon
  <1>5. /\ buf' = buf /\ Plain(buf', Len(buf')) /\ pc' = pc /\ applied' = applied
        /\ Held' = Held /\ Len(applied') = Len(applied)
    <2>1. buf' = buf /\ pc' = pc /\ applied' = applied
      BY DEF Line, send_frame, line_byte, line_lose, line_noise
    <2>2. Held' = Held
      BY <2>1 DEF Held
    <2> QED BY <1>3, <2>1, <2>2, Zenon
  <1>6. ASSUME NEW f \in Frames, send_frame(f) PROVE (ShapeIInv /\ LineIInv)'
    <2>1. wire = <<>> /\ wire' = Encode(f) /\ sent' = Append(sent, f)
          /\ faults' = faults /\ unread' = unread
      BY <1>6 DEF send_frame
    <2>2. /\ Encode(f) \in Seq(Byte) /\ OnLine(Encode(f))
      BY EncodeFacts, Zenon DEF OnLine, Plain
    <2>3. PICK u \in Seq(Byte) : /\ Placed(u, o, buf, unread, Encode(f))
                                 /\ Len(u) = a + Len(Encode(f)) /\ Same(t, u, a)
                                 /\ At(u, a, Encode(f))
      BY <1>1, <1>2, <2>2, LineReplaced, Zenon
    <2>4. a = Len(t) /\ o <= Len(t)
      <3>1. Len(wire) = 0 /\ o <= a
        BY <1>2, <2>1
      <3> HIDE DEF a
      <3> QED BY <1>4, <3>1
    <2> DEFINE c == Cardinality(Begins(t, o))
               d == Cardinality(Begins(u, o))
               i == Open(t)
               done == Len(applied) + Held + 2 * faults
    <2>5. d >= c + 1 - i /\ Open(u) = 0
      BY <2>3, <2>4, SendBegins, Zenon
    <2>6. c \in Nat /\ d \in Nat /\ i \in {0, 1}
      BY CountType, Zenon
    <2>7. done \in Nat /\ done + c >= Len(sent) + i
      <3>1. done \in Nat
        BY <1>2
      <3> QED BY <1>1, <3>1, Zenon DEF Counted
    <2>8. Len(sent') = Len(sent) + 1
      BY <1>2, <2>1
    <2> HIDE DEF c, d, i, done
    <2>9. done + d >= Len(sent') + 0
      BY <1>2, <2>5, <2>6, <2>7, <2>8
    <2>10. Counted(u, o, Len(applied'), Held', faults', Len(sent'))
      BY <1>5, <2>1, <2>5, <2>9, Zenon DEF Counted, d, done
    <2> QED BY <1>5, <2>1, <2>2, <2>3, <2>10, Zenon DEF ShapeIInv, LineIInv
  <1>7. CASE line_byte
    <2>1. /\ wire # <<>> /\ unread' = Append(unread, Head(wire)) /\ wire' = Tail(wire)
          /\ faults' = faults /\ sent' = sent
      BY <1>7 DEF line_byte
    <2>2. /\ wire' \in Seq(Byte) /\ Len(wire) = Len(wire') + 1 /\ At(wire, 1, wire')
          /\ Head(wire) \in Byte /\ wire[1] = Head(wire) /\ OnLine(wire')
      <3>1. /\ Tail(wire) \in Seq(Byte) /\ Len(Tail(wire)) = Len(wire) - 1
            /\ At(wire, 1, Tail(wire)) /\ Head(wire) \in Byte /\ Head(wire) = wire[1]
            /\ OnLine(Tail(wire))
        BY <1>2, <1>3, <2>1, OnLineTail, Zenon
      <3>2. Len(wire) = Len(Tail(wire)) + 1
        BY <1>2, <3>1
      <3> QED BY <2>1, <3>1, <3>2, Zenon
    <2>3. Placed(t, o, buf', unread', wire')
      BY <1>1, <1>2, <1>5, <2>1, <2>2, ByteMoves, Zenon
    <2>4. Counted(t, o, Len(applied'), Held', faults', Len(sent'))
      BY <1>1, <1>5, <2>1, Zenon
    <2> QED BY <1>5, <2>2, <2>3, <2>4, Zenon DEF ShapeIInv, LineIInv
  <1>8. CASE line_lose
    <2>1. /\ wire # <<>> /\ wire' = Tail(wire) /\ faults' = faults + 1
          /\ unread' = unread /\ sent' = sent
      BY <1>8 DEF line_lose
    <2>2. Tail(wire) \in Seq(Byte) /\ OnLine(Tail(wire))
      BY <1>2, <1>3, <2>1, OnLineTail, Zenon
    <2>3. PICK u \in Seq(Byte) : Placed(u, o, buf, unread, Tail(wire)) /\ Same(t, u, a)
      BY <1>1, <1>2, <2>2, LineReplaced, Zenon
    <2>4. Counted(u, o, Len(applied), Held, faults + 1, Len(sent))
      BY <1>1, <1>2, <1>4, <2>3, FaultCounted, Zenon
    <2> QED BY <1>5, <2>1, <2>2, <2>3, <2>4, Zenon DEF ShapeIInv, LineIInv
  <1>9. ASSUME NEW byte \in Noise, line_noise(byte) PROVE (ShapeIInv /\ LineIInv)'
    <2>1. /\ unread' = Append(unread, byte) /\ faults' = faults + 1
          /\ wire' = wire /\ sent' = sent
      BY <1>9 DEF line_noise
    <2> DEFINE v == <<byte>> \o wire
    <2>2. byte \in Byte /\ <<byte>> \in Seq(Byte)
      BY ByteAssumption DEF Byte
    <2>3. v \in Seq(Byte) /\ Len(v) = Len(wire) + 1 /\ v[1] = byte /\ At(v, 1, wire)
      <3>1. v \in Seq(Byte)
        BY <1>2, <2>2
      <3>2. Len(v) = Len(wire) + 1 /\ v[1] = byte
        BY <1>2, <2>2
      <3>3. At(v, 1, wire)
        <4>1. Len(<<byte>>) = 1
          OBVIOUS
        <4>2. At(v, Len(<<byte>>), wire)
          BY <1>2, <2>2, Concatenated
        <4> QED BY <4>1, <4>2, Zenon
      <3> QED BY <3>1, <3>2, <3>3, Zenon
    <2> HIDE DEF v
    <2>4. PICK u \in Seq(Byte) : Placed(u, o, buf, unread, v) /\ Same(t, u, a)
      BY <1>1, <1>2, <2>3, LineReplaced, Zenon
    <2>5. Placed(u, o, buf, Append(unread, byte), wire)
      BY <1>2, <2>2, <2>3, <2>4, ByteMoves, Zenon
    <2>6. Counted(u, o, Len(applied), Held, faults + 1, Len(sent))
      BY <1>1, <1>2, <1>4, <2>4, FaultCounted, Zenon
    <2> QED BY <1>3, <1>5, <2>1, <2>5, <2>6, Zenon DEF ShapeIInv, LineIInv
  <1> QED BY <1>6, <1>7, <1>8, <1>9, Zenon DEF Line

LEMMA TaskStep ==
  FPortIInv /\ ShapeIInv /\ LineIInv /\ (fport_task \/ ClientRun) => (ShapeIInv /\ LineIInv)'
  <1> SUFFICES ASSUME FPortIInv, ShapeIInv, LineIInv, fport_task \/ ClientRun
               PROVE  (ShapeIInv /\ LineIInv)'
    OBVIOUS
  <1>1. PICK t \in Seq(Byte), o \in Nat :
          /\ Placed(t, o, buf, unread, wire)
          /\ Counted(t, o, Len(applied), Held, faults, Len(sent))
    BY Zenon DEF LineIInv
  <1>2. /\ faults \in Nat /\ Len(applied) \in Nat /\ Len(sent) \in Nat
        /\ applied \in Seq([chn : Byte, flags : BOOLEAN \X BOOLEAN])
    BY DEF FPortIInv
  <1>3. UNCHANGED <<wire, sent, faults>>
    BY DEF fport_task, read_bytes, read_nothing, write_chn, write_flags, trigger,
           ClientRun, lineVars
  <1>4. Held \in {0, 1} /\ (pc \in {"read", "trigger"} => Held = 0)
    BY DEF Held
  <1> DEFINE c == Cardinality(Begins(t, o))
             i == Open(t)
  <1>5. c \in Nat /\ i \in {0, 1}
    BY CountType, Zenon
  <1>6. Len(applied) + Held + 2 * faults + c >= Len(sent) + i
    BY <1>1, Zenon DEF Counted
  <1>7. ASSUME NEW n \in 1 .. Backlog, read_bytes(n) PROVE (ShapeIInv /\ LineIInv)'
    <2>1. pc = "read" /\ applied' = applied
      BY <1>7 DEF read_bytes
    <2>2. Plain(buf', Len(buf'))
      BY <1>1, <1>7, ReadLine, Zenon
    <2>3. PICK q \in Nat : Placed(t, q, buf', unread', wire)
                           /\ Cardinality(Begins(t, q)) + Held' >= c
      BY <1>1, <1>7, ReadLine, Zenon
    <2>4. PICK h \in {0, 1} : h = Held'
      <3>1. Held' \in {0, 1}
        BY DEF Held
      <3> QED BY <3>1, Zenon
    <2> DEFINE d == Cardinality(Begins(t, q))
    <2>5. d \in Nat /\ d + h >= c
      BY <2>3, <2>4, CountType, Zenon
    <2> HIDE DEF c, d, i
    <2>6. Len(applied) + h + 2 * faults + d >= Len(sent) + i
      BY <1>2, <1>4, <1>5, <1>6, <2>1, <2>5
    <2>7. Counted(t, q, Len(applied'), Held', faults', Len(sent'))
      BY <1>3, <2>1, <2>4, <2>6, Zenon DEF Counted, d, i
    <2> QED BY <1>3, <2>2, <2>3, <2>7, Zenon DEF ShapeIInv, LineIInv
  <1>8. CASE read_nothing
    <2>1. buf' = Start /\ unread' = unread /\ applied' = applied /\ pc' = pc
      BY <1>8 DEF read_nothing
    <2>2. Held' = Held
      BY <2>1 DEF Held
    <2>3. Plain(buf', Len(buf'))
      <3>1. CASE Len(buf) = MaxPacket
        BY <2>1, <3>1 DEF Start, Plain
      <3>2. CASE Len(buf) # MaxPacket
        BY <2>1, <3>2, Zenon DEF Start, ShapeIInv
      <3> QED BY <3>1, <3>2
    <2>4. PICK q \in Nat : Placed(t, q, Start, unread, wire)
                           /\ Cardinality(Begins(t, q)) >= c
      BY <1>1, StartOver, Zenon
    <2> DEFINE d == Cardinality(Begins(t, q))
    <2>5. d \in Nat /\ d >= c
      BY <2>4, CountType, Zenon
    <2> HIDE DEF c, d, i
    <2>6. Len(applied) + Held + 2 * faults + d >= Len(sent) + i
      BY <1>2, <1>4, <1>5, <1>6, <2>5
    <2>7. Counted(t, q, Len(applied'), Held', faults', Len(sent'))
      BY <1>3, <2>1, <2>2, <2>6, Zenon DEF Counted, d, i
    <2> QED BY <1>3, <2>1, <2>3, <2>4, <2>7, Zenon DEF ShapeIInv, LineIInv
  <1>9. CASE write_chn \/ trigger \/ ClientRun
    <2>1. UNCHANGED <<buf, unread, applied>>
      BY <1>9 DEF write_chn, trigger, ClientRun
    <2>2. Held' = Held
      BY <1>9 DEF write_chn, trigger, ClientRun, Held
    <2>3. Counted(t, o, Len(applied'), Held', faults', Len(sent'))
      BY <1>1, <1>3, <2>1, <2>2, Zenon
    <2> QED BY <1>1, <1>3, <2>1, <2>3, Zenon DEF ShapeIInv, LineIInv
  <1>10. CASE write_flags
    <2>1. UNCHANGED <<buf, unread>> /\ applied' = Append(applied, frame)
      BY <1>10 DEF write_flags
    <2>2. Held = 1 /\ Held' = 0
      BY <1>10 DEF write_flags, Held
    <2>3. Len(applied') = Len(applied) + 1
      BY <1>2, <2>1
    <2> HIDE DEF c, i
    <2>4. Len(applied') + 0 + 2 * faults + c >= Len(sent) + i
      BY <1>2, <1>5, <1>6, <2>2, <2>3
    <2>5. Counted(t, o, Len(applied'), Held', faults', Len(sent'))
      BY <1>3, <2>2, <2>4, Zenon DEF Counted, c, i
    <2> QED BY <1>1, <1>3, <2>1, <2>5, Zenon DEF ShapeIInv, LineIInv
  <1> QED BY <1>7, <1>8, <1>9, <1>10, Zenon DEF fport_task

LEMMA LineInvariant == Spec => [](ShapeIInv /\ LineIInv)
  <1>1. FPortIInv /\ ShapeIInv /\ LineIInv /\ [Next]_vars => (ShapeIInv /\ LineIInv)'
    <2>1. FPortIInv /\ ShapeIInv /\ LineIInv /\ UNCHANGED vars => (ShapeIInv /\ LineIInv)'
      BY DEF vars, ShapeIInv, LineIInv, Plain, OnLine, Held, Placed, Counted
    <2> QED BY <2>1, LineStep, TaskStep, Zenon DEF Next
  <1> QED BY <1>1, LineInit, FPortTypes, PTL DEF Spec

\* Whatever the line loses or adds, each fault costs two frames at most.
THEOREM FaultsCost == Spec => []FaultsCostTwoFrames
  <1>1. FPortIInv /\ ShapeIInv /\ LineIInv => FaultsCostTwoFrames
    <2> SUFFICES ASSUME FPortIInv, ShapeIInv, LineIInv,
                        wire = <<>>, unread = <<>>, pc = "read"
                 PROVE  Len(applied) + 2 * faults >= Len(sent)
      BY DEF FaultsCostTwoFrames
    <2>1. PICK t \in Seq(Byte), o \in Nat :
            /\ Placed(t, o, buf, unread, wire)
            /\ Counted(t, o, Len(applied), Held, faults, Len(sent))
      BY Zenon DEF LineIInv
    <2>2. /\ buf \in Seq(Byte) /\ Len(buf) \in Nat /\ faults \in Nat
          /\ Len(applied) \in Nat /\ Len(sent) \in Nat /\ Held = 0
      BY DEF FPortIInv, TypeOK, Byte, Held
    <2>3. o + Len(buf) = Len(t) /\ At(t, o, buf)
      BY <2>1, <2>2 DEF Placed
    <2>4. \A k \in o + 1 .. o + Len(buf) : t[k] # Boundary
      <3>1. Len(buf) <= Len(buf) /\ Plain(buf, Len(buf))
        BY <2>2 DEF ShapeIInv
      <3> QED BY <2>2, <2>3, <3>1, PlainPart, Zenon
    <2>5. Begins(t, o) = {}
      <3>1. SUFFICES ASSUME NEW p \in Begins(t, o) PROVE FALSE
        OBVIOUS
      <3>2. PICK f \in Frames : At(t, p, Encode(f))
        BY BeginFacts, Zenon
      <3>3. p \in Nat /\ p >= o
        BY BeginFacts, Zenon
      <3> DEFINE e == p + Len(Encode(f))
      <3>4. e \in Nat /\ e > p /\ e <= Len(t) /\ t[e] = Boundary
        BY <3>2, <3>3, EndOf, Zenon
      <3> HIDE DEF e
      <3>5. e \in o + 1 .. o + Len(buf)
        BY <2>3, <3>3, <3>4
      <3> QED BY <2>4, <3>4, <3>5, Zenon
    <2>6. Cardinality(Begins(t, o)) = 0 /\ Open(t) \in {0, 1}
      BY <2>5, FS_EmptySet, CountType, Zenon
    <2>7. Len(applied) + Held + 2 * faults + 0 >= Len(sent) + Open(t)
      BY <2>1, <2>6, Zenon DEF Counted
    <2> QED BY <2>2, <2>6, <2>7
  <1> QED BY <1>1, LineInvariant, FPortTypes, PTL

-----------------------------------------------------------------------------
(* FPort: what is published when the line loses and adds nothing           *)

\* The frames of s fill t, the k-th up to e[k].
Layout(t, e, s) ==
  /\ e \in [0 .. Len(s) -> Nat] /\ e[0] = 0 /\ e[Len(s)] = Len(t)
  /\ \A k \in 1 .. Len(s) : e[k] = e[k - 1] + Len(Encode(s[k])) /\ At(t, e[k - 1], Encode(s[k]))

\* What was taken from the line is what was sent, in that order.
InOrder(m) ==
  /\ m = Len(applied) + Held
  /\ \A k \in 1 .. Len(applied) : applied[k] = sent[k]
  /\ Held = 1 => frame = sent[m]

\* The buffer begins behind the last frame that was taken.
WholeIInv ==
  faults = 0 =>
    \E t \in Seq(Byte), e \in [0 .. Len(sent) -> Nat], m \in 0 .. Len(sent) :
      /\ Layout(t, e, sent) /\ Placed(t, e[m], buf, unread, wire) /\ InOrder(m)

\* One frame more.
Longer(t, u, f) ==
  Same(t, u, Len(t)) /\ At(u, Len(t), Encode(f)) /\ Len(u) = Len(t) + Len(Encode(f))
MoreLaidOut(u, e, n, s) == \E d : Layout(u, d, s) /\ \A k \in 0 .. n : d[k] = e[k]

LEMMA LayoutMore ==
  ASSUME NEW s \in Seq(Frames), NEW f \in Frames, NEW t \in Seq(Byte), NEW u \in Seq(Byte),
         NEW e, Layout(t, e, s), Longer(t, u, f), NEW r, r = Append(s, f)
  PROVE  MoreLaidOut(u, e, Len(s), r)
  <1>0. /\ Same(t, u, Len(t)) /\ At(u, Len(t), Encode(f))
        /\ Len(u) = Len(t) + Len(Encode(f))
    BY Zenon DEF Longer
  <1> DEFINE n == Len(s)
             d == [k \in 0 .. n + 1 |-> IF k = n + 1 THEN Len(u) ELSE e[k]]
  <1>1. /\ n \in Nat /\ Len(r) = n + 1 /\ r[n + 1] = f /\ Len(t) \in Nat /\ Len(u) \in Nat
        /\ \A k \in 1 .. n : r[k] = s[k] /\ s[k] \in Frames
    OBVIOUS
  <1>2. /\ e \in [0 .. n -> Nat] /\ e[0] = 0 /\ e[n] = Len(t)
        /\ \A k \in 1 .. n : e[k] = e[k - 1] + Len(Encode(s[k])) /\ At(t, e[k - 1], Encode(s[k]))
    BY Zenon DEF Layout
  <1> HIDE DEF n
  <1>3. /\ d \in [0 .. n + 1 -> Nat] /\ d[n + 1] = Len(u)
        /\ \A k \in 0 .. n : d[k] = e[k]
    BY <1>1, <1>2
  <1>4. 0 \in 0 .. n /\ n \in 0 .. n
    BY <1>1
  <1> HIDE DEF d
  <1>5. ASSUME NEW k \in 1 .. n + 1
        PROVE  d[k] = d[k - 1] + Len(Encode(r[k])) /\ At(u, d[k - 1], Encode(r[k]))
    <2>1. CASE k = n + 1
      <3>1. k - 1 = n /\ d[n] = Len(t)
        BY <1>1, <1>2, <1>3, <1>4, <2>1
      <3> QED BY <1>0, <1>1, <1>3, <2>1, <3>1, Zenon
    <2>2. CASE k # n + 1
      <3>1. k \in 1 .. n /\ k \in 0 .. n /\ k - 1 \in 0 .. n
        BY <1>1, <2>2
      <3>2. /\ e[k - 1] \in Nat /\ e[k] = e[k - 1] + Len(Encode(r[k]))
            /\ At(t, e[k - 1], Encode(r[k])) /\ r[k] \in Frames
        BY <1>1, <1>2, <3>1, Zenon
      <3>3. e[k - 1] + Len(Encode(r[k])) <= Len(t)
        BY <3>2, Zenon DEF At
      <3>4. At(u, e[k - 1], Encode(r[k]))
        BY <1>0, <1>1, <3>2, <3>3, EncodeType, AtSame, Zenon
      <3>5. d[k] = e[k] /\ d[k - 1] = e[k - 1]
        BY <1>3, <3>1, Zenon
      <3> QED BY <3>2, <3>4, <3>5, Zenon
    <2> QED BY <2>1, <2>2
  <1>6. d[0] = 0
    BY <1>2, <1>3, <1>4, Zenon
  <1>7. Layout(u, d, r)
    BY <1>1, <1>3, <1>5, <1>6, Zenon DEF Layout
  <1> QED BY <1>3, <1>7, Zenon DEF n, MoreLaidOut

\* What stands at a frame's place with a boundary at its end is the frame.
LEMMA LayoutNext ==
  ASSUME NEW s \in Seq(Frames), NEW t \in Seq(Byte), NEW e, Layout(t, e, s),
         NEW m \in 0 .. Len(s), NEW x \in Seq(Byte), Len(x) > 0, At(t, e[m], x),
         Plain(x, Len(x) - 1), x[Len(x)] = Boundary
  PROVE  /\ m + 1 \in 1 .. Len(s) /\ x = Encode(s[m + 1]) /\ s[m + 1] \in Frames
         /\ e[m] + Len(x) = e[m + 1]
  <1>1. /\ Len(s) \in Nat /\ Len(t) \in Nat /\ Len(x) \in Nat
        /\ \A k \in 1 .. Len(s) : s[k] \in Frames
    OBVIOUS
  <1>2. /\ e \in [0 .. Len(s) -> Nat] /\ e[Len(s)] = Len(t)
        /\ \A k \in 1 .. Len(s) : e[k] = e[k - 1] + Len(Encode(s[k])) /\ At(t, e[k - 1], Encode(s[k]))
    BY Zenon DEF Layout
  <1>3. e[m] \in Nat /\ e[m] + Len(x) <= Len(t)
    <2>1. e[m] \in Nat
      BY <1>2, Zenon
    <2> QED BY <2>1, Zenon DEF At
  <1>4. m + 1 \in 1 .. Len(s)
    <2>1. m # Len(s)
      BY <1>1, <1>2, <1>3
    <2> QED BY <1>1, <2>1
  <1>5. PICK j \in 1 .. Len(s) : j = m + 1 /\ j - 1 = m
    BY <1>4
  <1>6. s[j] \in Frames /\ At(t, e[m], Encode(s[j])) /\ e[j] = e[m] + Len(Encode(s[j]))
    BY <1>1, <1>2, <1>5, Zenon
  <1>7. x = Encode(s[j])
    BY <1>3, <1>6, FrameThere, Zenon
  <1> QED BY <1>5, <1>6, <1>7, Zenon

\* A buffer that begins with a frame has its boundary in it before it is full.
LEMMA LayoutFits ==
  ASSUME NEW s \in Seq(Frames), NEW t \in Seq(Byte), NEW e, Layout(t, e, s),
         NEW m \in 0 .. Len(s), NEW b \in Seq(Byte), At(t, e[m], b), Plain(b, Len(b))
  PROVE  Len(b) # MaxPacket
  <1>1. /\ Len(s) \in Nat /\ Len(t) \in Nat /\ Len(b) \in Nat /\ MaxPacket \in Nat
        /\ MaxPacket > 0 /\ \A k \in 1 .. Len(s) : s[k] \in Frames
    BY PacketAssumption DEF ControlLen
  <1>2. /\ e \in [0 .. Len(s) -> Nat] /\ e[Len(s)] = Len(t)
        /\ \A k \in 1 .. Len(s) : e[k] = e[k - 1] + Len(Encode(s[k])) /\ At(t, e[k - 1], Encode(s[k]))
    BY Zenon DEF Layout
  <1>3. e[m] \in Nat /\ e[m] + Len(b) <= Len(t)
    <2>1. e[m] \in Nat
      BY <1>2, Zenon
    <2> QED BY <2>1, Zenon DEF At
  <1>4. SUFFICES ASSUME Len(b) = MaxPacket PROVE FALSE
    OBVIOUS
  <1>5. PICK j \in 1 .. Len(s) : j - 1 = m
    <2>1. m # Len(s)
      BY <1>1, <1>2, <1>3, <1>4
    <2>2. m + 1 \in 1 .. Len(s) /\ m + 1 - 1 = m
      BY <1>1, <2>1
    <2> QED BY <2>2
  <1>6. s[j] \in Frames /\ At(t, e[m], Encode(s[j]))
    BY <1>1, <1>2, <1>5, Zenon
  <1> DEFINE end == e[m] + Len(Encode(s[j]))
  <1>7. end \in Nat /\ end > e[m] /\ end <= e[m] + MaxPacket /\ t[end] = Boundary
    <2> DEFINE p == e[m]
               f == s[j]
    <2>1. p \in Nat /\ f \in Frames /\ At(t, p, Encode(f))
      BY <1>3, <1>6, Zenon
    <2>2. end = p + Len(Encode(f))
      OBVIOUS
    <2> HIDE DEF p, f, end
    <2>3. end \in Nat /\ end > p /\ end <= p + MaxPacket /\ t[end] = Boundary
      BY <2>1, <2>2, EndOf, Zenon
    <2> QED BY <2>3 DEF p
  <1> HIDE DEF end
  <1>8. end \in e[m] + 1 .. e[m] + Len(b)
    BY <1>3, <1>4, <1>7
  <1>9. \A k \in e[m] + 1 .. e[m] + Len(b) : t[k] # Boundary
    <2>1. Len(b) <= Len(b)
      BY <1>1
    <2> QED BY <1>1, <1>3, <2>1, PlainPart, Zenon
  <1> QED BY <1>7, <1>8, <1>9, Zenon

LEMMA WholeInit == Init => WholeIInv
  <1> SUFFICES ASSUME Init PROVE WholeIInv
    OBVIOUS
  <1> DEFINE e == [k \in 0 .. 0 |-> 0]
  <1>1. /\ wire = <<>> /\ buf = <<>> /\ unread = <<>> /\ sent = <<>> /\ applied = <<>>
        /\ Held = 0 /\ Len(<<>>) = 0 /\ <<>> \in Seq(Byte) /\ 0 \in 0 .. 0
    BY DEF Init, Held
  <1>2. e \in [0 .. 0 -> Nat] /\ e[0] = 0
    OBVIOUS
  <1> HIDE DEF e
  <1>3. Layout(<<>>, e, <<>>)
    <2>1. \A k \in 1 .. 0 : FALSE
      OBVIOUS
    <2> QED BY <1>1, <1>2, <2>1, Zenon DEF Layout
  <1>4. Placed(<<>>, e[0], buf, unread, wire)
    BY <1>1, <1>2 DEF Placed, At
  <1>5. InOrder(0)
    BY <1>1 DEF InOrder
  <1> QED BY <1>1, <1>2, <1>3, <1>4, <1>5, Zenon DEF WholeIInv

LEMMA WholeStep == FPortIInv /\ ShapeIInv /\ WholeIInv /\ [Next]_vars => WholeIInv'
  <1> SUFFICES ASSUME FPortIInv, ShapeIInv, WholeIInv, [Next]_vars, faults' = 0
               PROVE  \E t \in Seq(Byte), e \in [0 .. Len(sent') -> Nat], m \in 0 .. Len(sent') :
                        /\ Layout(t, e, sent') /\ Placed(t, e[m], buf', unread', wire')
                        /\ InOrder(m)'
    BY Zenon DEF WholeIInv
  <1>1. /\ buf \in Seq(Byte) /\ unread \in Seq(Byte) /\ wire \in Seq(Byte)
        /\ faults \in Nat /\ Len(applied) \in Nat /\ Len(sent) \in Nat
        /\ sent \in Seq(Frames)
        /\ applied \in Seq([chn : Byte, flags : BOOLEAN \X BOOLEAN])
    BY DEF FPortIInv, TypeOK, Byte
  <1>2. ~line_lose /\ (\A byte \in Noise : ~line_noise(byte)) /\ faults = 0
    <2>1. faults + 1 # 0
      BY <1>1
    <2>2. ~line_lose /\ \A byte \in Noise : ~line_noise(byte)
      BY <2>1, Zenon DEF line_lose, line_noise
    <2>3. faults' = faults
      BY <2>2 DEF Next, Line, fport_task, send_frame, line_byte, read_bytes, read_nothing,
             write_chn, write_flags, trigger, ClientRun, lineVars, vars
    <2> QED BY <2>2, <2>3
  <1>3. PICK t \in Seq(Byte), e \in [0 .. Len(sent) -> Nat], m \in 0 .. Len(sent) :
          /\ Layout(t, e, sent) /\ Placed(t, e[m], buf, unread, wire) /\ InOrder(m)
    BY <1>2, Zenon DEF WholeIInv
  <1>4. /\ m = Len(applied) + Held /\ \A k \in 1 .. Len(applied) : applied[k] = sent[k]
        /\ Held = 1 => frame = sent[m]
    BY <1>3, Zenon DEF InOrder
  <1>5. m \in Nat /\ m <= Len(sent) /\ e[m] \in Nat
    <2>1. m \in Nat /\ m <= Len(sent)
      BY <1>1
    <2>2. e[m] \in Nat
      BY Zenon
    <2> QED BY <2>1, <2>2
  <1>6. CASE \E f \in Frames : send_frame(f)
    <2>1. PICK f \in Frames : send_frame(f)
      BY <1>6
    <2>2. /\ wire = <<>> /\ wire' = Encode(f) /\ sent' = Append(sent, f)
          /\ UNCHANGED <<unread, buf, pc, frame, applied>>
      BY <2>1 DEF send_frame
    <2> DEFINE a == e[m] + Len(buf) + Len(unread)
    <2>3. PICK u \in Seq(Byte) : /\ Placed(u, e[m], buf, unread, Encode(f))
                                 /\ Len(u) = a + Len(Encode(f)) /\ Same(t, u, a)
                                 /\ At(u, a, Encode(f))
      <3>1. Encode(f) \in Seq(Byte)
        BY EncodeType, Zenon
      <3> QED BY <1>1, <1>3, <1>5, <3>1, LineReplaced, Zenon
    <2>4. a = Len(t)
      <3>1. e[m] + Len(buf) + Len(unread) + Len(wire) = Len(t)
        BY <1>3, Zenon DEF Placed
      <3>2. Len(wire) = 0 /\ Len(buf) \in Nat /\ Len(unread) \in Nat
        BY <1>1, <2>2
      <3> QED BY <1>5, <3>1, <3>2
    <2>5. PICK d \in [0 .. Len(sent') -> Nat] :
            Layout(u, d, sent') /\ \A k \in 0 .. Len(sent) : d[k] = e[k]
      <3>1. Longer(t, u, f)
        BY <2>3, <2>4, Zenon DEF Longer
      <3>2. MoreLaidOut(u, e, Len(sent), sent')
        <4>1. sent \in Seq(Frames) /\ Layout(t, e, sent) /\ sent' = Append(sent, f)
          BY <1>1, <1>3, <2>2, Zenon
        <4> QED BY <3>1, <4>1, LayoutMore, Zenon
      <3>4. PICK d : Layout(u, d, sent') /\ \A k \in 0 .. Len(sent) : d[k] = e[k]
        BY <3>2, Zenon DEF MoreLaidOut
      <3>3. d \in [0 .. Len(sent') -> Nat]
        BY <3>4, Zenon DEF Layout
      <3> QED BY <3>4, <3>3, Zenon
    <2>6. Placed(u, d[m], buf', unread', wire')
      BY <2>2, <2>3, <2>5, Zenon
    <2>7. Len(sent') = Len(sent) + 1 /\ \A k \in 1 .. Len(sent) : sent'[k] = sent[k]
      BY <1>1, <2>2
    <2>8. m \in 0 .. Len(sent')
      BY <1>1, <1>5, <2>7
    <2>9. InOrder(m)'
      <3>1. Held' = Held /\ Held \in {0, 1}
        BY <2>2 DEF Held
      <3>2. \A k \in 1 .. Len(applied) : k \in 1 .. Len(sent)
        BY <1>1, <1>4, <1>5, <3>1
      <3>3. Held = 1 => m \in 1 .. Len(sent)
        BY <1>1, <1>4, <1>5
      <3> QED BY <1>4, <2>2, <2>7, <3>1, <3>2, <3>3, Zenon DEF InOrder
    <2> QED BY <2>5, <2>6, <2>8, <2>9, Zenon
  <1>7. CASE line_byte
    <2>1. /\ wire # <<>> /\ unread' = Append(unread, Head(wire)) /\ wire' = Tail(wire)
          /\ UNCHANGED <<buf, sent, pc, frame, applied>>
      BY <1>7 DEF line_byte
    <2>2. /\ wire' \in Seq(Byte) /\ Len(wire) = Len(wire') + 1 /\ At(wire, 1, wire')
          /\ Head(wire) \in Byte /\ wire[1] = Head(wire)
      <3>1. /\ Tail(wire) \in Seq(Byte) /\ Len(Tail(wire)) = Len(wire) - 1
            /\ At(wire, 1, Tail(wire)) /\ Head(wire) \in Byte /\ Head(wire) = wire[1]
        BY <1>1, <2>1, OnLineTail, Zenon DEF ShapeIInv
      <3>2. Len(wire) = Len(Tail(wire)) + 1
        BY <1>1, <3>1
      <3> QED BY <2>1, <3>1, <3>2, Zenon
    <2>3. Placed(t, e[m], buf', unread', wire')
      BY <1>1, <1>3, <1>5, <2>1, <2>2, ByteMoves, Zenon
    <2>4. InOrder(m)'
      <3>1. Held' = Held
        BY <2>1 DEF Held
      <3> QED BY <1>4, <2>1, <3>1, Zenon DEF InOrder
    <2> QED BY <1>3, <2>1, <2>3, <2>4, Zenon
  <1>8. Start = buf
    <2>1. Plain(buf, Len(buf)) /\ At(t, e[m], buf)
      BY <1>3, Zenon DEF ShapeIInv, Placed
    <2>2. Len(buf) # MaxPacket
      BY <1>1, <1>3, <2>1, LayoutFits, Zenon
    <2> QED BY <2>2, Zenon DEF Start
  <1>9. ASSUME NEW n \in 1 .. Backlog, read_bytes(n)
        PROVE  \E i \in 0 .. Len(sent) : Placed(t, e[i], buf', unread', wire) /\ InOrder(i)'
    <2>1. UNCHANGED <<wire, sent, applied>> /\ pc = "read"
      BY <1>9 DEF read_bytes, lineVars
    <2>2. PICK x \in Seq(Byte) :
           /\ Len(x) \in Nat /\ Len(x) > 0 /\ e[m] + Len(x) <= Len(t)
           /\ At(t, e[m], x) /\ Plain(x, Len(x) - 1)
           /\ IF x[Len(x)] # Boundary
              THEN /\ Placed(t, e[m], buf', unread', wire) /\ Plain(buf', Len(buf'))
                   /\ UNCHANGED <<pc, frame>>
              ELSE /\ Placed(t, e[m] + Len(x), buf', unread', wire)
                   /\ Plain(buf', Len(buf'))
                   /\ IF Accepted(x) THEN frame' = FrameIn(x) /\ pc' = "chn"
                      ELSE UNCHANGED <<pc, frame>>
      BY <1>3, <1>5, <1>8, <1>9, ReadPlaced, Zenon
    <2>3. CASE x[Len(x)] # Boundary
      <3>1. Placed(t, e[m], buf', unread', wire) /\ pc' = pc /\ frame' = frame
        BY <2>2, <2>3, Zenon
      <3>2. Held' = Held
        BY <3>1 DEF Held
      <3>3. InOrder(m)'
        BY <1>4, <2>1, <3>1, <3>2, Zenon DEF InOrder
      <3> QED BY <3>1, <3>3, Zenon
    <2>4. CASE x[Len(x)] = Boundary
      <3>1. /\ m + 1 \in 1 .. Len(sent) /\ x = Encode(sent[m + 1]) /\ sent[m + 1] \in Frames
            /\ e[m] + Len(x) = e[m + 1]
        BY <1>1, <1>3, <2>2, <2>4, LayoutNext
      <3>2. Accepted(x) /\ FrameIn(x) = sent[m + 1]
        BY <3>1, EncodeFacts, Zenon
      <3>3. Placed(t, e[m + 1], buf', unread', wire) /\ frame' = sent[m + 1] /\ pc' = "chn"
        BY <2>2, <2>4, <3>1, <3>2, Zenon
      <3>4. m + 1 \in 0 .. Len(sent)
        BY <1>1, <3>1
      <3>5. Held = 0 /\ Held' = 1
        BY <2>1, <3>3 DEF Held
      <3>6. m + 1 = Len(applied) + 1
        BY <1>1, <1>4, <3>5
      <3>7. InOrder(m + 1)'
        BY <1>4, <2>1, <3>3, <3>5, <3>6, Zenon DEF InOrder
      <3> QED BY <3>3, <3>4, <3>7, Zenon
    <2> QED BY <2>3, <2>4
  <1>10. CASE \E n \in 1 .. Backlog : read_bytes(n)
    <2>1. UNCHANGED <<wire, sent>>
      BY <1>10 DEF read_bytes, lineVars
    <2>2. PICK i \in 0 .. Len(sent) : Placed(t, e[i], buf', unread', wire) /\ InOrder(i)'
      BY <1>9, <1>10, Zenon
    <2> QED BY <1>3, <2>1, <2>2, Zenon
  <1>11. CASE read_nothing \/ write_chn \/ trigger \/ ClientRun \/ UNCHANGED vars
    <2>1. UNCHANGED <<wire, sent, unread, applied>> /\ buf' = buf
      BY <1>8, <1>11, Zenon DEF read_nothing, write_chn, trigger, ClientRun, lineVars, vars
    <2>2. Held' = Held /\ (Held = 1 => frame' = frame)
      BY <1>11 DEF read_nothing, write_chn, trigger, ClientRun, vars, Held
    <2>3. InOrder(m)'
      BY <1>4, <2>1, <2>2, Zenon DEF InOrder
    <2> QED BY <1>3, <2>1, <2>3, Zenon
  <1>12. CASE write_flags
    <2>1. UNCHANGED <<wire, sent, unread, buf>> /\ applied' = Append(applied, frame)
      BY <1>12 DEF write_flags, lineVars
    <2>2. Held = 1 /\ Held' = 0
      BY <1>12 DEF write_flags, Held
    <2>3. /\ Len(applied') = Len(applied) + 1 /\ applied'[Len(applied) + 1] = frame
          /\ \A k \in 1 .. Len(applied) : applied'[k] = applied[k]
      BY <1>1, <2>1
    <2>4. m = Len(applied') /\ m = Len(applied') + 0
      BY <1>1, <1>4, <2>2, <2>3
    <2>5. \A k \in 1 .. Len(applied') : k \in 1 .. Len(applied) \/ k = Len(applied) + 1
      BY <1>1, <2>3
    <2>6. \A k \in 1 .. Len(applied') : applied'[k] = sent'[k]
      BY <1>4, <2>1, <2>2, <2>3, <2>4, <2>5, Zenon
    <2>7. InOrder(m)'
      BY <2>2, <2>4, <2>6 DEF InOrder
    <2> QED BY <1>3, <2>1, <2>7, Zenon
  <1> QED BY <1>2, <1>6, <1>7, <1>10, <1>11, <1>12, Zenon DEF Next, Line, fport_task

\* Without faults on the line, what is published is what was sent, from the
\* first frame on.
THEOREM FaultlessPublishes == Spec => [](faults = 0 => PublishedWereSent)
  <1>1. FPortIInv /\ WholeIInv => (faults = 0 => PublishedWereSent)
    <2> SUFFICES ASSUME FPortIInv, WholeIInv, faults = 0 PROVE PublishedWereSent
      OBVIOUS
    <2>1. PICK m \in 0 .. Len(sent) : InOrder(m)
      BY Zenon DEF WholeIInv
    <2>2. /\ Len(applied) \in Nat /\ Len(sent) \in Nat
          /\ DOMAIN applied = 1 .. Len(applied) /\ DOMAIN sent = 1 .. Len(sent)
      BY DEF FPortIInv
    <2>3. Len(applied) <= Len(sent) /\ \A k \in 1 .. Len(applied) : applied[k] = sent[k]
      <3>1. Held \in {0, 1}
        BY DEF Held
      <3> QED BY <2>1, <2>2, <3>1 DEF InOrder
    <2> DEFINE at == [k \in DOMAIN applied |-> k]
    <2>4. at \in [DOMAIN applied -> DOMAIN sent]
      BY <2>2, <2>3
    <2>5. \A i, j \in DOMAIN applied : i < j => at[i] < at[j]
      OBVIOUS
    <2>6. \A i \in DOMAIN applied : applied[i] = sent[at[i]]
      BY <2>2, <2>3
    <2> HIDE DEF at
    <2> QED BY <2>4, <2>5, <2>6, Zenon DEF PublishedWereSent
  <1> QED BY <1>1, WholeInit, WholeStep, LineInvariant, FPortTypes, PTL DEF Spec
=============================================================================
