---------------------------- MODULE SharedProofs ----------------------------
(***************************************************************************)
(* Four components that all requests share, each for every value of its    *)
(* constants.                                                              *)
(*                                                                         *)
(* The click counter: no click is counted twice or forgotten.  Between two *)
(* posts the ticker holds nothing, which is what makes the balance         *)
(* inductive: the map it takes replaces an empty one.                      *)
(*                                                                         *)
(* ios_pmt: no SDK gets a dictionary or bundles that crash it.  The        *)
(* handler compares versions as strings, the promise is about numbers; the *)
(* first lemmas say what the string of a version is, the next ones where   *)
(* the two orders agree, and the invariant follows an answer through its   *)
(* handler.                                                                *)
(*                                                                         *)
(* The subscriptions: a channel gets its part of the draws by weight.  The *)
(* lemmas count the draws up to a part of the sum, follow the divider      *)
(* entry by entry while it is filled, with the draws each channel has got  *)
(* so far, and say what a draw returns; the invariant is that the dividers *)
(* published, and the one a request holds, were built from one             *)
(* configuration.  Induction over the entries is by the first number that  *)
(* fails: the induction theorems of the library cannot be instantiated.    *)
(*                                                                         *)
(* The rendering: what reaches the client is sound, although requests      *)
(* share the published offers.  Nobody writes behind a published slice, so *)
(* each request is right by itself.  The first lemmas say what a renderer  *)
(* shows and tracks of an offer, the next ones that a selection holds no   *)
(* offer twice, and the invariant follows the offers of a request down the *)
(* line from what was found over the raws to the ads.                      *)
(***************************************************************************)
EXTENDS MCShared, TLAPS, WellFoundedInduction,
        FiniteSetTheorems

-----------------------------------------------------------------------------
(* The click counter.                                                      *)

(* What the ticker holds while it is asleep. *)
Asleep == ticker = "asleep" => \A o \in Offers : m[o] = 0
ClickInvariant == TypeOK /\ Asleep /\ ClicksConserved

(* Sums of counts are counts. *)
LEMMA PlusIsCounts ==
  ASSUME NEW a \in Counts, NEW b \in Counts
  PROVE  Plus(a, b) \in Counts /\ \A o \in Offers : Plus(a, b)[o] = a[o] + b[o]
  BY DEF Plus, Counts

(* The empty map is a map of counts. *)
LEMMA NoneIsCounts == None \in Counts /\ \A o \in Offers : None[o] = 0
  BY DEF None, Counts

(* One step of a handler or of the ticker keeps the balance. *)
LEMMA ClickStep == ClickInvariant /\ [Next]_vars => ClickInvariant'
<1> SUFFICES ASSUME ClickInvariant, [Next]_vars PROVE ClickInvariant'
  OBVIOUS
<1> USE DEF ClickInvariant
<1>1. ASSUME NEW o \in Offers, NEW nClick \in 1..MaxClicks, AddClick(o, nClick)
      PROVE  ClickInvariant'
  <2>1. clickCount' \in Counts /\ added' \in Counts
    BY <1>1 DEF AddClick, TypeOK, Counts
  <2>2. \A p \in Offers : /\ clickCount'[p] = clickCount[p] + (IF p = o THEN nClick ELSE 0)
                          /\ added'[p] = added[p] + (IF p = o THEN nClick ELSE 0)
    BY <1>1 DEF AddClick, TypeOK, Counts
  <2>3. ClicksConserved'
    BY <1>1, <2>2 DEF AddClick, ClicksConserved, TypeOK, Counts
  <2> QED BY <1>1, <2>1, <2>3 DEF AddClick, TypeOK, Asleep
<1>2. CASE submitClickCount
  <2>1. ClicksConserved'
    BY <1>2, NoneIsCounts DEF submitClickCount, ClicksConserved, Asleep, TypeOK, Counts
  <2> QED BY <1>2, <2>1, NoneIsCounts DEF submitClickCount, TypeOK, Asleep
<1>3. CASE Accepted
  <2>1. ClicksConserved'
    BY <1>3, NoneIsCounts, PlusIsCounts DEF Accepted, ClicksConserved, TypeOK, Counts
  <2> QED BY <1>3, <2>1, NoneIsCounts, PlusIsCounts DEF Accepted, TypeOK, Asleep
<1>4. CASE Failed
  <2>1. ClicksConserved'
    BY <1>4, NoneIsCounts, PlusIsCounts DEF Failed, ClicksConserved, TypeOK, Counts
  <2> QED BY <1>4, <2>1, NoneIsCounts, PlusIsCounts DEF Failed, TypeOK, Asleep
<1>5. CASE UNCHANGED vars
  BY <1>5 DEF vars, TypeOK, Asleep, ClicksConserved
<1> QED BY <1>1, <1>2, <1>3, <1>4, <1>5 DEF Next

(* The balance holds in every state of the counter. *)
THEOREM ClicksAreConserved == Spec => [](TypeOK /\ ClicksConserved)
<1>1. Init => ClickInvariant
  BY NoneIsCounts DEF Init, ClickInvariant, TypeOK, Asleep, ClicksConserved
<1>2. ClickInvariant => TypeOK /\ ClicksConserved
  BY DEF ClickInvariant
<1> QED BY <1>1, <1>2, ClickStep, PTL DEF Spec

-----------------------------------------------------------------------------
(* ios_pmt: strings and versions.                                          *)

(* One sequence after another. *)
LEMMA ConcatIs ==
  ASSUME NEW S, NEW s \in Seq(S), NEW t \in Seq(S)
  PROVE  /\ s \o t \in Seq(S) /\ Len(s \o t) = Len(s) + Len(t) /\ Len(s) \in Nat /\ Len(t) \in Nat
         /\ \A k \in 1..Len(s) : (s \o t)[k] = s[k]
         /\ \A k \in 1..Len(t) : (s \o t)[Len(s) + k] = t[k]
  OBVIOUS

(* A number has one digit or two.                                          *)
LEMMA DigitsAre ==
  ASSUME NEW n \in 0..99
  PROVE  /\ Digits(n) \in Seq(Int) /\ (Len(Digits(n)) = 1 \/ Len(Digits(n)) = 2)
         /\ n < 10 => Len(Digits(n)) = 1 /\ Digits(n)[1] = n
         /\ n >= 10 => Len(Digits(n)) = 2 /\ Digits(n)[1] = n \div 10 /\ Digits(n)[2] = n % 10
<1>1. CASE n < 10
  <2>1. Digits(n) = <<n>> BY <1>1 DEF Digits
  <2> QED BY <1>1, <2>1
<1>2. CASE n >= 10
  <2>1. Digits(n) = <<n \div 10, n % 10>> BY <1>2 DEF Digits
  <2>2. n \div 10 \in Int /\ n % 10 \in Int OBVIOUS
  <2> QED BY <1>2, <2>1, <2>2
<1> QED BY <1>1, <1>2

(* What follows a dot.                                                     *)
LEMMA DottedAre ==
  ASSUME NEW v \in Version, NEW i \in 1..3
  PROVE  /\ Dotted(v, i) \in Seq(Int)
         /\ i > Len(v) => Len(Dotted(v, i)) = 0
         /\ i <= Len(v) => /\ v[i] \in 0..99
                           /\ Len(Dotted(v, i)) = 1 + Len(Digits(v[i])) /\ Dotted(v, i)[1] = -1
                           /\ \A k \in 1..Len(Digits(v[i])) : Dotted(v, i)[1 + k] = Digits(v[i])[k]
<1>1. PICK n \in 1..3 : v \in [1..n -> 0..99] BY DEF Version
<1>2. Len(v) = n BY <1>1
<1>3. CASE i > n BY <1>2, <1>3 DEF Dotted
<1>4. CASE i <= n
  <2>1. v[i] \in 0..99 BY <1>1, <1>4
  <2>2. Dotted(v, i) = <<-1>> \o Digits(v[i]) BY <1>2, <1>4 DEF Dotted
  <2>3. Digits(v[i]) \in Seq(Int) BY <2>1, DigitsAre
  <2>4. PICK d : d = Digits(v[i]) OBVIOUS
  <2>5. d \in Seq(Int) BY <2>3, <2>4
  <2>6. PICK e : e = <<-1>> \o d OBVIOUS
  <2>7. e \in Seq(Int) /\ Len(e) = 1 + Len(d) /\ e[1] = -1 /\ \A k \in 1..Len(d) : e[1 + k] = d[k]
    BY <2>5, <2>6
  <2> QED BY <1>2, <1>4, <2>1, <2>2, <2>4, <2>6, <2>7
<1> QED BY <1>2, <1>3, <1>4

(* The string of a version begins with its first number, and goes on with  *)
(* the others, which have one digit each where it matters.                 *)
LEMMA StringIs ==
  ASSUME NEW v \in Version
  PROVE  /\ v[1] \in 0..99 /\ String(v) \in Seq(Int) /\ Len(String(v)) >= Len(Digits(v[1]))
         /\ \A k \in 1..Len(Digits(v[1])) : String(v)[k] = Digits(v[1])[k]
         /\ Len(v) >= 2 /\ v[1] < 10 =>
              /\ Len(String(v)) >= 3 /\ String(v)[1] = v[1] /\ String(v)[2] = -1
              /\ v[2] < 10 => String(v)[3] = v[2]
         /\ Len(v) = 3 /\ v[1] < 10 /\ v[2] < 10 =>
              /\ Len(String(v)) >= 5 /\ String(v)[4] = -1
              /\ v[3] < 10 => Len(String(v)) = 5 /\ String(v)[5] = v[3]
<1>1. PICK n \in 1..3 : v \in [1..n -> 0..99] BY DEF Version
<1>2. Len(v) = n /\ v[1] \in 0..99 BY <1>1
<1>3. PICK a, b, c : a = Digits(v[1]) /\ b = Dotted(v, 2) /\ c = Dotted(v, 3) OBVIOUS
<1>4. a \in Seq(Int) /\ b \in Seq(Int) /\ c \in Seq(Int)
  <2>1. a \in Seq(Int) BY <1>2, <1>3, DigitsAre
  <2>2. 2 \in 1..3 /\ 3 \in 1..3 OBVIOUS
  <2>3. b \in Seq(Int) BY <1>3, <2>2, DottedAre
  <2>4. c \in Seq(Int) BY <1>3, <2>2, DottedAre
  <2> QED BY <2>1, <2>3, <2>4
<1>5. PICK s : s = a \o b \o c OBVIOUS
<1>6. String(v) = s BY <1>3, <1>5 DEF String
<1>7. /\ s \in Seq(Int) /\ Len(s) = Len(a) + Len(b) + Len(c)
      /\ Len(a) \in Nat /\ Len(b) \in Nat /\ Len(c) \in Nat
      /\ \A k \in 1..Len(a) : s[k] = a[k]
      /\ \A k \in 1..Len(b) : s[Len(a) + k] = b[k]
      /\ \A k \in 1..Len(c) : s[Len(a) + Len(b) + k] = c[k]
  <2>1. PICK d : d = a \o b OBVIOUS
  <2>2. /\ d \in Seq(Int) /\ Len(d) = Len(a) + Len(b) /\ Len(a) \in Nat /\ Len(b) \in Nat
        /\ \A k \in 1..Len(a) : d[k] = a[k]
        /\ \A k \in 1..Len(b) : d[Len(a) + k] = b[k]
    BY <1>4, <2>1, ConcatIs
  <2>3. /\ s \in Seq(Int) /\ Len(s) = Len(d) + Len(c) /\ Len(c) \in Nat
        /\ \A k \in 1..Len(d) : s[k] = d[k]
        /\ \A k \in 1..Len(c) : s[Len(d) + k] = c[k]
    BY <1>4, <1>5, <2>1, <2>2, ConcatIs
  <2>4. \A k \in 1..Len(a) : k \in 1..Len(d) BY <2>2
  <2>5. \A k \in 1..Len(b) : Len(a) + k \in 1..Len(d) BY <2>2
  <2> QED BY <2>2, <2>3, <2>4, <2>5
<1>8. Len(v) >= 2 /\ v[1] < 10 =>
        /\ Len(s) >= 3 /\ s[1] = v[1] /\ s[2] = -1
        /\ v[2] < 10 => s[3] = v[2]
  <2> SUFFICES ASSUME Len(v) >= 2, v[1] < 10
               PROVE  Len(s) >= 3 /\ s[1] = v[1] /\ s[2] = -1 /\ (v[2] < 10 => s[3] = v[2])
    OBVIOUS
  <2>1. Len(a) = 1 /\ a[1] = v[1] BY <1>2, <1>3, DigitsAre
  <2>2. v[2] \in 0..99 /\ Len(b) = 1 + Len(Digits(v[2])) /\ b[1] = -1
        /\ \A k \in 1..Len(Digits(v[2])) : b[1 + k] = Digits(v[2])[k]
    <3>1. 2 \in 1..3 OBVIOUS
    <3> QED BY <1>3, <3>1, DottedAre
  <2>3. (Len(Digits(v[2])) = 1 \/ Len(Digits(v[2])) = 2) /\ (v[2] < 10 => Digits(v[2])[1] = v[2]) BY <2>2, DigitsAre
  <2>4. s[1] = a[1] BY <1>7, <2>1
  <2>5. Len(b) = 2 \/ Len(b) = 3
    <3>1. PICK d : d = Len(Digits(v[2])) OBVIOUS
    <3>2. d = 1 \/ d = 2 BY <2>3, <3>1
    <3>3. Len(b) = 1 + d BY <2>2, <3>1
    <3> QED BY <3>2, <3>3
  <2>6. s[2] = b[1] /\ s[3] = b[2]
    <3>0. PICK lb : lb = Len(b) OBVIOUS
    <3>1. 1 \in 1..Len(b) /\ 2 \in 1..Len(b)
      <4>1. lb = 2 \/ lb = 3 BY <2>5, <3>0
      <4>2. 1 \in 1..lb /\ 2 \in 1..lb BY <4>1
      <4> QED BY <3>0, <4>2
    <3>2. s[Len(a) + 1] = b[1] /\ s[Len(a) + 2] = b[2] BY <1>7, <3>1
    <3>3. Len(a) + 1 = 2 /\ Len(a) + 2 = 3 BY <2>1
    <3> QED BY <3>2, <3>3
  <2>7. b[2] = Digits(v[2])[1]
    <3>1. 1 \in 1..Len(Digits(v[2]))
      <4>1. PICK d : d = Len(Digits(v[2])) OBVIOUS
      <4>2. d = 1 \/ d = 2 BY <2>3, <4>1
      <4>3. 1 \in 1..d BY <4>2
      <4> QED BY <4>1, <4>3
    <3>2. b[1 + 1] = Digits(v[2])[1] BY <2>2, <3>1
    <3> QED BY <3>2
  <2>8. Len(s) >= 3
    <3>1. PICK lb, n3 : lb = Len(b) /\ n3 = Len(c) OBVIOUS
    <3>2. Len(s) = 1 + lb + n3 /\ n3 \in Nat BY <1>7, <2>1, <3>1
    <3>3. lb = 2 \/ lb = 3 BY <2>5, <3>1
    <3> QED BY <3>2, <3>3
  <2> QED BY <2>1, <2>2, <2>3, <2>4, <2>6, <2>7, <2>8
<1>9. Len(v) = 3 /\ v[1] < 10 /\ v[2] < 10 =>
        /\ Len(s) >= 5 /\ s[4] = -1
        /\ v[3] < 10 => Len(s) = 5 /\ s[5] = v[3]
  <2> SUFFICES ASSUME Len(v) = 3, v[1] < 10, v[2] < 10
               PROVE  Len(s) >= 5 /\ s[4] = -1 /\ (v[3] < 10 => Len(s) = 5 /\ s[5] = v[3])
    OBVIOUS
  <2>0. 2 \in 1..3 /\ 3 \in 1..3 /\ 2 <= Len(v) /\ 3 <= Len(v) BY <1>2
  <2>1. Len(a) = 1 BY <1>2, <1>3, DigitsAre
  <2>2. v[2] \in 0..99 /\ Len(b) = 1 + Len(Digits(v[2])) BY <1>3, <2>0, DottedAre
  <2>3. Len(b) = 2
    <3>1. Len(Digits(v[2])) = 1 BY <2>2, DigitsAre
    <3> QED BY <2>2, <3>1
  <2>4. v[3] \in 0..99 /\ Len(c) = 1 + Len(Digits(v[3])) /\ c[1] = -1
        /\ \A k \in 1..Len(Digits(v[3])) : c[1 + k] = Digits(v[3])[k]
    BY <1>3, <2>0, DottedAre
  <2>5. (Len(Digits(v[3])) = 1 \/ Len(Digits(v[3])) = 2) /\ (v[3] < 10 => Len(Digits(v[3])) = 1 /\ Digits(v[3])[1] = v[3])
    BY <2>4, DigitsAre
  <2>6. Len(c) = 2 \/ Len(c) = 3
    <3>1. PICK d : d = Len(Digits(v[3])) OBVIOUS
    <3>2. d = 1 \/ d = 2 BY <2>5, <3>1
    <3>3. Len(c) = 1 + d BY <2>4, <3>1
    <3> QED BY <3>2, <3>3
  <2>7. s[4] = c[1] /\ s[5] = c[2]
    <3>1. 1 \in 1..Len(c) /\ 2 \in 1..Len(c) BY <2>6
    <3>2. s[Len(a) + Len(b) + 1] = c[1] /\ s[Len(a) + Len(b) + 2] = c[2] BY <1>7, <3>1
    <3>3. Len(a) + Len(b) + 1 = 4 /\ Len(a) + Len(b) + 2 = 5 BY <2>1, <2>3
    <3> QED BY <3>2, <3>3
  <2>8. c[2] = Digits(v[3])[1]
    <3>1. 1 \in 1..Len(Digits(v[3])) BY <2>5
    <3>2. c[1 + 1] = Digits(v[3])[1] BY <2>4, <3>1
    <3> QED BY <3>2
  <2>9. Len(s) = 3 + Len(c) BY <1>7, <2>1, <2>3
  <2>10. v[3] < 10 => Len(c) = 2 BY <2>4, <2>5
  <2> QED BY <2>4, <2>5, <2>6, <2>7, <2>8, <2>9, <2>10
<1> QED BY <1>2, <1>3, <1>6, <1>7, <1>8, <1>9

(* Three numbers are a version.                                            *)
LEMMA Triples ==
  ASSUME NEW v \in [1..3 -> 0..99]
  PROVE  v \in Version /\ Len(v) = 3 /\ v[1] \in 0..99 /\ v[2] \in 0..99 /\ v[3] \in 0..99
<1>1. 3 \in 1..3 OBVIOUS
<1>2. v \in Version BY <1>1 DEF Version
<1>3. Len(v) = 3 OBVIOUS
<1> QED BY <1>2, <1>3

(* The string of three numbers, as far as they are single digits.          *)
LEMMA TripleString ==
  ASSUME NEW v \in [1..3 -> 0..99]
  PROVE  /\ String(v) \in Seq(Int)
         /\ v[1] < 10 => Len(String(v)) >= 3 /\ String(v)[1] = v[1] /\ String(v)[2] = -1
         /\ v[1] < 10 /\ v[2] < 10 =>
              String(v)[3] = v[2] /\ Len(String(v)) >= 5 /\ String(v)[4] = -1
         /\ v[1] < 10 /\ v[2] < 10 /\ v[3] < 10 => Len(String(v)) = 5 /\ String(v)[5] = v[3]
<1>1. v \in Version /\ Len(v) = 3 BY Triples
<1>2. Len(v) >= 2 BY <1>1
<1>3. String(v) \in Seq(Int) BY <1>1, StringIs
<1>4. v[1] < 10 => Len(String(v)) >= 3 /\ String(v)[1] = v[1] /\ String(v)[2] = -1
                   /\ (v[2] < 10 => String(v)[3] = v[2])
  BY <1>1, <1>2, StringIs
<1>5. v[1] < 10 /\ v[2] < 10 =>
        Len(String(v)) >= 5 /\ String(v)[4] = -1 /\ (v[3] < 10 => Len(String(v)) = 5 /\ String(v)[5] = v[3])
  BY <1>1, StringIs
<1> QED BY <1>3, <1>4, <1>5

(* A version that is older than one of single digits is smaller as a       *)
(* string too, whatever numbers it has itself.                             *)
LEMMA OlderIsLess ==
  ASSUME NEW v \in [1..3 -> 0..99], NEW w \in [1..3 -> 0..99], SingleDigits(w), Older(v, w)
  PROVE  StringLess(String(v), String(w))
<1>1. w[1] < 10 /\ w[2] < 10 /\ w[3] < 10 BY DEF SingleDigits
<1>2. /\ v[1] \in 0..99 /\ v[2] \in 0..99 /\ v[3] \in 0..99
      /\ w[1] \in 0..99 /\ w[2] \in 0..99 /\ w[3] \in 0..99
  BY Triples
<1>3. PICK s, t : s = String(v) /\ t = String(w) OBVIOUS
<1>4. t \in Seq(Int) /\ Len(t) = 5 /\ t[1] = w[1] /\ t[2] = -1 /\ t[3] = w[2] /\ t[4] = -1 /\ t[5] = w[3]
  BY <1>1, <1>3, TripleString
<1>5. s \in Seq(Int) BY <1>3, TripleString
<1>6. Len(s) \in Nat BY <1>5
<1>7. v[1] < 10 => Len(s) >= 3 /\ s[1] = v[1] /\ s[2] = -1 BY <1>3, TripleString
<1>8. v[1] < 10 /\ v[2] < 10 => s[3] = v[2] /\ Len(s) >= 5 /\ s[4] = -1 BY <1>3, TripleString
<1>9. v[1] < 10 /\ v[2] < 10 /\ v[3] < 10 => Len(s) = 5 /\ s[5] = v[3] BY <1>3, TripleString
<1>10. ASSUME NEW i \in 1..Len(t), i <= Len(s), s[i] < t[i], \A j \in 1..(i - 1) : s[j] = t[j]
       PROVE  StringLess(s, t)
  <2>1. i <= Len(s) + 1 BY <1>4, <1>6, <1>10
  <2> QED BY <1>10, <2>1 DEF StringLess
<1>11. CASE v[1] < w[1]
  <2>1. 1 \in 1..Len(t) /\ v[1] < 10
    <3>1. 1 \in 1..5 OBVIOUS
    <3>2. 1 \in 1..Len(t) BY <1>4, <3>1
    <3>3. v[1] < 10 BY <1>1, <1>2, <1>11
    <3> QED BY <3>2, <3>3
  <2>2. 1 <= Len(s) /\ s[1] < t[1] BY <1>4, <1>6, <1>7, <1>11, <2>1
  <2>3. \A j \in 1..(1 - 1) : s[j] = t[j] OBVIOUS
  <2> QED BY <1>3, <1>10, <2>1, <2>2, <2>3
<1>12. CASE v[1] = w[1] /\ v[2] < w[2]
  <2>1. 3 \in 1..Len(t) /\ v[1] < 10 /\ v[2] < 10
    <3>1. 3 \in 1..5 OBVIOUS
    <3>2. 3 \in 1..Len(t) BY <1>4, <3>1
    <3>3. v[1] < 10 /\ v[2] < 10 BY <1>1, <1>2, <1>12
    <3> QED BY <3>2, <3>3
  <2>2. 3 <= Len(s) /\ s[3] < t[3] BY <1>4, <1>6, <1>7, <1>8, <1>12, <2>1
  <2>3. s[1] = t[1] /\ s[2] = t[2] BY <1>4, <1>7, <1>12, <2>1
  <2>4. \A j \in 1..(3 - 1) : s[j] = t[j] BY <2>3
  <2> QED BY <1>3, <1>10, <2>1, <2>2, <2>4
<1>13. CASE v[1] = w[1] /\ v[2] = w[2] /\ v[3] < w[3]
  <2>1. 5 \in 1..Len(t) /\ v[1] < 10 /\ v[2] < 10 /\ v[3] < 10
    <3>1. 5 \in 1..5 OBVIOUS
    <3>2. 5 \in 1..Len(t) BY <1>4, <3>1
    <3>3. v[1] < 10 /\ v[2] < 10 /\ v[3] < 10 BY <1>1, <1>2, <1>13
    <3> QED BY <3>2, <3>3
  <2>2. 5 <= Len(s) /\ s[5] < t[5]
    <3>1. Len(s) = 5 /\ s[5] = v[3] BY <1>9, <2>1
    <3> QED BY <1>4, <1>13, <3>1
  <2>3. s[1] = t[1] /\ s[2] = t[2] /\ s[3] = t[3] /\ s[4] = t[4] BY <1>4, <1>7, <1>8, <1>13, <2>1
  <2>4. \A j \in 1..(5 - 1) : s[j] = t[j] BY <2>3
  <2> QED BY <1>3, <1>10, <2>1, <2>2, <2>4
<1>14. v[1] < w[1] \/ (v[1] = w[1] /\ v[2] < w[2]) \/ (v[1] = w[1] /\ v[2] = w[2] /\ v[3] < w[3])
  <2>1. PICK i \in 1..3 : v[i] < w[i] /\ \A j \in 1..(i - 1) : v[j] = w[j] BY DEF Older
  <2>2. CASE i = 1 BY <2>1, <2>2
  <2>3. CASE i = 2
    <3>1. 1 \in 1..(i - 1) BY <2>3
    <3> QED BY <2>1, <2>3, <3>1
  <2>4. CASE i = 3
    <3>1. 1 \in 1..(i - 1) /\ 2 \in 1..(i - 1) BY <2>4
    <3> QED BY <2>1, <2>4, <3>1
  <2> QED BY <2>2, <2>3, <2>4
<1> QED BY <1>11, <1>12, <1>13, <1>14

(* Between versions of single digits the order of the strings is that of   *)
(* the numbers.                                                            *)
LEMMA LessIsOlder ==
  ASSUME NEW v \in [1..3 -> 0..99], NEW w \in [1..3 -> 0..99], SingleDigits(v), SingleDigits(w),
         StringLess(String(v), String(w))
  PROVE  Older(v, w)
<1>1. /\ v[1] < 10 /\ v[2] < 10 /\ v[3] < 10
      /\ w[1] < 10 /\ w[2] < 10 /\ w[3] < 10 BY DEF SingleDigits
<1>3. PICK s, t : s = String(v) /\ t = String(w) OBVIOUS
<1>4. Len(t) = 5 /\ t[1] = w[1] /\ t[2] = -1 /\ t[3] = w[2] /\ t[4] = -1 /\ t[5] = w[3]
  BY <1>1, <1>3, TripleString
<1>5. Len(s) = 5 /\ s[1] = v[1] /\ s[2] = -1 /\ s[3] = v[2] /\ s[4] = -1 /\ s[5] = v[3]
  BY <1>1, <1>3, TripleString
<1>6. StringLess(s, t) BY <1>3
<1>7. PICK i \in 1..5 : (i = 6 \/ s[i] < t[i]) /\ \A j \in 1..(i - 1) : s[j] = t[j]
  BY <1>4, <1>5, <1>6 DEF StringLess
<1>8. CASE i = 1
  <2>1. v[1] < w[1] BY <1>4, <1>5, <1>7, <1>8
  <2> QED BY <2>1 DEF Older
<1>9. CASE i = 3
  <2>1. 1 \in 1..(i - 1) BY <1>9
  <2>2. v[2] < w[2] /\ v[1] = w[1] BY <1>4, <1>5, <1>7, <1>9, <2>1
  <2>3. \A j \in 1..(2 - 1) : v[j] = w[j] BY <2>2
  <2> QED BY <2>2, <2>3 DEF Older
<1>10. CASE i = 5
  <2>1. 1 \in 1..(i - 1) /\ 3 \in 1..(i - 1) BY <1>10
  <2>2. v[3] < w[3] /\ v[1] = w[1] /\ v[2] = w[2] BY <1>4, <1>5, <1>7, <1>10, <2>1
  <2>3. \A j \in 1..(3 - 1) : v[j] = w[j] BY <2>2
  <2> QED BY <2>2, <2>3 DEF Older
<1>11. CASE i = 2 \/ i = 4 BY <1>4, <1>5, <1>7, <1>11
<1> QED BY <1>8, <1>9, <1>10, <1>11

(* As a string too, iOS 12 and what follows it is not before "12".         *)
LEMMA NotBefore12 ==
  ASSUME NEW os \in Version, Major(os) >= 12
  PROVE  ~StringLess(String(os), Digits(12))
<1>1. os[1] \in 0..99 /\ os[1] >= 12 BY StringIs DEF Major
<1>2. PICK s, d : s = String(os) /\ d = Digits(os[1]) OBVIOUS
<1>3. Len(d) = 2 /\ d[1] = os[1] \div 10 /\ d[2] = os[1] % 10
  <2>1. os[1] >= 10 BY <1>1
  <2> QED BY <1>1, <1>2, <2>1, DigitsAre
<1>4. s \in Seq(Int) /\ Len(s) >= Len(d) /\ \A k \in 1..Len(d) : s[k] = d[k] BY <1>2, StringIs
<1>5. Len(s) \in Nat BY <1>4
<1>6. Len(s) >= 2 /\ s[1] = os[1] \div 10 /\ s[2] = os[1] % 10
  <2>1. 1 \in 1..Len(d) /\ 2 \in 1..Len(d) BY <1>3
  <2> QED BY <1>3, <1>4, <2>1
<1>7. PICK n \in 0..99 : n = os[1] BY <1>1
<1>8. n \div 10 >= 1 /\ (n \div 10 = 1 => n % 10 >= 2) BY <1>1, <1>7
<1>9. PICK t : t = Digits(12) OBVIOUS
<1>10. t = <<1, 2>>
  <2>1. 12 \div 10 = 1 /\ 12 % 10 = 2 OBVIOUS
  <2> QED BY <1>9, <2>1 DEF Digits
<1>11. SUFFICES ASSUME StringLess(s, t) PROVE FALSE BY <1>2, <1>9
<1>12. PICK i \in 1..2 : (i = Len(s) + 1 \/ s[i] < t[i]) /\ \A j \in 1..(i - 1) : s[j] = t[j]
  BY <1>10, <1>11 DEF StringLess
<1>13. i # Len(s) + 1 BY <1>5, <1>6
<1>14. CASE i = 1 BY <1>6, <1>7, <1>8, <1>10, <1>12, <1>13, <1>14
<1>15. CASE i = 2
  <2>1. 1 \in 1..(i - 1) BY <1>15
  <2> QED BY <1>6, <1>7, <1>8, <1>10, <1>12, <1>13, <1>15, <2>1
<1> QED BY <1>14, <1>15

-----------------------------------------------------------------------------
(* What an answer may hold while its handler works: a dictionary of the    *)
(* client's iOS, only once the SDK is known not to be too old, and bundles *)
(* only at the end, for an SDK they do not crash.                          *)
AnswerOK(q) ==
  /\ q.at \in {"dict", "seeded"} =>
       ~TooOld(q.client) /\ q.answer.dict = "none" /\ q.answer.bundles = NoBundles
  /\ q.at = "bundles" =>
       /\ ~TooOld(q.client) /\ q.answer.bundles = NoBundles
       /\ q.answer.dict = IF Major(q.client.os) >= 12 THEN "ios12" ELSE "ios11"
  /\ q.at = "done" =>
       /\ q.answer.dict = "ios12" => Major(q.client.os) >= 12 /\ ~TooOld(q.client)
       /\ q.answer.dict = "ios11" => Major(q.client.os) < 12
       /\ Crashing(q.client) => q.answer.dict = "none" /\ q.answer.bundles = NoBundles
       /\ q.answer.bundles # NoBundles => Major(q.client.os) >= 11 /\ q.answer.bundles # Partial

(* The loop compares and publishes only a file it has read whole.          *)
FileWhole == loop.at = "downloaded" => file \in Contents

IosInv == IosTypeOK /\ FileWhole /\ \A r \in Requests : AnswerOK(req[r])

(* What is on when the service starts.                                     *)
LEMMA IosStarts == IosInit => IosInv
<1> SUFFICES ASSUME IosInit PROVE IosInv OBVIOUS
<1>1. (CHOOSE c \in Clients : TRUE) \in Clients BY IosPmtAssumption
<1>2. 1 \in Contents BY IosPmtAssumption DEF Contents
<1>3. IosTypeOK
  BY <1>1, <1>2 DEF IosInit, IosTypeOK, NoAnswer, Answers, NoBundles, Contents, Keys
<1>4. FileWhole BY DEF IosInit, FileWhole
<1>5. \A r \in Requests : AnswerOK(req[r]) BY DEF IosInit, AnswerOK
<1> QED BY <1>3, <1>4, <1>5 DEF IosInv

(* A step of one request that gives it a record that is right keeps the    *)
(* records of all right.                                                   *)
LEMMA OneAnswer ==
  ASSUME IosInv, NEW r \in Requests, NEW q, req' = [req EXCEPT ![r] = q], AnswerOK(q)
  PROVE  \A o \in Requests : AnswerOK(req'[o])
<1>1. \A o \in Requests : AnswerOK(req[o]) BY DEF IosInv
<1>2. req' = [o \in Requests |-> IF o = r THEN q ELSE req[o]] BY DEF IosInv, IosTypeOK
<1> TAKE o \in Requests
<1>3. CASE o = r
  <2>1. req'[o] = q BY <1>2, <1>3
  <2> QED BY <2>1
<1>4. CASE o # r
  <2>1. req'[o] = req[o] BY <1>2, <1>4
  <2> QED BY <1>1, <2>1
<1> QED BY <1>3, <1>4

(* The steps of a handler keep the answers right.                          *)
LEMMA HandlerSteps ==
  ASSUME IosInv, NEW r \in Requests, NEW c \in Clients,
         IconfGet(r, c) \/ Seed(r) \/ textDecrypt(r) \/ GetBundlesWithCountry(r)
  PROVE  IosTypeOK' /\ \A o \in Requests : AnswerOK(req'[o])
<1> USE DEF handler
<1>1. /\ req[r] \in [at : {"idle", "dict", "seeded", "bundles", "done"}, client : Clients, answer : Answers]
      /\ AnswerOK(req[r])
  BY DEF IosInv, IosTypeOK
<1>2. \A d \in Clients : d.os \in Version /\ Major(d.os) \in 0..99
  <2>1. \A d \in Clients : d.os \in Version BY IosPmtAssumption
  <2>2. \A v \in Version : v[1] \in 0..99 BY StringIs
  <2> QED BY <2>1, <2>2 DEF Major
<1>3. CASE IconfGet(r, c)
  <2>1. /\ NewResp("unused") \in Answers
        /\ [NoAnswer EXCEPT !.err = "empty"] \in Answers
        /\ [NewResp("ok") EXCEPT !.webViews = WebViewDict(c.slot)] \in Answers
    BY DEF NewResp, NoAnswer, Answers, WebViewDict
  <2>2. PICK q : /\ req' = [req EXCEPT ![r] = q]
                 /\ \/ q = [at |-> "done", client |-> c, answer |-> NewResp("unused")]
                    \/ q = [at |-> "done", client |-> c, answer |-> [NoAnswer EXCEPT !.err = "empty"]]
                    \/ /\ ~TooOld(c)
                       /\ q = [at |-> "dict", client |-> c,
                               answer |-> [NewResp("ok") EXCEPT !.webViews = WebViewDict(c.slot)]]
    BY <1>3 DEF IconfGet
  <2>3. AnswerOK(q)
    <3>1. \A e \in {"unused", "ok"} : NewResp(e).dict = "none" /\ NewResp(e).bundles = NoBundles
      BY DEF NewResp, NoAnswer
    <3>2. /\ [NoAnswer EXCEPT !.err = "empty"].dict = "none"
          /\ [NoAnswer EXCEPT !.err = "empty"].bundles = NoBundles
          /\ [NewResp("ok") EXCEPT !.webViews = WebViewDict(c.slot)].dict = "none"
          /\ [NewResp("ok") EXCEPT !.webViews = WebViewDict(c.slot)].bundles = NoBundles
      BY DEF NewResp, NoAnswer
    <3>3. q.answer.dict = "none" /\ q.answer.bundles = NoBundles
      <4>1. NewResp("unused").dict = "none" /\ NewResp("unused").bundles = NoBundles BY <3>1
      <4>2. CASE q.answer = NewResp("unused") BY <4>1, <4>2
      <4>3. CASE q.answer = [NoAnswer EXCEPT !.err = "empty"] BY <3>2, <4>3
      <4>4. CASE q.answer = [NewResp("ok") EXCEPT !.webViews = WebViewDict(c.slot)] BY <3>2, <4>4
      <4>5. \/ q.answer = NewResp("unused") \/ q.answer = [NoAnswer EXCEPT !.err = "empty"]
            \/ q.answer = [NewResp("ok") EXCEPT !.webViews = WebViewDict(c.slot)]
        BY <2>2
      <4> QED BY <4>2, <4>3, <4>4, <4>5
    <3>4. q.at = "done" \/ (q.at = "dict" /\ ~TooOld(q.client)) BY <2>2
    <3> QED BY <3>3, <3>4 DEF AnswerOK
  <2>4. \A o \in Requests : AnswerOK(req'[o]) BY <2>2, <2>3, OneAnswer
  <2>5. q \in [at : {"idle", "dict", "seeded", "bundles", "done"}, client : Clients, answer : Answers]
    BY <2>1, <2>2
  <2>6. IosTypeOK' BY <1>3, <2>2, <2>5 DEF IconfGet, IosInv, IosTypeOK
  <2> QED BY <2>4, <2>6
<1>4. CASE Seed(r)
  <2>1. PICK q : q = [req[r] EXCEPT !.at = "seeded"] OBVIOUS
  <2>2. req' = [req EXCEPT ![r] = q] BY <1>4, <2>1 DEF Seed, Goto
  <2>3. q.at = "seeded" /\ q.client = req[r].client /\ q.answer = req[r].answer /\ req[r].at = "dict"
    BY <1>1, <1>4, <2>1 DEF Seed
  <2>4. AnswerOK(q) BY <1>1, <2>3 DEF AnswerOK
  <2>5. \A o \in Requests : AnswerOK(req'[o]) BY <2>2, <2>4, OneAnswer
  <2>6. IosTypeOK' BY <1>1, <1>4, <2>1, <2>2 DEF Seed, IosInv, IosTypeOK
  <2> QED BY <2>5, <2>6
<1>5. CASE textDecrypt(r)
  <2>1. CASE req' = [req EXCEPT ![r].at = "done", ![r].answer = [NoAnswer EXCEPT !.err = "panic"]]
    <3>1. PICK q : q = [req[r] EXCEPT !.at = "done", !.answer = [NoAnswer EXCEPT !.err = "panic"]] OBVIOUS
    <3>2. req' = [req EXCEPT ![r] = q] BY <2>1, <3>1
    <3>3. [NoAnswer EXCEPT !.err = "panic"] \in Answers BY DEF NoAnswer, Answers
    <3>4. AnswerOK(q) BY <1>1, <3>1 DEF AnswerOK, NoAnswer, NoBundles
    <3>5. \A o \in Requests : AnswerOK(req'[o]) BY <3>2, <3>4, OneAnswer
    <3>6. IosTypeOK' BY <1>1, <1>5, <3>1, <3>2, <3>3 DEF textDecrypt, IosInv, IosTypeOK
    <3> QED BY <3>5, <3>6
  <2>2. CASE req' = [req EXCEPT ![r].at = "bundles",
                       ![r].answer.dict = IF Major(req[r].client.os) >= 12 THEN "ios12" ELSE "ios11"]
    <3>1. PICK d : d = (IF Major(req[r].client.os) >= 12 THEN "ios12" ELSE "ios11") OBVIOUS
    <3>2. PICK q : q = [req[r] EXCEPT !.at = "bundles", !.answer.dict = d] OBVIOUS
    <3>3. req' = [req EXCEPT ![r] = q] BY <2>2, <3>1, <3>2
    <3>4. q.at = "bundles" /\ q.client = req[r].client /\ q.answer = [req[r].answer EXCEPT !.dict = d]
          /\ req[r].at = "seeded"
      BY <1>1, <1>5, <3>2 DEF textDecrypt
    <3>5. q.answer.dict = d /\ q.answer.bundles = req[r].answer.bundles BY <1>1, <3>4 DEF Answers
    <3>6. AnswerOK(q) BY <1>1, <3>1, <3>4, <3>5 DEF AnswerOK
    <3>7. \A o \in Requests : AnswerOK(req'[o]) BY <3>3, <3>6, OneAnswer
    <3>8. q.answer \in Answers BY <1>1, <3>1, <3>4 DEF Answers
    <3>9. q \in [at : {"idle", "dict", "seeded", "bundles", "done"}, client : Clients, answer : Answers]
      BY <1>1, <3>2, <3>8
    <3>10. IosTypeOK' BY <1>5, <3>3, <3>9 DEF textDecrypt, IosInv, IosTypeOK
    <3> QED BY <3>7, <3>10
  <2> QED BY <1>5, <2>1, <2>2 DEF textDecrypt, Finish
<1>6. CASE GetBundlesWithCountry(r)
  <2>1. PICK found \in {NoBundles} \cup (IF Major(req[r].client.os) >= 11 THEN {bundles.map} ELSE {}) :
          req' = [req EXCEPT ![r].at = "done",
                    ![r].answer = IF Crashing(req[r].client) THEN [req[r].answer EXCEPT !.dict = "none"]
                                  ELSE [req[r].answer EXCEPT !.bundles = found]]
    BY <1>6 DEF GetBundlesWithCountry, Finish
  <2>2. found = NoBundles \/ (Major(req[r].client.os) >= 11 /\ found \in Contents)
    BY DEF IosInv, IosTypeOK
  <2>3. PICK a : a = IF Crashing(req[r].client) THEN [req[r].answer EXCEPT !.dict = "none"]
                     ELSE [req[r].answer EXCEPT !.bundles = found] OBVIOUS
  <2>4. PICK q : q = [req[r] EXCEPT !.at = "done", !.answer = a] OBVIOUS
  <2>5. req' = [req EXCEPT ![r] = q] BY <2>1, <2>3, <2>4
  <2>6. a \in Answers BY <1>1, <2>2, <2>3 DEF Answers
  <2>7. q.at = "done" /\ q.client = req[r].client /\ q.answer = a /\ req[r].at = "bundles"
    BY <1>1, <1>6, <2>4 DEF GetBundlesWithCountry
  <2>8. /\ ~TooOld(req[r].client) /\ req[r].answer.bundles = NoBundles
        /\ req[r].answer.dict = IF Major(req[r].client.os) >= 12 THEN "ios12" ELSE "ios11"
    BY <1>1, <2>7 DEF AnswerOK
  <2>9. AnswerOK(q)
    <3>0. Major(req[r].client.os) \in 0..99 BY <1>1, <1>2
    <3>1. CASE Crashing(req[r].client)
      <4>1. a.dict = "none" /\ a.bundles = NoBundles BY <1>1, <2>3, <2>8, <3>1 DEF Answers
      <4> QED BY <2>7, <4>1 DEF AnswerOK
    <3>2. CASE ~Crashing(req[r].client)
      <4>1. a.dict = req[r].answer.dict /\ a.bundles = found BY <1>1, <2>3, <3>2 DEF Answers
      <4>2. found # NoBundles => Major(req[r].client.os) >= 11 /\ found # Partial
        BY <2>2 DEF Contents, Partial
      <4>3. a.dict = "ios11" => Major(req[r].client.os) < 12 BY <2>8, <3>0, <4>1
      <4> QED BY <2>7, <2>8, <3>2, <4>1, <4>2, <4>3 DEF AnswerOK
    <3> QED BY <3>1, <3>2
  <2>10. \A o \in Requests : AnswerOK(req'[o]) BY <2>5, <2>9, OneAnswer
  <2>11. q \in [at : {"idle", "dict", "seeded", "bundles", "done"}, client : Clients, answer : Answers]
    BY <1>1, <2>4, <2>6
  <2>12. IosTypeOK' BY <1>6, <2>5, <2>11 DEF GetBundlesWithCountry, IosInv, IosTypeOK
  <2> QED BY <2>10, <2>12
<1> QED BY <1>3, <1>4, <1>5, <1>6

(* Every step keeps the invariant.                                         *)
LEMMA IosSteps == IosInv /\ [IosNext]_iosVars => IosInv'
<1> SUFFICES ASSUME IosInv, [IosNext]_iosVars PROVE IosInv' OBVIOUS
<1>1. ASSUME NEW r \in Requests, NEW c \in Clients,
             IconfGet(r, c) \/ Seed(r) \/ textDecrypt(r) \/ GetBundlesWithCountry(r)
      PROVE  IosInv'
  <2>1. IosTypeOK' /\ \A o \in Requests : AnswerOK(req'[o]) BY <1>1, HandlerSteps
  <2>2. FileWhole'
    BY <1>1 DEF IosInv, FileWhole, IconfGet, Seed, textDecrypt, GetBundlesWithCountry, handler
  <2>3. (\A o \in Requests : AnswerOK(req[o]))' BY <2>1 DEF AnswerOK
  <2> QED BY <2>1, <2>2, <2>3 DEF IosInv
<1>2. ASSUME UNCHANGED req, IosTypeOK', FileWhole' PROVE IosInv'
  BY <1>2 DEF IosInv, AnswerOK
<1>3. ASSUME NEW key \in Keys, StoreVerMap(key) PROVE IosInv'
  BY <1>2, <1>3 DEF StoreVerMap, IosInv, IosTypeOK, FileWhole
<1>4. CASE OtherDraw BY <1>2, <1>4 DEF OtherDraw, IosInv, IosTypeOK, FileWhole
<1>5. CASE Upload
  BY <1>2, <1>5, IosPmtAssumption DEF Upload, Contents, IosInv, IosTypeOK, FileWhole
<1>6. CASE Download BY <1>2, <1>6 DEF Download, IosInv, IosTypeOK, FileWhole
<1>7. CASE Same BY <1>2, <1>7 DEF Same, IosInv, IosTypeOK, FileWhole
<1>8. CASE Publish BY <1>2, <1>8 DEF Publish, IosInv, IosTypeOK, FileWhole
<1>9. CASE UNCHANGED iosVars BY <1>2, <1>9 DEF iosVars, IosInv, IosTypeOK, FileWhole
<1>10. \E c \in Clients : TRUE BY IosPmtAssumption
<1> QED BY <1>1, <1>3, <1>4, <1>5, <1>6, <1>7, <1>8, <1>9, <1>10 DEF IosNext

(* The boundaries the handler compares with, as versions.                  *)
LEMMA Boundaries ==
  \A w \in {<<3, 2, 4>>, <<2, 3, 7>>, <<2, 4, 6>>} : w \in [1..3 -> 0..99] /\ SingleDigits(w)
BY DEF SingleDigits

(* What the invariant says of an answer is what the property promises:     *)
(* here the comparisons of strings become comparisons of versions.         *)
LEMMA AnswerIsSafe == IosInv => OldSdkSafe
<1> SUFFICES ASSUME IosInv, NEW r \in Requests, req[r].at = "done"
             PROVE  LET c == req[r].client
                        answer == req[r].answer
                    IN  /\ answer.dict = "ios12" => Major(c.os) >= 12 /\ ~Older(c.sdk, <<3, 2, 4>>)
                        /\ answer.dict = "ios11" => Major(c.os) < 12
                        /\ SingleDigits(c.sdk) /\ ~Older(c.sdk, <<2, 3, 7>>) /\ ~Older(<<2, 4, 6>>, c.sdk) =>
                             answer.dict = "none" /\ answer.bundles = NoBundles
                        /\ answer.bundles # NoBundles => Major(c.os) >= 11 /\ answer.bundles # Partial
  BY DEF OldSdkSafe
<1>1. PICK c : c = req[r].client OBVIOUS
<1>2. c \in Clients /\ AnswerOK(req[r]) BY <1>1 DEF IosInv, IosTypeOK
<1>3. c.os \in Version /\ c.sdk \in [1..3 -> 0..99] BY <1>2, IosPmtAssumption
<1>4. Major(c.os) >= 12 /\ ~TooOld(c) => ~Older(c.sdk, <<3, 2, 4>>)
  <2> SUFFICES ASSUME Major(c.os) >= 12, Older(c.sdk, <<3, 2, 4>>) PROVE TooOld(c) OBVIOUS
  <2>1. ~StringLess(String(c.os), Digits(12)) BY <1>3, NotBefore12
  <2>2. <<3, 2, 4>> \in [1..3 -> 0..99] /\ SingleDigits(<<3, 2, 4>>) BY Boundaries
  <2>3. StringLess(String(c.sdk), String(<<3, 2, 4>>)) BY <1>3, <2>2, OlderIsLess
  <2> QED BY <2>1, <2>3 DEF TooOld
<1>5. SingleDigits(c.sdk) /\ ~Older(c.sdk, <<2, 3, 7>>) /\ ~Older(<<2, 4, 6>>, c.sdk) => Crashing(c)
  <2> SUFFICES ASSUME SingleDigits(c.sdk), ~Older(c.sdk, <<2, 3, 7>>), ~Older(<<2, 4, 6>>, c.sdk)
               PROVE  Crashing(c)
    OBVIOUS
  <2>1. /\ <<2, 3, 7>> \in [1..3 -> 0..99] /\ SingleDigits(<<2, 3, 7>>)
        /\ <<2, 4, 6>> \in [1..3 -> 0..99] /\ SingleDigits(<<2, 4, 6>>)
    BY Boundaries
  <2>2. ~StringLess(String(c.sdk), String(<<2, 3, 7>>)) BY <1>3, <2>1, LessIsOlder
  <2>3. ~StringLess(String(<<2, 4, 6>>), String(c.sdk)) BY <1>3, <2>1, LessIsOlder
  <2> QED BY <2>2, <2>3 DEF Crashing
<1> QED BY <1>1, <1>2, <1>4, <1>5 DEF AnswerOK

-----------------------------------------------------------------------------
(* The variables of ios_pmt keep their types, and the bundles that are     *)
(* published always come from a whole file.                                *)
THEOREM IosTypeCorrect == IosSpec => []IosTypeOK
<1>1. IosInv => IosTypeOK BY DEF IosInv
<1> QED BY <1>1, IosStarts, IosSteps, PTL DEF IosSpec

(* No client gets a dictionary or bundles that crash it (OldSdkSafe),      *)
(* however many requests seed and draw from the one generator, whatever    *)
(* the publisher tables and the bundle loop do meanwhile, and whatever the *)
(* versions are.                                                           *)
THEOREM OldSdksSafe == IosSpec => []OldSdkSafe
<1> QED BY IosStarts, IosSteps, AnswerIsSafe, PTL DEF IosSpec

-----------------------------------------------------------------------------
(* The subscriptions.                                                      *)

(* A set of natural numbers that is not empty has a least one.             *)
LEMMA Least ==
  ASSUME NEW T \in SUBSET Nat, T # {}
  PROVE  \E least \in T : \A k \in T : least <= k
<1> DEFINE R == {p \in Nat \X Nat : p[1] < p[2]}
<1>1. R = OpToRel(<, Nat) BY DEF OpToRel
<1>2. IsWellFoundedOn(R, Nat) BY <1>1, NatLessThanWellFounded
<1>3. PICK x \in T : \A y \in T : <<y, x>> \notin R
  <2> HIDE DEF R
  <2> QED BY <1>2, WFMin
<1>4. \A y \in T : ~(y < x) BY <1>3
<1> QED BY <1>3, <1>4

-----------------------------------------------------------------------------
(* Subscriptions: arithmetic, and how many draws lie up to a part. *)

(* Multiplying keeps the order.                                            *)
LEMMA Times ==
  ASSUME NEW x \in Nat, NEW y \in Nat, NEW w \in Nat
  PROVE  /\ x * w \in Nat
         /\ x <= y => x * w <= y * w
         /\ w > 0 /\ x < y => x * w + w <= y * w
<1>1. x * w \in Nat OBVIOUS
<1>2. ASSUME x <= y PROVE x * w <= y * w
  <2>1. PICK d \in Nat : y = x + d
    <3>1. y - x \in Nat /\ y = x + (y - x) BY <1>2
    <3> QED BY <3>1
  <2>2. y * w = x * w + d * w BY <2>1
  <2>3. d * w \in Nat OBVIOUS
  <2> QED BY <1>1, <2>2, <2>3
<1>3. ASSUME w > 0, x < y PROVE x * w + w <= y * w
  <2>1. PICK d \in Nat : y = x + 1 + d
    <3>1. y - x - 1 \in Nat /\ y = x + 1 + (y - x - 1) BY <1>3
    <3> QED BY <3>1
  <2>2. y * w = x * w + w + d * w BY <2>1
  <2>3. d * w \in Nat OBVIOUS
  <2> QED BY <1>1, <2>2, <2>3
<1> QED BY <1>1, <1>2, <1>3

(* The quotient of two numbers.                                            *)
LEMMA Quotient ==
  ASSUME NEW b \in Nat, NEW w \in Nat \ {0}
  PROVE  \E q \in Nat : q * w <= b /\ b < q * w + w
<1> DEFINE T == {t \in Nat : b < t * w + w}
<1>1. b \in T
  <2>1. b * w \in Nat /\ b <= b * w
    <3>1. CASE b = 0 BY <3>1
    <3>2. CASE b > 0
      <4>1. b * w = w * b BY <3>2
      <4>2. 1 * b <= w * b BY <3>2, Times
      <4> QED BY <4>1, <4>2
    <3> QED BY <3>1, <3>2
  <2> QED BY <2>1
<1>2. PICK q \in T : \A k \in T : q <= k
  <2>1. T \in SUBSET Nat /\ T # {} BY <1>1
  <2> HIDE DEF T
  <2> QED BY <2>1, Least
<1>3. q \in Nat /\ b < q * w + w OBVIOUS
<1>4. q * w <= b
  <2>1. CASE q = 0 BY <2>1
  <2>2. CASE q > 0
    <3>1. q - 1 \in Nat /\ q - 1 \notin T BY <1>2, <1>3, <2>2
    <3>2. ~(b < (q - 1) * w + w) BY <3>1
    <3>3. (q - 1) * w + w = q * w BY <1>3
    <3>4. q * w \in Nat BY <1>3
    <3> QED BY <3>2, <3>3, <3>4
  <2> QED BY <1>3, <2>1, <2>2
<1> QED BY <1>3, <1>4

(* The multiples of w up to b are those of the numbers up to the quotient. *)
LEMMA UpToQuotient ==
  ASSUME NEW b \in Nat, NEW w \in Nat \ {0}, NEW q \in Nat, q * w <= b, b < q * w + w, NEW x \in Nat
  PROVE  x * w <= b <=> x <= q
<1>1. q * w \in Nat /\ x * w \in Nat OBVIOUS
<1>2. CASE x <= q
  <2>1. x * w <= q * w BY <1>2, Times
  <2> QED BY <1>1, <1>2, <2>1
<1>3. CASE q < x
  <2>1. q * w + w <= x * w BY <1>3, Times
  <2> QED BY <1>1, <1>3, <2>1
<1> QED BY <1>2, <1>3

(* The draws that do not pass the part b of w.                             *)
UpTo(b, w) == {x \in 0..(Draws - 1) : x * w <= b * Draws}

(* As many as the part is of all draws, and at most one more.              *)
LEMMA DrawsUpTo ==
  ASSUME NEW w \in Nat \ {0}, NEW b \in 0..w
  PROVE  /\ IsFiniteSet(UpTo(b, w)) /\ Cardinality(UpTo(b, w)) \in Nat
         /\ b * Draws <= Cardinality(UpTo(b, w)) * w
         /\ Cardinality(UpTo(b, w)) * w <= b * Draws + w
<1>1. PICK d \in Nat \ {0} : d = Draws BY SubscriptionAssumption
<1>2. PICK q \in Nat : q * w <= b * d /\ b * d < q * w + w
  <2>1. b * d \in Nat BY <1>1
  <2> QED BY <2>1, Quotient
<1>3. \A x \in Nat : x * w <= b * d <=> x <= q
  <2>1. b * d \in Nat BY <1>1
  <2> QED BY <1>2, <2>1, UpToQuotient
<1>4. UpTo(b, w) = {x \in 0..(d - 1) : x <= q}
  <2>1. UpTo(b, w) = {x \in 0..(d - 1) : x * w <= b * d} BY <1>1 DEF UpTo
  <2>2. \A x \in 0..(d - 1) : x * w <= b * d <=> x <= q BY <1>1, <1>3
  <2> QED BY <2>1, <2>2
<1>5. CASE b = w
  <2>1. d * w = b * d BY <1>1, <1>5
  <2>2. d <= q
    <3>1. d * w <= b * d BY <2>1
    <3> QED BY <1>1, <1>3, <3>1
  <2>3. UpTo(b, w) = 0..(d - 1) BY <1>1, <1>2, <1>4, <2>2
  <2>4. IsFiniteSet(0..(d - 1)) /\ Cardinality(0..(d - 1)) = d BY <1>1, FS_Interval
  <2>5. Cardinality(UpTo(b, w)) = d /\ IsFiniteSet(UpTo(b, w)) BY <2>3, <2>4
  <2> QED BY <1>1, <1>5, <2>1, <2>5
<1>6. CASE b < w
  <2>1. b * d < d * w
    <3>1. b * d + d <= w * d BY <1>1, <1>6, Times
    <3>2. w * d = d * w /\ b * d \in Nat BY <1>1
    <3> QED BY <1>1, <3>1, <3>2
  <2>2. ~(d <= q)
    <3>1. ~(d * w <= b * d) BY <1>1, <2>1
    <3> QED BY <1>1, <1>3, <3>1
  <2>3. UpTo(b, w) = 0..q BY <1>1, <1>2, <1>4, <2>2
  <2>4. IsFiniteSet(0..q) /\ Cardinality(0..q) = q + 1 BY <1>2, FS_Interval
  <2>5. Cardinality(UpTo(b, w)) = q + 1 /\ IsFiniteSet(UpTo(b, w)) BY <2>3, <2>4
  <2>6. (q + 1) * w = q * w + w BY <1>2
  <2>7. q * w \in Nat /\ b * d \in Nat BY <1>1, <1>2
  <2> QED BY <1>1, <1>2, <2>5, <2>6, <2>7
<1> QED BY <1>5, <1>6

(* The draws between two parts.                                            *)
LEMMA DrawsBetween ==
  ASSUME NEW w \in Nat \ {0}, NEW b \in 0..w, NEW a \in 0..b
  PROVE  LET fresh == UpTo(b, w) \ UpTo(a, w)
         IN  /\ IsFiniteSet(fresh) /\ Cardinality(fresh) \in Nat
             /\ (b - a) * Draws <= Cardinality(fresh) * w + w
             /\ Cardinality(fresh) * w <= (b - a) * Draws + w
<1>1. PICK d \in Nat \ {0} : d = Draws BY SubscriptionAssumption
<1>2. PICK small, n : small = Cardinality(UpTo(a, w)) /\ n = Cardinality(UpTo(b, w)) OBVIOUS
<1>3. a \in 0..w OBVIOUS
<1>4. IsFiniteSet(UpTo(a, w)) /\ small \in Nat /\ a * d <= small * w /\ small * w <= a * d + w
  BY <1>1, <1>2, <1>3, DrawsUpTo
<1>5. IsFiniteSet(UpTo(b, w)) /\ n \in Nat /\ b * d <= n * w /\ n * w <= b * d + w
  BY <1>1, <1>2, DrawsUpTo
<1>6. UpTo(a, w) \subseteq UpTo(b, w)
  <2>1. a * d <= b * d BY <1>1, <1>3, Times
  <2>2. \A x \in 0..(d - 1) : x * w \in Int BY <1>1
  <2>3. a * d \in Nat /\ b * d \in Nat BY <1>1
  <2> QED BY <1>1, <2>1, <2>2, <2>3 DEF UpTo
<1>7. PICK f : f = UpTo(b, w) \ UpTo(a, w) OBVIOUS
<1>8. IsFiniteSet(f) /\ Cardinality(f) = n - small /\ Cardinality(f) \in Nat
  <2>1. IsFiniteSet(f) BY <1>5, <1>7, FS_Subset
  <2>2. UpTo(b, w) = UpTo(a, w) \cup f /\ UpTo(a, w) \cap f = {} BY <1>6, <1>7
  <2>3. Cardinality(UpTo(a, w) \cup f) = small + Cardinality(f) - Cardinality(UpTo(a, w) \cap f)
    BY <1>2, <1>4, <2>1, FS_Union
  <2>4. Cardinality({}) = 0 BY FS_EmptySet
  <2>5. Cardinality(f) \in Nat BY <2>1, FS_CardinalityType
  <2>6. n = small + Cardinality(f)
    <3>1. n = Cardinality(UpTo(a, w) \cup f) BY <1>2, <2>2
    <3>2. Cardinality(UpTo(a, w) \cap f) = 0 BY <2>2, <2>4
    <3>3. PICK k \in Nat : k = Cardinality(f) BY <2>5
    <3> QED BY <1>4, <2>3, <3>1, <3>2, <3>3
  <2> QED BY <1>4, <1>5, <2>1, <2>5, <2>6
<1>9. (n - small) * w = n * w - small * w /\ (b - a) * d = b * d - a * d BY <1>1, <1>4, <1>5
<1>10. n * w \in Nat /\ small * w \in Nat /\ a * d \in Nat /\ b * d \in Nat BY <1>1, <1>4, <1>5
<1>11. (b - a) * d <= (n - small) * w + w /\ (n - small) * w <= (b - a) * d + w
  BY <1>4, <1>5, <1>9, <1>10
<1> QED BY <1>1, <1>7, <1>8, <1>11

-----------------------------------------------------------------------------
(* Subscriptions: what the recursive functions return. *)

(* One entry of the configuration.                                         *)
Fill(cfg, c, n, div) ==
  IF ~Open(cfg[n], c) THEN div
  ELSE addApp(cfg[n], IF div = Absent THEN NewDivider ELSE div)
IsFilled(cfg, c, small, f) == f = [n \in 0..small |-> IF n = 0 THEN Absent ELSE Fill(cfg, c, n, f[n - 1])]

(* There is a function that fills the divider up to every entry.           *)
LEMMA FilledExists ==
  ASSUME NEW cfg, NEW c, NEW size \in Nat
  PROVE  \E f : IsFilled(cfg, c, size, f)
<1> DEFINE T == {k \in Nat : ~ \E f : IsFilled(cfg, c, k, f)}
<1> SUFFICES ASSUME T # {} PROVE FALSE
  OBVIOUS
<1>1. PICK k \in T : \A j \in T : k <= j
  <2> T \in SUBSET Nat OBVIOUS
  <2> HIDE DEF T
  <2> QED BY Least
<1>2. k \in Nat OBVIOUS
<1>3. PICK g : k > 0 => IsFilled(cfg, c, k - 1, g)
  <2>1. CASE k = 0 BY <2>1
  <2>2. CASE k > 0
    <3>1. k - 1 \in Nat /\ k - 1 \notin T BY <1>1, <1>2, <2>2
    <3> QED BY <3>1
  <2> QED BY <1>2, <2>1, <2>2
<1> DEFINE f == [n \in 0..k |-> IF n = 0 THEN Absent ELSE Fill(cfg, c, n, g[n - 1])]
<1>4. ASSUME NEW n \in 0..k, n # 0 PROVE g[n - 1] = f[n - 1]
  <2>1. n - 1 \in 0..(k - 1) /\ n - 1 \in 0..k /\ k > 0 BY <1>2, <1>4
  <2>2. g[n - 1] = IF n - 1 = 0 THEN Absent ELSE Fill(cfg, c, n - 1, g[(n - 1) - 1])
    BY <1>3, <2>1 DEF IsFilled
  <2>3. f[n - 1] = IF n - 1 = 0 THEN Absent ELSE Fill(cfg, c, n - 1, g[(n - 1) - 1])
    BY <2>1
  <2> QED BY <2>2, <2>3
<1>5. f = [n \in 0..k |-> IF n = 0 THEN Absent ELSE Fill(cfg, c, n, f[n - 1])]
  BY <1>4
<1>6. IsFilled(cfg, c, k, f) BY <1>5 DEF IsFilled
<1> HIDE DEF f
<1> QED BY <1>1, <1>6

(* So Filled does.                                                         *)
LEMMA FilledIs ==
  ASSUME NEW cfg \in Seq(Entry), NEW c
  PROVE  /\ Filled(cfg, c)[0] = Absent
         /\ \A n \in 1..Len(cfg) : Filled(cfg, c)[n] = Fill(cfg, c, n, Filled(cfg, c)[n - 1])
<1>1. Len(cfg) \in Nat OBVIOUS
<1>2. \E f : IsFilled(cfg, c, Len(cfg), f) BY <1>1, FilledExists
<1>3. Filled(cfg, c) = CHOOSE f : IsFilled(cfg, c, Len(cfg), f)
  BY DEF Filled, IsFilled, Fill
<1>4. IsFilled(cfg, c, Len(cfg), Filled(cfg, c)) BY <1>2, <1>3
<1>5. PICK f : f = Filled(cfg, c) OBVIOUS
<1>6. f = [n \in 0..Len(cfg) |-> IF n = 0 THEN Absent ELSE Fill(cfg, c, n, f[n - 1])]
  BY <1>4, <1>5 DEF IsFilled
<1>7. f[0] = Absent BY <1>1, <1>6
<1>8. ASSUME NEW n \in 1..Len(cfg) PROVE f[n] = Fill(cfg, c, n, f[n - 1])
  <2>1. n \in 0..Len(cfg) /\ n # 0 BY <1>1
  <2> QED BY <1>6, <2>1
<1> QED BY <1>5, <1>7, <1>8

Weigh(cfg, S, n, sum) == sum + (IF n \in S THEN cfg[n].weight ELSE 0)
IsWeighed(cfg, S, size, f) == f = [n \in 0..size |-> IF n = 0 THEN 0 ELSE Weigh(cfg, S, n, f[n - 1])]

(* There is a function that adds up the weights.                           *)
LEMMA WeighedExists ==
  ASSUME NEW cfg, NEW S, NEW size \in Nat
  PROVE  \E f : IsWeighed(cfg, S, size, f)
<1> DEFINE T == {k \in Nat : ~ \E f : IsWeighed(cfg, S, k, f)}
<1> SUFFICES ASSUME T # {} PROVE FALSE
  OBVIOUS
<1>1. PICK k \in T : \A j \in T : k <= j
  <2> T \in SUBSET Nat OBVIOUS
  <2> HIDE DEF T
  <2> QED BY Least
<1>2. k \in Nat OBVIOUS
<1>3. PICK g : k > 0 => IsWeighed(cfg, S, k - 1, g)
  <2>1. CASE k = 0 BY <2>1
  <2>2. CASE k > 0
    <3>1. k - 1 \in Nat /\ k - 1 \notin T BY <1>1, <1>2, <2>2
    <3> QED BY <3>1
  <2> QED BY <1>2, <2>1, <2>2
<1> DEFINE f == [n \in 0..k |-> IF n = 0 THEN 0 ELSE Weigh(cfg, S, n, g[n - 1])]
<1>4. ASSUME NEW n \in 0..k, n # 0 PROVE g[n - 1] = f[n - 1]
  <2>1. n - 1 \in 0..(k - 1) /\ n - 1 \in 0..k /\ k > 0 BY <1>2, <1>4
  <2>2. g[n - 1] = IF n - 1 = 0 THEN 0 ELSE Weigh(cfg, S, n - 1, g[(n - 1) - 1])
    BY <1>3, <2>1 DEF IsWeighed
  <2>3. f[n - 1] = IF n - 1 = 0 THEN 0 ELSE Weigh(cfg, S, n - 1, g[(n - 1) - 1])
    BY <2>1
  <2> QED BY <2>2, <2>3
<1>5. f = [n \in 0..k |-> IF n = 0 THEN 0 ELSE Weigh(cfg, S, n, f[n - 1])]
  BY <1>4
<1>6. IsWeighed(cfg, S, k, f) BY <1>5 DEF IsWeighed
<1> HIDE DEF f
<1> QED BY <1>1, <1>6

(* So WeightUpTo does, and its sums are numbers that only grow.            *)
LEMMA WeightIs ==
  ASSUME NEW cfg \in Seq(Entry), NEW S
  PROVE  /\ WeightUpTo(cfg, S)[0] = 0
         /\ \A n \in 1..Len(cfg) :
              WeightUpTo(cfg, S)[n] = WeightUpTo(cfg, S)[n - 1] + (IF n \in S THEN cfg[n].weight ELSE 0)
         /\ \A n \in 0..Len(cfg) : WeightUpTo(cfg, S)[n] \in 0..Weight(cfg, S)
<1>1. PICK size \in Nat : size = Len(cfg) OBVIOUS
<1>2. \E f : IsWeighed(cfg, S, size, f) BY <1>1, WeighedExists
<1>3. WeightUpTo(cfg, S) = CHOOSE f : IsWeighed(cfg, S, size, f)
  BY <1>1 DEF WeightUpTo, IsWeighed, Weigh
<1>4. IsWeighed(cfg, S, size, WeightUpTo(cfg, S)) BY <1>2, <1>3
<1>5. PICK f : f = WeightUpTo(cfg, S) OBVIOUS
<1>6. f = [n \in 0..size |-> IF n = 0 THEN 0 ELSE Weigh(cfg, S, n, f[n - 1])]
  BY <1>4, <1>5 DEF IsWeighed
<1>7. f[0] = 0 BY <1>1, <1>6
<1>8. ASSUME NEW n \in 1..size PROVE f[n] = f[n - 1] + (IF n \in S THEN cfg[n].weight ELSE 0)
  <2>1. n \in 0..size /\ n # 0 BY <1>1
  <2> QED BY <1>6, <2>1 DEF Weigh
<1>9. ASSUME NEW n \in 1..size PROVE cfg[n].weight \in Nat
  <2>1. cfg[n] \in Entry BY <1>1
  <2> QED BY <2>1 DEF Entry
<1>10. ASSUME NEW n \in 1..size, f[n - 1] \in Nat PROVE f[n] \in Nat /\ f[n - 1] <= f[n]
  <2>1. CASE n \in S
    <3>1. f[n] = f[n - 1] + cfg[n].weight BY <1>8, <2>1
    <3> QED BY <1>9, <1>10, <3>1
  <2>2. CASE n \notin S
    <3>1. f[n] = f[n - 1] + 0 BY <1>8, <2>2
    <3> QED BY <1>10, <3>1
  <2> QED BY <2>1, <2>2
<1>11. \A n \in 0..size : f[n] \in Nat
  <2> DEFINE T == {n \in 0..size : f[n] \notin Nat}
  <2> SUFFICES ASSUME T # {} PROVE FALSE OBVIOUS
  <2>1. PICK k \in T : \A j \in T : k <= j
    <3> T \in SUBSET Nat BY <1>1
    <3> HIDE DEF T
    <3> QED BY Least
  <2>2. k \in 1..size BY <1>1, <1>7
  <2>3. k - 1 \in 0..size /\ k - 1 \notin T BY <1>1, <2>1, <2>2
  <2>4. f[k - 1] \in Nat BY <2>3
  <2> QED BY <1>10, <2>2, <2>4
<1>12. \A n \in 0..size : f[n] <= f[size]
  <2> DEFINE T == {j \in 0..size : ~(f[size - j] <= f[size])}
  <2>1. T = {}
    <3> SUFFICES ASSUME T # {} PROVE FALSE OBVIOUS
    <3>1. PICK k \in T : \A j \in T : k <= j
      <4> T \in SUBSET Nat BY <1>1
      <4> HIDE DEF T
      <4> QED BY Least
    <3>2. f[size] <= f[size] /\ f[size - 0] = f[size] BY <1>1, <1>11
    <3>3. k \in 1..size BY <1>1, <3>2
    <3>4. k - 1 \in 0..size /\ k - 1 \notin T BY <1>1, <3>1, <3>3
    <3>5. f[size - (k - 1)] <= f[size] BY <3>4
    <3>6. PICK n \in 1..size : n = size - (k - 1) BY <1>1, <3>3, SMTT(30)
    <3>7. n - 1 = size - k /\ n - 1 \in 0..size BY <1>1, <3>3, <3>6
    <3>8. f[n - 1] <= f[n] /\ f[n] \in Nat /\ f[n - 1] \in Nat /\ f[size] \in Nat
      <4>1. size \in 0..size /\ n \in 0..size BY <1>1
      <4> QED BY <1>10, <1>11, <3>7, <4>1
    <3>9. f[size - k] <= f[size] BY <3>5, <3>6, <3>7, <3>8
    <3> QED BY <3>9
  <2> TAKE n \in 0..size
  <2>2. size - n \in 0..size /\ size - (size - n) = n BY <1>1
  <2>3. size - n \notin T BY <2>1
  <2> QED BY <2>2, <2>3
<1>13. Weight(cfg, S) = f[size] BY <1>1, <1>5 DEF Weight
<1>14. \A n \in 0..size : f[n] \in 0..f[size]
  <2>1. size \in 0..size BY <1>1
  <2> QED BY <1>11, <1>12, <2>1
<1> QED BY <1>1, <1>5, <1>7, <1>8, <1>13, <1>14

-----------------------------------------------------------------------------
(* Subscriptions: the divider while it is filled. *)

(* The weights in the list only grow, up to their sum.                     *)
Growing(d) ==
  /\ d \in Divider
  /\ d.list = <<>> => d.sum = 0
  /\ d.list # <<>> => d.list[Len(d.list)].upTo = d.sum
  /\ \A j \in DOMAIN d.list : d.list[j].upTo <= d.sum

(* What AddObj returns.                                                    *)
LEMMA Added ==
  ASSUME NEW d, Growing(d), NEW w \in Nat, NEW ch \in Channels
  PROVE  /\ AddObj(d, w, ch) = [sum |-> d.sum + w, compiled |-> d.compiled,
                                list |-> Append(d.list, [upTo |-> d.sum + w, channel |-> ch])]
         /\ Growing(AddObj(d, w, ch))
<1> DEFINE Item == [upTo : Nat, channel : Channels]
<1>1. d \in Divider /\ d.sum \in Nat /\ d.list \in Seq(Item) /\ d.compiled \in BOOLEAN
  BY DEF Growing, Divider
<1>2. PICK l : l = d.list OBVIOUS
<1>3. l \in Seq(Item) /\ Len(l) \in Nat /\ (l = <<>> <=> Len(l) = 0) BY <1>1, <1>2
<1>4. (IF l = <<>> THEN 0 ELSE l[Len(l)].upTo) = d.sum BY <1>2 DEF Growing
<1>5. PICK it : it = [upTo |-> d.sum + w, channel |-> ch] OBVIOUS
<1>6. it \in Item /\ it.upTo = d.sum + w BY <1>1, <1>5
<1>7. PICK longer : longer = Append(l, it) OBVIOUS
<1>8. /\ longer \in Seq(Item) /\ Len(longer) = Len(l) + 1 /\ longer # <<>> /\ longer[Len(l) + 1] = it
      /\ \A j \in 1..Len(l) : longer[j] = l[j]
  BY <1>3, <1>6, <1>7
<1>9. AddObj(d, w, ch) = [sum |-> d.sum + w, compiled |-> d.compiled, list |-> longer]
  <2>1. d = [sum |-> d.sum, list |-> d.list, compiled |-> d.compiled] BY <1>1 DEF Divider
  <2>2. AddObj(d, w, ch) =
          [d EXCEPT !.sum = d.sum + w,
                    !.list = Append(d.list, [upTo |-> (IF d.list = <<>> THEN 0 ELSE d.list[Len(d.list)].upTo) + w,
                                             channel |-> ch])]
    BY DEF AddObj
  <2>3. AddObj(d, w, ch) = [d EXCEPT !.sum = d.sum + w, !.list = longer]
    BY <1>2, <1>4, <1>5, <1>7, <2>2
  <2> QED BY <2>1, <2>3
<1>10. PICK e : e = AddObj(d, w, ch) OBVIOUS
<1>11. e.sum = d.sum + w /\ e.list = longer /\ e.compiled = d.compiled /\ e \in Divider
  BY <1>1, <1>8, <1>9, <1>10 DEF Divider
<1>12. ASSUME NEW j \in DOMAIN longer PROVE longer[j].upTo <= d.sum + w
  <2>1. j \in 1..(Len(l) + 1) BY <1>8
  <2>2. CASE j = Len(l) + 1 BY <1>1, <1>6, <1>8, <2>2
  <2>3. CASE j \in 1..Len(l)
    <3>1. j \in DOMAIN l /\ longer[j] = l[j] BY <1>3, <1>8, <2>3
    <3>2. l[j].upTo <= d.sum BY <1>2, <3>1 DEF Growing
    <3>3. l[j] \in Item
      <4> HIDE DEF Item
      <4> QED BY <1>3, <2>3
    <3>4. l[j].upTo \in Nat BY <3>3
    <3> QED BY <1>1, <3>1, <3>2, <3>4
  <2> QED BY <1>3, <2>1, <2>2, <2>3
<1>13. longer[Len(longer)].upTo = d.sum + w BY <1>6, <1>8
<1>14. Growing(e) BY <1>8, <1>11, <1>12, <1>13 DEF Growing
<1> QED BY <1>2, <1>5, <1>7, <1>9, <1>10, <1>14

(* One entry of the configuration leaves the divider, or adds what it      *)
(* sells to it.                                                            *)
Selling(d, w, ch) ==
  [sum |-> d.sum + w, compiled |-> FALSE, list |-> Append(d.list, [upTo |-> d.sum + w, channel |-> ch])]

Fills(cfg, c, n, d) ==
  /\ n \in Sold(cfg, c) =>
       /\ cfg[n].channel \in Channels /\ cfg[n].weight \in Nat
       /\ Fill(cfg, c, n, d) = Selling(d, cfg[n].weight, cfg[n].channel)
  /\ n \notin Sold(cfg, c) =>
       Fill(cfg, c, n, d).sum = d.sum /\ Fill(cfg, c, n, d).list = d.list
  /\ Growing(Fill(cfg, c, n, d))
  /\ Fill(cfg, c, n, d) = Absent \/ ~Fill(cfg, c, n, d).compiled

(* One entry, in these words.                                              *)
LEMMA FillIs ==
  ASSUME NEW cfg \in Seq(Entry), NEW c, NEW n \in 1..Len(cfg), NEW d, Growing(d), d = Absent \/ ~d.compiled
  PROVE  Fills(cfg, c, n, d)
<1>1. n \in DOMAIN cfg /\ cfg[n] \in Entry OBVIOUS
<1>2. cfg[n].weight \in Nat BY <1>1 DEF Entry
<1>3. PICK b : b = IF d = Absent THEN NewDivider ELSE d OBVIOUS
<1>4. Growing(b) /\ ~b.compiled /\ b.sum = d.sum /\ b.list = d.list
  <2>1. CASE d = Absent
    <3>1. b = NewDivider BY <1>3, <2>1
    <3>2. NewDivider \in Divider /\ NewDivider.list = <<>> /\ NewDivider.sum = 0 /\ NewDivider.compiled = FALSE
      BY DEF NewDivider, Divider
    <3>3. d.list = <<>> /\ d.sum = 0 BY <2>1 DEF Absent
    <3>4. \A j \in DOMAIN <<>> : FALSE OBVIOUS
    <3>5. \A j \in DOMAIN NewDivider.list : NewDivider.list[j].upTo <= NewDivider.sum BY <3>2, <3>4
    <3> QED BY <3>1, <3>2, <3>3, <3>5 DEF Growing
  <2>2. CASE d # Absent BY <1>3, <2>2
  <2> QED BY <2>1, <2>2
<1>5. n \in Sold(cfg, c) <=> Open(cfg[n], c) /\ cfg[n].channel \in Channels BY <1>1 DEF Sold
<1>6. Fill(cfg, c, n, d) = IF ~Open(cfg[n], c) THEN d ELSE addApp(cfg[n], b) BY <1>3 DEF Fill
<1>7. CASE ~Open(cfg[n], c)
  <2>1. Fill(cfg, c, n, d) = d BY <1>6, <1>7
  <2> QED BY <1>5, <1>7, <2>1 DEF Fills
<1>8. CASE Open(cfg[n], c) /\ cfg[n].channel \notin Channels
  <2>1. Fill(cfg, c, n, d) = b BY <1>6, <1>8 DEF addApp
  <2> QED BY <1>4, <1>5, <1>8, <2>1 DEF Fills
<1>9. CASE n \in Sold(cfg, c)
  <2>1. cfg[n].channel \in Channels BY <1>5, <1>9
  <2>2. Fill(cfg, c, n, d) = AddObj(b, cfg[n].weight, cfg[n].channel) BY <1>5, <1>6, <1>9 DEF addApp
  <2>3. Growing(AddObj(b, cfg[n].weight, cfg[n].channel)) BY <1>2, <1>4, <2>1, Added
  <2>4. AddObj(b, cfg[n].weight, cfg[n].channel) =
          [sum |-> b.sum + cfg[n].weight, compiled |-> b.compiled,
           list |-> Append(b.list, [upTo |-> b.sum + cfg[n].weight, channel |-> cfg[n].channel])]
    BY <1>2, <1>4, <2>1, Added
  <2>5. b.compiled = FALSE
    <3>1. b \in Divider BY <1>4 DEF Growing
    <3> QED BY <1>4, <3>1 DEF Divider
  <2>6. Fill(cfg, c, n, d) = Selling(d, cfg[n].weight, cfg[n].channel)
    BY <1>4, <2>2, <2>4, <2>5 DEF Selling
  <2>7. Fill(cfg, c, n, d).compiled = FALSE BY <2>6 DEF Selling
  <2> QED BY <1>2, <1>9, <2>1, <2>2, <2>3, <2>6, <2>7 DEF Fills
<1> QED BY <1>5, <1>7, <1>8, <1>9

(* What the divider holds after n entries of the configuration.            *)
HoldsSold(cfg, c, n, d) ==
  /\ Growing(d) /\ (d = Absent \/ ~d.compiled)
  /\ d.sum = WeightUpTo(cfg, Sold(cfg, c))[n]
  /\ \A i \in Sold(cfg, c) : i <= n => d.list # <<>>
  /\ \A j \in DOMAIN d.list : \E i \in Sold(cfg, c) : i <= n /\ cfg[i].channel = d.list[j].channel

(* It holds just what is sold, with its weights.                           *)
LEMMA FilledHoldsSold ==
  ASSUME NEW cfg \in Seq(Entry), NEW c, NEW n \in 0..Len(cfg)
  PROVE  HoldsSold(cfg, c, n, Filled(cfg, c)[n])
<1>1. PICK size \in Nat : size = Len(cfg) OBVIOUS
<1>2. PICK S : S = Sold(cfg, c) OBVIOUS
<1>3. S \subseteq 1..size BY <1>1, <1>2 DEF Sold
<1>4. PICK f : f = Filled(cfg, c) OBVIOUS
<1>5. PICK g : g = WeightUpTo(cfg, S) OBVIOUS
<1>6. f[0] = Absent /\ \A k \in 1..size : f[k] = Fill(cfg, c, k, f[k - 1]) BY <1>1, <1>4, FilledIs
<1>7. g[0] = 0 /\ \A k \in 1..size : g[k] = g[k - 1] + (IF k \in S THEN cfg[k].weight ELSE 0)
  BY <1>1, <1>5, WeightIs
<1>8. HoldsSold(cfg, c, 0, f[0])
  <2>1. Absent \in Divider /\ Absent.list = <<>> /\ Absent.sum = 0 BY DEF Absent, Divider
  <2>2. \A j \in DOMAIN <<>> : FALSE OBVIOUS
  <2>3. Growing(Absent) BY <2>1, <2>2 DEF Growing
  <2>4. \A i \in S : ~(i <= 0) BY <1>1, <1>3
  <2> QED BY <1>2, <1>5, <1>6, <1>7, <2>1, <2>2, <2>3, <2>4 DEF HoldsSold
<1>9. ASSUME NEW k \in 1..size, HoldsSold(cfg, c, k - 1, f[k - 1]) PROVE HoldsSold(cfg, c, k, f[k])
  <2>1. PICK d : d = f[k - 1] OBVIOUS
  <2>2. PICK e : e = f[k] OBVIOUS
  <2>3. e = Fill(cfg, c, k, d) BY <1>6, <2>1, <2>2
  <2>4. HoldsSold(cfg, c, k - 1, d) BY <1>9, <2>1
  <2>5. Growing(d) /\ (d = Absent \/ ~d.compiled) BY <2>4 DEF HoldsSold
  <2>12. Fills(cfg, c, k, d)
    <3>1. k \in 1..Len(cfg) BY <1>1
    <3> QED BY <2>5, <3>1, FillIs
  <2>6. Growing(e) /\ (e = Absent \/ ~e.compiled) BY <2>3, <2>12 DEF Fills
  <2>7. d.sum = g[k - 1] /\ d.sum \in Nat
    <3>1. d.sum = g[k - 1] BY <1>2, <1>5, <2>4 DEF HoldsSold
    <3> QED BY <2>5, <3>1 DEF Growing, Divider
  <2>8. \A i \in S : i <= k => i <= k - 1 \/ i = k BY <1>1, <1>3
  <2>9. \A i \in S : i <= k - 1 => i <= k BY <1>1, <1>3
  <2>10. CASE k \in S
    <3>1. e = [sum |-> d.sum + cfg[k].weight, compiled |-> FALSE,
               list |-> Append(d.list, [upTo |-> d.sum + cfg[k].weight, channel |-> cfg[k].channel])]
      BY <1>2, <2>3, <2>10, <2>12 DEF Fills, Selling
    <3>2. e.sum = g[k]
      <4>1. g[k] = g[k - 1] + cfg[k].weight BY <1>7, <2>10
      <4>2. e.sum = d.sum + cfg[k].weight BY <3>1
      <4> QED BY <2>7, <4>1, <4>2
    <3>3. PICK it : it = [upTo |-> d.sum + cfg[k].weight, channel |-> cfg[k].channel] OBVIOUS
    <3>4. e.list = Append(d.list, it) BY <3>1, <3>3
    <3>5. PICK T : d.list \in Seq(T) BY <2>5 DEF Growing, Divider
    <3>6. /\ e.list # <<>> /\ e.list[Len(d.list) + 1] = it /\ Len(d.list) \in Nat
          /\ DOMAIN e.list = 1..(Len(d.list) + 1) /\ DOMAIN d.list = 1..Len(d.list)
          /\ \A j \in 1..Len(d.list) : e.list[j] = d.list[j]
      <4>1. d.list \in Seq(T \cup {it}) BY <3>5
      <4> QED BY <3>4, <4>1
    <3>7. ASSUME NEW j \in DOMAIN e.list
          PROVE  \E i \in S : i <= k /\ cfg[i].channel = e.list[j].channel
      <4>1. CASE j = Len(d.list) + 1
        <5>1. e.list[j].channel = cfg[k].channel BY <3>3, <3>6, <4>1
        <5>2. k <= k BY <1>1
        <5> QED BY <2>10, <5>1, <5>2
      <4>2. CASE j \in 1..Len(d.list)
        <5>1. \E i \in S : i <= k - 1 /\ cfg[i].channel = d.list[j].channel
          BY <1>2, <2>4, <3>6, <4>2 DEF HoldsSold
        <5> QED BY <2>9, <3>6, <4>2, <5>1
      <4> QED BY <3>6, <4>1, <4>2
    <3> QED BY <1>2, <1>5, <2>2, <2>6, <3>2, <3>6, <3>7 DEF HoldsSold
  <2>11. CASE k \notin S
    <3>1. e.sum = d.sum /\ e.list = d.list BY <1>2, <2>3, <2>11, <2>12 DEF Fills
    <3>2. g[k] = g[k - 1] + 0 BY <1>7, <2>11
    <3>3. e.sum = g[k] BY <2>7, <3>1, <3>2
    <3>4. \A i \in S : i <= k => e.list # <<>>
      BY <1>2, <2>4, <2>8, <2>11, <3>1 DEF HoldsSold
    <3>5. \A j \in DOMAIN e.list : \E i \in S : i <= k /\ cfg[i].channel = e.list[j].channel
      BY <1>2, <2>4, <2>9, <3>1 DEF HoldsSold
    <3> QED BY <1>2, <1>5, <2>2, <2>6, <3>3, <3>4, <3>5 DEF HoldsSold
  <2> QED BY <2>10, <2>11
<1>10. \A k \in 0..size : HoldsSold(cfg, c, k, f[k])
  <2> DEFINE T == {k \in 0..size : ~HoldsSold(cfg, c, k, f[k])}
  <2> SUFFICES ASSUME T # {} PROVE FALSE OBVIOUS
  <2>1. PICK k \in T : \A j \in T : k <= j
    <3> T \in SUBSET Nat BY <1>1
    <3> HIDE DEF T
    <3> QED BY Least
  <2>2. k \in 1..size BY <1>1, <1>8
  <2>3. k - 1 \in 0..size /\ k - 1 \notin T BY <1>1, <2>1, <2>2
  <2>4. HoldsSold(cfg, c, k - 1, f[k - 1]) BY <2>3
  <2> QED BY <1>9, <2>2, <2>4
<1> QED BY <1>1, <1>4, <1>10

-----------------------------------------------------------------------------
(* Subscriptions: which draws a divider gives to a channel. *)

(* The draws whose first weight that is not below them is one of ch.       *)
Hits(d, ch, w) ==
  {x \in 0..(Draws - 1) :
     \E j \in DOMAIN d.list :
       /\ d.list[j].channel = ch /\ x \in UpTo(d.list[j].upTo, w)
       /\ \A k \in 1..(j - 1) : x \notin UpTo(d.list[k].upTo, w)}

(* The draws up to a part are among those up to a larger one.              *)
LEMMA UpToGrows ==
  ASSUME NEW w \in Nat, NEW b \in Nat, NEW a \in 0..b
  PROVE  UpTo(a, w) \subseteq UpTo(b, w)
<1>1. PICK d \in Nat \ {0} : d = Draws BY SubscriptionAssumption
<1>2. a \in Nat /\ a <= b OBVIOUS
<1>3. a * d <= b * d BY <1>1, <1>2, Times
<1>4. \A x \in 0..(d - 1) : x * w \in Int BY <1>1
<1>5. a * d \in Nat /\ b * d \in Nat BY <1>1
<1> QED BY <1>1, <1>3, <1>4, <1>5 DEF UpTo

(* The draws that no weight in the list reaches yet, and a new one does.   *)
Fresh(d, b, w) == {x \in UpTo(b, w) : \A k \in DOMAIN d.list : x \notin UpTo(d.list[k].upTo, w)}

(* As many as its part of all, give or take one.                           *)
LEMMA FreshShare ==
  ASSUME NEW d, Growing(d), NEW p \in Nat, NEW w \in Nat \ {0}, d.sum + p <= w
  PROVE  LET n == Cardinality(Fresh(d, d.sum + p, w))
         IN  IsFiniteSet(Fresh(d, d.sum + p, w)) /\ n \in Nat /\ p * Draws <= n * w + w /\ n * w <= p * Draws + w
<1>1. PICK a \in Nat : a = d.sum BY DEF Growing, Divider
<1>2. PICK b \in 0..w : b = a + p BY <1>1
<1>3. CASE d.list = <<>>
  <2>1. a = 0 /\ b = p BY <1>1, <1>2, <1>3 DEF Growing
  <2>2. \A k \in DOMAIN <<>> : FALSE OBVIOUS
  <2>3. Fresh(d, b, w) = UpTo(b, w) BY <1>3, <2>2 DEF Fresh
  <2>4. PICK n : n = Cardinality(UpTo(b, w)) OBVIOUS
  <2>5. IsFiniteSet(UpTo(b, w)) /\ n \in Nat /\ b * Draws <= n * w /\ n * w <= b * Draws + w
    BY <2>4, DrawsUpTo
  <2>6. p * Draws <= n * w + w
    <3>1. Draws \in Nat BY SubscriptionAssumption
    <3>2. p * Draws \in Nat /\ n * w \in Nat BY <2>5, <3>1
    <3> QED BY <2>1, <2>5, <3>2
  <2> QED BY <1>1, <1>2, <2>1, <2>3, <2>4, <2>5, <2>6
<1>4. CASE d.list # <<>>
  <2>1. PICK l : l = d.list OBVIOUS
  <2>2. PICK size \in Nat : size = Len(l) /\ size \in DOMAIN l
    <3>1. PICK T : l \in Seq(T) BY <2>1 DEF Growing, Divider
    <3>2. PICK size \in Nat : size = Len(l) /\ DOMAIN l = 1..size /\ size # 0 BY <1>4, <2>1, <3>1
    <3>3. size \in DOMAIN l BY <3>2
    <3> QED BY <3>2, <3>3
  <2>3. l[size].upTo = a BY <1>1, <1>4, <2>1, <2>2 DEF Growing
  <2>4. ASSUME NEW k \in DOMAIN l PROVE UpTo(l[k].upTo, w) \subseteq UpTo(a, w)
    <3>1. l[k].upTo \in Nat
      <4> DEFINE Item == [upTo : Nat, channel : Channels]
      <4>1. l \in Seq(Item) BY <2>1 DEF Growing, Divider
      <4>2. l[k] \in Item
        <5> HIDE DEF Item
        <5> QED BY <4>1
      <4> QED BY <4>2
    <3>2. l[k].upTo \in 0..a BY <1>1, <2>1, <3>1 DEF Growing
    <3> QED BY <3>2, UpToGrows
  <2>5. Fresh(d, b, w) = UpTo(b, w) \ UpTo(a, w) BY <2>1, <2>2, <2>3, <2>4 DEF Fresh
  <2>6. a \in 0..b BY <1>1, <1>2
  <2>7. PICK fresh : fresh = UpTo(b, w) \ UpTo(a, w) OBVIOUS
  <2>8. /\ IsFiniteSet(fresh) /\ Cardinality(fresh) \in Nat
        /\ (b - a) * Draws <= Cardinality(fresh) * w + w
        /\ Cardinality(fresh) * w <= (b - a) * Draws + w
    BY <2>6, <2>7, DrawsBetween
  <2>9. b - a = p BY <1>1, <1>2
  <2> QED BY <1>1, <1>2, <2>5, <2>7, <2>8, <2>9
<1> QED BY <1>3, <1>4

(* Adding a weight gives its channel the fresh draws and changes no other. *)
LEMMA HitsOfSelling ==
  ASSUME NEW d, Growing(d), NEW p \in Nat, NEW q, NEW ch, NEW w \in Nat
  PROVE  /\ q # ch => Hits(Selling(d, p, q), ch, w) = Hits(d, ch, w)
         /\ q = ch => Hits(Selling(d, p, q), ch, w) = Hits(d, ch, w) \cup Fresh(d, d.sum + p, w)
         /\ Hits(d, ch, w) \cap Fresh(d, d.sum + p, w) = {}
<1>1. PICK b : b = d.sum + p OBVIOUS
<1>2. PICK l : l = d.list OBVIOUS
<1>3. PICK longer : longer = Selling(d, p, q).list OBVIOUS
<1>4. PICK n \in Nat : n = Len(l) /\ DOMAIN l = 1..n
  <2>1. PICK T : l \in Seq(T) BY <1>2 DEF Growing, Divider
  <2> QED BY <2>1
<1>5. /\ DOMAIN longer = 1..(n + 1) /\ longer[n + 1].upTo = b /\ longer[n + 1].channel = q
      /\ \A j \in 1..n : longer[j] = l[j]
  <2>1. PICK T : l \in Seq(T) BY <1>2 DEF Growing, Divider
  <2>2. PICK it : it = [upTo |-> b, channel |-> q] OBVIOUS
  <2>3. longer = Append(l, it) BY <1>1, <1>2, <1>3, <2>2 DEF Selling
  <2>4. l \in Seq(T \cup {it}) BY <2>1
  <2>5. DOMAIN longer = 1..(n + 1) /\ longer[n + 1] = it /\ \A j \in 1..n : longer[j] = l[j] BY <1>4, <2>3, <2>4
  <2> QED BY <2>2, <2>5
<1> DEFINE At(s, x, j) == /\ s[j].channel = ch /\ x \in UpTo(s[j].upTo, w)
                          /\ \A k \in 1..(j - 1) : x \notin UpTo(s[k].upTo, w)
<1>6. Hits(d, ch, w) = {x \in 0..(Draws - 1) : \E j \in 1..n : At(l, x, j)} BY <1>2, <1>4 DEF Hits
<1>7. Hits(Selling(d, p, q), ch, w) = {x \in 0..(Draws - 1) : \E j \in 1..(n + 1) : At(longer, x, j)}
  BY <1>3, <1>5 DEF Hits
<1>8. \A x : \A j \in 1..n : At(longer, x, j) <=> At(l, x, j)
  <2> TAKE x
  <2> TAKE j \in 1..n
  <2>1. \A k \in 1..(j - 1) : k \in 1..n BY <1>4
  <2> QED BY <1>5, <2>1
<1>9. \A x : At(longer, x, n + 1) <=> q = ch /\ x \in UpTo(b, w) /\ \A k \in 1..n : x \notin UpTo(l[k].upTo, w)
  <2>1. (n + 1) - 1 = n BY <1>4
  <2> QED BY <1>5, <2>1
<1>10. Fresh(d, b, w) = {x \in 0..(Draws - 1) : x \in UpTo(b, w) /\ \A k \in 1..n : x \notin UpTo(l[k].upTo, w)}
  BY <1>2, <1>4 DEF Fresh, UpTo
<1>11. \A j : j \in 1..(n + 1) <=> j \in 1..n \/ j = n + 1 BY <1>4
<1>12. \A x : (\E j \in 1..(n + 1) : At(longer, x, j)) <=> (\E j \in 1..n : At(l, x, j)) \/ At(longer, x, n + 1)
  <2> HIDE DEF At
  <2> QED BY <1>8, <1>11
<1>13. \A x : x \in Hits(d, ch, w) => x \notin Fresh(d, b, w) BY <1>6, <1>10
<1> HIDE DEF At
<1>14. ASSUME q # ch PROVE Hits(Selling(d, p, q), ch, w) = Hits(d, ch, w)
  BY <1>6, <1>7, <1>9, <1>12, <1>14
<1>15. ASSUME q = ch PROVE Hits(Selling(d, p, q), ch, w) = Hits(d, ch, w) \cup Fresh(d, b, w)
  BY <1>6, <1>7, <1>9, <1>10, <1>12, <1>15
<1> QED BY <1>1, <1>13, <1>14, <1>15

(* What is drawn of a divider that sells something with a weight is the    *)
(* channel the draw hits.                                                  *)
LEMMA Drawn ==
  ASSUME NEW d, Growing(d), d.list # <<>>, d.sum > 0, NEW x \in 0..(Draws - 1)
  PROVE  /\ \E j \in DOMAIN d.list : GetObj(Compile(d), x) = d.list[j].channel
         /\ \A ch : GetObj(Compile(d), x) = ch <=> x \in Hits(d, ch, d.sum)
<1>1. PICK w \in Nat \ {0} : w = d.sum BY DEF Growing, Divider
<1>2. PICK l : l = d.list
  <2> WITNESS d.list
  <2> QED OBVIOUS
<1>3. PICK n \in Nat \ {0} : n = Len(l) /\ DOMAIN l = 1..n
  <2>1. PICK T : l \in Seq(T) BY <1>2 DEF Growing, Divider
  <2>2. Len(l) \in Nat /\ DOMAIN l = 1..Len(l) /\ Len(l) # 0 BY <1>2, <2>1
  <2> QED BY <2>2
<1>4. PICK dr \in Nat \ {0} : dr = Draws BY SubscriptionAssumption
<1>5. PICK e : e = Compile(d) OBVIOUS
<1>6. e.list = l /\ e.sum = w /\ e.compiled = TRUE
  <2>1. e = [d EXCEPT !.compiled = TRUE] BY <1>5 DEF Compile
  <2>2. d \in Divider BY DEF Growing
  <2> QED BY <1>1, <1>2, <2>1, <2>2 DEF Divider
<1>7. x * w \in Nat /\ \A k \in 1..n : l[k].upTo \in Nat /\ l[k].upTo * dr \in Nat
  <2>1. x * w \in Nat BY <1>1, <1>4
  <2>2. ASSUME NEW k \in 1..n PROVE l[k].upTo \in Nat
    <3> DEFINE Item == [upTo : Nat, channel : Channels]
    <3>1. l \in Seq(Item) BY <1>2 DEF Growing, Divider
    <3>2. l[k] \in Item
      <4> HIDE DEF Item
      <4> QED BY <1>3, <3>1
    <3> QED BY <3>2
  <2>3. \A k \in Nat : k * dr \in Nat BY <1>4
  <2> QED BY <2>1, <2>2, <2>3
<1> DEFINE R == {k \in 1..n : x \in UpTo(l[k].upTo, w)}
<1>8. \A k \in 1..n : x \in UpTo(l[k].upTo, w) <=> l[k].upTo * dr >= x * w
  BY <1>4, <1>7 DEF UpTo
<1>9. {i \in DOMAIN e.list : e.sum > 0 /\ e.list[i].upTo * Draws >= x * e.sum} = R
  BY <1>1, <1>3, <1>4, <1>6, <1>8
<1>10. n \in R
  <2>1. l[n].upTo = w BY <1>1, <1>2, <1>3 DEF Growing
  <2>2. x \in Nat /\ x <= dr BY <1>4
  <2>3. x * w <= dr * w BY <1>4, <2>2, Times
  <2>4. dr * w = w * dr BY <1>4
  <2>5. n \in 1..n BY <1>3
  <2>6. w * dr >= x * w BY <1>7, <2>3, <2>4
  <2> QED BY <1>8, <2>1, <2>5, <2>6
<1>11. PICK i \in R : \A j \in R : i <= j
  <2>1. R \in SUBSET Nat /\ R # {} BY <1>3, <1>10
  <2> HIDE DEF R
  <2> QED BY <2>1, Least
<1>12. i \in 1..n OBVIOUS
<1>13. SearchFloat64s(e, x) = i
  <2>1. \A j \in R : (\A k \in R : j <= k) => j = i BY <1>3, <1>11
  <2>2. (CHOOSE j \in R : \A k \in R : j <= k) = i
    <3> HIDE DEF R
    <3> QED BY <1>11, <2>1
  <2>3. SearchFloat64s(e, x) = IF R = {} THEN Len(e.list) + 1 ELSE CHOOSE j \in R : \A k \in R : j <= k
    <3>1. PICK X : X = {k \in DOMAIN e.list : e.sum > 0 /\ e.list[k].upTo * Draws >= x * e.sum} OBVIOUS
    <3>2. SearchFloat64s(e, x) = IF X = {} THEN Len(e.list) + 1 ELSE CHOOSE j \in X : \A k \in X : j <= k
      BY <3>1 DEF SearchFloat64s
    <3>3. X = R BY <1>9, <3>1
    <3> HIDE DEF R
    <3> QED BY <3>2, <3>3
  <2> HIDE DEF R
  <2> QED BY <1>10, <2>2, <2>3
<1>14. GetObj(e, x) = l[i].channel BY <1>3, <1>6, <1>12, <1>13 DEF GetObj
<1>15. \A k \in 1..(i - 1) : x \notin UpTo(l[k].upTo, w)
  <2> TAKE k \in 1..(i - 1)
  <2>1. k \in 1..n /\ k < i BY <1>3, <1>12
  <2>2. k \notin R BY <1>11, <1>12, <2>1
  <2> QED BY <2>1, <2>2
<1>16. \A j \in 1..n : x \in UpTo(l[j].upTo, w) /\ (\A k \in 1..(j - 1) : x \notin UpTo(l[k].upTo, w)) => j = i
  <2> SUFFICES ASSUME NEW j \in 1..n, x \in UpTo(l[j].upTo, w),
                      \A k \in 1..(j - 1) : x \notin UpTo(l[k].upTo, w)
               PROVE  j = i
    OBVIOUS
  <2>1. j \in R OBVIOUS
  <2>2. i <= j BY <1>11, <2>1
  <2>3. ~(i < j)
    <3>1. i \notin 1..(j - 1) BY <1>11
    <3> QED BY <1>3, <1>12, <3>1
  <2> QED BY <1>3, <1>12, <2>2, <2>3
<1>17. ASSUME NEW ch PROVE l[i].channel = ch <=> x \in Hits(d, ch, w)
  <2>1. x \in Hits(d, ch, w) <=>
          \E j \in 1..n : /\ l[j].channel = ch /\ x \in UpTo(l[j].upTo, w)
                          /\ \A k \in 1..(j - 1) : x \notin UpTo(l[k].upTo, w)
    BY <1>2, <1>3 DEF Hits
  <2>2. x \in UpTo(l[i].upTo, w) BY <1>11
  <2> HIDE DEF R
  <2> QED BY <1>12, <1>15, <1>16, <2>1, <2>2
<1> QED BY <1>1, <1>2, <1>3, <1>5, <1>12, <1>14, <1>17

-----------------------------------------------------------------------------
(* Subscriptions: the shares of the channels. *)

(* With every fresh share the error grows by one draw.                     *)
LEMMA ErrorsAdd ==
  ASSUME NEW w \in Nat, NEW h \in Nat, NEW f \in Nat, NEW a \in Nat, NEW p \in Nat, NEW e \in Nat, NEW t \in Nat,
         h * w <= a * t + e * w, a * t <= h * w + e * w, f * w <= p * t + w, p * t <= f * w + w
  PROVE  /\ (h + f) * w <= (a + p) * t + (e + 1) * w
         /\ (a + p) * t <= (h + f) * w + (e + 1) * w
<1>1. (h + f) * w = h * w + f * w /\ (a + p) * t = a * t + p * t /\ (e + 1) * w = e * w + w OBVIOUS
<1>2. h * w \in Nat /\ f * w \in Nat /\ a * t \in Nat /\ p * t \in Nat /\ e * w \in Nat OBVIOUS
<1> QED BY <1>1, <1>2

(* What a channel gets of the draws, when the divider d holds n entries of *)
(* the configuration: its part of all that will be sold.                   *)
FairShare(cfg, c, ch, n, d) ==
  LET w == Weight(cfg, Sold(cfg, c))
      hits == Hits(d, ch, w)
      mine == {i \in SoldOf(cfg, c, ch) : i <= n}
      weight == WeightUpTo(cfg, SoldOf(cfg, c, ch))[n]
  IN  /\ IsFiniteSet(hits) /\ IsFiniteSet(mine)
      /\ Cardinality(hits) * w <= weight * Draws + Cardinality(mine) * w
      /\ weight * Draws <= Cardinality(hits) * w + Cardinality(mine) * w

(* Entry by entry, the shares are fair.                                    *)
LEMMA FilledFairShare ==
  ASSUME NEW cfg \in Seq(Entry), NEW c, NEW ch, NEW n \in 0..Len(cfg), Weight(cfg, Sold(cfg, c)) > 0
  PROVE  FairShare(cfg, c, ch, n, Filled(cfg, c)[n])
<1>1. PICK size \in Nat : size = Len(cfg) OBVIOUS
<1>2. PICK S : S = Sold(cfg, c) OBVIOUS
<1>3. PICK P : P = SoldOf(cfg, c, ch) OBVIOUS
<1>4. S \subseteq 1..size /\ P = {i \in S : cfg[i].channel = ch} BY <1>1, <1>2, <1>3 DEF Sold, SoldOf
<1>5. PICK f : f = Filled(cfg, c) OBVIOUS
<1>6. f[0] = Absent /\ \A k \in 1..size : f[k] = Fill(cfg, c, k, f[k - 1]) BY <1>1, <1>5, FilledIs
<1>7. PICK g : g = WeightUpTo(cfg, P) OBVIOUS
<1>8. /\ g[0] = 0 /\ \A k \in 1..size : g[k] = g[k - 1] + (IF k \in P THEN cfg[k].weight ELSE 0)
      /\ \A k \in 0..size : g[k] \in Nat
  <2>1. \A k \in 0..size : g[k] \in 0..Weight(cfg, P) BY <1>1, <1>7, WeightIs
  <2> QED BY <1>1, <1>7, <2>1, WeightIs, SMTT(30)
<1>9. PICK w \in Nat \ {0} : w = Weight(cfg, S)
  <2>1. Len(cfg) \in 0..Len(cfg) BY <1>1
  <2>2. WeightUpTo(cfg, S)[Len(cfg)] \in 0..Weight(cfg, S) BY <2>1, WeightIs
  <2>3. Weight(cfg, S) \in Nat BY <2>2 DEF Weight
  <2> QED BY <1>2, <2>3
<1>10. ASSUME NEW k \in 0..size PROVE HoldsSold(cfg, c, k, f[k]) /\ f[k].sum \in 0..w
  <2>1. HoldsSold(cfg, c, k, f[k]) BY <1>1, <1>5, FilledHoldsSold
  <2>2. WeightUpTo(cfg, S)[k] \in 0..w BY <1>1, <1>9, WeightIs
  <2> QED BY <1>2, <2>1, <2>2 DEF HoldsSold
<1>11. PICK t \in Nat : t = Draws BY SubscriptionAssumption
<1> DEFINE Mine(k) == {i \in P : i <= k}
<1>12. \A k, d : FairShare(cfg, c, ch, k, d) <=>
         /\ IsFiniteSet(Hits(d, ch, w)) /\ IsFiniteSet(Mine(k))
         /\ Cardinality(Hits(d, ch, w)) * w <= g[k] * t + Cardinality(Mine(k)) * w
         /\ g[k] * t <= Cardinality(Hits(d, ch, w)) * w + Cardinality(Mine(k)) * w
  BY <1>2, <1>3, <1>7, <1>9, <1>11 DEF FairShare
<1>13. \A i \in P : i \in Nat /\ 0 < i BY <1>1, <1>4
<1>14. FairShare(cfg, c, ch, 0, f[0])
  <2>1. \A j \in DOMAIN <<>> : FALSE OBVIOUS
  <2>2. Hits(f[0], ch, w) = {} BY <1>6, <2>1 DEF Hits, Absent
  <2>3. Mine(0) = {}
    <3>1. \A i \in P : ~(i <= 0) BY <1>13
    <3> QED BY <3>1
  <2>4. IsFiniteSet({}) /\ Cardinality({}) = 0 BY FS_EmptySet
  <2>5. g[0] * t = 0 /\ 0 * w = 0 BY <1>8
  <2> HIDE DEF Mine
  <2>6. PICK z : z = Cardinality({}) BY <2>4
  <2>7. z * w <= g[0] * t + z * w /\ g[0] * t <= z * w + z * w BY <1>8, <2>4, <2>5, <2>6
  <2> QED BY <1>12, <2>2, <2>3, <2>4, <2>6, <2>7
<1>15. ASSUME NEW k \in 1..size, FairShare(cfg, c, ch, k - 1, f[k - 1]) PROVE FairShare(cfg, c, ch, k, f[k])
  <2>1. PICK d : d = f[k - 1] OBVIOUS
  <2>2. PICK e : e = f[k] OBVIOUS
  <2>3. k - 1 \in 0..size BY <1>1
  <2>4. HoldsSold(cfg, c, k - 1, d) BY <1>10, <2>1, <2>3
  <2>5. Growing(d) /\ (d = Absent \/ ~d.compiled) BY <2>4 DEF HoldsSold
  <2>6. Fills(cfg, c, k, d) /\ e = Fill(cfg, c, k, d)
    <3>1. k \in 1..Len(cfg) BY <1>1
    <3> QED BY <1>6, <2>1, <2>2, <2>5, <3>1, FillIs
  <2>7. PICK H : H = Hits(d, ch, w) OBVIOUS
  <2>8. PICK M : M = Mine(k - 1) OBVIOUS
  <2>9. /\ IsFiniteSet(H) /\ IsFiniteSet(M)
        /\ Cardinality(H) * w <= g[k - 1] * t + Cardinality(M) * w
        /\ g[k - 1] * t <= Cardinality(H) * w + Cardinality(M) * w
    <3> HIDE DEF Mine
    <3> QED BY <1>12, <1>15, <2>1, <2>7, <2>8
  <2>10. CASE k \notin P
    <3>1. g[k] = g[k - 1]
      <4>1. g[k] = g[k - 1] + 0 BY <1>8, <2>10
      <4> QED BY <1>8, <2>3, <4>1
    <3>2. Mine(k) = M
      <4>1. \A i \in P : i <= k <=> i <= k - 1 BY <1>1, <1>13, <2>10
      <4> QED BY <2>8, <4>1
    <3>3. Hits(e, ch, w) = H
      <4>1. CASE k \notin S
        <5>1. e.list = d.list BY <1>2, <2>6, <4>1 DEF Fills
        <5> QED BY <2>7, <5>1 DEF Hits
      <4>2. CASE k \in S
        <5>1. cfg[k].channel # ch BY <1>4, <2>10, <4>2
        <5>2. e = Selling(d, cfg[k].weight, cfg[k].channel) /\ cfg[k].weight \in Nat
          BY <1>2, <2>6, <4>2 DEF Fills
        <5> QED BY <2>5, <2>7, <5>1, <5>2, HitsOfSelling
      <4> QED BY <4>1, <4>2
    <3> HIDE DEF Mine
    <3> QED BY <1>12, <2>2, <2>9, <3>1, <3>2, <3>3
  <2>11. CASE k \in P
    <3>1. k \in S /\ cfg[k].channel = ch BY <1>4, <2>11
    <3>2. PICK p \in Nat : p = cfg[k].weight BY <1>2, <2>6, <3>1 DEF Fills
    <3>3. e = Selling(d, p, ch) BY <1>2, <2>6, <3>1, <3>2 DEF Fills
    <3>4. g[k] = g[k - 1] + p BY <1>8, <2>11, <3>2
    <3>5. d.sum + p <= w
      <4>1. e.sum = d.sum + p BY <3>3 DEF Selling
      <4>2. k \in 0..size BY <1>1
      <4>3. e.sum \in 0..w BY <1>10, <2>2, <4>2
      <4> QED BY <4>1, <4>3
    <3>6. PICK F : F = Fresh(d, d.sum + p, w) OBVIOUS
    <3>7. /\ IsFiniteSet(F) /\ Cardinality(F) \in Nat
          /\ p * t <= Cardinality(F) * w + w /\ Cardinality(F) * w <= p * t + w
      BY <1>11, <2>5, <3>5, <3>6, FreshShare
    <3>8. Hits(e, ch, w) = H \cup F /\ H \cap F = {} BY <2>5, <2>7, <3>3, <3>6, HitsOfSelling
    <3>9. Mine(k) = M \cup {k} /\ k \notin M
      <4>1. \A i \in P : i <= k <=> i <= k - 1 \/ i = k BY <1>1, <1>13
      <4>2. ~(k <= k - 1) BY <1>1
      <4> QED BY <2>8, <2>11, <4>1, <4>2
    <3>10. PICK h \in Nat : h = Cardinality(H) BY <2>9, FS_CardinalityType
    <3>11. PICK q \in Nat : q = Cardinality(F) BY <3>7
    <3>12. PICK r \in Nat : r = Cardinality(M) BY <2>9, FS_CardinalityType
    <3>13. IsFiniteSet(H \cup F) /\ Cardinality(H \cup F) = h + q
      <4>1. IsFiniteSet(H \cup F) /\ Cardinality(H \cup F) = Cardinality(H) + Cardinality(F) - Cardinality(H \cap F)
        BY <2>9, <3>7, FS_Union
      <4>2. Cardinality(H \cap F) = 0 BY <3>8, FS_EmptySet
      <4> QED BY <3>10, <3>11, <4>1, <4>2
    <3>14. IsFiniteSet(M \cup {k}) /\ Cardinality(M \cup {k}) = r + 1
      BY <2>9, <3>9, <3>12, FS_AddElement
    <3>15. PICK a \in Nat : a = g[k - 1] BY <1>8, <2>3
    <3>16. h * w <= a * t + r * w /\ a * t <= h * w + r * w BY <2>9, <3>10, <3>12, <3>15
    <3>17. q * w <= p * t + w /\ p * t <= q * w + w BY <3>7, <3>11
    <3>18. /\ (h + q) * w <= (a + p) * t + (r + 1) * w
           /\ (a + p) * t <= (h + q) * w + (r + 1) * w
      BY <3>16, <3>17, ErrorsAdd
    <3> HIDE DEF Mine
    <3> QED BY <1>12, <2>2, <3>4, <3>8, <3>9, <3>13, <3>14, <3>15, <3>18
  <2> QED BY <2>10, <2>11
<1>16. \A k \in 0..size : FairShare(cfg, c, ch, k, f[k])
  <2> HIDE DEF Mine
  <2> DEFINE T == {k \in 0..size : ~FairShare(cfg, c, ch, k, f[k])}
  <2> SUFFICES ASSUME T # {} PROVE FALSE OBVIOUS
  <2>1. PICK k \in T : \A j \in T : k <= j
    <3> T \in SUBSET Nat BY <1>1
    <3> HIDE DEF T
    <3> QED BY Least
  <2>2. k \in 1..size BY <1>1, <1>14
  <2>3. k - 1 \in 0..size /\ k - 1 \notin T BY <1>1, <2>1, <2>2
  <2>4. FairShare(cfg, c, ch, k - 1, f[k - 1]) BY <2>3
  <2> QED BY <1>15, <2>2, <2>4
<1> QED BY <1>1, <1>5, <1>16

(* What a published divider is and draws.                                  *)
LEMMA Built ==
  ASSUME NEW cfg \in Configs, NEW c \in Countries
  PROVE  LET S == Sold(cfg, c)
             b == Build(cfg)[c]
         IN  /\ b \in Divider
             /\ b = Absent => S = {}
             /\ b # Absent => \A x \in 0..(Draws - 1) :
                  \/ \E i \in S : cfg[i].channel \in Channels /\ GetObj(b, x) = cfg[i].channel
                  \/ GetObj(b, x) = "ErrNotCompiled" /\ S = {}
                  \/ GetObj(b, x) = "panic" /\ S # {} /\ Weight(cfg, S) = 0
<1>1. cfg \in Seq(Entry) BY SubscriptionAssumption
<1>2. PICK size \in Nat : size = Len(cfg) /\ DOMAIN cfg = 1..size BY <1>1
<1>3. PICK S : S = Sold(cfg, c) OBVIOUS
<1>4. PICK d : d = Filled(cfg, c)[size] OBVIOUS
<1>5. PICK b : b = Build(cfg)[c] OBVIOUS
<1>6. b = Compile(d) BY <1>2, <1>4, <1>5 DEF Build
<1>7. HoldsSold(cfg, c, size, d)
  <2>1. size \in 0..Len(cfg) BY <1>2
  <2> QED BY <1>1, <1>4, <2>1, FilledHoldsSold
<1>8. Growing(d) /\ (d = Absent \/ ~d.compiled) BY <1>7 DEF HoldsSold
<1>9. d \in Divider /\ d.sum \in Nat BY <1>8 DEF Growing, Divider
<1>10. S \subseteq 1..size /\ \A i \in S : i <= size /\ cfg[i].channel \in Channels BY <1>2, <1>3 DEF Sold
<1>11. d.sum = Weight(cfg, S) BY <1>2, <1>3, <1>7 DEF HoldsSold, Weight
<1>12. CASE d.list = <<>>
  <2>1. b = d BY <1>6, <1>12 DEF Compile
  <2>2. S = {} BY <1>3, <1>7, <1>10, <1>12 DEF HoldsSold
  <2>3. ASSUME d # Absent, NEW x PROVE GetObj(d, x) = "ErrNotCompiled"
    <3>1. ~d.compiled BY <1>8, <2>3
    <3> QED BY <3>1 DEF GetObj
  <2> QED BY <1>3, <1>5, <1>9, <2>1, <2>2, <2>3
<1>13. CASE d.list # <<>>
  <2>1. b = [d EXCEPT !.compiled = TRUE] BY <1>6, <1>13 DEF Compile
  <2>2. b \in Divider /\ b.list = d.list /\ b.sum = d.sum /\ b.compiled = TRUE BY <1>9, <2>1 DEF Divider
  <2>3. b # Absent BY <1>13, <2>2 DEF Absent
  <2>4. PICK n \in Nat : n = Len(d.list) /\ DOMAIN d.list = 1..n /\ n # 0
    <3>1. PICK T : d.list \in Seq(T) BY <1>9 DEF Divider
    <3> QED BY <1>13, <3>1
  <2>5. \A j \in DOMAIN d.list : \E i \in S : i <= size /\ cfg[i].channel = d.list[j].channel
    BY <1>3, <1>7 DEF HoldsSold
  <2>6. S # {}
    <3>1. 1 \in DOMAIN d.list BY <2>4
    <3> QED BY <2>5, <3>1
  <2>7. ASSUME NEW x \in 0..(Draws - 1)
        PROVE  \/ \E i \in S : cfg[i].channel \in Channels /\ GetObj(b, x) = cfg[i].channel
               \/ GetObj(b, x) = "panic" /\ S # {} /\ Weight(cfg, S) = 0
    <3>1. CASE d.sum > 0
      <4>1. PICK j \in DOMAIN d.list : GetObj(b, x) = d.list[j].channel BY <1>6, <1>8, <1>13, <3>1, Drawn
      <4> QED BY <1>10, <2>5, <4>1
    <3>2. CASE d.sum = 0
      <4>1. SearchFloat64s(b, x) = n + 1 BY <2>2, <2>4, <3>2 DEF SearchFloat64s
      <4>2. n + 1 \notin DOMAIN b.list BY <2>2, <2>4
      <4>3. GetObj(b, x) = "panic" BY <2>2, <4>1, <4>2 DEF GetObj
      <4> QED BY <1>11, <2>6, <3>2, <4>3
    <3> QED BY <1>9, <3>1, <3>2
  <2> QED BY <1>3, <1>5, <2>2, <2>3, <2>7
<1> QED BY <1>12, <1>13

(* The shares a published divider gives.                                   *)
LEMMA BuiltShares ==
  ASSUME NEW cfg \in Configs, NEW c \in Countries, NEW ch \in Channels, Weight(cfg, Sold(cfg, c)) > 0
  PROVE  LET sum == Weight(cfg, Sold(cfg, c))
             exact == Draws * Weight(cfg, SoldOf(cfg, c, ch))
             entries == Cardinality(SoldOf(cfg, c, ch))
         IN  /\ Share(Build(cfg)[c], ch) * sum <= exact + entries * sum
             /\ Share(Build(cfg)[c], ch) * sum >= exact - entries * sum
<1>1. cfg \in Seq(Entry) BY SubscriptionAssumption
<1>2. PICK size \in Nat : size = Len(cfg) /\ DOMAIN cfg = 1..size BY <1>1
<1>3. size \in 0..Len(cfg) BY <1>2
<1>4. PICK d : d = Filled(cfg, c)[size] OBVIOUS
<1>5. Build(cfg)[c] = Compile(d) BY <1>2, <1>4 DEF Build
<1>6. HoldsSold(cfg, c, size, d) BY <1>1, <1>3, <1>4, FilledHoldsSold
<1>7. FairShare(cfg, c, ch, size, d) BY <1>1, <1>3, <1>4, FilledFairShare
<1>8. PICK w : w = Weight(cfg, Sold(cfg, c)) OBVIOUS
<1>9. Growing(d) /\ d.sum = w BY <1>2, <1>6, <1>8 DEF HoldsSold, Weight
<1>10. w \in Nat \ {0} /\ d.sum > 0 /\ d.list # <<>> BY <1>8, <1>9 DEF Growing, Divider
<1>11. Share(Build(cfg)[c], ch) = Cardinality(Hits(d, ch, w))
  <2>1. {x \in 0..(Draws - 1) : GetObj(Compile(d), x) = ch} = Hits(d, ch, w)
    <3>1. \A x \in 0..(Draws - 1) : GetObj(Compile(d), x) = ch <=> x \in Hits(d, ch, w)
      BY <1>9, <1>10, Drawn
    <3>2. Hits(d, ch, w) \subseteq 0..(Draws - 1) BY DEF Hits
    <3> QED BY <3>1, <3>2
  <2> QED BY <1>5, <2>1 DEF Share
<1>12. PICK P : P = SoldOf(cfg, c, ch) OBVIOUS
<1>13. {i \in P : i <= size} = P BY <1>2, <1>12 DEF SoldOf, Sold
<1>14. PICK t \in Nat : t = Draws BY SubscriptionAssumption
<1>15. PICK a \in Nat : a = Weight(cfg, P) /\ a = WeightUpTo(cfg, P)[size]
  <2>1. WeightUpTo(cfg, P)[size] \in Nat BY <1>1, <1>3, WeightIs
  <2> QED BY <1>2, <2>1 DEF Weight
<1>16. PICK h : h = Cardinality(Hits(d, ch, w)) OBVIOUS
<1>17. PICK e : e = Cardinality(P) OBVIOUS
<1>18. h \in Nat /\ e \in Nat /\ h * w <= a * t + e * w /\ a * t <= h * w + e * w
  <2>1. IsFiniteSet(Hits(d, ch, w)) /\ IsFiniteSet(P) BY <1>7, <1>8, <1>12, <1>13 DEF FairShare
  <2>2. h \in Nat /\ e \in Nat BY <1>16, <1>17, <2>1, FS_CardinalityType
  <2>3. h * w <= a * t + e * w /\ a * t <= h * w + e * w
    BY <1>7, <1>8, <1>12, <1>13, <1>14, <1>15, <1>16, <1>17 DEF FairShare
  <2> QED BY <2>2, <2>3
<1>19. h * w <= t * a + e * w /\ h * w >= t * a - e * w
  <2>1. a * t = t * a /\ a * t \in Nat /\ h * w \in Nat /\ e * w \in Nat BY <1>10, <1>18
  <2> QED BY <1>18, <2>1
<1> QED BY <1>8, <1>11, <1>12, <1>14, <1>15, <1>16, <1>17, <1>19

-----------------------------------------------------------------------------
(* Subscriptions: the invariant.  The dividers published are always those  *)
(* of the last configuration, and a request that draws holds one that was  *)
(* built for its country from the configuration of its moment.             *)
SubInv ==
  /\ SubTypeOK /\ subCountry = Build(config) /\ ServedAsConfigured
  /\ \A r \in Readers : subReq[r].at = "drawing" =>
       subReq[r].div # Absent /\ subReq[r].div = Build(subReq[r].config)[subReq[r].country]

(* What ServedAsConfigured says of one request. *)
ServedRight(rq) ==
  LET sold == Sold(rq.config, rq.country)
  IN  CASE rq.at = "served" -> \E i \in sold : rq.config[i].channel = rq.channel
        [] rq.at = "nothing" -> sold = {}
        [] rq.at = "panic" -> sold # {} /\ Weight(rq.config, sold) = 0
        [] OTHER -> TRUE
HoldsBuilt(rq) ==
  rq.at = "drawing" => rq.div # Absent /\ rq.div = Build(rq.config)[rq.country]
RequestRight(rq) == rq \in Served /\ ServedRight(rq) /\ HoldsBuilt(rq)

(* The invariant speaks of one request at a time.                          *)
LEMMA SubInvIs ==
  SubInv <=> /\ rounds \in 1..MaxRounds /\ config \in Configs
             /\ subCountry \in [Countries -> Divider] /\ subCountry = Build(config)
             /\ subReq \in [Readers -> Served] /\ \A r \in Readers : RequestRight(subReq[r])
<1>1. ServedAsConfigured <=> \A r \in Readers : ServedRight(subReq[r]) BY DEF ServedAsConfigured, ServedRight
<1>2. subReq \in [Readers -> Served] => \A r \in Readers : subReq[r] \in Served OBVIOUS
<1> QED BY <1>1, <1>2 DEF SubInv, SubTypeOK, HoldsBuilt, RequestRight

(* The dividers of a configuration are dividers.                           *)
LEMMA BuildType ==
  ASSUME NEW cfg \in Configs
  PROVE  Build(cfg) \in [Countries -> Divider]
<1>1. \A c \in Countries : Build(cfg)[c] \in Divider BY Built
<1> QED BY <1>1 DEF Build

(* It holds at first. *)
LEMMA SubInvInit == SubInit => SubInv
<1> SUFFICES ASSUME SubInit PROVE SubInv OBVIOUS
<1>1. config \in Configs /\ subCountry = Build(config) /\ rounds = 1 BY DEF SubInit
<1>2. 1 \in 1..MaxRounds BY SubscriptionAssumption
<1>3. subCountry \in [Countries -> Divider] BY <1>1, BuildType
<1>4. PICK c \in Countries : c = CHOOSE k \in Countries : TRUE BY SubscriptionAssumption
<1>5. PICK ch \in Channels : ch = CHOOSE k \in Channels : TRUE BY SubscriptionAssumption
<1>6. PICK rq : rq = [at |-> "idle", country |-> c, div |-> Absent, config |-> config, channel |-> ch] OBVIOUS
<1>7. subReq = [r \in Readers |-> rq] BY <1>4, <1>5, <1>6 DEF SubInit
<1>8. Absent \in Divider BY DEF Absent, Divider
<1>9. rq \in Served /\ rq.at = "idle" BY <1>1, <1>6, <1>8 DEF Served
<1>10. RequestRight(rq) BY <1>9 DEF RequestRight, ServedRight, HoldsBuilt
<1> QED BY <1>1, <1>2, <1>3, <1>7, <1>9, <1>10, SubInvIs

(* Every step keeps it. *)
LEMMA SubInvStep == SubInv /\ [SubNext]_subVars => SubInv'
<1> SUFFICES ASSUME SubInv, [SubNext]_subVars PROVE SubInv' OBVIOUS
<1>1. /\ rounds \in 1..MaxRounds /\ config \in Configs
      /\ subCountry \in [Countries -> Divider] /\ subCountry = Build(config)
      /\ subReq \in [Readers -> Served] /\ \A r \in Readers : RequestRight(subReq[r])
  BY SubInvIs
<1>2. SubInv' <=> /\ rounds' \in 1..MaxRounds /\ config' \in Configs
                  /\ subCountry' \in [Countries -> Divider] /\ subCountry' = Build(config')
                  /\ subReq' \in [Readers -> Served] /\ \A r \in Readers : RequestRight(subReq'[r])
  <2>1. SubInv' <=> (/\ rounds \in 1..MaxRounds /\ config \in Configs
                     /\ subCountry \in [Countries -> Divider] /\ subCountry = Build(config)
                     /\ subReq \in [Readers -> Served] /\ \A r \in Readers : RequestRight(subReq[r]))'
    BY SubInvIs, PTL
  <2> QED BY <2>1
<1>3. ASSUME NEW cfg \in Configs, Update(cfg) PROVE SubInv'
  <2>1. rounds' \in 1..MaxRounds BY <1>1, <1>3, SubscriptionAssumption DEF Update
  <2> QED BY <1>1, <1>2, <1>3, <2>1, BuildType DEF Update
<1>4. ASSUME NEW r \in Readers, NEW rq, RequestRight(rq), subReq' = [subReq EXCEPT ![r] = rq],
             UNCHANGED <<subCountry, rounds, config>>
      PROVE  SubInv'
  <2>1. rq \in Served BY <1>4 DEF RequestRight
  <2>2. subReq' \in [Readers -> Served] BY <1>1, <1>4, <2>1
  <2>3. \A s \in Readers : RequestRight(subReq'[s]) BY <1>1, <1>4
  <2> QED BY <1>1, <1>2, <1>4, <2>2, <2>3
<1>5. ASSUME NEW r \in Readers, NEW c \in Countries, getSubCountry(r, c) PROVE SubInv'
  <2>1. PICK old : old = subReq[r] /\ old \in Served BY <1>1
  <2>2. PICK rq : rq = [old EXCEPT !.at = IF subCountry[c] = Absent THEN "nothing" ELSE "drawing",
                                   !.country = c, !.div = subCountry[c], !.config = config]
    OBVIOUS
  <2>3. subReq' = [subReq EXCEPT ![r] = rq] BY <1>1, <1>5, <2>1, <2>2 DEF getSubCountry
  <2>4. subCountry[c] = Build(config)[c] /\ subCountry[c] \in Divider BY <1>1
  <2>5. /\ rq \in Served /\ rq.country = c /\ rq.div = subCountry[c] /\ rq.config = config
        /\ rq.at = IF subCountry[c] = Absent THEN "nothing" ELSE "drawing"
    BY <1>1, <2>1, <2>2, <2>4 DEF Served
  <2>6. subCountry[c] = Absent => Sold(config, c) = {} BY <1>1, <2>4, Built
  <2>7. RequestRight(rq) BY <2>4, <2>5, <2>6 DEF RequestRight, ServedRight, HoldsBuilt
  <2> QED BY <1>4, <1>5, <2>3, <2>7 DEF getSubCountry
<1>6. ASSUME NEW r \in Readers, Draw(r) PROVE SubInv'
  <2>1. PICK old : old = subReq[r] /\ RequestRight(old) /\ old.at = "drawing" BY <1>1, <1>6 DEF Draw
  <2>2. old \in Served BY <2>1 DEF RequestRight
  <2>3. PICK x \in 0..(Draws - 1) :
          subReq' = IF GetObj(old.div, x) \in Channels
                    THEN [subReq EXCEPT ![r].at = "served", ![r].channel = GetObj(old.div, x)]
                    ELSE [subReq EXCEPT ![r].at = IF GetObj(old.div, x) = "panic" THEN GetObj(old.div, x) ELSE "nothing"]
    BY <1>6, <2>1 DEF Draw
  <2>4. PICK obj : obj = GetObj(old.div, x) OBVIOUS
  <2>5. PICK cfg \in Configs : cfg = old.config BY <2>2 DEF Served
  <2>6. PICK c \in Countries : c = old.country BY <2>2 DEF Served
  <2>7. PICK S : S = Sold(cfg, c) OBVIOUS
  <2>8. \/ \E i \in S : cfg[i].channel \in Channels /\ obj = cfg[i].channel
        \/ obj = "ErrNotCompiled" /\ S = {}
        \/ obj = "panic" /\ S # {} /\ Weight(cfg, S) = 0
    <3>1. old.div # Absent /\ old.div = Build(cfg)[c] BY <2>1, <2>5, <2>6 DEF RequestRight, HoldsBuilt
    <3>2. PICK b : b = Build(cfg)[c] OBVIOUS
    <3>3. b # Absent => \A y \in 0..(Draws - 1) :
             \/ \E i \in S : cfg[i].channel \in Channels /\ GetObj(b, y) = cfg[i].channel
             \/ GetObj(b, y) = "ErrNotCompiled" /\ S = {}
             \/ GetObj(b, y) = "panic" /\ S # {} /\ Weight(cfg, S) = 0
      BY <2>7, <3>2, Built
    <3> QED BY <2>4, <3>1, <3>2, <3>3
  <2>9. CASE obj \in Channels
    <3>1. PICK rq : rq = [old EXCEPT !.at = "served", !.channel = obj] OBVIOUS
    <3>2. subReq' = [subReq EXCEPT ![r] = rq] BY <1>1, <2>1, <2>3, <2>4, <2>9, <3>1
    <3>3. rq \in Served /\ rq.at = "served" /\ rq.channel = obj /\ rq.config = cfg /\ rq.country = c
      BY <2>2, <2>5, <2>6, <2>9, <3>1 DEF Served
    <3>4. \E i \in S : cfg[i].channel = obj BY <2>8, <2>9, SubscriptionAssumption
    <3>5. RequestRight(rq) BY <2>7, <3>3, <3>4 DEF RequestRight, ServedRight, HoldsBuilt
    <3> QED BY <1>4, <1>6, <3>2, <3>5 DEF Draw
  <2>10. CASE obj \notin Channels
    <3>1. PICK rq : rq = [old EXCEPT !.at = IF obj = "panic" THEN obj ELSE "nothing"] OBVIOUS
    <3>2. subReq' = [subReq EXCEPT ![r] = rq] BY <1>1, <2>1, <2>3, <2>4, <2>10, <3>1
    <3>3. /\ rq \in Served /\ rq.config = cfg /\ rq.country = c
          /\ obj = "panic" => rq.at = "panic"
          /\ obj # "panic" => rq.at = "nothing"
      BY <2>2, <2>5, <2>6, <3>1 DEF Served
    <3>4. /\ obj = "panic" => S # {} /\ Weight(cfg, S) = 0
          /\ obj # "panic" => S = {}
      BY <2>8, <2>10
    <3>5. RequestRight(rq) BY <2>7, <3>3, <3>4 DEF RequestRight, ServedRight, HoldsBuilt
    <3> QED BY <1>4, <1>6, <3>2, <3>5 DEF Draw
  <2> QED BY <2>9, <2>10
<1>7. CASE UNCHANGED subVars BY <1>1, <1>2, <1>7 DEF subVars
<1> QED BY <1>3, <1>5, <1>6, <1>7 DEF SubNext

(* The types of the subscriptions (update, GetMoreSubJs).                  *)
THEOREM SubTypeCorrect == SubSpec => []SubTypeOK
<1>1. SubInv => SubTypeOK BY DEF SubInv
<1> QED BY <1>1, SubInvInit, SubInvStep, PTL DEF SubSpec

(* At every moment the dividers published give each channel its part of    *)
(* the draws by weight, give or take one draw for each of its entries, and *)
(* a request is served by what one configuration sells in its country      *)
(* (Divider, GetMoreSubJs).                                                *)
THEOREM ProvidersAreDrawnByWeight == SubSpec => []ProvidersByWeight
<1>1. SubInv => ProvidersByWeight
  <2> SUFFICES ASSUME SubInv PROVE SharesByWeight BY DEF SubInv, ProvidersByWeight
  <2>1. config \in Configs /\ subCountry = Build(config) BY DEF SubInv, SubTypeOK
  <2> QED BY <2>1, BuiltShares DEF SharesByWeight
<1> QED BY <1>1, SubInvInit, SubInvStep, PTL DEF SubSpec

-----------------------------------------------------------------------------
(* Rendering: what the offers are made of.                                 *)

(* The creatives that CreativeChosen may name for an offer. *)
Pictured(o) == {""} \cup {p.id : p \in Material[o].pictures}

(* Creatives have ids, and none is the mark of the tracking links. *)
LEMMA PicturedIds ==
  ASSUME NEW o \in RawAds
  PROVE  /\ Pictured(o) \subseteq Ids
         /\ \A v \in Material[o].videos : v.id \in Ids
         /\ \A c \in Pictured(o) : c # "chosen"
         /\ \A v \in Material[o].videos : v.id # "chosen"
         /\ "" \in Ids
<1> DEFINE Own(f) == {p.id : p \in Material[f].pictures} \cup {v.id : v \in Material[f].videos}
<1>1. /\ \A p \in Material[o].pictures : p.id # "chosen"
      /\ \A v \in Material[o].videos : v.id # "chosen"
  BY RenderingAssumption
<1>2. Ids = {""} \cup UNION {Own(f) : f \in RawAds} BY DEF Ids
<1>3. /\ \A p \in Material[o].pictures : p.id \in Own(o)
      /\ \A v \in Material[o].videos : v.id \in Own(o)
  OBVIOUS
<1> HIDE DEF Own
<1>4. Own(o) \subseteq Ids /\ "" \in Ids
  <2>1. Own(o) \subseteq UNION {Own(f) : f \in RawAds} OBVIOUS
  <2> QED BY <1>2, <2>1
<1> QED BY <1>1, <1>3, <1>4 DEF Pictured

(* No creative has the id that marks CreativeChosen. *)
LEMMA ChosenIsNoId == "chosen" \notin Ids
<1> SUFFICES ASSUME "chosen" \in Ids PROVE FALSE OBVIOUS
<1>1. PICK o \in RawAds : \/ \E p \in Material[o].pictures : p.id = "chosen"
                          \/ \E v \in Material[o].videos : v.id = "chosen"
  BY DEF Ids
<1> QED BY <1>1, RenderingAssumption

(* A picture that is drawn is one of the offer, or a rendered one. *)
LEMMA DrawnPictures ==
  ASSUME NEW o \in RawAds, NEW want
  PROVE  getMatchedCreative(o, want) \subseteq Pictured(o)
<1>1. \A lang : GetMaxMatchedImg(o, lang, want) \subseteq Material[o].pictures
  BY DEF GetMaxMatchedImg
<1>2. SUFFICES ASSUME NEW c \in getMatchedCreative(o, want) PROVE c \in Pictured(o)
  OBVIOUS
<1>3. c = "" \/ \E p \in Material[o].pictures : c = p.id
  BY <1>1, <1>2 DEF getMatchedCreative
<1> QED BY <1>3 DEF Pictured

(* What the filter by pictures keeps has one to draw. *)
LEMMA MatchedIsDrawn ==
  ASSUME NEW o \in RawAds, NEW want, HasMatchedCreative(o, want)
  PROVE  getMatchedCreative(o, want) # {}
<1>1. CASE GetMaxMatchedImg(o, "en", want) = {} /\ GetMaxMatchedImg(o, "ALL", want) = {}
  <2>1. Material[o].renders # {} BY <1>1 DEF HasMatchedCreative
  <2> QED BY <1>1, <2>1 DEF getMatchedCreative
<1>2. CASE GetMaxMatchedImg(o, "en", want) # {}
  BY <1>2 DEF getMatchedCreative
<1>3. CASE GetMaxMatchedImg(o, "en", want) = {} /\ GetMaxMatchedImg(o, "ALL", want) # {}
  BY <1>3 DEF getMatchedCreative
<1> QED BY <1>1, <1>2, <1>3

(* A video that is drawn is one of the offer, and there is one to draw. *)
LEMMA DrawnVideos ==
  ASSUME NEW o \in RawAds, NEW wide
  PROVE  /\ TryGetMatchedVideo(o, wide) \subseteq Ids \ {"chosen"}
         /\ GetVideos(o) # {} => TryGetMatchedVideo(o, wide) # {}
         /\ getMatchedVideo(o, wide) \subseteq Ids \ {"chosen"}
<1>1. GetVideos(o) \subseteq Material[o].videos BY DEF GetVideos, InLang
<1> QED BY <1>1, PicturedIds DEF TryGetMatchedVideo, getMatchedVideo

(* What is drawn of the client's creatives is of the offer. *)
LEMMA DrawnByCids ==
  ASSUME NEW o \in RawAds, NEW cids, NEW want
  PROVE  /\ getVideoByCids(o, cids) \subseteq Ids \ {"chosen"}
         /\ getImageByCids(o, cids) \subseteq Pictured(o)
         /\ VideoGetMacthedImg(o, want) \subseteq Pictured(o)
<1>1. getVideoByCids(o, cids) \subseteq Ids \ {"chosen"}
  BY PicturedIds DEF getVideoByCids
<1>2. getImageByCids(o, cids) \subseteq Pictured(o)
  BY DEF getImageByCids, Pictured
<1>3. \A lang, w : GetMaxMatchedImg(o, lang, w) \subseteq Material[o].pictures
  BY DEF GetMaxMatchedImg
<1>4. SUFFICES ASSUME NEW c \in VideoGetMacthedImg(o, want) PROVE c \in Pictured(o)
  BY <1>1, <1>2
<1>5. \E p \in Material[o].pictures : c = p.id
  BY <1>3, <1>4 DEF VideoGetMacthedImg
<1> QED BY <1>5 DEF Pictured

(* The kinds: which select by pointers, and what the filters and renderers *)
(* of those are that show whatever they find.                              *)
LEMMA KindsAre ==
  /\ \A k \in DOMAIN Kinds : Kinds[k].select = "pointers" <=> k = "jstagH5"
  /\ "retrieval" \in DOMAIN Kinds /\ "jstagH5" \in DOMAIN Kinds
  /\ Kinds["jstagH5"].render = "ToNativeAd"
  /\ Kinds["retrieval"].select = "Select"
  /\ Kinds["realtime"].filter = "picture" /\ Kinds["realtime"].render = "ToNativeAd"
  /\ Kinds["video"].filter = "nativeVideo" /\ Kinds["video"].render = "ToVideoAd"
  /\ Kinds["videov4Native"].filter = "nativeVideo" /\ Kinds["videov4Native"].render = "ToNativeVideoV4Ad"
  /\ Kinds["interstitial"].filter = "nativeVideo" /\ Kinds["interstitial"].render = "ToInterstitialAd"
  /\ Kinds["pagead"].filter = "adapter" /\ Kinds["pagead"].render = "ToPageadBanner"
  /\ Kinds["jstagMedia"].filter = "commonPicture" /\ Kinds["jstagMedia"].render = "ToJsMediaAd"
  BY DEF Kinds, Kind

-----------------------------------------------------------------------------
(* Rendering: what a renderer makes of an offer.                           *)

(* What the tracking links will name, "chosen" for CreativeChosen, against *)
(* what is shown.                                                          *)
Tracks(shown, chosen, tracked) ==
  /\ shown = {} => tracked \subseteq {"chosen"}
  /\ shown # {} => \/ tracked = {"chosen"} /\ chosen \in shown
                   \/ tracked # {} /\ tracked \subseteq shown

(* An ad of the offer o. *)
SoundAd(o, x) ==
  /\ x.fate = "ad" /\ x.shown \subseteq Ids /\ x.chosen \in Pictured(o)
  /\ x.tracked \subseteq Ids \cup {"chosen"}
  /\ Tracks(x.shown, x.chosen, x.tracked)
Sound(o, x) == x.fate \in {"nil", "panic"} \/ SoundAd(o, x)

(* A copy or the published offer, with a creative of its own or none. *)
RightRaw(raw) == raw \in Raw /\ raw.chosen \in Pictured(raw.offer)

(* An ad with something shown is sound when what it tracks is shown. *)
LEMMA SoundAdIs ==
  ASSUME NEW o \in RawAds, NEW shown \in SUBSET Ids, NEW chosen \in Pictured(o), NEW tracked,
         \/ shown = {} /\ tracked \subseteq {"chosen"}
         \/ tracked = {"chosen"} /\ chosen \in shown
         \/ tracked # {} /\ tracked \subseteq shown
  PROVE  SoundAd(o, Ad(shown, chosen, tracked))
  BY DEF SoundAd, Ad, Tracks

(* An offer that gives no ad, or a panic, is sound. *)
LEMMA NothingIsSound ==
  ASSUME NEW raw PROVE Sound(raw.offer, Nothing(raw)) /\ Sound(raw.offer, Panic(raw))
  BY DEF Sound, Nothing, Panic

(* Each renderer makes sound ads. *)
LEMMA ToAdSound ==
  ASSUME NEW raw, RightRaw(raw), NEW x \in ToAd(raw)
  PROVE  Sound(raw.offer, x)
<1>1. raw.offer \in RawAds /\ raw.chosen \in Pictured(raw.offer) BY DEF RightRaw, Raw
<1>2. \/ x = Ad({}, raw.chosen, {"chosen"})
      \/ \E p, last \in Pictured(raw.offer) : x = Ad({p, last}, last, {"chosen"})
  <2> DEFINE pictures == UNION {getMatchedCreative(raw.offer, w) : w \in Wants}
             Last(p, last) == Ad({p, last}, last, {"chosen"})
  <2>1. \A p \in pictures : p \in Pictured(raw.offer) BY <1>1, DrawnPictures
  <2>2. ToAd(raw) = Unseen(raw) \cup {Last(p, last) : p, last \in pictures}
    BY DEF ToAd, ReplaceTpl
  <2> HIDE DEF pictures, Last
  <2>3. x = Ad({}, raw.chosen, {"chosen"}) \/ \E p, last \in pictures : x = Last(p, last)
    BY <2>2 DEF Unseen
  <2> QED BY <2>1, <2>3 DEF Last
<1>3. CASE x = Ad({}, raw.chosen, {"chosen"})
  BY <1>1, <1>3, SoundAdIs DEF Sound
<1>4. ASSUME NEW p \in Pictured(raw.offer), NEW last \in Pictured(raw.offer),
             x = Ad({p, last}, last, {"chosen"})
      PROVE  Sound(raw.offer, x)
  BY <1>1, <1>4, SoundAdIs, PicturedIds DEF Sound
<1> QED BY <1>2, <1>3, <1>4

(* So does the native one, which tracks what CreativeChosen is. *)
LEMMA ToNativeAdSound ==
  ASSUME NEW raw, RightRaw(raw), NEW want, NEW x \in ToNativeAd(raw, want)
  PROVE  SoundAd(raw.offer, x) /\ x.tracked = {"chosen"}
<1>1. raw.offer \in RawAds /\ raw.chosen \in Pictured(raw.offer) BY DEF RightRaw, Raw
<1>2. \/ x = Ad({}, raw.chosen, {"chosen"})
      \/ \E p \in Pictured(raw.offer) : x = Ad({p}, p, {"chosen"})
  BY <1>1, DrawnPictures DEF ToNativeAd, Unseen
<1>3. CASE x = Ad({}, raw.chosen, {"chosen"})
  BY <1>1, <1>3, SoundAdIs DEF Ad
<1>4. ASSUME NEW p \in Pictured(raw.offer), x = Ad({p}, p, {"chosen"})
      PROVE  SoundAd(raw.offer, x) /\ x.tracked = {"chosen"}
  BY <1>1, <1>4, SoundAdIs, PicturedIds DEF Ad
<1> QED BY <1>2, <1>3, <1>4

(* What is not seen tracks what CreativeChosen is. *)
LEMMA UnseenSound ==
  ASSUME NEW raw, RightRaw(raw), NEW want, NEW x \in ToNativeAdCleared(raw, want) \cup Unseen(raw)
  PROVE  Sound(raw.offer, x)
<1>1. raw.offer \in RawAds /\ raw.chosen \in Pictured(raw.offer) BY DEF RightRaw, Raw
<1>2. \E p \in Pictured(raw.offer) : x = Ad({}, p, {"chosen"})
  BY <1>1, DrawnPictures DEF ToNativeAdCleared, Unseen
<1> QED BY <1>1, <1>2, SoundAdIs DEF Sound

(* The ads of applications track nothing. *)
LEMMA ToLifeAdSound ==
  ASSUME NEW raw, RightRaw(raw), NEW x \in ToLifeAd(raw)
  PROVE  Sound(raw.offer, x)
<1>1. raw.offer \in RawAds /\ raw.chosen \in Pictured(raw.offer) BY DEF RightRaw, Raw
<1>2. x = Ad({}, raw.chosen, {}) \/ x = Nothing(raw) BY DEF ToLifeAd
<1> QED BY <1>1, <1>2, SoundAdIs, NothingIsSound DEF Sound

(* The first video ads track the video, and show a picture if there is one. *)
LEMMA ToVideoAdSound ==
  ASSUME NEW raw, RightRaw(raw), NEW want, NEW x \in ToVideoAd(raw, want)
  PROVE  Sound(raw.offer, x)
<1>1. raw.offer \in RawAds /\ raw.chosen \in Pictured(raw.offer) BY DEF RightRaw, Raw
<1>2. \/ x = Nothing(raw)
      \/ \E v \in TryGetMatchedVideo(raw.offer, "wide") :
           x = Ad({v} \cup getMatchedCreative(raw.offer, want), raw.chosen, {v})
  BY DEF ToVideoAd
<1>3. CASE x = Nothing(raw) BY <1>3, NothingIsSound
<1>4. ASSUME NEW v \in TryGetMatchedVideo(raw.offer, "wide"),
             x = Ad({v} \cup getMatchedCreative(raw.offer, want), raw.chosen, {v})
      PROVE  Sound(raw.offer, x)
  <2>1. {v} \cup getMatchedCreative(raw.offer, want) \in SUBSET Ids
    BY <1>1, DrawnPictures, DrawnVideos, PicturedIds
  <2> QED BY <1>1, <1>4, <2>1, SoundAdIs DEF Sound
<1> QED BY <1>2, <1>3, <1>4

(* The rewarded ones track the video the rank service or they have chosen. *)
LEMMA ToVideoV4AdSound ==
  ASSUME NEW raw, RightRaw(raw), NEW want, NEW cids, NEW x \in ToVideoV4Ad(raw, want, cids)
  PROVE  Sound(raw.offer, x)
<1>1. raw.offer \in RawAds /\ raw.chosen \in Pictured(raw.offer) /\ raw.video \in Ids
  BY DEF RightRaw, Raw
<1>2. \A c \in VideoChoseCreatives(raw, want, cids) : c.image \in Ids /\ c.video \in Ids
  <2>1. \A c \in VideoChoseCreatives(raw, want, cids) :
          /\ c.image \in getImageByCids(raw.offer, cids) \cup VideoGetMacthedImg(raw.offer, want)
          /\ c.video \in {raw.video} \cup getVideoByCids(raw.offer, cids)
    <3> DEFINE cached == getImageByCids(raw.offer, cids)
               images == IF cached # {} THEN cached ELSE VideoGetMacthedImg(raw.offer, want)
               videos == IF raw.video # "" THEN {raw.video} ELSE getVideoByCids(raw.offer, cids)
    <3>1. VideoChoseCreatives(raw, want, cids) = {[image |-> i, video |-> v] : i \in images, v \in videos}
      BY DEF VideoChoseCreatives
    <3>2. /\ images \subseteq getImageByCids(raw.offer, cids) \cup VideoGetMacthedImg(raw.offer, want)
          /\ videos \subseteq {raw.video} \cup getVideoByCids(raw.offer, cids)
      OBVIOUS
    <3> HIDE DEF images, videos
    <3> QED BY <3>1, <3>2
  <2> QED BY <1>1, <2>1, DrawnByCids, PicturedIds
<1>3. \/ x = Nothing(raw) \/ x = Panic(raw)
      \/ \E c \in VideoChoseCreatives(raw, want, cids) : x = Ad({c.image, c.video}, raw.chosen, {c.video})
  BY DEF ToVideoV4Ad
<1>4. CASE x = Nothing(raw) \/ x = Panic(raw) BY <1>4, NothingIsSound
<1>5. ASSUME NEW c \in VideoChoseCreatives(raw, want, cids), x = Ad({c.image, c.video}, raw.chosen, {c.video})
      PROVE  Sound(raw.offer, x)
  BY <1>1, <1>2, <1>5, SoundAdIs DEF Sound
<1> QED BY <1>3, <1>4, <1>5

(* So do the native ones. *)
LEMMA ToNativeVideoV4AdSound ==
  ASSUME NEW raw, RightRaw(raw), NEW want, NEW x \in ToNativeVideoV4Ad(raw, want)
  PROVE  Sound(raw.offer, x)
<1>1. raw.offer \in RawAds /\ raw.chosen \in Pictured(raw.offer) BY DEF RightRaw, Raw
<1>2. \/ x = Nothing(raw)
      \/ \E p \in getMatchedCreative(raw.offer, want), v \in TryGetMatchedVideo(raw.offer, "wide") :
           x = Ad({p, v}, raw.chosen, {v})
  <2> DEFINE pictures == getMatchedCreative(raw.offer, want)
             videos == TryGetMatchedVideo(raw.offer, "wide")
             Shows(p, v) == Ad({p, v}, raw.chosen, {v})
  <2>1. ToNativeVideoV4Ad(raw, want) =
          IF pictures = {} \/ ~HasIcon(raw.offer) \/ GetVideos(raw.offer) = {} THEN {Nothing(raw)}
          ELSE {Shows(p, v) : p \in pictures, v \in videos}
    BY DEF ToNativeVideoV4Ad
  <2> HIDE DEF pictures, videos, Shows
  <2>2. x = Nothing(raw) \/ \E p \in pictures, v \in videos : x = Shows(p, v)
    BY <2>1
  <2> QED BY <2>2 DEF pictures, videos, Shows
<1>3. CASE x = Nothing(raw) BY <1>3, NothingIsSound
<1>4. ASSUME NEW p \in getMatchedCreative(raw.offer, want), NEW v \in TryGetMatchedVideo(raw.offer, "wide"),
             x = Ad({p, v}, raw.chosen, {v})
      PROVE  Sound(raw.offer, x)
  <2>1. {p, v} \in SUBSET Ids BY <1>1, DrawnPictures, DrawnVideos, PicturedIds
  <2> QED BY <1>1, <1>4, <2>1, SoundAdIs DEF Sound
<1> QED BY <1>2, <1>3, <1>4

(* The interstitial tracks the video, or the picture that was drawn first. *)
LEMMA ToInterstitialAdSound ==
  ASSUME NEW raw, RightRaw(raw), NEW want, NEW x \in ToInterstitialAd(raw, want)
  PROVE  Sound(raw.offer, x)
<1>1. raw.offer \in RawAds /\ raw.chosen \in Pictured(raw.offer) BY DEF RightRaw, Raw
<1>2. \/ x = Nothing(raw)
      \/ \E p \in getMatchedCreative(raw.offer, want), v \in TryGetMatchedVideo(raw.offer, "wide") :
           x = Ad({p, v}, raw.chosen, {v})
      \/ \E p \in getMatchedCreative(raw.offer, want) : \E w \in Wants :
           \E another \in getMatchedCreative(raw.offer, w) : x = Ad({p, another}, another, {p})
  <2> DEFINE pictures == getMatchedCreative(raw.offer, want)
             more == UNION {getMatchedCreative(raw.offer, w) : w \in Wants}
             videos == TryGetMatchedVideo(raw.offer, "wide")
             Shows(p, v) == Ad({p, v}, raw.chosen, {v})
             Two(p, another) == Ad({p, another}, another, {p})
  <2>1. ToInterstitialAd(raw, want) =
          IF pictures = {} \/ ~HasIcon(raw.offer) \/ videos = {} THEN {Nothing(raw)}
          ELSE {Shows(p, v) : p \in pictures, v \in videos}
               \cup {Two(p, another) : p \in pictures, another \in more}
    BY DEF ToInterstitialAd
  <2>2. \A another \in more : \E w \in Wants : another \in getMatchedCreative(raw.offer, w)
    OBVIOUS
  <2> HIDE DEF pictures, videos, more, Shows, Two
  <2>3. \/ x = Nothing(raw) \/ \E p \in pictures, v \in videos : x = Shows(p, v)
        \/ \E p \in pictures, another \in more : x = Two(p, another)
    BY <2>1
  <2> QED BY <2>2, <2>3 DEF pictures, videos, Shows, Two
<1>3. CASE x = Nothing(raw) BY <1>3, NothingIsSound
<1>4. ASSUME NEW p \in getMatchedCreative(raw.offer, want), NEW v \in TryGetMatchedVideo(raw.offer, "wide"),
             x = Ad({p, v}, raw.chosen, {v})
      PROVE  Sound(raw.offer, x)
  <2>1. {p, v} \in SUBSET Ids BY <1>1, DrawnPictures, DrawnVideos, PicturedIds
  <2> QED BY <1>1, <1>4, <2>1, SoundAdIs DEF Sound
<1>5. ASSUME NEW p \in getMatchedCreative(raw.offer, want), NEW w \in Wants,
             NEW another \in getMatchedCreative(raw.offer, w), x = Ad({p, another}, another, {p})
      PROVE  Sound(raw.offer, x)
  <2>1. {p, another} \in SUBSET Ids /\ another \in Pictured(raw.offer)
    BY <1>1, DrawnPictures, PicturedIds
  <2> QED BY <1>1, <1>5, <2>1, SoundAdIs DEF Sound
<1> QED BY <1>2, <1>3, <1>4, <1>5

(* What a page ad is made of are creatives of the offer. *)
LEMMA AdapterParts ==
  ASSUME NEW o \in RawAds, NEW piece \in Part, NEW exact
  PROVE  PartOf(o, piece, exact) \subseteq Ids
<1>1. piece.cat = "i" \/ piece.cat = "v" \/ piece.cat = "none" BY DEF Part
<1>2. CASE piece.cat = "i" BY <1>2, DrawnPictures, PicturedIds DEF PartOf
<1>3. CASE piece.cat = "v" BY <1>3, DrawnVideos DEF PartOf
<1>4. CASE piece.cat = "none" BY <1>4 DEF PartOf
<1> QED BY <1>1, <1>2, <1>3, <1>4

(* The page may ask for nothing but a title and an icon. *)
Blank(a) == \A p \in a : p.cat = "none"

(* The page ad tracks all it shows, which is something unless the page may *)
(* ask for nothing.                                                        *)
LEMMA ToPageadBannerSound ==
  ASSUME NEW raw, RightRaw(raw), NEW want \in Wants
  PROVE  /\ \A x \in ToPageadBanner(raw, want) : Sound(raw.offer, x)
         /\ MatchedAdpaters(raw.offer, want) # {} =>
              \A x \in ToPageadBanner(raw, want) :
                x.fate = "ad" /\ (x.shown # {} \/ \E a \in Adapters[want] : Blank(a))
<1> DEFINE Pieces(a, cat) == UNION {PartOf(raw.offer, piece, want.exact) : piece \in {p \in a : p.cat = cat}}
           One(S) == IF S = {} THEN {{}} ELSE {{c} : c \in S}
           Of(a) == {i \cup v : i \in One(Pieces(a, "i")), v \in One(Pieces(a, "v"))}
           shown == UNION {Of(a) : a \in MatchedAdpaters(raw.offer, want)}
<1>1. raw.offer \in RawAds /\ raw.chosen \in Pictured(raw.offer) BY DEF RightRaw, Raw
<1>2. ToPageadBanner(raw, want) = IF shown = {} THEN {Nothing(raw)} ELSE {Ad(s, raw.chosen, s) : s \in shown}
  BY DEF ToPageadBanner
<1>3. ASSUME NEW S \in SUBSET Ids
      PROVE  /\ \E i : i \in One(S)
             /\ \A i \in One(S) : i \subseteq Ids /\ (S # {} => i # {})
  OBVIOUS
<1>4. ASSUME NEW a \in MatchedAdpaters(raw.offer, want)
      PROVE  /\ \A s \in Of(a) : s \subseteq Ids /\ (s # {} \/ Blank(a))
             /\ \E s : s \in Of(a)
             /\ a \in Adapters[want]
  <2>1. /\ a \in Adapters[want] /\ a \subseteq Part
        /\ \A piece \in a : piece.cat = "none" \/ PartOf(raw.offer, piece, want.exact) # {}
    BY <1>4, RenderingAssumption DEF MatchedAdpaters
  <2>2. Pieces(a, "i") \in SUBSET Ids /\ Pieces(a, "v") \in SUBSET Ids
    BY <1>1, <2>1, AdapterParts
  <2>3. Pieces(a, "i") # {} \/ Pieces(a, "v") # {} \/ Blank(a)
    <3>1. SUFFICES ASSUME NEW piece \in a, piece.cat # "none"
                   PROVE  Pieces(a, "i") # {} \/ Pieces(a, "v") # {}
      BY DEF Blank
    <3>2. piece.cat = "i" \/ piece.cat = "v" BY <2>1, <3>1 DEF Part
    <3>3. PICK c : c \in PartOf(raw.offer, piece, want.exact) BY <2>1, <3>1
    <3> QED BY <3>2, <3>3
  <2> HIDE DEF Pieces, One
  <2>4. \A s \in Of(a) : s \subseteq Ids /\ (s # {} \/ Blank(a))
    <3>1. SUFFICES ASSUME NEW i \in One(Pieces(a, "i")), NEW v \in One(Pieces(a, "v"))
                   PROVE  i \cup v \subseteq Ids /\ (i \cup v # {} \/ Blank(a))
      OBVIOUS
    <3>2. i \subseteq Ids /\ (Pieces(a, "i") # {} => i # {}) BY <1>3, <2>2
    <3>3. v \subseteq Ids /\ (Pieces(a, "v") # {} => v # {}) BY <1>3, <2>2
    <3> QED BY <2>3, <3>2, <3>3
  <2>5. \E s : s \in Of(a)
    <3>1. PICK i : i \in One(Pieces(a, "i")) BY <1>3, <2>2
    <3>2. PICK v : v \in One(Pieces(a, "v")) BY <1>3, <2>2
    <3>3. PICK s : s = i \cup v OBVIOUS
    <3>4. s \in Of(a) BY <3>1, <3>2, <3>3
    <3> HIDE DEF Of
    <3> QED BY <3>4
  <2> HIDE DEF Of
  <2> QED BY <2>1, <2>4, <2>5
<1> HIDE DEF Of
<1>5. \A s \in shown : s \subseteq Ids /\ (s # {} \/ \E a \in Adapters[want] : Blank(a))
  BY <1>4
<1>6. MatchedAdpaters(raw.offer, want) # {} => shown # {}
  <2>1. SUFFICES ASSUME NEW a \in MatchedAdpaters(raw.offer, want) PROVE shown # {} OBVIOUS
  <2>2. PICK s : s \in Of(a) BY <1>4
  <2>3. s \in shown BY <2>2
  <2> QED BY <2>3
<1> HIDE DEF shown
<1>7. \A s \in shown : SoundAd(raw.offer, Ad(s, raw.chosen, s))
  BY <1>1, <1>5, SoundAdIs
<1>8. \A s \in shown : Ad(s, raw.chosen, s).fate = "ad" /\ Ad(s, raw.chosen, s).shown = s
  BY DEF Ad
<1> QED BY <1>2, <1>5, <1>6, <1>7, <1>8, NothingIsSound DEF Sound

(* The media of the jstag track the picture they show, and panic for a     *)
(* country with an empty list.                                             *)
LEMMA ToJsMediaAdSound ==
  ASSUME NEW raw, RightRaw(raw), NEW x \in ToJsMediaAd(raw)
  PROVE  /\ Sound(raw.offer, x)
         /\ (\E p \in Material[raw.offer].pictures : p.lang = "ALL") =>
              \/ x.fate = "ad" /\ x.shown # {}
              \/ x.fate = "panic" /\ NoneForCountry(raw.offer)
<1>1. raw.offer \in RawAds /\ raw.chosen \in Pictured(raw.offer) BY DEF RightRaw, Raw
<1> DEFINE key == IF "US" \in Material[raw.offer].keys THEN "US" ELSE "ALL"
           list == {p \in Material[raw.offer].pictures : p.lang = key}
<1>2. \/ key \notin Material[raw.offer].keys /\ x = Nothing(raw)
      \/ key \in Material[raw.offer].keys /\ list = {} /\ x = Panic(raw)
      \/ \E p \in list : x = Ad({p.id}, raw.chosen, {p.id})
  BY DEF ToJsMediaAd
<1>3. CASE key \notin Material[raw.offer].keys /\ x = Nothing(raw)
  <2>1. \A p \in Material[raw.offer].pictures : p.lang # "ALL"
    BY <1>1, <1>3, RenderingAssumption
  <2> QED BY <1>3, <2>1, NothingIsSound
<1>4. CASE key \in Material[raw.offer].keys /\ list = {} /\ x = Panic(raw)
  <2>1. Sound(raw.offer, x) BY <1>4, NothingIsSound
  <2>2. x.fate = "panic" BY <1>4 DEF Panic, Nothing
  <2>3. (\E p \in Material[raw.offer].pictures : p.lang = "ALL") => NoneForCountry(raw.offer)
    BY <1>4 DEF NoneForCountry
  <2> QED BY <2>1, <2>2, <2>3
<1>5. ASSUME NEW p \in list, x = Ad({p.id}, raw.chosen, {p.id})
      PROVE  Sound(raw.offer, x) /\ x.fate = "ad" /\ x.shown # {}
  <2>1. p.id \in Pictured(raw.offer) BY <1>5 DEF Pictured
  <2>2. {p.id} \in SUBSET Ids BY <1>1, <2>1, PicturedIds
  <2>3. SoundAd(raw.offer, x) BY <1>1, <1>5, <2>2, SoundAdIs
  <2>4. x.fate = "ad" /\ x.shown # {} BY <1>5 DEF Ad
  <2> QED BY <2>3, <2>4 DEF Sound
<1> QED BY <1>2, <1>3, <1>4, <1>5

(* Whatever a kind renders with, its ads are sound; the page of the jstag  *)
(* always tracks what CreativeChosen is.                                   *)
LEMMA ResultsSound ==
  ASSUME NEW q, q.kind \in DOMAIN Kinds, q.want \in Wants, NEW raw, RightRaw(raw), NEW x \in Results(q, raw)
  PROVE  /\ Sound(raw.offer, x)
         /\ q.kind = "jstagH5" => x.fate = "ad" /\ x.tracked = {"chosen"}
<1>1. \/ x \in ToAd(raw) \/ x \in ToNativeAd(raw, q.want)
      \/ x \in ToNativeAdCleared(raw, q.want) \cup Unseen(raw)
      \/ x \in ToLifeAd(raw) \/ x \in ToVideoAd(raw, q.want) \/ x \in ToVideoV4Ad(raw, q.want, q.cids)
      \/ x \in ToNativeVideoV4Ad(raw, q.want) \/ x \in ToInterstitialAd(raw, q.want)
      \/ x \in ToPageadBanner(raw, q.want) \/ x \in ToJsMediaAd(raw)
  BY DEF Results
<1>2. Sound(raw.offer, x)
  BY <1>1, ToAdSound, ToNativeAdSound, UnseenSound, ToLifeAdSound, ToVideoAdSound, ToVideoV4AdSound,
     ToNativeVideoV4AdSound, ToInterstitialAdSound, ToPageadBannerSound, ToJsMediaAdSound DEF Sound
<1>3. ASSUME q.kind = "jstagH5" PROVE x.fate = "ad" /\ x.tracked = {"chosen"}
  <2>1. x \in ToNativeAd(raw, q.want) BY <1>3, KindsAre DEF Results
  <2> QED BY <2>1, ToNativeAdSound DEF SoundAd
<1> QED BY <1>2, <1>3

(* The kinds whose filter asks for all that their renderer needs, and      *)
(* those whose filter asks for most of it.                                 *)
Filtered == {"realtime", "video", "videov4Native", "interstitial"}

(* What they make of an offer that they found. *)
IsShown(x) == x.fate = "ad" /\ x.shown # {}
FoundGives(kind, want, o, x) ==
  /\ kind \in Filtered => IsShown(x)
  /\ kind = "pagead" => IsShown(x) \/ (x.fate = "ad" /\ \E a \in Adapters[want] : Blank(a))
  /\ kind = "jstagMedia" => IsShown(x) \/ (x.fate = "panic" /\ NoneForCountry(o))

(* So it is of every kind of those that asks for enough.                   *)
LEMMA FoundShown ==
  ASSUME NEW q, q.want \in Wants, NEW raw, RightRaw(raw),
         Found(raw.offer, q.kind, q.want, q.cids), NEW x \in Results(q, raw)
  PROVE  FoundGives(q.kind, q.want, raw.offer, x)
<1>1. raw.offer \in RawAds BY DEF RightRaw, Raw
<1>2. CASE q.kind = "realtime"
  <2>1. getMatchedCreative(raw.offer, q.want) # {}
    BY <1>1, <1>2, KindsAre, MatchedIsDrawn DEF Found
  <2>2. x \in ToNativeAd(raw, q.want) BY <1>2, KindsAre DEF Results
  <2>3. \E p \in getMatchedCreative(raw.offer, q.want) : x = Ad({p}, p, {"chosen"})
    BY <2>1, <2>2 DEF ToNativeAd
  <2> QED BY <1>2, <2>3 DEF Ad, FoundGives, IsShown
<1> DEFINE pictures == getMatchedCreative(raw.offer, q.want)
           videos == TryGetMatchedVideo(raw.offer, "wide")
<1>3. ASSUME HasMatchedNativeVideo(raw.offer, q.want)
      PROVE  pictures # {} /\ videos # {} /\ HasIcon(raw.offer) /\ GetVideos(raw.offer) # {}
  BY <1>1, <1>3, MatchedIsDrawn, DrawnVideos DEF HasMatchedNativeVideo
<1>4. CASE q.kind = "video"
  <2>1. HasMatchedNativeVideo(raw.offer, q.want) BY <1>4, KindsAre DEF Found
  <2>2. x \in ToVideoAd(raw, q.want) BY <1>4, KindsAre DEF Results
  <2>3. \E v : x = Ad({v} \cup pictures, raw.chosen, {v})
    BY <1>3, <2>1, <2>2 DEF ToVideoAd
  <2> QED BY <1>4, <2>3 DEF Ad, FoundGives, IsShown
<1>5. CASE q.kind = "videov4Native"
  <2>1. HasMatchedNativeVideo(raw.offer, q.want) BY <1>5, KindsAre DEF Found
  <2>2. x \in ToNativeVideoV4Ad(raw, q.want) BY <1>5, KindsAre DEF Results
  <2> DEFINE Shows(p, v) == Ad({p, v}, raw.chosen, {v})
  <2>3. ToNativeVideoV4Ad(raw, q.want) =
          IF pictures = {} \/ ~HasIcon(raw.offer) \/ GetVideos(raw.offer) = {} THEN {Nothing(raw)}
          ELSE {Shows(p, v) : p \in pictures, v \in videos}
    BY DEF ToNativeVideoV4Ad
  <2>4. pictures # {} /\ HasIcon(raw.offer) /\ GetVideos(raw.offer) # {} BY <1>3, <2>1
  <2> HIDE DEF Shows, pictures, videos
  <2>5. \E p \in pictures, v \in videos : x = Shows(p, v) BY <2>2, <2>3, <2>4
  <2> QED BY <1>5, <2>5 DEF Ad, Shows, FoundGives, IsShown
<1>6. CASE q.kind = "interstitial"
  <2>1. HasMatchedNativeVideo(raw.offer, q.want) BY <1>6, KindsAre DEF Found
  <2>2. x \in ToInterstitialAd(raw, q.want) BY <1>6, KindsAre DEF Results
  <2> DEFINE more == UNION {getMatchedCreative(raw.offer, w) : w \in Wants}
             Shows(p, v) == Ad({p, v}, raw.chosen, {v})
             Two(p, another) == Ad({p, another}, another, {p})
  <2>3. ToInterstitialAd(raw, q.want) =
          IF pictures = {} \/ ~HasIcon(raw.offer) \/ videos = {} THEN {Nothing(raw)}
          ELSE {Shows(p, v) : p \in pictures, v \in videos}
               \cup {Two(p, another) : p \in pictures, another \in more}
    BY DEF ToInterstitialAd
  <2>4. pictures # {} /\ HasIcon(raw.offer) /\ videos # {} BY <1>3, <2>1
  <2> HIDE DEF Shows, Two, pictures, videos, more
  <2>5. \/ \E p \in pictures, v \in videos : x = Shows(p, v)
        \/ \E p \in pictures, another \in more : x = Two(p, another)
    BY <2>2, <2>3, <2>4
  <2> QED BY <1>6, <2>5 DEF Ad, Shows, Two, FoundGives, IsShown
<1>7. CASE q.kind = "pagead"
  <2>1. MatchedAdpaters(raw.offer, q.want) # {} BY <1>7, KindsAre DEF Found
  <2>2. x \in ToPageadBanner(raw, q.want) BY <1>7, KindsAre DEF Results
  <2>3. x.fate = "ad" /\ (x.shown # {} \/ \E a \in Adapters[q.want] : Blank(a))
    BY <2>1, <2>2, ToPageadBannerSound
  <2>4. q.kind \notin Filtered /\ q.kind # "jstagMedia" BY <1>7 DEF Filtered
  <2> QED BY <2>3, <2>4 DEF FoundGives, IsShown
<1>8. CASE q.kind = "jstagMedia"
  <2>1. x \in ToJsMediaAd(raw) BY <1>8, KindsAre DEF Results
  <2>2. \E p \in Material[raw.offer].pictures : p.lang = "ALL" BY <1>8, KindsAre DEF Found
  <2>3. \/ x.fate = "ad" /\ x.shown # {}
        \/ x.fate = "panic" /\ NoneForCountry(raw.offer)
    BY <2>1, <2>2, ToJsMediaAdSound
  <2>4. q.kind \notin Filtered /\ q.kind # "pagead" BY <1>8 DEF Filtered
  <2> QED BY <2>3, <2>4 DEF FoundGives, IsShown
<1>9. CASE q.kind \notin Filtered /\ q.kind # "pagead" /\ q.kind # "jstagMedia"
  BY <1>9, Zenon DEF FoundGives
<1> QED BY <1>2, <1>4, <1>5, <1>6, <1>7, <1>8, <1>9 DEF Filtered

-----------------------------------------------------------------------------
(* Rendering: which offers are selected.                                   *)

Distinct(s) == \A i, j \in DOMAIN s : s[i] = s[j] => i = j
Within(s, S) == \A i \in DOMAIN s : s[i] \in S
Disjoint(s, t) == \A i \in DOMAIN s, j \in DOMAIN t : s[i] # t[j]

(* A selection: some offers of S, none twice. *)
Selection(s, S) == s \in Seq(RawAds) /\ Distinct(s) /\ Within(s, S)

(* The offers of any set of them, in some order. *)
LEMMA OrdersAre ==
  ASSUME NEW S \in SUBSET RawAds, NEW s \in Orders(S)
  PROVE  Selection(s, S)
<1>1. Cardinality(S) \in Nat BY RenderingAssumption, FS_Subset, FS_CardinalityType
<1>2. s \in [1..Cardinality(S) -> S] /\ Distinct(s) BY DEF Orders, Distinct
<1>3. s \in Seq(S) BY <1>1, <1>2
<1> QED BY <1>2, <1>3 DEF Selection, Within

(* Some of the offers. *)
LEMMA SomeOfAre ==
  ASSUME NEW S \in SUBSET RawAds, NEW s \in SomeOf(S)
  PROVE  Selection(s, S)
<1>1. PICK T \in SUBSET S : s \in Orders(T) BY DEF SomeOf
<1>2. Selection(s, T) BY <1>1, OrdersAre
<1> QED BY <1>2 DEF Selection, Within

(* What a sequence of offers holds. *)
LEMMA RangeIs ==
  ASSUME NEW s \in Seq(RawAds)
  PROVE  Range(s) \in SUBSET RawAds /\ Within(s, Range(s))
  BY DEF Range, Within

(* Those of a sequence that are in a set. *)
LEMMA InOrderAre ==
  ASSUME NEW s \in Seq(RawAds), NEW S, NEW t \in InOrder(s, S)
  PROVE  Selection(t, Range(s) \cap S)
<1>1. t \in Orders(Range(s) \cap S) BY DEF InOrder
<1>2. Range(s) \cap S \in SUBSET RawAds BY RangeIs
<1> QED BY <1>1, <1>2, OrdersAre

(* The first n of a selection. *)
LEMMA FirstAre ==
  ASSUME NEW S, NEW s, Selection(s, S), NEW n \in Nat
  PROVE  Selection(First(s, n), S) /\ Len(First(s, n)) <= n
<1>1. s \in Seq(RawAds) /\ Len(s) \in Nat BY DEF Selection
<1>2. PICK l \in Nat : l <= n /\ l <= Len(s) /\ First(s, n) = SubSeq(s, 1, l) BY <1>1 DEF First
<1>3. /\ SubSeq(s, 1, l) \in Seq(RawAds) /\ Len(SubSeq(s, 1, l)) = l
      /\ \A i \in 1..l : SubSeq(s, 1, l)[i] = s[i]
  BY <1>1, <1>2
<1> QED BY <1>1, <1>2, <1>3 DEF Selection, Distinct, Within

(* Two selections that have nothing in common, one after the other. *)
LEMMA JoinedAre ==
  ASSUME NEW S, NEW T, NEW s, Selection(s, S), NEW t, Selection(t, T), S \cap T = {}
  PROVE  Selection(s \o t, S \cup T) /\ Len(s \o t) = Len(s) + Len(t)
<1>1. /\ s \in Seq(RawAds) /\ t \in Seq(RawAds) /\ Len(s) \in Nat /\ Len(t) \in Nat
      /\ DOMAIN s = 1..Len(s) /\ DOMAIN t = 1..Len(t)
  BY DEF Selection
<1>2. /\ s \o t \in Seq(RawAds) /\ Len(s \o t) = Len(s) + Len(t)
      /\ DOMAIN (s \o t) = 1..(Len(s) + Len(t))
      /\ \A i \in 1..(Len(s) + Len(t)) : (s \o t)[i] = IF i <= Len(s) THEN s[i] ELSE t[i - Len(s)]
  <2>1. PICK c : c = s \o t OBVIOUS
  <2>2. /\ c \in Seq(RawAds) /\ Len(c) = Len(s) + Len(t)
        /\ \A k \in 1..Len(s) : c[k] = s[k]
        /\ \A k \in 1..Len(t) : c[Len(s) + k] = t[k]
    BY <1>1, <2>1, ConcatIs
  <2>3. DOMAIN c = 1..(Len(s) + Len(t)) BY <2>2
  <2>4. ASSUME NEW i \in 1..(Len(s) + Len(t)) PROVE c[i] = IF i <= Len(s) THEN s[i] ELSE t[i - Len(s)]
    <3>1. CASE i <= Len(s)
      <4>1. i \in 1..Len(s) BY <1>1, <3>1
      <4> QED BY <2>2, <3>1, <4>1
    <3>2. CASE ~(i <= Len(s))
      <4>1. i - Len(s) \in 1..Len(t) /\ Len(s) + (i - Len(s)) = i BY <1>1, <3>2
      <4> QED BY <2>2, <3>2, <4>1
    <3> QED BY <3>1, <3>2
  <2> QED BY <2>1, <2>2, <2>3, <2>4
<1>3. ASSUME NEW i \in 1..(Len(s) + Len(t))
      PROVE  \/ i \in DOMAIN s /\ (s \o t)[i] = s[i]
             \/ i - Len(s) \in DOMAIN t /\ (s \o t)[i] = t[i - Len(s)]
  BY <1>1, <1>2
<1>4. Within(s \o t, S \cup T) BY <1>2, <1>3 DEF Selection, Within
<1>5. ASSUME NEW i \in 1..(Len(s) + Len(t)), NEW j \in 1..(Len(s) + Len(t)), (s \o t)[i] = (s \o t)[j]
      PROVE  i = j
  <2>1. CASE i \in DOMAIN s /\ j \in DOMAIN s
    BY <1>1, <1>2, <1>5, <2>1 DEF Selection, Distinct
  <2>2. CASE i \notin DOMAIN s /\ j \notin DOMAIN s
    <3>1. PICK k, o : k = i - Len(s) /\ o = j - Len(s) OBVIOUS
    <3>2. k \in DOMAIN t /\ (s \o t)[i] = t[k] BY <1>3, <2>2, <3>1
    <3>3. o \in DOMAIN t /\ (s \o t)[j] = t[o] BY <1>3, <2>2, <3>1
    <3>4. k = o BY <1>5, <3>2, <3>3 DEF Selection, Distinct
    <3> QED BY <1>1, <3>1, <3>4
  <2>3. CASE i \in DOMAIN s /\ j \notin DOMAIN s
    BY <1>1, <1>2, <1>3, <1>5, <2>3 DEF Selection, Within
  <2>4. CASE i \notin DOMAIN s /\ j \in DOMAIN s
    BY <1>1, <1>2, <1>3, <1>5, <2>4 DEF Selection, Within
  <2> QED BY <2>1, <2>2, <2>3, <2>4
<1> QED BY <1>2, <1>4, <1>5 DEF Selection, Distinct

(* The strategy without the rank service takes one too many at most. *)
LEMMA RandomCopies ==
  ASSUME NEW found, Selection(found, Range(found)), NEW num \in Nat, NEW s \in randomCopy(found, num)
  PROVE  Selection(s, Range(found)) /\ Len(s) <= num + 1
<1>1. found \in Seq(RawAds) /\ Len(found) \in Nat BY DEF Selection
<1>2. CASE num >= Len(found)
  BY <1>1, <1>2 DEF randomCopy
<1>3. CASE ~(num >= Len(found))
  <2> DEFINE Room(white) == IF num - Len(white) < 1 THEN 1 ELSE num - Len(white)
  <2>1. PICK white \in InOrder(found, White), others \in InOrder(found, Range(found) \ White) :
          s = First(white, num) \o First(others, Room(First(white, num)))
    <3>1. \E white \in InOrder(found, White) :
            s \in {First(white, num) \o First(others, Room(First(white, num))) :
                     others \in InOrder(found, Range(found) \ White)}
      BY <1>3 DEF randomCopy
    <3> HIDE DEF Room
    <3> QED BY <3>1
  <2>2. Selection(white, Range(found) \cap White)
    BY <1>1, InOrderAre
  <2>3. Selection(others, Range(found) \cap (Range(found) \ White))
    BY <1>1, InOrderAre
  <2>4. PICK w : w = First(white, num) OBVIOUS
  <2>5. Selection(w, Range(found) \cap White) /\ Len(w) <= num BY <2>2, <2>4, FirstAre
  <2>6. Len(w) \in Nat BY <2>5 DEF Selection
  <2>7. PICK n \in Nat : n = Room(w) /\ n + Len(w) <= num + 1 BY <2>5, <2>6
  <2>8. PICK x : x = First(others, n) OBVIOUS
  <2>9. Selection(x, Range(found) \cap (Range(found) \ White)) /\ Len(x) <= n
    BY <2>3, <2>7, <2>8, FirstAre
  <2>10. Len(x) \in Nat BY <2>9 DEF Selection
  <2>11. s = w \o x BY <2>1, <2>4, <2>7, <2>8
  <2>12. (Range(found) \cap White) \cap (Range(found) \cap (Range(found) \ White)) = {} OBVIOUS
  <2>13. /\ Selection(s, (Range(found) \cap White) \cup (Range(found) \cap (Range(found) \ White)))
         /\ Len(s) = Len(w) + Len(x)
    BY <2>5, <2>9, <2>11, <2>12, JoinedAre
  <2>14. Selection(s, Range(found)) BY <2>13 DEF Selection, Within
  <2> QED BY <2>5, <2>6, <2>7, <2>9, <2>10, <2>13, <2>14
<1> QED BY <1>2, <1>3

(* Any number of the offers, at random. *)
LEMMA RandCopies ==
  ASSUME NEW found, Selection(found, Range(found)), NEW num, NEW s \in RandCopy(found, num)
  PROVE  Selection(s, Range(found))
<1>1. found \in Seq(RawAds) BY DEF Selection
<1>2. Range(found) \in SUBSET RawAds BY <1>1, RangeIs
<1> QED BY <1>2, SomeOfAre DEF RandCopy

(* Two selections that take nothing twice between them: those SelectWg     *)
(* puts first, and those it has asked for.                                 *)
LEMMA DisjointAre ==
  ASSUME NEW S, NEW T, NEW s, Selection(s, S), NEW t, Selection(t, T), S \cap T = {}
  PROVE  Disjoint(s, t)
  BY DEF Selection, Within, Disjoint

-----------------------------------------------------------------------------
(* Rendering: the offers on their way through a request.                   *)

Ads(s) == [i \in DOMAIN s |-> s[i].offer]

(* The answers, the raws and what is still to do are of offers that were   *)
(* found.                                                                  *)
Taken(a, w, t, S) == Within(a, S) /\ Within(w, S) /\ Within(t, S)

(* They are different offers of those. *)
Line(a, w, t, S) ==
  /\ Selection(a, S) /\ Selection(w, S) /\ Selection(t, S)
  /\ Disjoint(a, w) /\ Disjoint(a, t) /\ Disjoint(w, t)

(* The offers of records. *)
LEMMA AdsAre ==
  ASSUME NEW S, \A x \in S : x.offer \in RawAds, NEW s \in Seq(S)
  PROVE  /\ Ads(s) \in Seq(RawAds) /\ Len(Ads(s)) = Len(s) /\ DOMAIN Ads(s) = DOMAIN s
         /\ \A i \in DOMAIN s : s[i] \in S /\ Ads(s)[i] = s[i].offer
<1>1. PICK l \in Nat : l = Len(s) /\ DOMAIN s = 1..l OBVIOUS
<1>2. \A i \in 1..l : s[i] \in S BY <1>1
<1>3. Ads(s) \in [1..l -> RawAds] BY <1>1, <1>2 DEF Ads
<1>4. Ads(s) \in Seq(RawAds) /\ Len(Ads(s)) = l BY <1>3
<1> QED BY <1>1, <1>2, <1>4 DEF Ads

(* One more, one less, and one written over. *)
LEMMA AdsMove ==
  ASSUME NEW S, \A x \in S : x.offer \in RawAds, NEW s \in Seq(S), NEW x \in S
  PROVE  /\ Ads(Append(s, x)) = Append(Ads(s), x.offer)
         /\ s # <<>> => Ads(Tail(s)) = Tail(Ads(s)) /\ Head(Ads(s)) = Head(s).offer
         /\ \A k \in DOMAIN s : x.offer = s[k].offer => Ads([s EXCEPT ![k] = x]) = Ads(s)
<1>1. PICK l \in Nat : l = Len(s) /\ DOMAIN s = 1..l OBVIOUS
<1>2. /\ Ads(s) \in Seq(RawAds) /\ Len(Ads(s)) = l /\ DOMAIN Ads(s) = 1..l
      /\ \A i \in 1..l : s[i] \in S /\ Ads(s)[i] = s[i].offer
  BY <1>1, AdsAre
<1>3. Ads(Append(s, x)) = Append(Ads(s), x.offer)
  <2>0. /\ Append(s, x) \in Seq(S) /\ Len(Append(s, x)) = l + 1 /\ DOMAIN Append(s, x) = 1..(l + 1)
        /\ \A i \in 1..(l + 1) : Append(s, x)[i] = IF i <= l THEN s[i] ELSE x
    BY <1>1
  <2>1. PICK z \in Seq(S) : /\ z = Append(s, x) /\ Len(z) = l + 1 /\ DOMAIN z = 1..(l + 1)
                            /\ \A i \in 1..(l + 1) : z[i] = IF i <= l THEN s[i] ELSE x
    BY <2>0
  <2>2. /\ Ads(z) \in Seq(RawAds) /\ Len(Ads(z)) = l + 1
        /\ \A i \in 1..(l + 1) : Ads(z)[i] = z[i].offer
    BY <2>1, AdsAre
  <2>3. /\ Append(Ads(s), x.offer) \in Seq(RawAds) /\ Len(Append(Ads(s), x.offer)) = l + 1
        /\ \A i \in 1..(l + 1) : Append(Ads(s), x.offer)[i] = IF i <= l THEN Ads(s)[i] ELSE x.offer
    BY <1>2
  <2>4. \A i \in 1..(l + 1) : Ads(z)[i] = Append(Ads(s), x.offer)[i]
    BY <1>2, <2>1, <2>2, <2>3
  <2> QED BY <2>1, <2>2, <2>3, <2>4
<1>4. ASSUME s # <<>> PROVE Ads(Tail(s)) = Tail(Ads(s)) /\ Head(Ads(s)) = Head(s).offer
  <2>0. l >= 1 BY <1>1, <1>4
  <2>a. /\ Tail(s) \in Seq(S) /\ Len(Tail(s)) = l - 1 /\ DOMAIN Tail(s) = 1..(l - 1)
        /\ \A i \in 1..(l - 1) : Tail(s)[i] = s[i + 1]
    BY <1>1, <1>4, <2>0
  <2>1. PICK z \in Seq(S) : /\ z = Tail(s) /\ Len(z) = l - 1 /\ DOMAIN z = 1..(l - 1)
                            /\ \A i \in 1..(l - 1) : z[i] = s[i + 1]
    BY <2>a
  <2>2. /\ Ads(z) \in Seq(RawAds) /\ Len(Ads(z)) = l - 1
        /\ \A i \in 1..(l - 1) : Ads(z)[i] = z[i].offer
    BY <2>0, <2>1, AdsAre
  <2>3. Ads(s) # <<>> BY <1>2, <2>0
  <2>4. /\ Tail(Ads(s)) \in Seq(RawAds) /\ Len(Tail(Ads(s))) = l - 1
        /\ \A i \in 1..(l - 1) : Tail(Ads(s))[i] = Ads(s)[i + 1]
    BY <1>2, <2>0, <2>3
  <2>5. \A i \in 1..(l - 1) : Ads(z)[i] = Tail(Ads(s))[i]
    BY <1>2, <2>0, <2>1, <2>2, <2>4
  <2>6. Head(Ads(s)) = Head(s).offer BY <1>1, <1>2, <2>0
  <2> QED BY <2>0, <2>1, <2>2, <2>4, <2>5, <2>6
<1>5. ASSUME NEW k \in DOMAIN s, x.offer = s[k].offer PROVE Ads([s EXCEPT ![k] = x]) = Ads(s)
  BY <1>5 DEF Ads
<1> QED BY <1>3, <1>4, <1>5

(* A line moves on: its first raw is answered, the first that is to do     *)
(* becomes a raw, or the first raw is left out.                            *)
LEMMA LineMoves ==
  ASSUME NEW a, NEW w, NEW t, NEW S, Line(a, w, t, S)
  PROVE  /\ w # <<>> => Line(Append(a, Head(w)), Tail(w), t, S)
         /\ w # <<>> => Line(a, Tail(w), t, S)
         /\ t # <<>> => Line(a, Append(w, Head(t)), Tail(t), S)
<1>1. /\ a \in Seq(RawAds) /\ w \in Seq(RawAds) /\ t \in Seq(RawAds)
      /\ Len(a) \in Nat /\ Len(w) \in Nat /\ Len(t) \in Nat
      /\ DOMAIN a = 1..Len(a) /\ DOMAIN w = 1..Len(w) /\ DOMAIN t = 1..Len(t)
  BY DEF Line, Selection
<1>2. ASSUME NEW s \in {w, t}, s # <<>>
      PROVE  /\ Tail(s) \in Seq(RawAds) /\ Head(s) = s[1] /\ 1 \in DOMAIN s
             /\ DOMAIN Tail(s) = 1..(Len(s) - 1)
             /\ \A i \in DOMAIN Tail(s) : i + 1 \in DOMAIN s /\ i + 1 # 1 /\ Tail(s)[i] = s[i + 1]
  BY <1>1, <1>2
<1>3. ASSUME NEW s \in {a, w}, NEW x \in RawAds
      PROVE  /\ Append(s, x) \in Seq(RawAds) /\ DOMAIN Append(s, x) = 1..(Len(s) + 1)
             /\ \A i \in DOMAIN Append(s, x) : \/ i = Len(s) + 1 /\ Append(s, x)[i] = x
                                               \/ i \in DOMAIN s /\ Append(s, x)[i] = s[i]
  BY <1>1, <1>3
<1>4. ASSUME NEW s \in {w, t}, s # <<>>, Selection(s, S)
      PROVE  Selection(Tail(s), S) /\ \A i \in DOMAIN Tail(s) : Tail(s)[i] # Head(s)
  BY <1>1, <1>2, <1>4, SMTT(30) DEF Selection, Distinct, Within
<1>5. ASSUME NEW s \in {a, w}, NEW x \in RawAds \cap S, Selection(s, S), \A i \in DOMAIN s : s[i] # x
      PROVE  Selection(Append(s, x), S)
  <2>1. Append(s, x) \in Seq(RawAds) BY <1>3
  <2>2. Within(Append(s, x), S) BY <1>3, <1>5 DEF Selection, Within
  <2>3. Distinct(Append(s, x)) BY <1>3, <1>5 DEF Selection, Distinct
  <2> QED BY <2>1, <2>2, <2>3 DEF Selection
<1>6. ASSUME w # <<>>
      PROVE  Line(Append(a, Head(w)), Tail(w), t, S) /\ Line(a, Tail(w), t, S)
  <2>1. Head(w) \in RawAds \cap S BY <1>1, <1>2, <1>6 DEF Line, Selection, Within
  <2>2. Selection(Tail(w), S) /\ \A i \in DOMAIN Tail(w) : Tail(w)[i] # Head(w)
    BY <1>4, <1>6 DEF Line
  <2>3. \A i \in DOMAIN a : a[i] # Head(w) BY <1>2, <1>6 DEF Line, Disjoint
  <2>4. \A i \in DOMAIN t : t[i] # Head(w) BY <1>2, <1>6 DEF Line, Disjoint
  <2>5. Selection(Append(a, Head(w)), S) BY <1>5, <2>1, <2>3 DEF Line
  <2>6. Disjoint(a, Tail(w)) /\ Disjoint(Tail(w), t) BY <1>2, <1>6 DEF Line, Disjoint
  <2>7. \A i \in DOMAIN Append(a, Head(w)) :
          \/ Append(a, Head(w))[i] = Head(w)
          \/ i \in DOMAIN a /\ Append(a, Head(w))[i] = a[i]
    <3>1. PICK h \in RawAds : h = Head(w) BY <2>1
    <3> QED BY <1>3, <3>1
  <2>8. Disjoint(Append(a, Head(w)), Tail(w)) /\ Disjoint(Append(a, Head(w)), t)
    BY <2>2, <2>4, <2>6, <2>7 DEF Disjoint, Line
  <2> QED BY <2>2, <2>5, <2>6, <2>8 DEF Line
<1>7. ASSUME t # <<>> PROVE Line(a, Append(w, Head(t)), Tail(t), S)
  <2>1. Head(t) \in RawAds \cap S BY <1>1, <1>2, <1>7 DEF Line, Selection, Within
  <2>2. Selection(Tail(t), S) /\ \A i \in DOMAIN Tail(t) : Tail(t)[i] # Head(t)
    BY <1>4, <1>7 DEF Line
  <2>3. \A i \in DOMAIN w : w[i] # Head(t) BY <1>2, <1>7 DEF Line, Disjoint
  <2>4. \A i \in DOMAIN a : a[i] # Head(t) BY <1>2, <1>7 DEF Line, Disjoint
  <2>5. Selection(Append(w, Head(t)), S) BY <1>5, <2>1, <2>3 DEF Line
  <2>6. Disjoint(a, Tail(t)) /\ Disjoint(w, Tail(t)) BY <1>2, <1>7 DEF Line, Disjoint
  <2>7. \A i \in DOMAIN Append(w, Head(t)) :
          \/ Append(w, Head(t))[i] = Head(t)
          \/ i \in DOMAIN w /\ Append(w, Head(t))[i] = w[i]
    <3>1. PICK h \in RawAds : h = Head(t) BY <2>1
    <3> QED BY <1>3, <3>1
  <2>8. Disjoint(a, Append(w, Head(t))) /\ Disjoint(Append(w, Head(t)), Tail(t))
    BY <2>2, <2>4, <2>6, <2>7 DEF Disjoint, Line
  <2> QED BY <2>2, <2>5, <2>6, <2>8 DEF Line
<1> QED BY <1>6, <1>7

(* As many offers as there are records, when none is there twice. *)
LEMMA DistinctCount ==
  ASSUME NEW S, \A x \in S : x.offer \in RawAds, NEW s \in Seq(S), Distinct(Ads(s))
  PROVE  Cardinality({x.offer : x \in Range(s)}) = Len(s)
<1> DEFINE T == {x.offer : x \in Range(s)}
<1>1. PICK l \in Nat : l = Len(s) /\ DOMAIN s = 1..l OBVIOUS
<1>2. DOMAIN Ads(s) = 1..l /\ \A i \in 1..l : Ads(s)[i] = s[i].offer BY <1>1, AdsAre
<1>3. Ads(s) \in [1..l -> T] BY <1>1, <1>2 DEF Ads, Range
<1>4. \A o \in T : \E i \in 1..l : Ads(s)[i] = o BY <1>1, <1>2 DEF Range
<1>5. Ads(s) \in Bijection(1..l, T)
  BY <1>2, <1>3, <1>4 DEF Bijection, Injection, Surjection, IsInjective, Distinct
<1>6. ExistsBijection(1..l, T) BY <1>5 DEF ExistsBijection
<1>7. IsFiniteSet(1..l) /\ Cardinality(1..l) = l BY FS_Interval
<1>8. Cardinality(T) = l BY <1>6, <1>7, FS_Bijection
<1> QED BY <1>1, <1>8

-----------------------------------------------------------------------------
(* Rendering: the invariant.                                               *)

(* A copy has the arguments of its own offer and request, in memory of its *)
(* own or none; only the page of the jstag holds pointers.                 *)
RawRight(r, kind, raw) ==
  /\ RightRaw(raw) /\ raw.at # "spare"
  /\ raw.at = "own" => raw.own = Attached(raw.offer) \cup {r}
  /\ raw.at = "pointer" => kind = "jstagH5"

AnswerRight(r, kind, a) ==
  /\ a.args = {r} \cup (IF Kinds[kind].render \in LeavesArgs THEN {} ELSE Attached(a.offer))
  /\ IF kind = "jstagH5" \/ a.shown = {} THEN a.tracked \subseteq Pictured(a.offer)
     ELSE a.tracked \subseteq a.shown /\ a.tracked # {}

(* What was found is what the filter keeps. *)
FoundRight(q) == Distinct(q.found) /\ \A i \in DOMAIN q.found : Found(q.found[i], q.kind, q.want, q.cids)

(* And in all not more than one too many, unless the rank service has      *)
(* answered something else than it was asked.                              *)
Total(a, w, t) == Len(a) + Len(w) + Len(t)

LineRight(q) ==
  /\ q.kind # "jstagH5" =>
       /\ Taken(Ads(q.answers), Ads(q.raws), q.todo, Range(q.found))
       /\ q.reply # "other" => Line(Ads(q.answers), Ads(q.raws), q.todo, Range(q.found))
  /\ q.reply # "other" /\ Kinds[q.kind].select = "Select" => Total(q.answers, q.raws, q.todo) <= q.num + 1

(* Where a handler stands, there is what its next step takes. *)
Placed(q) ==
  /\ q.pos \in {"idle", "asked"} => q.answers = <<>> /\ q.raws = <<>> /\ q.todo = <<>>
  /\ q.pos \in {"po", "show", "track"} => q.raws # <<>>
  /\ q.pos = "e" => q.todo # <<>>

TrackRight(q) ==
  q.pos = "track" => /\ Tracks(q.shown, Head(q.raws).chosen, q.tracked)
                     /\ q.kind = "jstagH5" => q.tracked = {"chosen"}

AdRight(r, q) ==
  /\ q \in Request
  /\ FoundRight(q) /\ LineRight(q) /\ Placed(q) /\ TrackRight(q)
  /\ \A i \in DOMAIN q.raws : RawRight(r, q.kind, q.raws[i])
  /\ \A i \in DOMAIN q.answers : AnswerRight(r, q.kind, q.answers[i])

PubRight == pub \in [RawAds -> Ids] /\ \A o \in RawAds : pub[o] \in Pictured(o)

(* Nobody has written behind a published slice, and every request is right *)
(* by itself, whatever the others do.                                      *)
RenderInv ==
  /\ PubRight
  /\ spare = [o \in RawAds |-> "none"]
  /\ renderReq \in [AdRequests -> Request]
  /\ \A r \in AdRequests : AdRight(r, renderReq[r])

(* A step of one request. *)
LEMMA OneRequest ==
  ASSUME RenderInv, NEW r \in AdRequests, NEW nq, AdRight(r, nq), Set(r, nq), PubRight', spare' = spare
  PROVE  RenderInv'
<1>1. renderReq' = [renderReq EXCEPT ![r] = nq] /\ nq \in Request BY DEF Set, AdRight
<1>2. renderReq' \in [AdRequests -> Request] BY <1>1 DEF RenderInv
<1>3. \A k \in AdRequests : renderReq'[k] = IF k = r THEN nq ELSE renderReq[k] BY <1>1 DEF RenderInv
<1> QED BY <1>2, <1>3 DEF RenderInv

(* What a request that goes on keeps. *)
Goes(q, nq) ==
  /\ nq.kind = q.kind /\ nq.want = q.want /\ nq.num = q.num /\ nq.cids = q.cids /\ nq.found = q.found

(* What was found stays found. *)
LEMMA GoesOn ==
  ASSUME NEW q, NEW nq, FoundRight(q), Goes(q, nq)
  PROVE  FoundRight(nq)
  BY DEF FoundRight, Goes

(* Sequences of raws and of answers are of offers. *)
LEMMA AdsOf ==
  /\ \A x \in Raw : x.offer \in RawAds
  /\ \A x \in Answer : x.offer \in RawAds
  BY DEF Raw, Answer

(* Nothing is a selection of anything. *)
LEMMA NoneSelected ==
  /\ Ads(<<>>) = <<>> /\ \A S : Selection(<<>>, S) /\ Within(<<>>, S)
  /\ \A s : Disjoint(<<>>, s) /\ Disjoint(s, <<>>)
<1>1. DOMAIN <<>> = {} /\ <<>> \in Seq(RawAds) OBVIOUS
<1> QED BY <1>1 DEF Ads, Selection, Distinct, Within, Disjoint

(* An idle request is right. *)
LEMMA IdleRight ==
  ASSUME NEW r \in AdRequests
  PROVE  AdRight(r, Idle) /\ \A kind \in DOMAIN Kinds : AdRight(r, [Idle EXCEPT !.pos = "panic", !.kind = kind])
<1>1. (CHOOSE w \in Wants : TRUE) \in Wants BY RenderingAssumption
<1>2. /\ Idle.found = <<>> /\ Idle.todo = <<>> /\ Idle.raws = <<>> /\ Idle.answers = <<>>
      /\ Idle.num = 0 /\ Idle.pos = "idle"
  BY DEF Idle
<1>3. Idle \in Request
  <2>1. {} \in SUBSET STRING /\ <<>> \in Seq(RawAds) /\ <<>> \in Seq(Raw) /\ <<>> \in Seq(Answer)
    OBVIOUS
  <2>2. "retrieval" \in DOMAIN Kinds BY KindsAre
  <2> QED BY <1>1, <2>1, <2>2 DEF Idle, Request
<1>4. ASSUME NEW q \in Request, q.pos \in {"idle", "panic"}, q.found = <<>>, q.todo = <<>>,
             q.raws = <<>>, q.answers = <<>>, q.num = 0
      PROVE  AdRight(r, q)
  <2>1. DOMAIN <<>> = {} /\ Len(<<>>) = 0 OBVIOUS
  <2>2. FoundRight(q) BY <1>4, <2>1 DEF FoundRight, Distinct
  <2>3. LineRight(q) BY <1>4, <2>1, NoneSelected DEF LineRight, Taken, Line, Total
  <2>4. Placed(q) /\ TrackRight(q) BY <1>4 DEF Placed, TrackRight
  <2> QED BY <1>4, <2>1, <2>2, <2>3, <2>4 DEF AdRight
<1>5. ASSUME NEW kind \in DOMAIN Kinds PROVE AdRight(r, [Idle EXCEPT !.pos = "panic", !.kind = kind])
  <2>1. PICK q : q = [Idle EXCEPT !.pos = "panic", !.kind = kind] OBVIOUS
  <2>2. /\ q.found = Idle.found /\ q.todo = Idle.todo /\ q.raws = Idle.raws /\ q.answers = Idle.answers
        /\ q.num = Idle.num /\ q.pos = "panic" /\ q \in Request
    BY <1>3, <1>5, <2>1 DEF Request
  <2> QED BY <1>2, <1>4, <2>1, <2>2
<1> QED BY <1>2, <1>3, <1>4, <1>5

(* The invariant holds at first. *)
LEMMA RenderStarts == RenderInit => RenderInv
<1> SUFFICES ASSUME RenderInit PROVE RenderInv OBVIOUS
<1>1. \A o \in RawAds : "" \in Pictured(o) /\ "" \in Ids BY DEF Pictured, Ids
<1>2. PubRight BY <1>1 DEF RenderInit, PubRight
<1>3. \A r \in AdRequests : renderReq[r] = Idle BY DEF RenderInit
<1>4. \A r \in AdRequests : AdRight(r, Idle) /\ Idle \in Request BY IdleRight DEF AdRight
<1>5. renderReq \in [AdRequests -> Request] BY <1>3, <1>4 DEF RenderInit
<1> QED BY <1>2, <1>3, <1>4, <1>5 DEF RenderInv, RenderInit

(* What a selection gives: copies, or pointers for the page of the jstag.  *)
LEMMA Copied ==
  ASSUME RenderInv, NEW r, NEW kind, NEW s \in Seq(RawAds)
  PROVE  /\ Copies(s) \in Seq(Raw) /\ Len(Copies(s)) = Len(s) /\ Ads(Copies(s)) = s
         /\ \A i \in DOMAIN Copies(s) : RawRight(r, kind, Copies(s)[i])
         /\ Pointers(s) \in Seq(Raw)
         /\ kind = "jstagH5" => \A i \in DOMAIN Pointers(s) : RawRight(r, kind, Pointers(s)[i])
<1>1. PICK l \in Nat : l = Len(s) /\ DOMAIN s = 1..l /\ \A i \in 1..l : s[i] \in RawAds OBVIOUS
<1>2. ASSUME NEW o \in RawAds
      PROVE  /\ CopyOf(o) \in Raw /\ CopyOf(o).offer = o /\ RawRight(r, kind, CopyOf(o))
             /\ PointerTo(o) \in Raw
             /\ kind = "jstagH5" => RawRight(r, kind, PointerTo(o))
  <2>1. pub[o] \in Ids /\ pub[o] \in Pictured(o) /\ "" \in Ids BY <1>2, PicturedIds DEF RenderInv, PubRight
  <2>2. CopyOf(o) \in Raw /\ PointerTo(o) \in Raw BY <1>2, <2>1 DEF CopyOf, PointerTo, Raw
  <2> QED BY <2>1, <2>2 DEF CopyOf, PointerTo, RawRight, RightRaw
<1>3. /\ Copies(s) \in [1..l -> Raw] /\ Pointers(s) \in [1..l -> Raw]
      /\ \A i \in 1..l : Copies(s)[i] = CopyOf(s[i]) /\ Pointers(s)[i] = PointerTo(s[i])
  <2>1. Copies(s) = [i \in 1..l |-> CopyOf(s[i])] /\ Pointers(s) = [i \in 1..l |-> PointerTo(s[i])]
    BY <1>1 DEF Copies, Pointers
  <2>2. \A i \in 1..l : CopyOf(s[i]) \in Raw /\ PointerTo(s[i]) \in Raw BY <1>1, <1>2
  <2> HIDE DEF Raw
  <2> QED BY <2>1, <2>2
<1>4. Copies(s) \in Seq(Raw) /\ Len(Copies(s)) = l /\ Pointers(s) \in Seq(Raw) BY <1>3
<1>5. Ads(Copies(s)) = s
  <2>1. Ads(Copies(s)) = [i \in 1..l |-> Copies(s)[i].offer] BY <1>3 DEF Ads
  <2>2. \A i \in 1..l : Copies(s)[i].offer = s[i] BY <1>1, <1>2, <1>3
  <2>3. s = [i \in 1..l |-> s[i]] BY <1>1
  <2> QED BY <2>1, <2>2, <2>3
<1> QED BY <1>1, <1>2, <1>3, <1>4, <1>5

(* A request that has selected is right when its raws and what is to do    *)
(* are a selection.                                                        *)
LEMMA Selected ==
  ASSUME NEW r, NEW q, AdRight(r, q), q.pos = "asked",
         NEW nq \in Request, Goes(q, nq), nq.answers = q.answers,
         \/ nq.pos = "done"
         \/ nq.pos = "show" /\ nq.raws # <<>>
         \/ nq.pos = "e" /\ nq.todo # <<>>,
         \A i \in DOMAIN nq.raws : RawRight(r, nq.kind, nq.raws[i]),
         nq.kind # "jstagH5" =>
           /\ Within(Ads(nq.raws), Range(q.found)) /\ Within(nq.todo, Range(q.found))
           /\ nq.reply # "other" =>
                /\ Selection(Ads(nq.raws), Range(q.found)) /\ Selection(nq.todo, Range(q.found))
                /\ Disjoint(Ads(nq.raws), nq.todo),
         nq.reply # "other" /\ Kinds[nq.kind].select = "Select" => Len(nq.raws) + Len(nq.todo) <= nq.num + 1
  PROVE  AdRight(r, nq)
<1>1. nq.answers = <<>> /\ nq.found = q.found BY DEF AdRight, Placed, Goes
<1>2. FoundRight(nq) BY GoesOn DEF AdRight
<1>3. Placed(nq) /\ TrackRight(nq) BY DEF Placed, TrackRight
<1>4. nq.kind # "jstagH5" =>
        /\ Taken(Ads(nq.answers), Ads(nq.raws), nq.todo, Range(nq.found))
        /\ nq.reply # "other" => Line(Ads(nq.answers), Ads(nq.raws), nq.todo, Range(nq.found))
  BY <1>1, NoneSelected DEF Line, Taken
<1>5. nq.raws \in Seq(Raw) /\ nq.todo \in Seq(RawAds) BY DEF Request
<1>6. nq.reply # "other" /\ Kinds[nq.kind].select = "Select" => Total(nq.answers, nq.raws, nq.todo) <= nq.num + 1
  <2>1. PICK w \in Seq(Raw), t \in Seq(RawAds) : w = nq.raws /\ t = nq.todo BY <1>5
  <2>2. PICK n \in Nat : n = nq.num BY DEF Request
  <2>3. nq.reply # "other" /\ Kinds[nq.kind].select = "Select" => Len(w) + Len(t) <= n + 1 BY <2>1, <2>2
  <2>4. Len(<<>>) + Len(w) + Len(t) = Len(w) + Len(t) BY <2>1
  <2> QED BY <1>1, <2>1, <2>2, <2>3, <2>4 DEF Total
<1>7. \A i \in DOMAIN nq.answers : FALSE BY <1>1
<1> QED BY <1>2, <1>3, <1>4, <1>6, <1>7 DEF AdRight, LineRight

(* What was found is a selection. *)
LEMMA FoundSelected ==
  ASSUME NEW r, NEW q, AdRight(r, q)
  PROVE  Selection(q.found, Range(q.found)) /\ Range(q.found) \in SUBSET RawAds
<1>1. q.found \in Seq(RawAds) /\ Distinct(q.found) BY DEF AdRight, FoundRight, Request
<1> QED BY <1>1, RangeIs DEF Selection

(* The search keeps what the filter lets through. *)
LEMMA SearchStep ==
  ASSUME RenderInv, NEW r \in AdRequests, NEW ask \in Asked[r], Search(r, ask)
  PROVE  RenderInv'
<1> DEFINE F == {o \in RawAds : Found(o, ask.kind, ask.want, ask.cids)}
<1>1. ask \in Ask BY RenderingAssumption
<1>2. PICK found \in SomeOf(F) :
        Set(r, [Idle EXCEPT !.pos = IF found = <<>> THEN "done" ELSE "asked", !.kind = ask.kind,
                            !.want = ask.want, !.num = ask.num, !.cids = ask.cids,
                            !.found = IF ask.kind = "realtime" THEN First(found, ask.num) ELSE found])
  BY DEF Search
<1>3. Selection(found, F) BY SomeOfAre
<1>4. PICK f : f = IF ask.kind = "realtime" THEN First(found, ask.num) ELSE found OBVIOUS
<1>5. Selection(f, F) BY <1>1, <1>3, <1>4, FirstAre DEF Ask
<1>6. PICK pos \in {"done", "asked"} : pos = IF found = <<>> THEN "done" ELSE "asked" OBVIOUS
<1>7. PICK q : q = [Idle EXCEPT !.pos = pos, !.kind = ask.kind, !.want = ask.want, !.num = ask.num,
                                !.cids = ask.cids, !.found = f]
  OBVIOUS
<1>8. Idle \in Request /\ Idle.todo = <<>> /\ Idle.raws = <<>> /\ Idle.answers = <<>>
  BY IdleRight DEF AdRight, Idle
<1>9. /\ q \in Request /\ q.pos = pos /\ q.kind = ask.kind /\ q.want = ask.want /\ q.num = ask.num
      /\ q.cids = ask.cids /\ q.found = f /\ q.todo = <<>> /\ q.raws = <<>> /\ q.answers = <<>>
  BY <1>1, <1>5, <1>7, <1>8 DEF Request, Ask, Selection
<1>10. FoundRight(q) BY <1>5, <1>9 DEF FoundRight, Selection, Within
<1>11. LineRight(q) BY <1>9, NoneSelected DEF LineRight, Taken, Line, Request, Total
<1>12. Placed(q) /\ TrackRight(q) BY <1>9 DEF Placed, TrackRight
<1>13. AdRight(r, q) BY <1>9, <1>10, <1>11, <1>12 DEF AdRight
<1>14. Set(r, q) BY <1>2, <1>4, <1>6, <1>7
<1> QED BY <1>13, <1>14, OneRequest DEF Search, PubRight, RenderInv

(* A selection is rendered, or there is nothing to render. *)
LEMMA RenderStep ==
  ASSUME RenderInv, NEW r \in AdRequests, renderReq[r].pos = "asked", NEW raws \in Seq(Raw),
         \A i \in DOMAIN raws : RawRight(r, renderReq[r].kind, raws[i]),
         renderReq[r].kind # "jstagH5" => Selection(Ads(raws), Range(renderReq[r].found)),
         Kinds[renderReq[r].kind].select = "Select" => Len(raws) <= renderReq[r].num + 1,
         Render(r, raws), UNCHANGED <<pub, spare>>
  PROVE  RenderInv'
<1>1. PICK q : q = renderReq[r] OBVIOUS
<1>2. AdRight(r, q) /\ q \in Request BY <1>1 DEF RenderInv, AdRight
<1>3. PICK pos \in {"done", "show"} : pos = IF raws = <<>> THEN "done" ELSE "show" OBVIOUS
<1>4. PICK nq : nq = [q EXCEPT !.pos = pos, !.raws = raws] OBVIOUS
<1>5. /\ nq \in Request /\ nq.pos = pos /\ nq.raws = raws /\ nq.todo = q.todo /\ nq.answers = q.answers
      /\ Goes(q, nq)
  BY <1>2, <1>3, <1>4 DEF Request, Goes
<1>6. nq.todo = <<>> BY <1>1, <1>2, <1>5 DEF AdRight, Placed
<1>7. Kinds[nq.kind].select = "Select" => Len(nq.raws) + Len(nq.todo) <= nq.num + 1
  <2>1. PICK l \in Nat : l = Len(raws) OBVIOUS
  <2>2. Len(<<>>) = 0 OBVIOUS
  <2>3. PICK n \in Nat : n = nq.num BY <1>5 DEF Request
  <2>4. Kinds[nq.kind].select = "Select" => l <= n + 1 BY <1>1, <1>5, <2>1, <2>3 DEF Goes
  <2> QED BY <1>5, <1>6, <2>1, <2>2, <2>3, <2>4
<1>8. nq.kind = q.kind BY <1>5 DEF Goes
<1>9. AdRight(r, nq)
  <2>1. nq.pos = "done" \/ (nq.pos = "show" /\ nq.raws # <<>>) BY <1>3, <1>5
  <2>2. \A i \in DOMAIN nq.raws : RawRight(r, nq.kind, nq.raws[i]) BY <1>1, <1>5, <1>8
  <2>3. nq.kind # "jstagH5" => /\ Selection(Ads(nq.raws), Range(q.found))
                               /\ Selection(nq.todo, Range(q.found))
                               /\ Disjoint(Ads(nq.raws), nq.todo)
    BY <1>1, <1>5, <1>6, <1>8, NoneSelected
  <2>4. nq.kind # "jstagH5" => Within(Ads(nq.raws), Range(q.found)) /\ Within(nq.todo, Range(q.found))
    BY <2>3 DEF Selection
  <2> QED BY <1>1, <1>2, <1>5, <1>7, <2>1, <2>2, <2>3, <2>4, Selected
<1>10. Set(r, nq) BY <1>1, <1>3, <1>4 DEF Render
<1> QED BY <1>9, <1>10, OneRequest DEF PubRight, RenderInv

(* The handlers that select by themselves. *)
LEMMA SelectLocallyStep ==
  ASSUME RenderInv, NEW r \in AdRequests, SelectLocally(r)
  PROVE  RenderInv'
<1>1. PICK q : q = renderReq[r] OBVIOUS
<1>2. AdRight(r, q) /\ q \in Request /\ q.found \in Seq(RawAds) /\ q.kind \in DOMAIN Kinds
  BY <1>1 DEF RenderInv, AdRight, Request
<1>3. Selection(q.found, Range(q.found)) BY <1>2, FoundSelected
<1>4. ASSUME NEW s, Selection(s, Range(q.found)), q.pos = "asked", Kinds[q.kind].select # "Select",
             Render(r, Copies(s)), UNCHANGED <<pub, spare>>
      PROVE  RenderInv'
  <2>1. s \in Seq(RawAds) BY <1>4 DEF Selection
  <2>2. PICK raws : raws = Copies(s) OBVIOUS
  <2>3. /\ raws \in Seq(Raw) /\ Ads(raws) = s
        /\ \A i \in DOMAIN raws : RawRight(r, q.kind, raws[i])
    BY <2>1, <2>2, Copied
  <2> QED BY <1>1, <1>4, <2>2, <2>3, RenderStep
<1>5. CASE Asks(r, "copies") /\ Render(r, Copies(renderReq[r].found))
  BY <1>1, <1>3, <1>4, <1>5 DEF SelectLocally, Asks
<1>6. CASE Asks(r, "RandCopy") /\ \E s \in RandCopy(renderReq[r].found, 1) : Render(r, Copies(s))
  <2>1. PICK s \in RandCopy(q.found, 1) : Render(r, Copies(s)) BY <1>1, <1>6
  <2>2. Selection(s, Range(q.found)) BY <1>3, RandCopies
  <2> QED BY <1>1, <1>4, <1>6, <2>1, <2>2 DEF SelectLocally, Asks
<1>7. CASE Asks(r, "pointers") /\ \E s \in Page(renderReq[r]) : Render(r, Pointers(s))
  <2>1. PICK s \in Page(q) : Render(r, Pointers(s)) BY <1>1, <1>7
  <2>2. q.kind = "jstagH5" /\ q.pos = "asked" BY <1>1, <1>2, <1>7, KindsAre DEF Asks
  <2>3. s \in Seq(RawAds)
    <3>1. PICK i \in DOMAIN q.found, wall \in SomeOf(RawAds) : s = <<q.found[i]>> \o wall
      BY DEF Page
    <3>2. wall \in Seq(RawAds) BY SomeOfAre DEF Selection
    <3>3. q.found[i] \in RawAds BY <1>2
    <3> QED BY <3>1, <3>2, <3>3
  <2>4. PICK raws : raws = Pointers(s) OBVIOUS
  <2>5. raws \in Seq(Raw) /\ \A i \in DOMAIN raws : RawRight(r, q.kind, raws[i])
    BY <2>2, <2>3, <2>4, Copied
  <2>6. Kinds[q.kind].select # "Select" BY <1>1, <1>7 DEF Asks
  <2> QED BY <1>1, <2>1, <2>2, <2>4, <2>5, <2>6, RenderStep DEF SelectLocally
<1> QED BY <1>5, <1>6, <1>7 DEF SelectLocally

(* The strategy without the rank service. *)
LEMMA SelectRandomlyStep ==
  ASSUME RenderInv, NEW r \in AdRequests, SelectRandomly(r)
  PROVE  RenderInv'
<1>1. PICK q : q = renderReq[r] OBVIOUS
<1>2. AdRight(r, q) /\ q \in Request /\ q.num \in Nat /\ q.pos = "asked"
  BY <1>1 DEF RenderInv, AdRight, Request, SelectRandomly, Asks
<1>3. PICK s \in randomCopy(q.found, q.num) : Render(r, Copies(s)) BY <1>1 DEF SelectRandomly
<1>4. Selection(s, Range(q.found)) /\ Len(s) <= q.num + 1 BY <1>2, FoundSelected, RandomCopies
<1>5. s \in Seq(RawAds) BY <1>4 DEF Selection
<1>6. PICK raws : raws = Copies(s) OBVIOUS
<1>7. /\ raws \in Seq(Raw) /\ Len(raws) = Len(s) /\ Ads(raws) = s
      /\ \A i \in DOMAIN raws : RawRight(r, q.kind, raws[i])
  BY <1>5, <1>6, Copied
<1> QED BY <1>1, <1>2, <1>3, <1>4, <1>6, <1>7, RenderStep DEF SelectRandomly

(* The rank service of the rewarded videos does not answer. *)
LEMMA VideoRankFailsStep ==
  ASSUME RenderInv, NEW r \in AdRequests, VideoRankFails(r)
  PROVE  RenderInv'
<1>1. PICK q : q = renderReq[r] OBVIOUS
<1>2. AdRight(r, q) /\ q.pos = "asked" /\ Kinds[q.kind].select # "Select"
  BY <1>1 DEF RenderInv, VideoRankFails, Asks
<1>3. PICK s \in RandCopy(q.found, q.num) : Render(r, Copies(s)) BY <1>1 DEF VideoRankFails
<1>4. Selection(s, Range(q.found)) BY <1>2, FoundSelected, RandCopies
<1>5. s \in Seq(RawAds) BY <1>4 DEF Selection
<1>6. PICK raws : raws = Copies(s) OBVIOUS
<1>7. raws \in Seq(Raw) /\ Ads(raws) = s /\ \A i \in DOMAIN raws : RawRight(r, q.kind, raws[i])
  BY <1>5, <1>6, Copied
<1> QED BY <1>1, <1>2, <1>3, <1>4, <1>6, <1>7, RenderStep DEF VideoRankFails

(* A reply is of offers that were found, whatever it says. *)
LEMMA RepliesAre ==
  ASSUME NEW r \in AdRequests, NEW S \in SUBSET RawAds, NEW s \in Replies(r, S)
  PROVE  s \in Seq(RawAds) /\ Within(s, S)
<1>1. PICK n \in 0..MaxReply[r] : s \in [1..n -> S] BY DEF Replies
<1>2. n \in Nat BY RenderingAssumption
<1>3. s \in Seq(RawAds) BY <1>1, <1>2
<1> QED BY <1>1, <1>3 DEF Within

(* One that says what it was asked is a selection. *)
LEMMA AsAskedIs ==
  ASSUME NEW s \in Seq(RawAds), NEW offers, NEW num, AsAsked(s, offers, num)
  PROVE  Selection(s, offers) /\ Len(s) <= num
<1>1. Within(s, Range(s)) BY RangeIs
<1> QED BY <1>1 DEF AsAsked, Selection, Distinct, Within

(* What was ranked comes after what SelectWg has put first. *)
LEMMA RankedStep ==
  ASSUME RenderInv, NEW r \in AdRequests, renderReq[r].pos = "asked",
         NEW first, Selection(first, Range(renderReq[r].found)),
         NEW s \in Replies(r, Range(renderReq[r].found)), NEW offers, NEW num,
         Disjoint(first, s) \/ ~AsAsked(s, offers, num),
         offers \subseteq Range(renderReq[r].found),
         Kinds[renderReq[r].kind].select = "Select" => first = <<>> /\ num = renderReq[r].num,
         Ranked(r, Copies(first), s, offers, num), UNCHANGED <<pub, spare>>
  PROVE  RenderInv'
<1>1. PICK q : q = renderReq[r] OBVIOUS
<1>2. AdRight(r, q) /\ q \in Request /\ q.found \in Seq(RawAds) /\ q.num \in Nat
  BY <1>1 DEF RenderInv, AdRight, Request
<1>3. Range(q.found) \in SUBSET RawAds BY <1>2, FoundSelected
<1>4. s \in Seq(RawAds) /\ Within(s, Range(q.found)) BY <1>1, <1>3, RepliesAre
<1>5. first \in Seq(RawAds) /\ Within(first, Range(q.found)) BY <1>1 DEF Selection
<1>6. PICK raws : raws = Copies(first) OBVIOUS
<1>7. /\ raws \in Seq(Raw) /\ Ads(raws) = first /\ Len(raws) = Len(first)
      /\ \A i \in DOMAIN raws : RawRight(r, q.kind, raws[i])
  BY <1>5, <1>6, Copied
<1>8. PICK pos \in {"e", "show", "done"} :
        /\ pos = IF s # <<>> THEN "e" ELSE IF raws # <<>> THEN "show" ELSE "done"
        /\ pos = "e" => s # <<>>
        /\ pos = "show" => raws # <<>>
  OBVIOUS
<1>9. PICK reply \in {"asAsked", "other"} :
        /\ reply = IF AsAsked(s, offers, num) THEN "asAsked" ELSE "other"
        /\ reply # "other" => AsAsked(s, offers, num)
  OBVIOUS
<1>10. PICK nq : nq = [q EXCEPT !.pos = pos, !.raws = raws, !.todo = s, !.reply = reply] OBVIOUS
<1>11. /\ nq \in Request /\ nq.pos = pos /\ nq.todo = s /\ nq.raws = raws /\ nq.answers = q.answers
       /\ Goes(q, nq) /\ nq.kind = q.kind /\ nq.num = q.num /\ nq.reply = reply
  BY <1>2, <1>4, <1>7, <1>10 DEF Request, Goes
<1>12. ASSUME reply # "other" PROVE Selection(s, Range(q.found)) /\ Disjoint(first, s) /\ Len(s) <= num
  <2>1. Selection(s, offers) /\ Len(s) <= num BY <1>4, <1>9, <1>12, AsAskedIs
  <2> QED BY <1>1, <1>9, <1>12, <2>1 DEF Selection, Within
<1>13. nq.reply # "other" /\ Kinds[nq.kind].select = "Select" => Len(nq.raws) + Len(nq.todo) <= nq.num + 1
  <2>1. SUFFICES ASSUME reply # "other", Kinds[q.kind].select = "Select" PROVE Len(raws) + Len(s) <= q.num + 1
    BY <1>11
  <2>2. first = <<>> /\ Len(s) <= q.num BY <1>1, <1>12, <2>1
  <2>3. PICK l \in Nat : l = Len(s) BY <1>4
  <2>4. Len(raws) = 0 BY <1>7, <2>2
  <2> QED BY <1>2, <2>2, <2>3, <2>4
<1>14. AdRight(r, nq)
  <2>1. nq.pos = "done" \/ (nq.pos = "show" /\ nq.raws # <<>>) \/ (nq.pos = "e" /\ nq.todo # <<>>)
    BY <1>8, <1>11
  <2>2. \A i \in DOMAIN nq.raws : RawRight(r, nq.kind, nq.raws[i]) BY <1>7, <1>11
  <2>3. Within(Ads(nq.raws), Range(q.found)) /\ Within(nq.todo, Range(q.found)) BY <1>4, <1>5, <1>7, <1>11
  <2>4. nq.reply # "other" => /\ Selection(Ads(nq.raws), Range(q.found)) /\ Selection(nq.todo, Range(q.found))
                              /\ Disjoint(Ads(nq.raws), nq.todo)
    BY <1>1, <1>7, <1>11, <1>12
  <2> QED BY <1>1, <1>2, <1>11, <1>13, <2>1, <2>2, <2>3, <2>4, Selected
<1>15. Set(r, nq) BY <1>1, <1>6, <1>8, <1>9, <1>10 DEF Ranked
<1> QED BY <1>14, <1>15, OneRequest DEF PubRight, RenderInv

(* The rank service answers. *)
LEMMA RankAnswersStep ==
  ASSUME RenderInv, NEW r \in AdRequests, RankAnswers(r)
  PROVE  RenderInv'
<1>1. PICK q : q = renderReq[r] OBVIOUS
<1>2. AdRight(r, q) /\ q \in Request /\ q.found \in Seq(RawAds)
  BY <1>1 DEF RenderInv, AdRight, Request
<1>3. Range(q.found) \in SUBSET RawAds BY <1>2, FoundSelected
<1>4. UNCHANGED <<pub, spare>> BY DEF RankAnswers
<1>5. ASSUME Asks(r, "Select") \/ Asks(r, "videoSelect"), NEW s \in Replies(r, Range(q.found)),
             Ranked(r, <<>>, s, Range(q.found), q.num)
      PROVE  RenderInv'
  <2>1. q.pos = "asked" BY <1>1, <1>5 DEF Asks
  <2>2. Copies(<<>>) = <<>> BY DEF Copies
  <2>3. Ranked(r, Copies(<<>>), s, Range(q.found), q.num) BY <1>5, <2>2
  <2> QED BY <1>1, <1>4, <1>5, <2>1, <2>3, NoneSelected, RankedStep
<1>6. ASSUME Asks(r, "SelectWg"), NEW post \in createPostDataWg(q.found)
      PROVE  /\ q.pos = "asked" /\ Kinds[q.kind].select = "SelectWg"
             /\ Selection(post.white, Range(q.found) \cap White)
             /\ Selection(post.white, Range(q.found)) /\ post.white \in Seq(RawAds)
             /\ post.offers = Range(q.found) \ White
  <2>1. post.white \in InOrder(q.found, White) /\ post.offers = Range(q.found) \ White
    BY <1>6 DEF createPostDataWg
  <2>2. Selection(post.white, Range(q.found) \cap White) BY <1>2, <2>1, InOrderAre
  <2>3. Selection(post.white, Range(q.found)) /\ post.white \in Seq(RawAds) BY <2>2 DEF Selection, Within
  <2> QED BY <1>1, <1>6, <2>1, <2>2, <2>3 DEF Asks
<1>7. ASSUME Asks(r, "SelectWg"), NEW post \in createPostDataWg(q.found), Render(r, Copies(post.white))
      PROVE  RenderInv'
  <2>1. PICK raws : raws = Copies(post.white) OBVIOUS
  <2>2. raws \in Seq(Raw) /\ Ads(raws) = post.white /\ \A i \in DOMAIN raws : RawRight(r, q.kind, raws[i])
    BY <1>6, <1>7, <2>1, Copied
  <2>3. Selection(Ads(raws), Range(q.found)) /\ q.pos = "asked" /\ Kinds[q.kind].select # "Select"
    BY <1>6, <1>7, <2>2
  <2> QED BY <1>1, <1>4, <1>7, <2>1, <2>2, <2>3, RenderStep
<1>8. ASSUME Asks(r, "SelectWg"), Render(r, <<>>) PROVE RenderInv'
  <2>1. <<>> \in Seq(Raw) /\ DOMAIN <<>> = {} OBVIOUS
  <2>2. q.pos = "asked" /\ Kinds[q.kind].select # "Select" BY <1>1, <1>8 DEF Asks
  <2> QED BY <1>1, <1>4, <1>8, <2>1, <2>2, NoneSelected, RenderStep
<1>9. ASSUME Asks(r, "SelectWg"), NEW post \in createPostDataWg(q.found), NEW s \in Replies(r, Range(q.found)),
             NEW num, Ranked(r, Copies(post.white), s, post.offers, num)
      PROVE  RenderInv'
  <2>1. /\ q.pos = "asked" /\ Kinds[q.kind].select # "Select" /\ Selection(post.white, Range(q.found))
        /\ Selection(post.white, Range(q.found) \cap White) /\ post.offers = Range(q.found) \ White
    BY <1>6, <1>9
  <2>2. s \in Seq(RawAds) BY <1>3, <1>9, RepliesAre
  <2>3. ASSUME AsAsked(s, post.offers, num) PROVE Disjoint(post.white, s)
    <3>1. Selection(s, post.offers) BY <2>2, <2>3, AsAskedIs
    <3>2. (Range(q.found) \cap White) \cap post.offers = {} BY <2>1
    <3> QED BY <2>1, <3>1, <3>2, DisjointAre
  <2> QED BY <1>1, <1>4, <1>9, <2>1, <2>3, RankedStep
<1> QED BY <1>1, <1>5, <1>7, <1>8, <1>9 DEF RankAnswers

(* An argument is appended to a copy: memory of its own.  Nobody writes    *)
(* behind the published slice, for there is no room.                       *)
LEMMA AppendArgRight ==
  ASSUME NEW r \in AdRequests, NEW kind, NEW raw, RawRight(r, kind, raw)
  PROVE  /\ RawRight(r, kind, AppendArg(raw, r))
         /\ AppendArg(raw, r).offer = raw.offer /\ AppendArg(raw, r).chosen = raw.chosen
         /\ AppendArg(raw, r).at = "pointer" <=> raw.at = "pointer"
         /\ WritesBehind(raw, r) => spare' = spare
<1>1. /\ raw \in Raw /\ raw.offer \in RawAds /\ raw.chosen \in Pictured(raw.offer)
      /\ raw.at \in {"published", "own", "pointer"}
      /\ raw.own \subseteq Owners /\ r \in Owners /\ Attached(raw.offer) \subseteq Owners
  BY DEF RawRight, RightRaw, Raw, Attached, Owners
<1>2. WritesBehind(raw, r) => spare' = spare BY DEF WritesBehind, SpareCapacity
<1>3. CASE raw.at = "published"
  <2>1. AppendArg(raw, r) = [raw EXCEPT !.at = "own", !.own = Attached(raw.offer) \cup {r}]
    BY <1>3 DEF AppendArg, SpareCapacity
  <2>2. PICK x : x = AppendArg(raw, r) OBVIOUS
  <2>3. /\ x \in Raw /\ x.at = "own" /\ x.own = Attached(raw.offer) \cup {r}
        /\ x.offer = raw.offer /\ x.chosen = raw.chosen
    <3>1. Attached(raw.offer) \cup {r} \in SUBSET Owners BY <1>1
    <3> QED BY <1>1, <2>1, <2>2, <3>1 DEF Raw
  <2>4. RawRight(r, kind, x) BY <1>1, <2>3 DEF RawRight, RightRaw
  <2> QED BY <1>2, <1>3, <2>2, <2>3, <2>4
<1>4. CASE raw.at # "published"
  <2>1. AppendArg(raw, r) = [raw EXCEPT !.own = raw.own \cup {r}]
    BY <1>1, <1>4 DEF AppendArg
  <2> QED BY <1>1, <1>2, <1>4, <2>1 DEF RawRight, RightRaw, Raw
<1> QED BY <1>3, <1>4

(* The arguments of a copy are those of its offer and request. *)
LEMMA ArgsRight ==
  ASSUME NEW r \in AdRequests, NEW kind, NEW raw, RawRight(r, kind, raw)
  PROVE  ArgsOf(raw) \cup {r} = {r} \cup Attached(raw.offer)
<1>1. raw.at \in {"published", "own", "pointer"} BY DEF RawRight, RightRaw, Raw
<1> QED BY <1>1 DEF RawRight, ArgsOf

(* A sequence that takes one more at its end. *)
LEMMA Appended ==
  ASSUME NEW S, NEW s \in Seq(S), NEW x \in S
  PROVE  /\ Append(s, x) \in Seq(S) /\ Append(s, x) # <<>> /\ Len(Append(s, x)) = Len(s) + 1
         /\ \A i \in DOMAIN Append(s, x) : \/ i \in DOMAIN s /\ Append(s, x)[i] = s[i]
                                           \/ Append(s, x)[i] = x
  OBVIOUS

(* What is left of a sequence without its first. *)
LEMMA Tailed ==
  ASSUME NEW S, NEW s \in Seq(S), s # <<>>
  PROVE  /\ Tail(s) \in Seq(S) /\ Len(Tail(s)) = Len(s) - 1 /\ Head(s) \in S /\ Head(s) = s[1]
         /\ 1 \in DOMAIN s
         /\ \A i \in DOMAIN Tail(s) : i + 1 \in DOMAIN s /\ Tail(s)[i] = s[i + 1]
  OBVIOUS

(* What is on its way moves on, and stays one of the offers found. *)
LEMMA TakenMoves ==
  ASSUME NEW a \in Seq(RawAds), NEW w \in Seq(RawAds), NEW t \in Seq(RawAds), NEW S, Taken(a, w, t, S)
  PROVE  /\ w # <<>> => Taken(Append(a, Head(w)), Tail(w), t, S) /\ Taken(a, Tail(w), t, S)
         /\ t # <<>> => Taken(a, Append(w, Head(t)), Tail(t), S)
<1>1. ASSUME NEW s \in Seq(RawAds), Within(s, S), s # <<>>
      PROVE  Within(Tail(s), S) /\ Head(s) \in S /\ Head(s) \in RawAds
  BY <1>1, Tailed DEF Within
<1>2. ASSUME NEW s \in Seq(RawAds), Within(s, S), NEW x \in RawAds, x \in S
      PROVE  Within(Append(s, x), S)
  BY <1>2, Appended DEF Within
<1>3. ASSUME w # <<>> PROVE Taken(Append(a, Head(w)), Tail(w), t, S) /\ Taken(a, Tail(w), t, S)
  <2>1. Within(Tail(w), S) /\ Head(w) \in S /\ Head(w) \in RawAds BY <1>1, <1>3 DEF Taken
  <2> QED BY <1>2, <2>1 DEF Taken
<1>4. ASSUME t # <<>> PROVE Taken(a, Append(w, Head(t)), Tail(t), S)
  <2>1. Within(Tail(t), S) /\ Head(t) \in S /\ Head(t) \in RawAds BY <1>1, <1>4 DEF Taken
  <2> QED BY <1>2, <2>1 DEF Taken
<1> QED BY <1>3, <1>4

(* A raw is written over. *)
LEMMA WrittenOver ==
  ASSUME NEW s \in Seq(Raw), NEW k \in DOMAIN s, NEW x \in Raw, NEW z, z = [s EXCEPT ![k] = x]
  PROVE  /\ z \in Seq(Raw) /\ Len(z) = Len(s) /\ DOMAIN z = DOMAIN s /\ z # <<>>
         /\ \A i \in DOMAIN z : z[i] = IF i = k THEN x ELSE s[i]
<1>1. PICK l \in Nat : l = Len(s) /\ DOMAIN s = 1..l OBVIOUS
<1>2. s \in [1..l -> Raw] BY <1>1
<1>3. z \in [1..l -> Raw] BY <1>1, <1>2
<1>4. z \in Seq(Raw) /\ Len(z) = l BY <1>3
<1>5. \A i \in 1..l : z[i] = IF i = k THEN x ELSE s[i] BY <1>1, <1>2
<1>6. l # 0 BY <1>1
<1>7. z # <<>> BY <1>4, <1>6
<1> QED BY <1>1, <1>3, <1>4, <1>5, <1>7

(* The first of one sequence is appended to another. *)
LEMMA SameLength ==
  ASSUME NEW a \in Seq(Answer), NEW w \in Seq(Raw), NEW t \in Seq(RawAds), t # <<>>, NEW x \in Raw
  PROVE  Total(a, Append(w, x), Tail(t)) = Total(a, w, t)
<1>1. Len(a) \in Nat /\ Len(w) \in Nat /\ Len(t) \in Nat OBVIOUS
<1>2. Len(Append(w, x)) = Len(w) + 1 BY Appended
<1>3. Len(Tail(t)) = Len(t) - 1 BY Tailed
<1> QED BY <1>1, <1>2, <1>3 DEF Total

(* A ranked offer is copied, and its estimate attached. *)
LEMMA AttachEstimateStep ==
  ASSUME RenderInv, NEW r \in AdRequests, AttachEstimate(r)
  PROVE  RenderInv'
<1>1. PICK q : q = renderReq[r] OBVIOUS
<1>2. /\ AdRight(r, q) /\ q \in Request /\ q.todo \in Seq(RawAds) /\ q.raws \in Seq(Raw) /\ q.pos = "e"
      /\ q.num \in Nat /\ q.answers \in Seq(Answer)
  BY <1>1 DEF RenderInv, AdRight, Request, AttachEstimate
<1>3. q.todo # <<>> BY <1>2 DEF AdRight, Placed
<1>4. Head(q.todo) \in RawAds /\ Tail(q.todo) \in Seq(RawAds) BY <1>2, <1>3
<1>5. PICK raw : raw = CopyOf(Head(q.todo)) OBVIOUS
<1>6. RawRight(r, q.kind, raw) /\ raw.offer = Head(q.todo)
  <2>1. PICK o \in RawAds : o = Head(q.todo) BY <1>4
  <2>2. <<o>> \in Seq(RawAds) /\ DOMAIN <<o>> = {1} OBVIOUS
  <2>3. Copies(<<o>>)[1] = CopyOf(o) /\ 1 \in DOMAIN Copies(<<o>>) BY <2>2 DEF Copies
  <2>4. \A i \in DOMAIN Copies(<<o>>) : RawRight(r, q.kind, Copies(<<o>>)[i]) BY <2>2, Copied
  <2>5. RawRight(r, q.kind, CopyOf(o)) BY <2>3, <2>4
  <2> QED BY <1>5, <2>1, <2>5 DEF CopyOf
<1>7. PICK v \in {""} \cup getVideoByCids(raw.offer, q.cids) :
        /\ Set(r, [q EXCEPT !.pos = "po", !.todo = Tail(@),
                            !.raws = Append(@, [AppendArg(raw, r) EXCEPT !.video = v])])
        /\ WritesBehind(raw, r)
  BY <1>1, <1>5 DEF AttachEstimate
<1>8. v \in Ids BY <1>4, <1>6, DrawnByCids, PicturedIds
<1>9. PICK a : a = AppendArg(raw, r) OBVIOUS
<1>10. RawRight(r, q.kind, a) /\ a.offer = raw.offer /\ spare' = spare
  BY <1>6, <1>7, <1>9, AppendArgRight
<1>11. PICK x : x = [a EXCEPT !.video = v] OBVIOUS
<1>12. x \in Raw /\ RawRight(r, q.kind, x) /\ x.offer = Head(q.todo)
  <2>1. /\ x \in Raw /\ x.offer = a.offer /\ x.at = a.at /\ x.own = a.own /\ x.chosen = a.chosen
    BY <1>8, <1>10, <1>11 DEF RawRight, RightRaw, Raw
  <2> QED BY <1>6, <1>10, <2>1 DEF RawRight, RightRaw
<1>13. PICK nq : nq = [q EXCEPT !.pos = "po", !.todo = Tail(q.todo), !.raws = Append(q.raws, x)] OBVIOUS
<1>14. Append(q.raws, x) \in Seq(Raw) /\ Append(q.raws, x) # <<>>
  <2>1. x \in Raw BY <1>12
  <2>2. q.raws \in Seq(Raw) BY <1>2
  <2> HIDE <1>7
  <2> QED BY <2>1, <2>2, Appended
<1>15. /\ nq \in Request /\ nq.pos = "po" /\ nq.todo = Tail(q.todo) /\ nq.raws = Append(q.raws, x)
       /\ nq.answers = q.answers /\ Goes(q, nq) /\ nq.kind = q.kind /\ nq.num = q.num /\ nq.found = q.found
       /\ nq.reply = q.reply
  BY <1>2, <1>4, <1>13, <1>14 DEF Request, Goes
<1>16. FoundRight(nq) BY <1>2, <1>15, GoesOn DEF AdRight
<1>17. LineRight(nq)
  <2>1. Ads(nq.raws) = Append(Ads(q.raws), Head(q.todo))
    <3>1. PICK w \in Seq(Raw) : w = q.raws BY <1>2
    <3>2. x \in Raw BY <1>12
    <3>3. Ads(Append(w, x)) = Append(Ads(w), x.offer) BY <3>2, AdsOf, AdsMove
    <3> QED BY <1>12, <1>15, <3>1, <3>3
  <2>2. ASSUME nq.kind # "jstagH5", nq.reply # "other"
        PROVE  Line(Ads(nq.answers), Ads(nq.raws), nq.todo, Range(nq.found))
    <3>1. Line(Ads(q.answers), Ads(q.raws), q.todo, Range(q.found))
      BY <1>2, <1>15, <2>2 DEF AdRight, LineRight
    <3> QED BY <1>3, <1>15, <2>1, <3>1, LineMoves
  <2>4. ASSUME nq.kind # "jstagH5" PROVE Taken(Ads(nq.answers), Ads(nq.raws), nq.todo, Range(nq.found))
    <3>1. Taken(Ads(q.answers), Ads(q.raws), q.todo, Range(q.found))
      BY <1>2, <1>15, <2>4 DEF AdRight, LineRight
    <3>2. Ads(q.answers) \in Seq(RawAds) /\ Ads(q.raws) \in Seq(RawAds) BY <1>2, AdsOf, AdsAre
    <3> QED BY <1>2, <1>3, <1>15, <2>1, <3>1, <3>2, TakenMoves
  <2>3. Total(nq.answers, nq.raws, nq.todo) = Total(q.answers, q.raws, q.todo)
    <3>1. PICK t \in Seq(RawAds) : t = q.todo /\ t # <<>> BY <1>2, <1>3
    <3>2. PICK w \in Seq(Raw) : w = q.raws BY <1>2
    <3>3. PICK ans \in Seq(Answer) : ans = q.answers BY <1>2
    <3>4. x \in Raw /\ t # <<>> BY <1>12, <3>1
    <3>5. Total(ans, Append(w, x), Tail(t)) = Total(ans, w, t)
      BY <3>1, <3>2, <3>3, <3>4, SameLength
    <3> QED BY <1>15, <3>1, <3>2, <3>3, <3>5
  <2> QED BY <1>2, <1>15, <2>2, <2>3, <2>4 DEF AdRight, LineRight
<1>17a. Placed(nq) /\ TrackRight(nq) BY <1>14, <1>15 DEF Placed, TrackRight
<1>18. \A i \in DOMAIN nq.raws : RawRight(r, nq.kind, nq.raws[i])
  <2>1. PICK w \in Seq(Raw) : w = q.raws BY <1>2
  <2>2. \A i \in DOMAIN Append(w, x) : \/ i \in DOMAIN w /\ Append(w, x)[i] = w[i]
                                       \/ Append(w, x)[i] = x
    <3>1. x \in Raw BY <1>12
    <3> QED BY <3>1, Appended
  <2> QED BY <1>2, <1>12, <1>15, <2>1, <2>2 DEF AdRight
<1>19. AdRight(r, nq) BY <1>2, <1>15, <1>16, <1>17, <1>17a, <1>18 DEF AdRight
<1>20. Set(r, nq) BY <1>7, <1>9, <1>11, <1>13
<1> QED BY <1>10, <1>19, <1>20, OneRequest DEF PubRight, RenderInv, AttachEstimate

(* Its payout is attached to the copy. *)
LEMMA AttachPayoutStep ==
  ASSUME RenderInv, NEW r \in AdRequests, AttachPayout(r)
  PROVE  RenderInv'
<1>1. PICK q : q = renderReq[r] OBVIOUS
<1>2. /\ AdRight(r, q) /\ q \in Request /\ q.todo \in Seq(RawAds) /\ q.raws \in Seq(Raw) /\ q.pos = "po"
      /\ q.raws # <<>>
  BY <1>1 DEF RenderInv, AdRight, Request, AttachPayout, Placed
<1>3. PICK k \in DOMAIN q.raws : k = Len(q.raws) BY <1>2
<1>4. PICK raw : raw = q.raws[k] OBVIOUS
<1>5. RawRight(r, q.kind, raw) BY <1>2, <1>4 DEF AdRight
<1>6. PICK pos \in {"show", "e"} : pos = IF q.todo = <<>> THEN "show" ELSE "e" OBVIOUS
<1>7. PICK x : x = AppendArg(raw, r) OBVIOUS
<1>8. LastRaw(r) = raw BY <1>1, <1>3, <1>4 DEF LastRaw
<1>9. RawRight(r, q.kind, x) /\ x.offer = raw.offer /\ spare' = spare /\ x \in Raw
  <2>1. WritesBehind(raw, r) BY <1>8 DEF AttachPayout
  <2> QED BY <1>5, <1>7, <2>1, AppendArgRight DEF RawRight, RightRaw
<1>10. PICK raws : raws = [q.raws EXCEPT ![k] = x] OBVIOUS
<1>11. /\ raws \in Seq(Raw) /\ Len(raws) = Len(q.raws) /\ DOMAIN raws = DOMAIN q.raws /\ raws # <<>>
       /\ \A i \in DOMAIN raws : raws[i] = IF i = k THEN x ELSE q.raws[i]
  BY <1>2, <1>9, <1>10, WrittenOver
<1>12. Ads(raws) = Ads(q.raws) BY <1>2, <1>4, <1>9, <1>10, AdsOf, AdsMove
<1>13. PICK nq : nq = [q EXCEPT !.pos = pos, !.raws = raws] OBVIOUS
<1>14. /\ nq \in Request /\ nq.pos = pos /\ nq.todo = q.todo /\ nq.raws = raws
       /\ nq.answers = q.answers /\ Goes(q, nq) /\ nq.kind = q.kind /\ nq.num = q.num /\ nq.found = q.found
       /\ nq.reply = q.reply
  BY <1>2, <1>6, <1>11, <1>13 DEF Request, Goes
<1>15. FoundRight(nq) BY <1>2, <1>14, GoesOn DEF AdRight
<1>16. LineRight(nq) BY <1>2, <1>11, <1>12, <1>14 DEF AdRight, LineRight, Total
<1>17. Placed(nq) /\ TrackRight(nq) BY <1>6, <1>11, <1>14 DEF Placed, TrackRight
<1>18. \A i \in DOMAIN nq.raws : RawRight(r, nq.kind, nq.raws[i])
  BY <1>2, <1>9, <1>11, <1>14 DEF AdRight
<1>19. AdRight(r, nq) BY <1>2, <1>14, <1>15, <1>16, <1>17, <1>18 DEF AdRight
<1>20. Set(r, nq) BY <1>1, <1>3, <1>6, <1>7, <1>8, <1>10, <1>13 DEF AttachPayout
<1> QED BY <1>9, <1>19, <1>20, OneRequest DEF PubRight, RenderInv, AttachPayout

(* An offer leaves the line, with an answer or without. *)
LEMMA PassedLength ==
  ASSUME NEW a \in Seq(Answer), NEW w \in Seq(Raw), w # <<>>, NEW t \in Seq(RawAds), NEW x \in Answer
  PROVE  /\ Total(Append(a, x), Tail(w), t) = Total(a, w, t)
         /\ Total(a, Tail(w), t) = Total(a, w, t) - 1 /\ Total(a, w, t) \in Nat
<1>1. Len(a) \in Nat /\ Len(w) \in Nat /\ Len(t) \in Nat OBVIOUS
<1>2. Len(Append(a, x)) = Len(a) + 1 BY Appended
<1>3. Len(Tail(w)) = Len(w) - 1 BY Tailed
<1> QED BY <1>1, <1>2, <1>3 DEF Total

(* The handler goes on to the next offer. *)
LEMMA NextRawRight ==
  ASSUME NEW r, NEW q, AdRight(r, q), q.pos \in {"show", "track"}, NEW a \in Answer, NEW answers,
         \/ answers = q.answers
         \/ /\ answers = Append(q.answers, a)
            /\ a.offer = Head(q.raws).offer /\ AnswerRight(r, q.kind, a)
  PROVE  AdRight(r, NextRaw(q, answers))
<1>1. /\ q \in Request /\ q.raws # <<>> /\ q.num \in Nat
  BY DEF AdRight, Request, Placed
<1>2. PICK w \in Seq(Raw) : w = q.raws /\ w # <<>> BY <1>1 DEF Request
<1>3. PICK ans \in Seq(Answer) : ans = q.answers BY <1>1 DEF Request
<1>4. PICK t \in Seq(RawAds) : t = q.todo BY <1>1 DEF Request
<1>5. PICK pos \in {"done", "show"} : pos = IF Len(w) = 1 THEN "done" ELSE "show" OBVIOUS
<1>6. Tail(w) \in Seq(Raw) /\ (pos = "show" => Tail(w) # <<>>)
  <2>1. PICK l \in Nat : l = Len(w) /\ l # 0 BY <1>2
  <2>2. Tail(w) \in Seq(Raw) /\ Len(Tail(w)) = l - 1 BY <1>2, <2>1
  <2>3. ASSUME Tail(w) = <<>> PROVE l = 1
    <3>1. PICK z : z = Tail(w) OBVIOUS
    <3>2. z = <<>> BY <2>3, <3>1
    <3>3. Len(z) = 0 BY <3>2
    <3>4. 0 = l - 1 BY <2>2, <3>1, <3>3
    <3>5. l \in Nat BY <2>1
    <3> QED BY <3>4, <3>5
  <2> QED BY <1>5, <2>1, <2>2, <2>3
<1>7. answers \in Seq(Answer)
  <2>1. Append(ans, a) \in Seq(Answer) BY Appended
  <2> QED BY <1>3, <2>1
<1>8. PICK nq : nq = NextRaw(q, answers) OBVIOUS
<1>9. /\ nq \in Request /\ nq.pos = pos /\ nq.todo = t /\ nq.raws = Tail(w) /\ nq.answers = answers
      /\ Goes(q, nq) /\ nq.kind = q.kind /\ nq.num = q.num /\ nq.found = q.found /\ nq.reply = q.reply
  <2>1. nq = [q EXCEPT !.pos = pos, !.raws = Tail(w), !.shown = {}, !.tracked = {}, !.answers = answers]
    BY <1>2, <1>5, <1>8 DEF NextRaw
  <2>2. {} \in SUBSET Ids /\ {} \in SUBSET (Ids \cup {"chosen"}) OBVIOUS
  <2> QED BY <1>1, <1>4, <1>5, <1>6, <1>7, <2>1, <2>2 DEF Request, Goes
<1>10. FoundRight(nq) BY <1>9, GoesOn DEF AdRight
<1>11. LineRight(nq)
  <2>1. ASSUME nq.kind # "jstagH5"
        PROVE  /\ Taken(Ads(nq.answers), Ads(nq.raws), nq.todo, Range(nq.found))
               /\ nq.reply # "other" => Line(Ads(nq.answers), Ads(nq.raws), nq.todo, Range(nq.found))
    <3>1. /\ Taken(Ads(ans), Ads(w), t, Range(q.found))
          /\ q.reply # "other" => Line(Ads(ans), Ads(w), t, Range(q.found))
      BY <1>2, <1>3, <1>4, <1>9, <2>1 DEF AdRight, LineRight
    <3>2. Ads(Tail(w)) = Tail(Ads(w)) /\ Head(Ads(w)) = Head(w).offer
      <4>1. PICK x \in Raw : x = Head(w) BY <1>2
      <4> QED BY <1>2, AdsOf, AdsMove
    <3>3. Ads(Append(ans, a)) = Append(Ads(ans), a.offer) BY AdsOf, AdsMove
    <3>4. Ads(w) # <<>> /\ Ads(w) \in Seq(RawAds) /\ Ads(ans) \in Seq(RawAds)
      <4>1. Len(Ads(w)) = Len(w) /\ Ads(w) \in Seq(RawAds) /\ Ads(ans) \in Seq(RawAds) BY AdsOf, AdsAre
      <4>2. Len(<<>>) = 0 /\ Len(w) # 0 BY <1>2
      <4> QED BY <4>1, <4>2
    <3>5. q.reply # "other" => /\ Line(Append(Ads(ans), Head(Ads(w))), Tail(Ads(w)), t, Range(q.found))
                               /\ Line(Ads(ans), Tail(Ads(w)), t, Range(q.found))
      BY <3>1, <3>4, LineMoves
    <3>6. /\ Taken(Append(Ads(ans), Head(Ads(w))), Tail(Ads(w)), t, Range(q.found))
          /\ Taken(Ads(ans), Tail(Ads(w)), t, Range(q.found))
      BY <3>1, <3>4, TakenMoves
    <3> QED BY <1>2, <1>3, <1>9, <3>2, <3>3, <3>5, <3>6
  <2>2. Total(nq.answers, nq.raws, nq.todo) \in {Total(ans, w, t), Total(ans, w, t) - 1}
    <3>1. Total(Append(ans, a), Tail(w), t) = Total(ans, w, t) /\ Total(ans, Tail(w), t) = Total(ans, w, t) - 1
      BY <1>2, PassedLength
    <3> QED BY <1>3, <1>9, <3>1
  <2>3. Total(ans, w, t) \in Nat BY <1>2, PassedLength
  <2>4. q.reply # "other" /\ Kinds[q.kind].select = "Select" => Total(ans, w, t) <= q.num + 1
    BY <1>2, <1>3, <1>4 DEF AdRight, LineRight
  <2>5. nq.reply # "other" /\ Kinds[nq.kind].select = "Select" =>
          Total(nq.answers, nq.raws, nq.todo) <= nq.num + 1
    <3>1. PICK total \in Nat : total = Total(ans, w, t) BY <2>3
    <3> QED BY <1>1, <1>9, <2>2, <2>4, <3>1
  <2> QED BY <2>1, <2>5 DEF LineRight
<1>12. Placed(nq) /\ TrackRight(nq) BY <1>5, <1>6, <1>9 DEF Placed, TrackRight
<1>13. \A i \in DOMAIN nq.raws : RawRight(r, nq.kind, nq.raws[i])
  <2>1. \A i \in DOMAIN Tail(w) : i + 1 \in DOMAIN w /\ Tail(w)[i] = w[i + 1] BY <1>2, Tailed
  <2> QED BY <1>2, <1>9, <2>1 DEF AdRight
<1>14. \A i \in DOMAIN nq.answers : AnswerRight(r, nq.kind, nq.answers[i])
  <2>1. \A i \in DOMAIN Append(ans, a) : \/ i \in DOMAIN ans /\ Append(ans, a)[i] = ans[i]
                                         \/ Append(ans, a)[i] = a
    BY Appended
  <2>2. \A i \in DOMAIN ans : AnswerRight(r, q.kind, ans[i]) BY <1>3 DEF AdRight
  <2>3. CASE answers = q.answers BY <1>3, <1>9, <2>2, <2>3
  <2>4. CASE answers # q.answers
    <3>1. answers = Append(ans, a) /\ AnswerRight(r, q.kind, a) BY <1>3, <2>4
    <3> QED BY <1>9, <2>1, <2>2, <3>1
  <2> QED BY <2>3, <2>4
<1>15. AdRight(r, nq) BY <1>9, <1>10, <1>11, <1>12, <1>13, <1>14 DEF AdRight
<1> QED BY <1>8, <1>15

(* An offer is rendered. *)
LEMMA ShowStep ==
  ASSUME RenderInv, NEW r \in AdRequests, Show(r)
  PROVE  RenderInv'
<1>1. PICK q : q = renderReq[r] OBVIOUS
<1>2. /\ AdRight(r, q) /\ q \in Request /\ q.pos = "show" /\ q.raws # <<>> /\ q.kind \in DOMAIN Kinds
  BY <1>1 DEF RenderInv, AdRight, Request, Show, Placed
<1>3. PICK w \in Seq(Raw) : w = q.raws /\ w # <<>> BY <1>2 DEF Request
<1>4. PICK raw \in Raw : raw = Head(w) /\ raw = w[1] /\ 1 \in DOMAIN w BY <1>3
<1>5. RawRight(r, q.kind, raw) BY <1>2, <1>3, <1>4 DEF AdRight
<1>6. RightRaw(raw) /\ raw.offer \in RawAds BY <1>5 DEF RawRight, RightRaw, Raw
<1>7. PICK x \in Results(q, raw) :
        CASE x.fate = "nil" -> Set(r, NextRaw(q, q.answers)) /\ UNCHANGED <<pub, spare>>
          [] x.fate = "panic" -> Set(r, [Idle EXCEPT !.pos = "panic", !.kind = q.kind]) /\ UNCHANGED <<pub, spare>>
          [] OTHER ->
               LET tagged == [Tagged(q, raw, r) EXCEPT !.chosen = x.chosen]
               IN  /\ Set(r, [q EXCEPT !.pos = "track", !.raws = [@ EXCEPT ![1] = tagged],
                                       !.shown = x.shown, !.tracked = x.tracked])
                   /\ pub' = IF raw.at = "pointer" THEN [pub EXCEPT ![raw.offer] = x.chosen] ELSE pub
                   /\ IF Kinds[q.kind].render \in AppendsArgs THEN WritesBehind(raw, r) ELSE UNCHANGED spare
  BY <1>1, <1>3, <1>4 DEF Show
<1>8. /\ Sound(raw.offer, x)
      /\ q.kind = "jstagH5" => x.fate = "ad" /\ x.tracked = {"chosen"}
  BY <1>2, <1>6, ResultsSound DEF Request
<1>9. CASE x.fate = "nil"
  <2>1. Set(r, NextRaw(q, q.answers)) /\ UNCHANGED <<pub, spare>> BY <1>7, <1>9
  <2>2. PICK a : a = [offer |-> raw.offer, shown |-> {}, tracked |-> {}, args |-> {}] OBVIOUS
  <2>3. a \in Answer BY <1>6, <2>2 DEF Answer
  <2>4. AdRight(r, NextRaw(q, q.answers)) BY <1>2, <2>3, NextRawRight
  <2> QED BY <2>1, <2>4, OneRequest DEF PubRight, RenderInv
<1>10. CASE x.fate = "panic"
  <2>1. Set(r, [Idle EXCEPT !.pos = "panic", !.kind = q.kind]) /\ UNCHANGED <<pub, spare>> BY <1>7, <1>10
  <2>2. AdRight(r, [Idle EXCEPT !.pos = "panic", !.kind = q.kind]) BY <1>2, IdleRight
  <2> QED BY <2>1, <2>2, OneRequest DEF PubRight, RenderInv
<1>11. CASE x.fate # "nil" /\ x.fate # "panic"
  <2>1. PICK tagged : tagged = [Tagged(q, raw, r) EXCEPT !.chosen = x.chosen] OBVIOUS
  <2>2. /\ Set(r, [q EXCEPT !.pos = "track", !.raws = [@ EXCEPT ![1] = tagged],
                            !.shown = x.shown, !.tracked = x.tracked])
        /\ pub' = IF raw.at = "pointer" THEN [pub EXCEPT ![raw.offer] = x.chosen] ELSE pub
        /\ IF Kinds[q.kind].render \in AppendsArgs THEN WritesBehind(raw, r) ELSE UNCHANGED spare
    BY <1>7, <1>11, <2>1
  <2>3. /\ x.shown \subseteq Ids /\ x.chosen \in Pictured(raw.offer) /\ x.chosen \in Ids
        /\ x.tracked \subseteq Ids \cup {"chosen"}
        /\ Tracks(x.shown, x.chosen, x.tracked)
    BY <1>6, <1>8, <1>11, PicturedIds DEF Sound, SoundAd
  <2>4. PICK y : y = Tagged(q, raw, r) OBVIOUS
  <2>5. RawRight(r, q.kind, y) /\ y.offer = raw.offer BY <1>5, <2>4, AppendArgRight DEF Tagged
  <2>6. tagged \in Raw /\ RawRight(r, q.kind, tagged) /\ tagged.offer = raw.offer /\ tagged.chosen = x.chosen
    <3>1. y \in Raw /\ y.at # "spare" BY <2>5 DEF RawRight, RightRaw
    <3>2. /\ tagged \in Raw /\ tagged.offer = y.offer /\ tagged.at = y.at /\ tagged.own = y.own
          /\ tagged.chosen = x.chosen
      BY <2>1, <2>3, <2>4, <3>1 DEF Raw
    <3> QED BY <2>3, <2>5, <3>1, <3>2 DEF RawRight, RightRaw
  <2>7. tagged \in Raw BY <2>6
  <2>8. PICK raws : raws = [w EXCEPT ![1] = tagged] OBVIOUS
  <2>9. /\ raws \in Seq(Raw) /\ Len(raws) = Len(w) /\ DOMAIN raws = DOMAIN w /\ raws # <<>>
        /\ \A i \in DOMAIN raws : raws[i] = IF i = 1 THEN tagged ELSE w[i]
    BY <1>4, <2>7, <2>8, WrittenOver
  <2>10. Ads(raws) = Ads(w)
    <3>1. tagged.offer = w[1].offer BY <1>4, <2>6
    <3> QED BY <1>4, <2>7, <2>8, <3>1, AdsOf, AdsMove
  <2>11. PICK nq : nq = [q EXCEPT !.pos = "track", !.raws = raws, !.shown = x.shown, !.tracked = x.tracked]
    OBVIOUS
  <2>12. /\ nq \in Request /\ nq.pos = "track" /\ nq.todo = q.todo /\ nq.raws = raws /\ nq.shown = x.shown
         /\ nq.tracked = x.tracked /\ nq.answers = q.answers /\ Goes(q, nq) /\ nq.kind = q.kind
         /\ nq.num = q.num /\ nq.found = q.found /\ nq.reply = q.reply
    BY <1>2, <2>3, <2>9, <2>11 DEF Request, Goes
  <2>13. FoundRight(nq) BY <1>2, <2>12, GoesOn DEF AdRight
  <2>14. LineRight(nq) BY <1>2, <1>3, <2>9, <2>10, <2>12 DEF AdRight, LineRight, Total
  <2>15. Head(raws) = tagged
    <3>1. Head(raws) = raws[1] BY <2>9
    <3> QED BY <1>4, <2>9, <3>1
  <2>16. Placed(nq) /\ TrackRight(nq)
    BY <1>8, <2>3, <2>6, <2>9, <2>12, <2>15 DEF Placed, TrackRight
  <2>17. \A i \in DOMAIN nq.raws : RawRight(r, nq.kind, nq.raws[i])
    BY <1>2, <1>3, <2>6, <2>9, <2>12 DEF AdRight
  <2>18. AdRight(r, nq) BY <1>2, <2>12, <2>13, <2>14, <2>16, <2>17 DEF AdRight
  <2>19. Set(r, nq) BY <1>3, <2>2, <2>8, <2>11
  <2>20. PubRight' BY <1>6, <2>2, <2>3 DEF RenderInv, PubRight
  <2>21. spare' = spare BY <1>5, <2>2, AppendArgRight
  <2> QED BY <2>18, <2>19, <2>20, <2>21, OneRequest
<1> QED BY <1>9, <1>10, <1>11

(* Its links are made. *)
LEMMA TrackStep ==
  ASSUME RenderInv, NEW r \in AdRequests, Track(r)
  PROVE  RenderInv'
<1>1. PICK q : q = renderReq[r] OBVIOUS
<1>2. /\ AdRight(r, q) /\ q \in Request /\ q.pos = "track" /\ q.raws # <<>>
      /\ q.shown \subseteq Ids /\ q.tracked \subseteq Ids \cup {"chosen"}
  BY <1>1 DEF RenderInv, AdRight, Request, Track, Placed
<1>3. PICK w \in Seq(Raw) : w = q.raws /\ w # <<>> BY <1>2 DEF Request
<1>4. PICK raw0 \in Raw : raw0 = Head(w) /\ raw0 = w[1] /\ 1 \in DOMAIN w BY <1>3
<1>5. RawRight(r, q.kind, raw0) BY <1>2, <1>3, <1>4 DEF AdRight
<1>6. /\ Tracks(q.shown, raw0.chosen, q.tracked)
      /\ q.kind = "jstagH5" => q.tracked = {"chosen"}
  BY <1>2, <1>3, <1>4 DEF AdRight, TrackRight
<1>7. PICK raw : raw = Tagged(q, raw0, r) OBVIOUS
<1>8. /\ RawRight(r, q.kind, raw) /\ raw.offer = raw0.offer /\ raw.chosen = raw0.chosen
      /\ raw.offer \in RawAds /\ raw.chosen \in Pictured(raw.offer)
  <2>1. RawRight(r, q.kind, raw) /\ raw.offer = raw0.offer /\ raw.chosen = raw0.chosen
    BY <1>5, <1>7, AppendArgRight DEF Tagged
  <2> QED BY <2>1 DEF RawRight, RightRaw, Raw
<1>9. PICK chosen : chosen = IF raw.at = "pointer" THEN pub[raw.offer] ELSE raw.chosen OBVIOUS
<1>10. /\ chosen \in Pictured(raw.offer) /\ chosen \in Ids
       /\ q.kind # "jstagH5" => chosen = raw0.chosen
  BY <1>8, <1>9, PicturedIds DEF RenderInv, PubRight, RawRight
<1>11. PICK tracked : tracked = IF q.tracked = {"chosen"} THEN {chosen} ELSE q.tracked OBVIOUS
<1>12. /\ tracked \subseteq Ids
       /\ IF q.kind = "jstagH5" \/ q.shown = {} THEN tracked \subseteq Pictured(raw.offer)
          ELSE tracked \subseteq q.shown /\ tracked # {}
  <2>1. CASE q.tracked = {"chosen"}
    <3>1. tracked = {chosen} BY <1>11, <2>1
    <3>2. q.shown # {} => raw0.chosen \in q.shown BY <1>2, <1>6, <2>1, ChosenIsNoId DEF Tracks
    <3> QED BY <1>10, <3>1, <3>2
  <2>2. CASE q.tracked # {"chosen"}
    <3>1. tracked = q.tracked /\ q.kind # "jstagH5" BY <1>6, <1>11, <2>2
    <3>2. q.shown = {} => q.tracked = {} BY <1>6, <2>2 DEF Tracks
    <3>3. q.shown # {} => q.tracked # {} /\ q.tracked \subseteq q.shown BY <1>6, <2>2 DEF Tracks
    <3> QED BY <1>2, <3>1, <3>2, <3>3
  <2> QED BY <2>1, <2>2
<1>13. PICK args : args = IF Kinds[q.kind].render \in LeavesArgs THEN {r} ELSE ArgsOf(raw) \cup {r} OBVIOUS
<1>14. args = {r} \cup (IF Kinds[q.kind].render \in LeavesArgs THEN {} ELSE Attached(raw.offer))
  BY <1>8, <1>13, ArgsRight
<1>15. args \subseteq Owners \cup {"none"} BY <1>14 DEF Attached, Owners
<1>16. PICK a : a = [offer |-> raw.offer, shown |-> q.shown, tracked |-> tracked, args |-> args] OBVIOUS
<1>17. a \in Answer BY <1>2, <1>8, <1>12, <1>15, <1>16 DEF Answer
<1>18. AnswerRight(r, q.kind, a)
  <2>1. a.offer = raw.offer /\ a.shown = q.shown /\ a.tracked = tracked /\ a.args = args BY <1>16
  <2> QED BY <1>12, <1>14, <2>1 DEF AnswerRight
<1>19. a.offer = Head(q.raws).offer BY <1>3, <1>4, <1>8, <1>16
<1>20. AdRight(r, NextRaw(q, Append(q.answers, a))) BY <1>2, <1>17, <1>18, <1>19, NextRawRight
<1>21. Set(r, NextRaw(q, Append(q.answers, a)))
  BY <1>1, <1>3, <1>4, <1>7, <1>9, <1>11, <1>13, <1>16 DEF Track
<1> QED BY <1>20, <1>21, OneRequest DEF Track, PubRight, RenderInv

(* One step of a request keeps the invariant. *)
LEMMA RenderSteps == RenderInv /\ [RenderNext]_renderVars => RenderInv'
<1> SUFFICES ASSUME RenderInv, [RenderNext]_renderVars PROVE RenderInv'
  OBVIOUS
<1>1. CASE RenderNext
  <2>1. PICK r \in AdRequests : \/ \E ask \in Asked[r] : Search(r, ask)
                                \/ RankAnswers(r) \/ SelectRandomly(r) \/ Handler(r)
    BY <1>1 DEF RenderNext
  <2>2. CASE \E ask \in Asked[r] : Search(r, ask) BY <2>2, SearchStep
  <2>3. CASE RankAnswers(r) BY <2>3, RankAnswersStep
  <2>4. CASE SelectRandomly(r) BY <2>4, SelectRandomlyStep
  <2>5. CASE Handler(r)
    BY <2>5, SelectLocallyStep, VideoRankFailsStep, AttachEstimateStep, AttachPayoutStep, ShowStep, TrackStep
       DEF Handler
  <2> QED BY <2>1, <2>2, <2>3, <2>4, <2>5
<1>2. CASE UNCHANGED renderVars
  BY <1>2 DEF renderVars, RenderInv, PubRight
<1> QED BY <1>1, <1>2

(* What the answers are, from what every request is. *)
LEMMA AnswersRight == RenderInv => AnswersAreSound
<1> SUFFICES ASSUME RenderInv PROVE AnswersAreSound
  OBVIOUS
<1>1. ASSUME NEW r \in AdRequests
      PROVE  /\ AdRight(r, renderReq[r]) /\ renderReq[r] \in Request
             /\ renderReq[r].answers \in Seq(Answer) /\ renderReq[r].raws \in Seq(Raw)
             /\ renderReq[r].found \in Seq(RawAds)
  BY <1>1 DEF RenderInv, AdRight, Request
<1>2. ASSUME NEW r \in AdRequests, NEW a \in AnswersOf(r)
      PROVE  /\ AnswerRight(r, renderReq[r].kind, a)
             /\ \E i \in DOMAIN renderReq[r].answers : a = renderReq[r].answers[i]
  BY <1>1, <1>2 DEF AnswersOf, Range, AdRight
<1>3. OffersOfTheSearch
  <2> SUFFICES ASSUME NEW r \in AdRequests, renderReq[r].kind # "jstagH5", NEW q, q = renderReq[r]
               PROVE  /\ \A a \in AnswersOf(r) : a.offer \in Range(q.found)
                      /\ q.reply # "other" =>
                           /\ Cardinality({a.offer : a \in AnswersOf(r)}) = Len(q.answers)
                           /\ Kinds[q.kind].select = "Select" => Len(q.answers) <= q.num + 1
    BY DEF OffersOfTheSearch
  <2>1. PICK ans \in Seq(Answer) : ans = q.answers BY <1>1
  <2>2. Within(Ads(ans), Range(q.found)) BY <1>1, <2>1 DEF AdRight, LineRight, Taken
  <2>3. q.reply # "other" => Distinct(Ads(ans)) BY <1>1, <2>1 DEF AdRight, LineRight, Line, Selection
  <2>4. ASSUME NEW a \in AnswersOf(r) PROVE a.offer \in Range(q.found)
    <3>1. PICK i \in DOMAIN ans : a = ans[i] BY <1>2, <2>1
    <3>2. Ads(ans)[i] = a.offer /\ i \in DOMAIN Ads(ans) BY <3>1 DEF Ads
    <3> QED BY <2>2, <3>2 DEF Within
  <2>5. ASSUME q.reply # "other" PROVE Cardinality({a.offer : a \in AnswersOf(r)}) = Len(ans)
    <3>1. AnswersOf(r) = Range(ans) BY <2>1 DEF AnswersOf
    <3>2. Distinct(Ads(ans)) BY <2>3, <2>5
    <3>3. Cardinality({a.offer : a \in Range(ans)}) = Len(ans) BY <3>2, AdsOf, DistinctCount
    <3> QED BY <3>1, <3>3
  <2>6. q.reply # "other" /\ Kinds[q.kind].select = "Select" => Len(q.answers) <= q.num + 1
    <3>1. PICK w \in Seq(Raw) : w = q.raws BY <1>1
    <3>2. PICK t \in Seq(RawAds) : t = q.todo BY <1>1 DEF Request
    <3>3. PICK n \in Nat : n = q.num BY <1>1 DEF Request
    <3>4. Len(ans) \in Nat /\ Len(w) \in Nat /\ Len(t) \in Nat OBVIOUS
    <3>5. q.reply # "other" /\ Kinds[q.kind].select = "Select" => Total(ans, w, t) <= n + 1
      BY <1>1, <2>1, <3>1, <3>2, <3>3 DEF AdRight, LineRight
    <3>6. Total(ans, w, t) <= n + 1 => Len(ans) <= n + 1 BY <3>4 DEF Total
    <3> QED BY <2>1, <3>3, <3>5, <3>6
  <2> QED BY <2>1, <2>4, <2>5, <2>6
<1>4. ArgsOfTheRequest BY <1>2 DEF ArgsOfTheRequest, AnswerRight
<1>5. TracksWhatItShows BY <1>2 DEF TracksWhatItShows, AnswerRight, Pictured
<1>6. FoundIsShown
  <2>1. ASSUME NEW r \in AdRequests, renderReq[r].kind # "jstagH5", NEW i \in DOMAIN renderReq[r].raws,
               NEW x \in Results(renderReq[r], renderReq[r].raws[i])
        PROVE  FoundGives(renderReq[r].kind, renderReq[r].want, renderReq[r].raws[i].offer, x)
    <3>1. PICK q : q = renderReq[r] OBVIOUS
    <3>2. AdRight(r, q) /\ q.raws \in Seq(Raw) /\ q.found \in Seq(RawAds) /\ q.want \in Wants
      BY <1>1, <3>1 DEF Request
    <3>3. PICK raw : raw = q.raws[i] OBVIOUS
    <3>4. RightRaw(raw) BY <2>1, <3>1, <3>2, <3>3 DEF AdRight, RawRight
    <3>5. Found(raw.offer, q.kind, q.want, q.cids)
      <4>1. Within(Ads(q.raws), Range(q.found)) BY <2>1, <3>1, <3>2 DEF AdRight, LineRight, Taken
      <4>2. raw.offer \in Range(q.found) BY <2>1, <3>1, <3>3, <4>1 DEF Within, Ads
      <4>3. PICK j \in DOMAIN q.found : raw.offer = q.found[j] BY <4>2 DEF Range
      <4> QED BY <3>2, <4>3 DEF AdRight, FoundRight
    <3> QED BY <2>1, <3>1, <3>2, <3>3, <3>4, <3>5, FoundShown
  <2>2. ASSUME NEW r \in AdRequests, renderReq[r].kind = "jstagH5", NEW want, NEW o, NEW x
        PROVE  FoundGives(renderReq[r].kind, want, o, x)
    BY <2>2 DEF FoundGives, Filtered
  <2> QED BY <2>1, <2>2 DEF FoundIsShown, FoundGives, IsShown, Filtered, Blank
<1> QED BY <1>3, <1>4, <1>5, <1>6 DEF AnswersAreSound

(* Requests, published offers and answers keep their types. *)
THEOREM RenderTypeCorrect == RenderSpec => []RenderTypeOK
<1>1. RenderInv => RenderTypeOK BY DEF RenderInv, PubRight, RenderTypeOK, Owners
<1> QED BY <1>1, RenderStarts, RenderSteps, PTL DEF RenderSpec

(* Whatever requests render the same offers at the same time, what reaches *)
(* the client is sound: the offers are of its own search and different,    *)
(* the arguments are of its own request, and what an ad tracks it shows.   *)
THEOREM AnswersStaySound == RenderSpec => []AnswersAreSound
  BY RenderStarts, RenderSteps, AnswersRight, PTL DEF RenderSpec

-----------------------------------------------------------------------------
(* All four in one process, as the run `shared` has them: what is proved   *)
(* of each holds there, since a step is of one of them and leaves the      *)
(* others as they are.                                                     *)
THEOREM SharedTogether ==
  mcSpec => [](TypesOK /\ AnswersAreSound /\ ClicksConserved /\ ProvidersByWeight /\ OldSdkSafe)
<1>1. mcInit => Init /\ IosInit /\ SubInit /\ RenderInit BY DEF mcInit
<1>2. [mcNext]_mcVars => [Next]_vars /\ [IosNext]_iosVars /\ [SubNext]_subVars /\ [RenderNext]_renderVars
  BY DEF mcNext, mcVars
<1>3. mcSpec => Spec /\ IosSpec /\ SubSpec /\ RenderSpec
  BY <1>1, <1>2, PTL DEF mcSpec, Spec, IosSpec, SubSpec, RenderSpec
<1>4. TypeOK /\ RenderTypeOK /\ SubTypeOK /\ IosTypeOK => TypesOK BY DEF TypesOK
<1> QED
  BY <1>3, <1>4, ClicksAreConserved, IosTypeCorrect, OldSdksSafe, SubTypeCorrect, ProvidersAreDrawnByWeight,
     RenderTypeCorrect, AnswersStaySound, PTL
=============================================================================
