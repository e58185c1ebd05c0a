--------------------------- MODULE PeerWire_proofs ---------------------------
(***************************************************************************)
(* Proofs about the messages of a session, for any hash, any texts and any *)
(* memory behind them, on a host of either byte order: what the peer hears *)
(* is what the client means, and what the client takes from an extended    *)
(* handshake is what the peer has said.                                    *)
(***************************************************************************)
EXTENDS PeerWire, TLAPS

LOCAL INSTANCE SequencesExt

Order == INSTANCE WellFoundedInduction

-----------------------------------------------------------------------------
(* Numbers: what atoi makes of digits is a natural number.  The sum recurs over
   the digits; that there is such a function, and what it yields, is shown by
   the least place at which it would fail.                                     *)

LEMMA Least ==
  ASSUME NEW T, T \subseteq Nat, T # {}
  PROVE  \E x \in T : \A y \in T : x <= y
<1> DEFINE R == Order!OpToRel(<, Nat)
<1>1. Order!IsWellFoundedOn(R, Nat)
  BY Order!NatLessThanWellFounded, Zenon
<1>2. \A x, y \in Nat : x < y => <<x, y>> \in R
  BY Zenon DEF Order!OpToRel
<1> HIDE DEF R
<1>3. PICK x \in T : \A y \in T : ~(<<y, x>> \in R)
  BY <1>1, Order!WFMin, Zenon
<1>4. ASSUME NEW y \in T
      PROVE  x <= y
  <2>1. x \in Nat /\ y \in Nat
    OBVIOUS
  <2>2. ~(y < x)
    BY <1>2, <1>3, <2>1, Zenon
  <2> QED
    BY <2>1, <2>2
<1> QED
  BY <1>4

(* One digit of a sum. *)
LEMMA DigitValue ==
  ASSUME NEW d \in Digits
  PROVE  d - 48 \in Nat
BY DEF Digits

LEMMA Summed ==
  ASSUME NEW digits, NEW n \in Nat, \A j \in 1..n : digits[j] \in Digits
  PROVE  \E f \in [0..n -> Nat] :
           f = [k \in 0..n |-> IF k = 0 THEN 0 ELSE f[k - 1] * 10 + (digits[k] - 48)]
<1> DEFINE Sums(m, f) == /\ f \in [0..m -> Nat]
                         /\ f[0] = 0
                         /\ \A k \in 1..m : f[k] = f[k - 1] * 10 + (digits[k] - 48)
           Bad == {m \in 0..n : \A f : ~Sums(m, f)}
<1>1. Bad = {}
  <2> SUFFICES ASSUME Bad # {}
               PROVE  FALSE
    OBVIOUS
  <2>1. PICK m \in 0..n : m \in Bad /\ \A y \in Bad : m <= y
    <3> HIDE DEF Sums
    <3>1. Bad \subseteq Nat
      OBVIOUS
    <3> QED
      BY <3>1, Least
  <2>2. CASE m = 0
    <3>1. Sums(0, [k \in 0..0 |-> 0])
      OBVIOUS
    <3> QED
      BY <2>1, <2>2, <3>1
  <2>3. CASE m # 0
    <3>1. m - 1 \in 0..n /\ m - 1 \notin Bad /\ m \in 1..n
      <4> HIDE DEF Sums, Bad
      <4>1. m - 1 \in 0..n /\ m \in 1..n /\ ~(m <= m - 1)
        BY <2>3
      <4> QED
        BY <2>1, <4>1
    <3>2. PICK f : Sums(m - 1, f)
      BY <3>1
    <3> DEFINE g == [k \in 0..m |-> IF k = m THEN f[m - 1] * 10 + (digits[m] - 48) ELSE f[k]]
    <3>3. f[m - 1] * 10 + (digits[m] - 48) \in Nat
      <4>1. digits[m] - 48 \in Nat
        BY <3>1, DigitValue
      <4>2. f[m - 1] \in Nat
        BY <3>1, <3>2
      <4> QED
        BY <4>1, <4>2
    <3>4. g \in [0..m -> Nat] /\ g[m] = f[m - 1] * 10 + (digits[m] - 48)
          /\ \A k \in 0..(m - 1) : g[k] = f[k]
      BY <3>1, <3>2, <3>3
    <3> HIDE DEF g
    <3>5. Sums(m, g)
      <4>1. g[0] = 0
        BY <3>1, <3>2, <3>4
      <4>2. \A k \in 1..m : g[k] = g[k - 1] * 10 + (digits[k] - 48)
        <5> SUFFICES ASSUME NEW k \in 1..m
                     PROVE  g[k] = g[k - 1] * 10 + (digits[k] - 48)
          OBVIOUS
        <5>1. k - 1 \in 0..(m - 1) /\ g[k - 1] = f[k - 1]
          BY <3>1, <3>4
        <5>2. CASE k = m
          BY <3>4, <5>1, <5>2
        <5>3. CASE k # m
          <6>1. k \in 1..(m - 1) /\ k \in 0..(m - 1)
            BY <3>1, <5>3
          <6>2. f[k] = f[k - 1] * 10 + (digits[k] - 48)
            BY <3>2, <6>1
          <6> QED
            BY <3>4, <5>1, <6>1, <6>2
        <5> QED
          BY <5>2, <5>3
      <4> QED
        BY <3>4, <4>1, <4>2
    <3> QED
      BY <2>1, <3>5
  <2> QED
    BY <2>2, <2>3
<1>2. PICK f : Sums(n, f)
  <2>1. n \in 0..n
    OBVIOUS
  <2> HIDE DEF Sums
  <2> QED
    BY <1>1, <2>1, Zenon
<1>3. f = [k \in 0..n |-> IF k = 0 THEN 0 ELSE f[k - 1] * 10 + (digits[k] - 48)]
  BY <1>2
<1> QED
  BY <1>2, <1>3

LEMMA ValueIsNat ==
  ASSUME NEW digits \in Seq(Nat)
  PROVE  Value(digits) \in Nat
<1> DEFINE leading == {n \in 0..Len(digits) : \A j \in 1..n : digits[j] \in Digits}
           n == CHOOSE n \in leading : \A m \in leading : m <= n
           sum == CHOOSE f : f = [k \in 0..n |-> IF k = 0 THEN 0 ELSE f[k - 1] * 10 + (digits[k] - 48)]
<1>1. \E i \in leading : \A m \in leading : m <= i
  <2> DEFINE l == Len(digits)
  <2>1. l \in Nat /\ 0 \in leading /\ leading \subseteq 0..l
    OBVIOUS
  <2> HIDE DEF leading, l
  <2>2. {l - i : i \in leading} \subseteq Nat /\ {l - i : i \in leading} # {}
    BY <2>1
  <2>3. PICK x \in {l - i : i \in leading} : \A y \in {l - i : i \in leading} : x <= y
    BY <2>2, Least
  <2>4. PICK i \in leading : x = l - i
    BY <2>3
  <2>5. \A m \in leading : l - i <= l - m
    BY <2>3, <2>4
  <2> QED
    BY <2>1, <2>4, <2>5
<1>2. n \in leading
  BY <1>1
<1>3. Value(digits) = sum[n]
  BY DEF Value
<1> HIDE DEF n
<1>4. n \in Nat /\ \A j \in 1..n : digits[j] \in Digits
  BY <1>2
<1>5. PICK f \in [0..n -> Nat] :
           f = [k \in 0..n |-> IF k = 0 THEN 0 ELSE f[k - 1] * 10 + (digits[k] - 48)]
  BY <1>4, Summed
<1>6. sum = [k \in 0..n |-> IF k = 0 THEN 0 ELSE sum[k - 1] * 10 + (digits[k] - 48)]
  BY <1>5
<1> HIDE DEF sum
<1>7. {k \in 0..n : sum[k] \notin Nat} = {}
  <2> SUFFICES ASSUME {k \in 0..n : sum[k] \notin Nat} # {}
               PROVE  FALSE
    OBVIOUS
  <2>1. PICK m \in 0..n : /\ sum[m] \notin Nat
                          /\ \A k \in 0..n : sum[k] \notin Nat => m <= k
    <3>1. {k \in 0..n : sum[k] \notin Nat} \subseteq Nat
      BY <1>4
    <3> QED
      BY <3>1, Least
  <2>2. CASE m = 0
    BY <1>4, <1>6, <2>1, <2>2
  <2>3. CASE m # 0
    <3>1. m - 1 \in 0..n /\ m \in 1..n /\ sum[m - 1] \in Nat
      BY <1>4, <2>1, <2>3
    <3>2. sum[m] = sum[m - 1] * 10 + (digits[m] - 48)
      BY <1>6, <2>3
    <3>3. digits[m] - 48 \in Nat
      BY <1>4, <3>1, DigitValue
    <3>4. \A a, d \in Nat : a * 10 + d \in Nat
      OBVIOUS
    <3> HIDE DEF leading
    <3>5. sum[m] \in Nat
      BY <3>1, <3>2, <3>3, <3>4, Zenon
    <3> QED
      BY <2>1, <3>5, Zenon
  <2> QED
    BY <2>2, <2>3
<1>8. n \in 0..n
  BY <1>4
<1> HIDE DEF leading
<1> QED
  BY <1>3, <1>7, <1>8
-----------------------------------------------------------------------------
(* What is found in an extended handshake *)

TwoKeys == {metadata_sizei, ut_metadatai}

LEMMA Behind ==
  ASSUME NEW x \in Seq(Nat), NEW y \in Seq(Nat)
  PROVE  /\ x \o y \in Seq(Nat) /\ Len(x \o y) = Len(x) + Len(y)
         /\ \A j \in 1..Len(x) : (x \o y)[j] = x[j]
         /\ \A j \in 1..Len(y) : (x \o y)[Len(x) + j] = y[j]
OBVIOUS

(* A message as far as it was received, and the memory it is searched in. *)
LEMMA Searched ==
  ASSUME NEW r \in Answers
  PROVE  LET rc  == Received(r)
             out == bencoded_response(r)
             l   == Len(rc)
         IN /\ rc \in Seq(Nat) /\ l \in Nat /\ r.res_size = l + 6
            /\ r.behind \in Seq(Nat)
            /\ out \in Seq(Nat) /\ Len(out) = l + Len(r.behind)
            /\ \A j \in 1..l : out[j] = rc[j] /\ rc[j] # NUL
            /\ \A j \in 1..Len(r.behind) : out[l + j] = r.behind[j]
            /\ \A j, k \in 1..l : rc[j] = rc[k] /\ rc[j] \in TwoKeys => j = k
<1>1. PICK t \in Texts, s \in Stacks : \E n \in 7..(6 + Len(t)) :
        r = [text |-> t, behind |-> s, res_size |-> n]
  BY DEF Answers, Skipped
<1>2. t \in Seq(Nat) /\ s \in Seq(Nat)
  BY PeerWireAssumption
<1>3. PICK n \in 7..(6 + Len(t)) : r = [text |-> t, behind |-> s, res_size |-> n]
  BY <1>1
<1> DEFINE l == n - 6
           rc == SubSeq(t, 1, l)
           out == rc \o s
<1>4. l \in Nat /\ l <= Len(t) /\ n = l + 6
  BY <1>2, <1>3
<1>5. r.text = t /\ r.behind = s /\ r.res_size = n
  BY <1>3
<1>6. Received(r) = rc /\ bencoded_response(r) = out
  BY <1>5 DEF Received, bencoded_response, Skipped
<1> HIDE DEF l
<1>7. rc \in Seq(Nat) /\ Len(rc) = l /\ \A j \in 1..l : rc[j] = t[j]
  BY <1>2, <1>4
<1>8. \A j, k \in 1..l : t[j] # NUL /\ (t[j] = t[k] /\ t[j] \in TwoKeys => j = k)
  <2>1. \A j \in 1..l : j \in DOMAIN t
    BY <1>2, <1>4
  <2> QED
    BY <2>1, PeerWireAssumption, Zenon DEF TwoKeys
<1> HIDE DEF rc
<1>9. /\ out \in Seq(Nat) /\ Len(out) = l + Len(s)
      /\ \A j \in 1..l : out[j] = rc[j]
      /\ \A j \in 1..Len(s) : out[l + j] = s[j]
  BY <1>2, <1>7, Behind
<1> HIDE DEF out
<1>10. \A j \in 1..l : out[j] = rc[j] /\ rc[j] # NUL
  BY <1>7, <1>8, <1>9
<1>11. \A j, k \in 1..l : rc[j] = rc[k] /\ rc[j] \in TwoKeys => j = k
  BY <1>7, <1>8
<1>12. \A j \in 1..Len(r.behind) : out[l + j] = r.behind[j]
  BY <1>5, <1>9
<1> QED
  BY <1>2, <1>4, <1>5, <1>6, <1>7, <1>9, <1>10, <1>11, <1>12, Zenon

LEMMA CutAt ==
  ASSUME NEW x \in Seq(Nat), NEW m \in Nat, NEW n \in Nat, NEW i \in Nat,
         1 <= i, i <= n - m + 1
  PROVE  SubSeq(x, m, n)[i] = x[m + i - 1]
OBVIOUS

LEMMA CutOut ==
  ASSUME NEW x \in Seq(Nat), NEW p \in Nat, NEW k \in Nat, p + k <= Len(x)
  PROVE  /\ SubSeq(x, p + 1, p + k) \in Seq(Nat)
         /\ Len(SubSeq(x, p + 1, p + k)) = k
         /\ \A j \in 1..k : SubSeq(x, p + 1, p + k)[j] = x[p + j]
<1>1. SubSeq(x, p + 1, p + k) \in Seq(Nat)
  OBVIOUS
<1>2. Len(SubSeq(x, p + 1, p + k)) = k
  OBVIOUS
<1>3. ASSUME NEW j \in 1..k
      PROVE  SubSeq(x, p + 1, p + k)[j] = x[p + j]
  <2>1. PICK m \in Nat, n \in Nat : m = p + 1 /\ n = p + k
    OBVIOUS
  <2>2. j \in Nat /\ 1 <= j /\ j <= n - m + 1
    BY <2>1
  <2>3. SubSeq(x, m, n)[j] = x[m + j - 1]
    BY <2>2, CutAt
  <2>4. m + j - 1 = p + j
    BY <2>1
  <2> QED
    BY <2>1, <2>3, <2>4, Zenon
<1> QED
  BY <1>1, <1>2, <1>3, Zenon

LEMMA SameNumber ==
  ASSUME NEW x \in Seq(Nat), NEW y \in Seq(Nat), NEW p \in Nat, NEW k \in Nat,
         p + k <= Len(x), p + k <= Len(y), \A j \in 1..Len(x) : x[j] = y[j]
  PROVE  /\ SubSeq(y, p + 1, p + k) = SubSeq(x, p + 1, p + k)
         /\ SubSeq(y, p + 1, p + k) \in Seq(Nat) /\ Len(SubSeq(y, p + 1, p + k)) = k
<1> DEFINE u == SubSeq(x, p + 1, p + k)
           v == SubSeq(y, p + 1, p + k)
<1>1. u \in Seq(Nat) /\ Len(u) = k /\ \A j \in 1..k : u[j] = x[p + j]
  BY CutOut, Zenon
<1>2. v \in Seq(Nat) /\ Len(v) = k /\ \A j \in 1..k : v[j] = y[p + j]
  BY CutOut, Zenon
<1> HIDE DEF u, v
<1>3. \A j \in 1..k : p + j \in 1..Len(x)
  OBVIOUS
<1>4. \A j \in 1..k : u[j] = v[j]
  BY <1>1, <1>2, <1>3
<1>5. u = v
  BY <1>1, <1>2, <1>4
<1> QED
  BY <1>2, <1>5 DEF u, v

(* A number under a key is found where the peer has written it. *)
LEMMA TakenAsSaid ==
  ASSUME NEW r \in Answers, NEW key \in TwoKeys, NEW v \in SaidUnder(r, key)
  PROVE  /\ NumbersUnder(r, key) = {v} /\ v \in Nat
         /\ Places(r, key) # {}
<1> DEFINE rc == Received(r)
           out == bencoded_response(r)
           l == Len(rc)
<1>1. /\ rc \in Seq(Nat) /\ l \in Nat /\ r.res_size = l + 6
      /\ r.behind \in Seq(Nat) /\ Len(r.behind) \in Nat
      /\ out \in Seq(Nat) /\ Len(out) = l + Len(r.behind)
      /\ \A j \in 1..l : out[j] = rc[j] /\ rc[j] # NUL
      /\ \A j, k \in 1..l : rc[j] = rc[k] /\ rc[j] \in TwoKeys => j = k
  <2>1. r.behind \in Seq(Nat) => Len(r.behind) \in Nat
    OBVIOUS
  <2> QED
    BY <2>1, Searched, Zenon
<1>2. PICK p \in 1..l, k \in 1..9 :
        /\ rc[p] = key /\ p + k < l /\ rc[p + k + 1] = Letter_e
        /\ \A j \in (p + 1)..(p + k) : rc[j] \in Digits
        /\ v = Value(SubSeq(rc, p + 1, p + k))
  <2>1. PICK pn \in (DOMAIN rc) \X (1..9) :
          /\ rc[pn[1]] = key /\ pn[1] + pn[2] < l /\ rc[pn[1] + pn[2] + 1] = Letter_e
          /\ \A j \in (pn[1] + 1)..(pn[1] + pn[2]) : rc[j] \in Digits
          /\ v = Value(SubSeq(rc, pn[1] + 1, pn[1] + pn[2]))
    BY DEF SaidUnder
  <2>2. pn[1] \in 1..l /\ pn[2] \in 1..9
    <3>1. DOMAIN rc = 1..l
      BY <1>1
    <3> HIDE DEF rc, l
    <3> QED
      BY <2>1, <3>1
  <2> QED
    BY <2>1, <2>2, Zenon
<1>3. DOMAIN out = 1..Len(out) /\ Len(out) \in Nat
  BY <1>1
<1> HIDE DEF rc, out
<1>11. l \in Nat /\ Len(out) \in Nat /\ l <= Len(out)
  BY <1>1
<1>12. /\ p \in Nat /\ p >= 1 /\ k \in Nat /\ k >= 1 /\ k <= 9
       /\ p + k < l
  BY <1>2, <1>11
<1>4. p \in Places(r, key)
  <2>1. p \in DOMAIN out /\ \A q \in 1..p : q \in 1..l
    BY <1>1, <1>3
  <2> QED
    BY <1>1, <1>2, <2>1 DEF Places, out
<1>5. \A q \in Places(r, key) : p <= q
  <2> SUFFICES ASSUME NEW q \in Places(r, key), q < p
               PROVE  FALSE
    <3>1. \A q \in Places(r, key) : q \in Nat
      BY <1>3 DEF Places, out
    <3> QED
      BY <1>1, <3>1
  <2>1. q \in 1..l /\ out[q] = key
    BY <1>1, <1>3 DEF Places, out
  <2>2. rc[q] = out[q]
    BY <1>1, <2>1, Zenon
  <2>3. p = q
    BY <1>1, <1>2, <2>1, <2>2, Zenon
  <2> QED
    BY <2>1, <2>3
<1>6. Found(r, key) = {p}
  <2>1. WithinSize(r, p - 1)
    BY <1>1 DEF WithinSize
  <2>2. \A q \in Places(r, key) : q \in Nat
    BY <1>3 DEF Places, out
  <2>3. \A q \in Found(r, key) : q = p
    BY <1>1, <1>4, <1>5, <2>2 DEF Found
  <2> QED
    BY <1>4, <1>5, <2>1, <2>3 DEF Found
<1>7. Copied(out, p) = SubSeq(out, p + 1, p + k)
  <2> DEFINE ends == {n \in 0..9 : \/ p + n = Len(out)
                                   \/ p + n < Len(out) /\ out[p + n + 1] = Letter_e}
             n == CHOOSE n \in ends : \A m \in ends : n <= m
  <2>1. k \in ends
    <3>1. k \in 0..9 /\ p + k + 1 \in 1..l /\ p + k < Len(out)
      BY <1>11, <1>12
    <3>2. out[p + k + 1] = Letter_e
      BY <1>1, <1>2, <3>1
    <3> QED
      BY <3>1, <3>2
  <2>2. \A m \in ends : k <= m
    <3> SUFFICES ASSUME NEW m \in ends, m < k
                 PROVE  FALSE
      OBVIOUS
    <3>1. p + m + 1 \in (p + 1)..(p + k) /\ p + m + 1 \in 1..l /\ p + m # Len(out)
      <4>1. m \in Nat
        OBVIOUS
      <4> HIDE DEF ends
      <4> QED
        BY <1>11, <1>12, <4>1
    <3>2. out[p + m + 1] = Letter_e
      BY <3>1
    <3>3. rc[p + m + 1] \in Digits /\ rc[p + m + 1] = out[p + m + 1]
      BY <1>1, <1>2, <3>1
    <3> QED
      BY <3>2, <3>3 DEF Digits, Letter_e
  <2>3. n = k
    <3>1. ends \subseteq Nat
      OBVIOUS
    <3> HIDE DEF ends
    <3>2. n \in ends /\ \A m \in ends : n <= m
      BY <2>1, <2>2, Zenon
    <3> HIDE DEF n
    <3> QED
      BY <2>1, <2>2, <3>1, <3>2
  <2>4. ends # {}
    BY <2>1
  <2> HIDE DEF n
  <2> QED
    BY <2>3, <2>4, Zenon DEF Copied, n
<1> DEFINE d == SubSeq(out, p + 1, p + k)
<1>8. d = SubSeq(rc, p + 1, p + k) /\ d \in Seq(Nat) /\ Len(d) = k
  <2>1. p + k <= Len(rc) /\ p + k <= Len(out)
    BY <1>11, <1>12
  <2>2. rc \in Seq(Nat) /\ out \in Seq(Nat) /\ \A j \in 1..Len(rc) : rc[j] = out[j]
    BY <1>1
  <2> QED
    BY <1>12, <2>1, <2>2, SameNumber, Zenon
<1> HIDE DEF d
<1>9. Numbers(d) = {v} /\ v \in Nat
  <2>1. Len(d) # 10
    BY <1>8
  <2> QED
    BY <1>2, <1>8, <2>1, ValueIsNat DEF Numbers
<1>10. NumbersUnder(r, key) = Numbers(d)
  <2>1. Found(r, key) # {}
    BY <1>6
  <2>2. NumbersUnder(r, key) = UNION {Numbers(Copied(out, q)) : q \in {p}}
    BY <1>6, <2>1, Zenon DEF NumbersUnder, out
  <2>3. UNION {Numbers(Copied(out, q)) : q \in {p}} = Numbers(Copied(out, p))
    OBVIOUS
  <2> QED
    BY <1>7, <2>2, <2>3 DEF d
<1> QED
  BY <1>4, <1>9, <1>10

(* Where there is no key, neither in the message nor right behind it, nothing
   is read.                                                                  *)
LEMMA NothingFound ==
  ASSUME NEW r \in Answers, NEW key \in TwoKeys,
         \A j \in DOMAIN Received(r) : Received(r)[j] # key,
         \A j \in DOMAIN r.behind : j <= 6 => r.behind[j] # key
  PROVE  NumbersUnder(r, key) = {0}
<1> DEFINE rc == Received(r)
           out == bencoded_response(r)
           l == Len(rc)
           b == r.behind
<1>1. /\ rc \in Seq(Nat) /\ l \in Nat /\ r.res_size = l + 6
      /\ b \in Seq(Nat)
      /\ out \in Seq(Nat) /\ Len(out) = l + Len(b)
      /\ \A j \in 1..l : out[j] = rc[j]
      /\ \A j \in 1..Len(b) : out[l + j] = b[j]
  BY Searched, Zenon
<1>2. /\ DOMAIN rc = 1..l /\ DOMAIN b = 1..Len(b) /\ DOMAIN out = 1..(l + Len(b))
      /\ Len(b) \in Nat
  BY <1>1
<1>3. (\A j \in DOMAIN rc : rc[j] # key) /\ (\A j \in DOMAIN b : j <= 6 => b[j] # key)
  OBVIOUS
<1> HIDE DEF rc, out, b
<1>4. Found(r, key) = {}
  <2> SUFFICES ASSUME NEW q \in Found(r, key)
               PROVE  FALSE
    OBVIOUS
  <2>1. q \in 1..(l + Len(b)) /\ out[q] = key /\ q - 1 < l + 6
    BY <1>1, <1>2 DEF Found, Places, WithinSize, out
  <2> HIDE DEF l
  <2>2. CASE q \in 1..l
    BY <1>1, <1>2, <1>3, <2>1, <2>2
  <2>3. CASE q \notin 1..l
    <3>1. q - l \in 1..Len(b) /\ q - l <= 6 /\ l + (q - l) = q
      BY <1>1, <1>2, <2>1, <2>3
    <3>2. out[l + (q - l)] = b[q - l] /\ q - l \in DOMAIN b
      BY <1>1, <1>2, <3>1
    <3> QED
      BY <1>3, <2>1, <3>1, <3>2
  <2> QED
    BY <2>2, <2>3
<1> QED
  BY <1>4 DEF NumbersUnder

(* Whatever is read is a number. *)
LEMMA NumbersAreInt ==
  ASSUME NEW r \in Answers, NEW key \in TwoKeys
  PROVE  NumbersUnder(r, key) \subseteq Int
<1> DEFINE out == bencoded_response(r)
<1>1. out \in Seq(Nat) /\ Len(out) \in Nat
  <2>1. out \in Seq(Nat)
    BY Searched, Zenon
  <2> QED
    BY <2>1
<1> HIDE DEF out
<1>2. ASSUME NEW p \in Found(r, key)
      PROVE  Numbers(Copied(out, p)) \subseteq Int
  <2>1. p \in 1..Len(out)
    BY <1>1 DEF Found, Places, out
  <2> DEFINE ends == {n \in 0..9 : \/ p + n = Len(out)
                                   \/ p + n < Len(out) /\ out[p + n + 1] = Letter_e}
             n == IF ends = {} THEN 10 ELSE CHOOSE n \in ends : \A m \in ends : n <= m
  <2>2. n \in Nat /\ p + n <= Len(out)
    <3>1. CASE ends = {}
      <4>1. p + 9 < Len(out)
        <5>1. \A i \in 0..9 : p + i # Len(out)
          BY <3>1
        <5> HIDE DEF ends
        <5>2. p + 0 # Len(out) /\ p + 1 # Len(out) /\ p + 2 # Len(out) /\ p + 3 # Len(out)
              /\ p + 4 # Len(out) /\ p + 5 # Len(out) /\ p + 6 # Len(out)
              /\ p + 7 # Len(out) /\ p + 8 # Len(out) /\ p + 9 # Len(out)
          BY <5>1
        <5> QED
          BY <1>1, <2>1, <5>2
      <4>2. n = 10
        BY <3>1, Zenon
      <4> HIDE DEF n, ends
      <4> QED
        BY <1>1, <2>1, <4>1, <4>2
    <3>2. CASE ends # {}
      <4>1. ends \subseteq Nat /\ \A i \in ends : p + i <= Len(out)
        BY <1>1, <2>1
      <4> HIDE DEF ends
      <4>2. \E x \in ends : \A y \in ends : x <= y
        BY <3>2, <4>1, Least
      <4>3. n \in ends
        BY <3>2, <4>2, Zenon
      <4> HIDE DEF n
      <4> QED
        BY <4>1, <4>3
    <3> QED
      BY <3>1, <3>2
  <2>3. Copied(out, p) = SubSeq(out, p + 1, p + n)
    BY Zenon DEF Copied
  <2> HIDE DEF n
  <2>4. Copied(out, p) \in Seq(Nat)
    BY <1>1, <2>1, <2>2, <2>3
  <2>5. Value(Copied(out, p)) \in Int
    BY <2>4, ValueIsNat
  <2> QED
    BY <2>5, ExtendedAssumption DEF Numbers
<1> QED
  BY <1>2 DEF NumbersUnder, out

-----------------------------------------------------------------------------
(* The two numbers *)

(* Before an answer is read there is no size, and an answer is remembered only
   until the client goes on.                                                 *)
NumberInv ==
  /\ pc \in {"handshake", "extended", "extended_sent", "extended_read", "metadata",
             "piece", "ended", "crashed"}
  /\ pc \in {"handshake", "extended", "extended_sent"} =>
       metadata_size = 0 /\ answer = <<>> /\ piece = 0
  /\ pc \in {"metadata", "piece", "ended"} => answer = <<>>
  /\ NumbersAsSaid

LEMMA SizeInPieces ==
  ASSUME NEW n \in Nat
  PROVE  Pieces(n) = n \div 16384
BY DEF Pieces

LEMMA ReceiveExtendedTakes == NumberInv /\ ReceiveExtended => NumberInv'
<1> SUFFICES ASSUME NumberInv, ReceiveExtended
             PROVE  NumberInv'
  OBVIOUS
<1>1. PICK r \in Answers :
        /\ answer' = r
        /\ \E size \in NumbersUnder(r, metadata_sizei), ut \in NumbersUnder(r, ut_metadatai) :
             IF size # 0
             THEN /\ metadata_size' = size /\ ut_metadata' = ut
                  /\ num_pieces' = Pieces(size)
             ELSE UNCHANGED numbers
  BY DEF ReceiveExtended
<1>2. PICK size \in NumbersUnder(r, metadata_sizei), ut \in NumbersUnder(r, ut_metadatai) :
        IF size # 0
        THEN /\ metadata_size' = size /\ ut_metadata' = ut
             /\ num_pieces' = Pieces(size)
        ELSE metadata_size' = metadata_size
  BY <1>1 DEF numbers
<1>3. metadata_size = 0 /\ pc' = "extended_read"
  BY DEF ReceiveExtended, NumberInv
<1>4. metadata_sizei \in TwoKeys /\ ut_metadatai \in TwoKeys
  BY DEF TwoKeys
<1>5. ASSUME NEW s \in SaidUnder(r, metadata_sizei), NEW u \in SaidUnder(r, ut_metadatai)
      PROVE  /\ s # 0 => /\ metadata_size' = s /\ ut_metadata' = u
                         /\ num_pieces' = s \div 16384
             /\ s = 0 => metadata_size' = 0
  <2>1. size = s /\ s \in Nat
    BY <1>4, TakenAsSaid
  <2>2. ut = u
    BY <1>4, TakenAsSaid
  <2> QED
    BY <1>2, <1>3, <2>1, <2>2, SizeInPieces
<1>6. ASSUME \A j \in DOMAIN Received(r) : Received(r)[j] # metadata_sizei,
             \A j \in DOMAIN r.behind : j <= Skipped => r.behind[j] # metadata_sizei
      PROVE  metadata_size' = 0
  <2>1. NumbersUnder(r, metadata_sizei) = {0}
    BY <1>4, <1>6, NothingFound DEF Skipped
  <2> QED
    BY <1>2, <1>3, <2>1
<1>7. NumbersAsSaid'
  <2>1. /\ SaidUnder(answer, metadata_sizei)' = SaidUnder(r, metadata_sizei)
        /\ SaidUnder(answer, ut_metadatai)' = SaidUnder(r, ut_metadatai)
        /\ Received(answer)' = Received(r)
        /\ (answer.behind)' = r.behind
    BY <1>1
  <2>2. \A s \in SaidUnder(answer, metadata_sizei)', u \in SaidUnder(answer, ut_metadatai)' :
          /\ pc' = "extended_read"
          /\ s # 0 => /\ metadata_size' = s /\ ut_metadata' = u
                      /\ num_pieces' = s \div 16384
          /\ s = 0 => metadata_size' = 0
    BY <1>3, <1>5, <2>1
  <2>3. /\ \A j \in DOMAIN Received(answer)' : Received(answer)'[j] # metadata_sizei
        /\ \A j \in DOMAIN (answer.behind)' :
             j <= Skipped => (answer.behind)'[j] # metadata_sizei
        => metadata_size' = 0
    BY <1>6, <2>1, Zenon
  <2> QED
    BY <2>2, <2>3 DEF NumbersAsSaid
<1> QED
  BY <1>3, <1>7 DEF NumberInv

LEMMA ReadsNoKeyTakes == NumberInv /\ ReadsNoKey => NumberInv'
<1> SUFFICES ASSUME NumberInv, ReadsNoKey
             PROVE  NumberInv'
  OBVIOUS
<1>1. PICK r \in Answers : MayCrash(r) /\ answer' = r
  BY DEF ReadsNoKey
<1>2. metadata_size' = 0 /\ pc' = "crashed"
  BY DEF ReadsNoKey, NumberInv, numbers
<1>3. ~(\E s \in SaidUnder(r, metadata_sizei), u \in SaidUnder(r, ut_metadatai) : TRUE)
  BY <1>1, TakenAsSaid DEF MayCrash, TwoKeys
<1>4. NumbersAsSaid'
  <2>1. /\ SaidUnder(answer, metadata_sizei)' = SaidUnder(r, metadata_sizei)
        /\ SaidUnder(answer, ut_metadatai)' = SaidUnder(r, ut_metadatai)
    BY <1>1
  <2> QED
    BY <1>2, <1>3, <2>1 DEF NumbersAsSaid
<1> QED
  BY <1>2, <1>4 DEF NumberInv

LEMMA NumbersBegin == Init => NumberInv
BY DEF Init, NumberInv, NumbersAsSaid

LEMMA NumbersStay == NumberInv /\ [Next]_vars => NumberInv'
<1> SUFFICES ASSUME NumberInv, [Next]_vars
             PROVE  NumberInv'
  OBVIOUS
<1> USE DEF numbers
<1>1. CASE SendHandshake
  BY <1>1 DEF SendHandshake, NumberInv, NumbersAsSaid
<1>2. CASE SendExtended
  BY <1>2 DEF SendExtended, NumberInv, NumbersAsSaid
<1>3. CASE ReceiveExtended
  BY <1>3, ReceiveExtendedTakes
<1>4. CASE ReadsNoKey
  BY <1>4, ReadsNoKeyTakes
<1>5. CASE GetMetadata
  BY <1>5 DEF GetMetadata, NumberInv, NumbersAsSaid
<1>6. CASE RequestMetadata
  BY <1>6 DEF RequestMetadata, NumberInv, NumbersAsSaid
<1>7. CASE RequestPiece
  BY <1>7 DEF RequestPiece, NumberInv, NumbersAsSaid
<1>8. CASE PeerGreeted
  BY <1>8 DEF PeerGreeted, NumberInv, NumbersAsSaid
<1>9. CASE PeerReads
  BY <1>9 DEF PeerReads, NumberInv, NumbersAsSaid
<1>10. CASE UNCHANGED vars
  BY <1>10 DEF vars, NumberInv, NumbersAsSaid
<1> QED
  BY <1>1, <1>2, <1>3, <1>4, <1>5, <1>6, <1>7, <1>8, <1>9, <1>10 DEF Next

(* What the client takes the peer's extended handshake for is what the peer has
   said: both numbers, in whatever order they come, whatever stands around them,
   and whatever the stack holds behind a message that was cut off; a peer that
   offers no metadata is asked for none, unless the key lies right behind its
   message (peer_extended_handshake_packet.c:92-153, peer.c:147-188).          *)
THEOREM NumbersAreTaken == Spec => []NumbersAsSaid
<1>1. NumberInv => NumbersAsSaid
  BY DEF NumberInv
<1> QED
  BY <1>1, NumbersBegin, NumbersStay, PTL DEF Spec

-----------------------------------------------------------------------------
(* Words: what is laid one behind the other, and what a conversion makes of it *)

LEMMA Words ==
  ASSUME NEW n \in Nat, NEW w \in Word(n)
  PROVE  w \in Seq(Byte) /\ Len(w) = n /\ \A j \in 1..n : w[j] \in Byte
BY DEF Word

LEMMA WordOf ==
  ASSUME NEW n \in Nat, NEW w \in Seq(Byte), Len(w) = n
  PROVE  w \in Word(n)
BY DEF Word

LEMMA SameWord ==
  ASSUME NEW n \in Nat, NEW v \in Word(n), NEW w \in Word(n), \A j \in 1..n : v[j] = w[j]
  PROVE  v = w
BY DEF Word

(* The first byte, the first m bytes, and n bytes behind them. *)
First(s) == s[1]
Before(s, m) == SubSeq(s, 1, m)
After(s, m, n) == SubSeq(s, m + 1, m + n)

LEMMA Joined ==
  ASSUME NEW m \in Nat, NEW n \in Nat, NEW x \in Word(m), NEW y \in Word(n)
  PROVE  x \o y \in Word(m + n)
<1>1. x \in Seq(Byte) /\ Len(x) = m /\ y \in Seq(Byte) /\ Len(y) = n
  BY Words
<1> DEFINE z == x \o y
<1>2. z \in Seq(Byte) /\ Len(z) = m + n
  BY <1>1
<1> HIDE DEF z
<1>3. z \in Word(m + n)
  BY <1>2, WordOf
<1> QED
  BY <1>3 DEF z

LEMMA JoinedFirst ==
  ASSUME NEW m \in Nat, NEW n \in Nat, NEW x \in Word(m), NEW y \in Word(n), m # 0
  PROVE  First(x \o y) = First(x)
<1>1. x \in Seq(Byte) /\ Len(x) = m /\ y \in Seq(Byte) /\ Len(y) = n
  BY Words
<1> QED
  BY <1>1 DEF First

LEMMA JoinedParts ==
  ASSUME NEW m \in Nat, NEW n \in Nat, NEW x \in Word(m), NEW y \in Word(n)
  PROVE  Before(x \o y, m) = x /\ After(x \o y, m, n) = y
<1>1. x \in Seq(Byte) /\ Len(x) = m /\ y \in Seq(Byte) /\ Len(y) = n
  BY Words
<1> QED
  BY <1>1 DEF Before, After

(* Of three pieces laid one behind the other it does not matter which are joined
   first.                                                                       *)
LEMMA Regrouped ==
  ASSUME NEW x \in Seq(Byte), NEW y \in Seq(Byte), NEW z \in Seq(Byte)
  PROVE  (x \o y) \o z = x \o (y \o z)
OBVIOUS

LEMMA TakenApart ==
  ASSUME NEW x \in Seq(Byte), NEW y \in Seq(Byte)
  PROVE  /\ x \o y \in Seq(Byte) /\ Len(x \o y) = Len(x) + Len(y)
         /\ SubSeq(x \o y, 1, Len(x)) = x
         /\ SubSeq(x \o y, Len(x) + 1, Len(x \o y)) = y
         /\ \A j \in 1..Len(x) : (x \o y)[j] = x[j]
OBVIOUS

LEMMA Reversed ==
  ASSUME NEW n \in Nat, NEW w \in Word(n)
  PROVE  /\ Reverse(w) \in Word(n)
         /\ \A j \in 1..n : Reverse(w)[j] = w[n - j + 1]
<1>1. Len(w) = n /\ \A j \in 1..n : w[j] \in Byte
  BY Words
<1>2. Reverse(w) = [j \in 1..n |-> w[n - j + 1]]
  BY <1>1 DEF Reverse
<1>3. \A j \in 1..n : n - j + 1 \in 1..n
  OBVIOUS
<1> QED
  BY <1>1, <1>2, <1>3 DEF Word

LEMMA TwiceReversed ==
  ASSUME NEW n \in Nat, NEW w \in Word(n)
  PROVE  Reverse(Reverse(w)) = w
<1>1. Reverse(w) \in Word(n) /\ \A j \in 1..n : Reverse(w)[j] = w[n - j + 1]
  BY Reversed
<1>2. /\ Reverse(Reverse(w)) \in Word(n)
      /\ \A j \in 1..n : Reverse(Reverse(w))[j] = Reverse(w)[n - j + 1]
  BY <1>1, Reversed
<1>3. \A j \in 1..n : n - j + 1 \in 1..n /\ n - (n - j + 1) + 1 = j
  OBVIOUS
<1>4. \A j \in 1..n : Reverse(Reverse(w))[j] = w[j]
  BY <1>1, <1>2, <1>3
<1> QED
  BY <1>2, <1>4, SameWord

LEMMA Endianess == little_endianess <=> host = "little"
<1>1. InMemory(<<1, 35, 69, 103>>)[1] = IF host = "little" THEN 103 ELSE 1
  BY DEF InMemory, Reverse
<1> QED
  BY <1>1 DEF little_endianess

(* A length that was converted lies in memory with its high byte first. *)
LEMMA LengthIsSent ==
  ASSUME NEW w \in Word(4)
  PROVE  InMemory(w) \in Word(4) /\ InMemory(htonl_util(w)) = w
<1>1. InMemory(w) = IF host = "little" THEN Reverse(w) ELSE w
  BY DEF InMemory
<1>2. InMemory(w) \in Word(4)
  BY <1>1, Reversed
<1>3. InMemory(InMemory(w)) = w
  BY <1>1, TwiceReversed DEF InMemory
<1>4. htonl_util(w) = InMemory(w)
  BY <1>1, Endianess DEF htonl_util, ntohl
<1> QED
  BY <1>2, <1>3, <1>4

LEMMA ZerosAreWords ==
  /\ Zeros(4) \in Word(4) /\ InMemory(Zeros(4)) = Zeros(4)
<1>1. Zeros(4) \in Word(4) /\ \A j \in 1..4 : Zeros(4)[j] = 0
  BY DEF Zeros, Word, Byte
<1>2. /\ Reverse(Zeros(4)) \in Word(4)
      /\ \A j \in 1..4 : Reverse(Zeros(4))[j] = Zeros(4)[4 - j + 1]
  BY <1>1, Reversed
<1>3. \A j \in 1..4 : 4 - j + 1 \in 1..4
  OBVIOUS
<1>4. \A j \in 1..4 : Reverse(Zeros(4))[j] = Zeros(4)[j]
  BY <1>1, <1>2, <1>3
<1>5. Reverse(Zeros(4)) = Zeros(4)
  BY <1>1, <1>2, <1>4, SameWord
<1> QED
  BY <1>1, <1>5 DEF InMemory

LEMMA Int32IsWord ==
  ASSUME NEW n \in Byte
  PROVE  Int32(n) \in Word(4) /\ Int32(n)[1] = 0 /\ Int32(n)[2] = 0
         /\ Int32(n)[3] = 0 /\ Int32(n)[4] = n
BY DEF Int32, Word, Byte

-----------------------------------------------------------------------------
(* Messages one behind the other, each with its length in front *)

Message == {m \in Seq(Byte) : Len(m) \in 1..255}

Frame(m) == Int32(Len(m)) \o m

(* rest[n] is what is left of the messages when n of them are read. *)
OneByOne(messages, rest) ==
  /\ messages \in Seq(Message)
  /\ rest \in [0..Len(messages) -> Seq(Byte)]
  /\ rest[Len(messages)] = <<>>
  /\ \A n \in 1..Len(messages) : rest[n - 1] = Frame(messages[n]) \o rest[n]

LEMMA Frames ==
  ASSUME NEW m \in Message
  PROVE  /\ Frame(m) \in Seq(Byte) /\ Len(Frame(m)) = 4 + Len(m)
         /\ Frame(m)[1] = 0 /\ Frame(m)[2] = 0 /\ Frame(m)[3] = 0 /\ Frame(m)[4] = Len(m)
         /\ SubSeq(Frame(m), 5, 4 + Len(m)) = m
<1>1. m \in Seq(Byte) /\ Len(m) \in Byte
  BY DEF Message, Byte
<1> DEFINE w == Int32(Len(m))
<1>2. w \in Seq(Byte) /\ Len(w) = 4 /\ w[1] = 0 /\ w[2] = 0 /\ w[3] = 0 /\ w[4] = Len(m)
  BY <1>1, Int32IsWord, Words
<1> HIDE DEF w
<1>3. /\ w \o m \in Seq(Byte) /\ Len(w \o m) = 4 + Len(m)
      /\ SubSeq(w \o m, 5, 4 + Len(m)) = m
      /\ \A j \in 1..4 : (w \o m)[j] = w[j]
  <2>1. /\ w \o m \in Seq(Byte) /\ Len(w \o m) = Len(w) + Len(m)
        /\ SubSeq(w \o m, Len(w) + 1, Len(w \o m)) = m
        /\ \A j \in 1..Len(w) : (w \o m)[j] = w[j]
    BY <1>1, <1>2, TakenApart
  <2>2. Len(w) + 1 = 5
    BY <1>2
  <2> QED
    BY <1>2, <2>1, <2>2
<1>4. Frame(m) = w \o m
  BY DEF Frame, w
<1> QED
  BY <1>2, <1>3, <1>4

(* What a reader takes from a stream: the length in front, so many bytes behind
   it, and what is behind these.                                               *)
Length(s) == s[3] * 256 + s[4]
Taken(s, n) == SubSeq(s, 5, 4 + n)
Left(s, n) == SubSeq(s, 5 + n, Len(s))

(* The length in front of a message leads to the one behind it. *)
LEMMA FrameIsRead ==
  ASSUME NEW m \in Message, NEW r \in Seq(Byte), NEW s, s = Frame(m) \o r
  PROVE  /\ s \in Seq(Byte) /\ Len(s) >= 4 + Len(m)
         /\ s[1] = 0 /\ s[2] = 0 /\ Length(s) = Len(m)
         /\ Taken(s, Len(m)) = m /\ Left(s, Len(m)) = r
<1> DEFINE f == Frame(m)
           k == Len(m)
<1>1. /\ f \in Seq(Byte) /\ Len(f) = 4 + k /\ k \in Nat
      /\ f[1] = 0 /\ f[2] = 0 /\ f[3] = 0 /\ f[4] = k
      /\ SubSeq(f, 5, 4 + k) = m
  BY Frames DEF Message
<1>2. s = f \o r
  OBVIOUS
<1> HIDE DEF f, k
<1>3. s \in Seq(Byte) /\ Len(s) = 4 + k + Len(r) /\ \A j \in 1..(4 + k) : s[j] = f[j]
  <2>1. s \in Seq(Byte) /\ Len(s) = Len(f) + Len(r) /\ \A j \in 1..Len(f) : s[j] = f[j]
    <3>1. /\ f \o r \in Seq(Byte) /\ Len(f \o r) = Len(f) + Len(r)
          /\ \A j \in 1..Len(f) : (f \o r)[j] = f[j]
      BY <1>1, TakenApart, Zenon
    <3> QED
      BY <1>2, <3>1, Zenon
  <2> QED
    BY <1>1, <2>1
<1>4. SubSeq(s, 5, 4 + k) = SubSeq(f, 5, 4 + k)
  BY <1>1, <1>3
<1>5. SubSeq(s, 5 + k, Len(s)) = r
  BY <1>1, <1>2
<1>6. \A j \in 1..4 : s[j] = f[j]
  BY <1>1, <1>3
<1>7. s[1] = 0 /\ s[2] = 0 /\ s[3] = 0 /\ s[4] = k
  <2>1. 1 \in 1..4 /\ 2 \in 1..4 /\ 3 \in 1..4 /\ 4 \in 1..4
    OBVIOUS
  <2>2. s[1] = f[1] /\ s[2] = f[2] /\ s[3] = f[3] /\ s[4] = f[4]
    BY <1>6, <2>1, Zenon
  <2> QED
    BY <1>1, <2>2, Zenon
<1>8. s[3] * 256 + s[4] = k /\ Len(s) >= 4 + k
  BY <1>1, <1>3, <1>7
<1> QED
  BY <1>1, <1>3, <1>4, <1>5, <1>7, <1>8 DEF k, Length, Taken, Left

(* One more message is left behind the others. *)
Longer(messages, rest, m, all, more) ==
  /\ all = Append(messages, m) /\ OneByOne(all, more)
  /\ \A n \in 0..Len(messages) : more[n] = rest[n] \o Frame(m)

LEMMA OneMore ==
  ASSUME NEW messages, NEW rest, OneByOne(messages, rest), NEW m \in Message
  PROVE  \E all, more : Longer(messages, rest, m, all, more)
<1> DEFINE k == Len(messages)
           all == Append(messages, m)
           f == Frame(m)
           more == [n \in 0..(k + 1) |-> IF n <= k THEN rest[n] \o f ELSE <<>>]
<1>1. /\ messages \in Seq(Message) /\ k \in Nat
      /\ rest \in [0..k -> Seq(Byte)] /\ rest[k] = <<>>
      /\ \A n \in 1..k : rest[n - 1] = Frame(messages[n]) \o rest[n]
  BY DEF OneByOne
<1>2. /\ all \in Seq(Message) /\ Len(all) = k + 1 /\ all[k + 1] = m
      /\ \A n \in 1..k : all[n] = messages[n] /\ messages[n] \in Message
  BY <1>1
<1>3. f \in Seq(Byte)
  BY Frames
<1> HIDE DEF f, k, all
<1>4. \A n \in 0..k : more[n] = rest[n] \o f /\ rest[n] \in Seq(Byte)
  <2>1. TAKE n \in 0..k
  <2>2. n \in 0..(k + 1) /\ n <= k
    BY <1>1
  <2>3. more[n] = rest[n] \o f
    BY <2>2, Zenon
  <2> QED
    BY <1>1, <2>3
<1>5. more[k + 1] = <<>>
  BY <1>1
<1>6. more \in [0..(k + 1) -> Seq(Byte)]
  <2>3. more = [n \in 0..(k + 1) |-> more[n]]
    OBVIOUS
  <2> HIDE DEF more
  <2>1. \A n \in 0..(k + 1) : more[n] \in Seq(Byte)
    <3>1. TAKE n \in 0..(k + 1)
    <3>2. CASE n \in 0..k
      <4>1. more[n] = rest[n] \o f /\ rest[n] \in Seq(Byte)
        BY <1>4, <3>2, Zenon
      <4> QED
        BY <1>3, <4>1, TakenApart, Zenon
    <3>3. CASE n \notin 0..k
      <4>1. n = k + 1
        BY <1>1, <3>3
      <4>2. <<>> \in Seq(Byte)
        OBVIOUS
      <4> QED
        BY <1>5, <4>1, <4>2, Zenon
    <3> QED
      BY <3>2, <3>3
  <2> QED
    BY <2>1, <2>3, Zenon
<1> HIDE DEF more
<1>7. \A n \in 1..(k + 1) : more[n - 1] = Frame(all[n]) \o more[n]
  <2>1. TAKE n \in 1..(k + 1)
  <2>2. CASE n \in 1..k
    <3>1. n - 1 \in 0..k /\ n \in 0..k
      BY <1>1, <2>2
    <3>2. /\ more[n - 1] = rest[n - 1] \o f /\ more[n] = rest[n] \o f
          /\ rest[n] \in Seq(Byte) /\ rest[n - 1] = Frame(messages[n]) \o rest[n]
      BY <1>1, <1>4, <2>2, <3>1
    <3>3. all[n] = messages[n] /\ Frame(messages[n]) \in Seq(Byte)
      BY <1>2, <2>2, Frames
    <3>4. (Frame(messages[n]) \o rest[n]) \o f = Frame(messages[n]) \o (rest[n] \o f)
      BY <1>3, <3>2, <3>3, Regrouped
    <3> QED
      BY <3>2, <3>3, <3>4
  <2>3. CASE n \notin 1..k
    <3>1. n = k + 1 /\ n - 1 = k /\ k \in 0..k
      BY <1>1, <2>3
    <3>2. more[n - 1] = <<>> \o f /\ more[n] = <<>> /\ Frame(all[n]) = f
      BY <1>1, <1>2, <1>4, <1>5, <3>1 DEF f
    <3>3. <<>> \o f = f \o <<>>
      BY <1>3
    <3> QED
      BY <3>2, <3>3
  <2> QED
    BY <2>2, <2>3
<1>8. OneByOne(all, more)
  BY <1>2, <1>5, <1>6, <1>7 DEF OneByOne
<1>9. OneByOne(all, more) /\ \A n \in 0..k : more[n] = rest[n] \o f
  BY <1>4, <1>8
<1>10. Longer(messages, rest, m, all, more)
  BY <1>9 DEF all, k, f, Longer
<1> QED
  BY <1>10, Zenon

-----------------------------------------------------------------------------
(* The bytes of a message are its length and what the client means by it *)

(* AsSent, for a host of the byte order h. *)
Reordered(m, h) ==
  IF m[1] = 6
  THEN SubSeq(m, 1, 9) \o (IF h = "little" THEN Reverse(SubSeq(m, 10, 13)) ELSE SubSeq(m, 10, 13))
  ELSE m

LEMMA SentReordered ==
  ASSUME NEW m
  PROVE  AsSent(m) = Reordered(m, host)
BY DEF AsSent, Reordered, InMemory

LEMMA Messages ==
  ASSUME NEW n \in 1..255, NEW m \in Word(n)
  PROVE  m \in Message /\ Len(m) = n
<1>1. n \in Nat
  OBVIOUS
<1>2. m \in Seq(Byte) /\ Len(m) = n
  BY <1>1, Words
<1> QED
  BY <1>2 DEF Message

LEMMA Letters ==
  ASSUME NEW n \in Nat
  PROVE  Text(n) \in Word(n)
BY DEF Text, Byte, Word

LEMMA Ends == <<Letter_e, Letter_e>> \in Word(2)
BY DEF Letter_e, Byte, Word

LEMMA ExtendedTexts == ExtendedText \in Word(24)
<1>1. Text(22) \o <<Letter_e, Letter_e>> \in Word(22 + 2)
  BY Letters, Ends, Joined
<1> QED
  BY <1>1 DEF ExtendedText

LEMMA RequestTexts ==
  ASSUME NEW p \in 0..98
  PROVE  RequestText(p) \in Word(IF p < 10 THEN 25 ELSE 26)
<1> DEFINE t == Text(22)
           d == Decimal(p)
           e == <<Letter_e, Letter_e>>
           n == IF p < 10 THEN 1 ELSE 2
<1>1. t \in Word(22) /\ e \in Word(2)
  BY Letters, Ends
<1>2. d \in Word(n)
  <2>1. CASE p < 10
    <3>1. 48 + p \in Byte
      BY <2>1 DEF Byte
    <3> QED
      BY <2>1, <3>1 DEF Decimal, Word
  <2>2. CASE ~(p < 10)
    <3>1. p \div 10 \in 0..9 /\ p % 10 \in 0..9
      OBVIOUS
    <3>2. 48 + (p \div 10) \in Byte /\ 48 + (p % 10) \in Byte
      BY <3>1 DEF Byte
    <3> QED
      BY <2>2, <3>2 DEF Decimal, Word
  <2> QED
    BY <2>1, <2>2
<1>3. n \in Nat
  OBVIOUS
<1>4. (22 + n) + 2 = IF p < 10 THEN 25 ELSE 26
  OBVIOUS
<1> HIDE DEF t, d, e, n
<1>5. t \o d \in Word(22 + n) /\ 22 + n \in Nat
  BY <1>1, <1>2, <1>3, Joined
<1>6. (t \o d) \o e \in Word((22 + n) + 2)
  BY <1>1, <1>5, Joined
<1> QED
  BY <1>4, <1>6 DEF RequestText, t, d, e

(* A text behind the two bytes that say what it is. *)
Tagged(id, text) == <<20, id % 256>> \o text

LEMMA ExtensionIsFramed ==
  ASSUME NEW id \in Int, NEW n \in 1..100, NEW text \in Word(n)
  PROVE  /\ Tagged(id, text) \in Message /\ Len(Tagged(id, text)) = 2 + n
         /\ Reordered(Tagged(id, text), host) = Tagged(id, text)
         /\ ExtensionMessage(id, text) = Frame(Tagged(id, text))
<1> DEFINE b == <<20, id % 256>>
           w == Int32(n + 2)
           m == b \o text
<1>1. b \in Word(2) /\ First(b) = 20
  <2>1. id % 256 \in Byte /\ 20 \in Byte
    BY DEF Byte
  <2> QED
    BY <2>1 DEF Word, First
<1>2. w \in Word(4)
  <2>1. n + 2 \in Byte
    BY DEF Byte
  <2> QED
    BY <2>1, Int32IsWord
<1>3. InMemory(htonl_util(w)) = w
  BY <1>2, LengthIsSent
<1>4. n \in Nat /\ 2 + n \in 1..255 /\ 2 + n = n + 2 /\ 2 > 0
  OBVIOUS
<1>5. text \in Seq(Byte) /\ Len(text) = n
  BY <1>4, Words
<1>6. b \in Seq(Byte) /\ w \in Seq(Byte)
  BY <1>1, <1>2, Words
<1>7. ExtensionMessage(id, text) = (w \o b) \o text
  BY <1>3, <1>5, Zenon DEF ExtensionMessage
<1> HIDE DEF b
<1>8. m \in Word(2 + n) /\ First(m) = 20
  BY <1>1, <1>4, Joined, JoinedFirst
<1>9. (w \o b) \o text = w \o m
  BY <1>5, <1>6, Regrouped
<1> HIDE DEF m
<1>10. m \in Message /\ Len(m) = 2 + n
  BY <1>4, <1>8, Messages
<1>11. ExtensionMessage(id, text) = Frame(m)
  BY <1>4, <1>7, <1>9, <1>10, Zenon DEF Frame
<1>12. Reordered(m, host) = m
  <2>1. m[1] # 6
    BY <1>8 DEF First
  <2> QED
    BY <2>1, Zenon DEF Reordered
<1> QED
  BY <1>10, <1>11, <1>12, Zenon DEF Tagged, m, b

(* The request for a block: the length in it is the one that is not converted. *)
LEMMA PieceIsFramed ==
  LET m == <<6>> \o Zeros(4) \o Zeros(4) \o Int32(32)
  IN /\ m \in Seq(Byte) /\ Reordered(m, host) \in Message
     /\ PieceBytes = Frame(Reordered(m, host)) /\ PieceBytes \in Word(17)
<1> DEFINE s == <<6>>
           z == Zeros(4)
           k == Int32(32)
           n == InMemory(k)
           w == Int32(13)
           a == (s \o z) \o z
           m == a \o k
<1>1. s \in Word(1) /\ First(s) = 6
  BY DEF Byte, Word, First
<1>2. z \in Word(4) /\ InMemory(z) = z
  BY ZerosAreWords
<1>3. k \in Word(4) /\ w \in Word(4)
  BY Int32IsWord DEF Byte
<1>4. n \in Word(4) /\ InMemory(htonl_util(w)) = w
  BY <1>3, LengthIsSent
<1>5. PieceBytes = (((w \o s) \o z) \o z) \o n
  BY <1>2, <1>4, Zenon DEF PieceBytes
<1> HIDE DEF s, z, k, n, w
<1>6. s \in Seq(Byte) /\ z \in Seq(Byte) /\ n \in Seq(Byte) /\ w \in Seq(Byte)
  BY <1>1, <1>2, <1>3, <1>4, Words
<1>7. a \in Word(9) /\ First(a) = 6
  <2>1. s \o z \in Word(1 + 4) /\ First(s \o z) = First(s)
    BY <1>1, <1>2, Joined, JoinedFirst
  <2>2. 1 + 4 = 5
    OBVIOUS
  <2>3. (s \o z) \o z \in Word(5 + 4) /\ First((s \o z) \o z) = First(s \o z)
    BY <1>2, <2>1, <2>2, Joined, JoinedFirst
  <2> QED
    BY <1>1, <2>1, <2>3
<1>8. (((w \o s) \o z) \o z) \o n = w \o (a \o n)
  <2>1. s \o z \in Seq(Byte) /\ a \in Seq(Byte)
    BY <1>6
  <2>2. (w \o s) \o z = w \o (s \o z)
    BY <1>6, Regrouped
  <2>3. (w \o (s \o z)) \o z = w \o ((s \o z) \o z)
    BY <1>6, <2>1, Regrouped
  <2>4. (w \o a) \o n = w \o (a \o n)
    BY <1>6, <2>1, Regrouped
  <2> QED
    BY <2>2, <2>3, <2>4, Zenon
<1> HIDE DEF a
<1>9. /\ m \in Word(9 + 4) /\ m[1] = 6
      /\ SubSeq(m, 1, 9) = a /\ SubSeq(m, 10, 13) = k
  <2>1. m \in Word(9 + 4) /\ First(m) = First(a)
    BY <1>3, <1>7, Joined, JoinedFirst
  <2>2. Before(m, 9) = a /\ After(m, 9, 4) = k
    BY <1>3, <1>7, JoinedParts
  <2>3. SubSeq(m, 1, 9) = Before(m, 9) /\ SubSeq(m, 10, 13) = After(m, 9, 4)
    BY DEF Before, After
  <2>4. m[1] = First(m)
    BY DEF First
  <2> QED
    BY <1>7, <2>1, <2>2, <2>3, <2>4, Zenon
<1>10. a \o n \in Word(9 + 4)
  BY <1>4, <1>7, Joined
<1> HIDE DEF m
<1>11. 9 + 4 = 13 /\ 13 \in Nat /\ 13 \in 1..255
  OBVIOUS
<1>12. Reordered(m, host) = a \o n
  BY <1>7, <1>9, <1>11, Zenon DEF Reordered, n, InMemory
<1>13. a \o n \in Message /\ Len(a \o n) = 13
  BY <1>10, <1>11, Messages
<1>14. Frame(a \o n) = w \o (a \o n)
  BY <1>13, Zenon DEF Frame, w
<1>15. w \o (a \o n) \in Word(4 + 13)
  BY <1>3, <1>10, <1>11, Joined
<1>16. PieceBytes \in Word(17)
  BY <1>5, <1>8, <1>15
<1>17. PieceBytes = Frame(Reordered(m, host)) /\ Reordered(m, host) \in Message
  BY <1>5, <1>8, <1>12, <1>13, <1>14, Zenon
<1>18. m \in Seq(Byte)
  BY <1>9, <1>11, Words
<1> QED
  BY <1>16, <1>17, <1>18, Zenon DEF m, a, s, z, k

LEMMA GreetingBytes == HandshakeBytes \in Word(68)
<1> DEFINE a == <<19>>
           b == Text(19)
           c == [j \in 1..8 |-> IF j = 6 THEN 16 ELSE 0]
           d == Text(20)
<1>1. a \in Word(1) /\ b \in Word(19) /\ d \in Word(20)
  <2>1. a \in Word(1)
    BY DEF Byte, Word
  <2> HIDE DEF a
  <2> QED
    BY <2>1, Letters
<1>2. c \in Word(8) /\ InfoHash \in Word(20)
  BY PeerWireAssumption DEF Word, Byte
<1> HIDE DEF a, b, c, d
<1>3. a \o b \in Word(1 + 19) /\ 1 + 19 = 20
  BY <1>1, Joined
<1>4. (a \o b) \o c \in Word(20 + 8) /\ 20 + 8 = 28
  BY <1>2, <1>3, Joined
<1>5. ((a \o b) \o c) \o InfoHash \in Word(28 + 20) /\ 28 + 20 = 48
  BY <1>2, <1>4, Joined
<1>6. (((a \o b) \o c) \o InfoHash) \o d \in Word(48 + 20) /\ 48 + 20 = 68
  BY <1>1, <1>5, Joined
<1> QED
  BY <1>6 DEF HandshakeBytes, a, b, c, d

-----------------------------------------------------------------------------
(* The stream: what is not yet read of it are the messages said and not yet
   heard, each behind its length, and the handshake in front of them as long as
   it is not read.                                                            *)

States == {"handshake", "extended", "extended_sent", "extended_read", "metadata",
           "piece", "ended", "crashed"}

WireTypes ==
  /\ host \in {"little", "big"}
  /\ pc \in States
  /\ metadata_size \in Int /\ ut_metadata \in Int /\ num_pieces \in Int
  /\ piece \in 0..MaxPieces
  /\ piece # 0 => piece <= num_pieces
  /\ stream \in Seq(Byte)
  /\ said \in Seq(Seq(Byte)) /\ heard \in Seq(Seq(Byte))
  /\ pc = "handshake" => ~greeted /\ stream = <<>> /\ said = <<>>
  /\ ~greeted => heard = <<>>

Unread(messages, rest) ==
  /\ OneByOne(messages, rest)
  /\ Len(messages) = Len(said)
  /\ \A n \in 1..Len(said) : messages[n] = Reordered(said[n], host)
  /\ Len(heard) <= Len(said)
  /\ \A n \in 1..Len(heard) : heard[n] = messages[n]
  /\ stream = IF greeted THEN rest[Len(heard)]
              ELSE IF pc = "handshake" THEN <<>> ELSE HandshakeBytes \o rest[0]

StreamInv == Short => \E messages, rest : Unread(messages, rest)

PeerWireInv == WireTypes /\ NumberInv /\ StreamInv

-----------------------------------------------------------------------------
(* The client sends *)

LEMMA Truncated ==
  ASSUME NEW n \in Nat, NEW k \in Nat, k <= n, NEW w \in Word(n)
  PROVE  Before(w, k) \in Seq(Byte) /\ (k = n => Before(w, k) = w)
<1>1. w \in Seq(Byte) /\ Len(w) = n
  BY Words
<1> QED
  BY <1>1 DEF Before

LEMMA StreamGrows ==
  ASSUME NEW x \in Seq(Byte), NEW y \in Seq(Byte)
  PROVE  x \o y \in Seq(Byte)
OBVIOUS

(* A message that is sent whole is left behind the others. *)
LEMMA Sending ==
  ASSUME PeerWireInv, pc # "handshake", pc' # "handshake", Short' => Short,
         NEW m, Reordered(m, host) \in Message,
         stream' = stream \o Frame(Reordered(m, host)),
         said' = Append(said, m),
         UNCHANGED <<host, greeted, heard>>
  PROVE  StreamInv'
<1> SUFFICES ASSUME Short'
             PROVE  (\E messages, rest : Unread(messages, rest))'
  BY DEF StreamInv
<1>0. PICK t \in Message : t = Reordered(m, host)
  OBVIOUS
<1> DEFINE f == Frame(t)
           k == Len(said)
           h == Len(heard)
<1>1. PICK messages, rest : Unread(messages, rest)
  BY DEF PeerWireInv, StreamInv
<1>2. OneByOne(messages, rest) /\ Len(messages) = k /\ k \in Nat /\ h \in Nat /\ h <= k
  BY <1>1 DEF Unread, PeerWireInv, WireTypes
<1>3. PICK all, more : /\ all = Append(messages, t) /\ OneByOne(all, more)
                       /\ \A n \in 0..k : more[n] = rest[n] \o f
  <2>1. PICK all, more : Longer(messages, rest, t, all, more)
    BY <1>0, <1>2, OneMore
  <2> QED
    BY <1>2, <2>1, Zenon DEF Longer
<1>4. /\ messages \in Seq(Message) /\ rest \in [0..k -> Seq(Byte)]
      /\ said \in Seq(Seq(Byte)) /\ f \in Seq(Byte)
  BY <1>0, <1>2, Frames DEF OneByOne, PeerWireInv, WireTypes
<1>5. /\ \A n \in 1..k : messages[n] = Reordered(said[n], host)
      /\ \A n \in 1..h : heard[n] = messages[n]
      /\ stream = IF greeted THEN rest[h] ELSE HandshakeBytes \o rest[0]
  BY <1>1 DEF Unread
<1>6. stream' = stream \o f /\ said' = Append(said, m)
  BY <1>0
<1> HIDE DEF f
<1>7. Len(said') = k + 1 /\ Len(all) = k + 1
  <2>1. Len(said') = k + 1
    BY <1>4, <1>6
  <2>2. Len(Append(messages, t)) = Len(messages) + 1
    BY <1>4
  <2> QED
    BY <1>2, <1>3, <2>1, <2>2, Zenon
<1>8. \A n \in 1..(k + 1) : all[n] = Reordered(said'[n], host)
  <2>1. TAKE n \in 1..(k + 1)
  <2>2. CASE n \in 1..k
    <3>1. all[n] = messages[n] /\ said'[n] = said[n]
      BY <1>2, <1>3, <1>4, <1>6, <2>2
    <3> QED
      BY <1>5, <2>2, <3>1
  <2>3. CASE n \notin 1..k
    <3>1. n = k + 1
      BY <1>2, <2>3
    <3>2. all[k + 1] = t
      <4>1. Append(messages, t)[Len(messages) + 1] = t
        BY <1>4
      <4> QED
        BY <1>2, <1>3, <4>1, Zenon
    <3>4. said'[k + 1] = m
      BY <1>4, <1>6
    <3> QED
      BY <1>0, <3>1, <3>2, <3>4
  <2> QED
    BY <2>2, <2>3
<1>9. \A n \in 1..h : heard[n] = all[n]
  <2>1. TAKE n \in 1..h
  <2>2. n \in 1..k
    BY <1>2
  <2>3. all[n] = messages[n]
    BY <1>2, <1>3, <1>4, <2>2
  <2> QED
    BY <1>5, <2>3
<1>10. stream' = IF greeted THEN more[h] ELSE HandshakeBytes \o more[0]
  <2>1. h \in 0..k /\ 0 \in 0..k
    BY <1>2
  <2>2. more[h] = rest[h] \o f /\ more[0] = rest[0] \o f /\ rest[0] \in Seq(Byte)
    BY <1>3, <1>4, <2>1
  <2>3. HandshakeBytes \in Seq(Byte)
    BY GreetingBytes, Words
  <2>4. (HandshakeBytes \o rest[0]) \o f = HandshakeBytes \o (rest[0] \o f)
    BY <1>4, <2>2, <2>3, Regrouped
  <2> QED
    BY <1>5, <1>6, <2>2, <2>4, Zenon
<1>11. h <= k + 1
  BY <1>2
<1> HIDE DEF k, h
<1>12. Unread(all, more)'
  <2>1. Len(all) = Len(said') /\ Len(heard') = h /\ h <= Len(said')
    BY <1>7, <1>11 DEF h
  <2>2. \A n \in 1..Len(said') : all[n] = Reordered(said'[n], host')
    BY <1>7, <1>8
  <2>3. \A n \in 1..Len(heard') : heard'[n] = all[n]
    BY <1>9, <2>1
  <2>4. stream' = IF greeted' THEN more[Len(heard')]
                  ELSE IF pc' = "handshake" THEN <<>> ELSE HandshakeBytes \o more[0]
    BY <1>10, <2>1
  <2>5. (\A n \in 1..Len(said) : all[n] = Reordered(said[n], host))'
    BY <2>2, Zenon
  <2>6. (\A n \in 1..Len(heard) : heard[n] = all[n])'
    BY <2>3, Zenon
  <2>7. (stream = IF greeted THEN more[Len(heard)]
                  ELSE IF pc = "handshake" THEN <<>> ELSE HandshakeBytes \o more[0])'
    BY <2>4, Zenon
  <2> QED
    BY <1>3, <2>1, <2>5, <2>6, <2>7, Zenon DEF Unread
<1> QED
  BY <1>12

(* A step that leaves the stream and both ends of it alone. *)
LEMMA StreamStays ==
  ASSUME PeerWireInv, UNCHANGED <<host, piece, stream, greeted, said, heard>>,
         pc # "handshake", pc' # "handshake"
  PROVE  StreamInv'
<1>1. ASSUME NEW messages, NEW rest, Unread(messages, rest)
      PROVE  Unread(messages, rest)'
  BY <1>1 DEF Unread
<1> QED
  BY <1>1 DEF PeerWireInv, StreamInv, Short

LEMMA SendHandshakeKeeps == PeerWireInv /\ SendHandshake => WireTypes' /\ StreamInv'
<1> SUFFICES ASSUME PeerWireInv, SendHandshake
             PROVE  WireTypes' /\ StreamInv'
  OBVIOUS
<1> USE DEF PeerWireInv
<1>1. HandshakeBytes \in Word(68) /\ HandshakeBytes \in Seq(Byte)
  BY GreetingBytes, Words
<1>2. Before(HandshakeBytes, 68) = HandshakeBytes
  BY <1>1, Truncated
<1>3. stream' = <<>> \o HandshakeBytes
  BY <1>2 DEF SendHandshake, Sends, ArraySize, WireTypes, Before
<1>4. stream' = HandshakeBytes \o <<>>
  BY <1>1, <1>3
<1>5. stream' \in Seq(Byte)
  BY <1>1, <1>3
<1>6. WireTypes'
  BY <1>5 DEF SendHandshake, WireTypes, States, numbers
<1>7. ASSUME NEW messages, NEW rest, Unread(messages, rest)
      PROVE  Unread(messages, rest)'
  <2>1. Len(messages) = 0 /\ rest[Len(messages)] = <<>>
    BY <1>7 DEF Unread, OneByOne, SendHandshake, WireTypes
  <2>2. rest[0] = <<>>
    BY <2>1
  <2>3. ~greeted' /\ pc' # "handshake"
    BY DEF SendHandshake, WireTypes
  <2>4. stream' = HandshakeBytes \o rest[0]
    BY <1>4, <2>2
  <2> QED
    BY <1>7, <2>3, <2>4 DEF Unread, SendHandshake
<1>8. StreamInv'
  BY <1>7 DEF StreamInv, Short, SendHandshake
<1> QED
  BY <1>6, <1>8

LEMMA SendExtendedKeeps == PeerWireInv /\ SendExtended => WireTypes' /\ StreamInv'
<1> SUFFICES ASSUME PeerWireInv, SendExtended
             PROVE  WireTypes' /\ StreamInv'
  OBVIOUS
<1> USE DEF PeerWireInv
<1> DEFINE m == Tagged(0, ExtendedText)
           x == ExtensionMessage(0, ExtendedText)
<1>1. ExtendedText \in Word(24) /\ 0 \in Int /\ 24 \in 1..100 /\ 0 % 256 = 0
  BY ExtendedTexts
<1>2. m \in Message /\ Len(m) = 2 + 24 /\ Reordered(m, host) = m /\ x = Frame(m)
  BY <1>1, ExtensionIsFramed
<1> HIDE DEF m, x
<1>3. m \in Seq(Byte) /\ x \in Seq(Byte) /\ Len(x) = 4 + (2 + 24)
  BY <1>2, Frames DEF Message
<1>4. x \in Word(4 + (2 + 24)) /\ 4 + (2 + 24) = 30
  <2>1. 4 + (2 + 24) \in Nat /\ 4 + (2 + 24) = 30
    OBVIOUS
  <2> QED
    BY <1>3, <2>1, WordOf, Zenon
<1>5. Before(x, 30) = x
  BY <1>4, Truncated
<1>6. stream' = stream \o x /\ said' = Append(said, m)
  BY <1>1, <1>5 DEF SendExtended, Sends, ArraySize, Before, Tagged, x, m
<1>7. stream' \in Seq(Byte)
  BY <1>3, <1>6, StreamGrows DEF WireTypes
<1>8. WireTypes'
  <2>1. said' \in Seq(Seq(Byte))
    <3>1. said \in Seq(Seq(Byte)) /\ m \in Seq(Byte)
      BY <1>3 DEF WireTypes
    <3> QED
      BY <1>6, <3>1
  <2> QED
    BY <1>7, <2>1 DEF SendExtended, WireTypes, States, numbers
<1>9. StreamInv'
  <2>1. /\ pc # "handshake" /\ pc' # "handshake" /\ (Short' => Short)
        /\ UNCHANGED <<host, greeted, heard>>
    BY DEF SendExtended, Short
  <2> QED
    BY <1>2, <1>6, <2>1, Sending
<1> QED
  BY <1>8, <1>9

LEMMA RequestMetadataKeeps == PeerWireInv /\ RequestMetadata => WireTypes' /\ StreamInv'
<1> SUFFICES ASSUME PeerWireInv, RequestMetadata
             PROVE  WireTypes' /\ StreamInv'
  OBVIOUS
<1> USE DEF PeerWireInv
<1> DEFINE u == ut_metadata
           text == RequestText(piece)
           n == IF piece < 10 THEN 25 ELSE 26
           m == Tagged(u, text)
           x == ExtensionMessage(u, text)
<1>1. piece \in 0..98 /\ piece + 1 \in 0..MaxPieces /\ piece + 1 <= num_pieces /\ u \in Int
  BY PeerWireAssumption DEF RequestMetadata, WireTypes
<1>2. text \in Word(n) /\ n \in 1..100
  BY <1>1, RequestTexts
<1>3. m \in Message /\ Len(m) = 2 + n /\ Reordered(m, host) = m /\ x = Frame(m)
  BY <1>1, <1>2, ExtensionIsFramed, Zenon
<1> HIDE DEF u, text, m, x
<1>4. m \in Seq(Byte) /\ x \in Seq(Byte) /\ Len(x) = 4 + (2 + n)
  BY <1>3, Frames DEF Message
<1>5. 31 <= 4 + (2 + n) /\ 4 + (2 + n) \in Nat /\ 31 \in Nat
  OBVIOUS
<1>6. x \in Word(4 + (2 + n))
  BY <1>4, <1>5, WordOf, Zenon
<1>7. /\ Before(x, 31) \in Seq(Byte)
      /\ 31 = 4 + (2 + n) => Before(x, 31) = x
  BY <1>5, <1>6, Truncated, Zenon
<1>8. /\ stream' = stream \o Before(x, 31) /\ said' = Append(said, m)
      /\ piece' = piece + 1 /\ pc' = "metadata" /\ pc = "metadata"
      /\ UNCHANGED <<host, numbers, greeted, heard>>
  BY DEF RequestMetadata, Sends, ArraySize, Before, Tagged, x, m, text, u
<1>9. stream' \in Seq(Byte)
  BY <1>7, <1>8, StreamGrows DEF WireTypes
<1>10. said' \in Seq(Seq(Byte))
  BY <1>4, <1>8 DEF WireTypes
<1>11. WireTypes'
  BY <1>1, <1>8, <1>9, <1>10 DEF WireTypes, numbers
<1>12. StreamInv'
  <2> SUFFICES ASSUME Short'
               PROVE  StreamInv'
    BY DEF StreamInv
  <2>1. piece < 10
    BY <1>1, <1>8 DEF Short
  <2>2. 31 = 4 + (2 + n) /\ Short
    BY <1>1, <2>1 DEF Short
  <2>3. stream' = stream \o Frame(Reordered(m, host))
    BY <1>3, <1>7, <1>8, <2>2, Zenon
  <2>4. pc # "handshake" /\ pc' # "handshake" /\ UNCHANGED <<host, greeted, heard>>
    BY <1>8
  <2> QED
    BY <1>3, <1>8, <2>2, <2>3, <2>4, Sending
<1> QED
  BY <1>11, <1>12

LEMMA RequestPieceKeeps == PeerWireInv /\ RequestPiece => WireTypes' /\ StreamInv'
<1> SUFFICES ASSUME PeerWireInv, RequestPiece
             PROVE  WireTypes' /\ StreamInv'
  OBVIOUS
<1> USE DEF PeerWireInv
<1> DEFINE m == <<6>> \o Zeros(4) \o Zeros(4) \o Int32(32)
           x == PieceBytes
<1>1. m \in Seq(Byte) /\ Reordered(m, host) \in Message
  BY PieceIsFramed
<1>2. x = Frame(Reordered(m, host)) /\ x \in Word(17)
  BY PieceIsFramed
<1> HIDE DEF m, x
<1>3. Before(x, 17) = x /\ x \in Seq(Byte)
  BY <1>2, Truncated, Words
<1>4. stream' = stream \o x /\ said' = Append(said, m)
  BY <1>3 DEF RequestPiece, Sends, ArraySize, Before, x, m
<1>5. stream' \in Seq(Byte)
  BY <1>3, <1>4, StreamGrows DEF WireTypes
<1>6. said' \in Seq(Seq(Byte))
  BY <1>1, <1>4 DEF WireTypes
<1>7. WireTypes'
  BY <1>5, <1>6 DEF RequestPiece, WireTypes, States, numbers
<1>8. StreamInv'
  <2>1. /\ pc # "handshake" /\ pc' # "handshake" /\ (Short' => Short)
        /\ UNCHANGED <<host, greeted, heard>>
    BY DEF RequestPiece, Short
  <2> QED
    BY <1>1, <1>2, <1>4, <2>1, Sending
<1> QED
  BY <1>7, <1>8

(* The numbers of an answer change where no message is sent. *)
LEMMA AnswerKeeps ==
  PeerWireInv /\ (ReceiveExtended \/ ReadsNoKey \/ GetMetadata) => WireTypes' /\ StreamInv'
<1> SUFFICES ASSUME PeerWireInv, ReceiveExtended \/ ReadsNoKey \/ GetMetadata
             PROVE  WireTypes' /\ StreamInv'
  OBVIOUS
<1> USE DEF PeerWireInv
<1>1. /\ UNCHANGED <<host, piece, stream, greeted, said, heard>>
      /\ pc # "handshake" /\ pc' # "handshake" /\ pc' \in States
  BY DEF ReceiveExtended, ReadsNoKey, GetMetadata, States
<1>2. /\ metadata_size' \in Int /\ ut_metadata' \in Int /\ num_pieces' \in Int
      /\ piece # 0 => num_pieces' = num_pieces
  <2>1. CASE ReceiveExtended
    <3>1. piece = 0
      BY <2>1 DEF ReceiveExtended, NumberInv
    <3>2. PICK r \in Answers :
            \E size \in NumbersUnder(r, metadata_sizei), ut \in NumbersUnder(r, ut_metadatai) :
              IF size # 0
              THEN /\ metadata_size' = size /\ ut_metadata' = ut
                   /\ num_pieces' = Pieces(size)
              ELSE UNCHANGED numbers
      BY <2>1 DEF ReceiveExtended
    <3>3. PICK size \in NumbersUnder(r, metadata_sizei), ut \in NumbersUnder(r, ut_metadatai) :
            IF size # 0
            THEN /\ metadata_size' = size /\ ut_metadata' = ut
                 /\ num_pieces' = Pieces(size)
            ELSE UNCHANGED numbers
      BY <3>2
    <3>4. size \in Int /\ ut \in Int
      BY NumbersAreInt DEF TwoKeys
    <3>5. Pieces(size) \in Int
      BY <3>4 DEF Pieces
    <3> QED
      BY <3>1, <3>3, <3>4, <3>5 DEF WireTypes, numbers
  <2>2. CASE ReadsNoKey \/ GetMetadata
    BY <2>2 DEF ReadsNoKey, GetMetadata, WireTypes, numbers
  <2> QED
    BY <2>1, <2>2
<1>3. WireTypes'
  BY <1>1, <1>2 DEF WireTypes
<1>4. StreamInv'
  BY <1>1, StreamStays
<1> QED
  BY <1>3, <1>4

-----------------------------------------------------------------------------
(* The peer reads *)

LEMMA PeerGreetedKeeps == PeerWireInv /\ PeerGreeted => WireTypes' /\ StreamInv'
<1> SUFFICES ASSUME PeerWireInv, PeerGreeted
             PROVE  WireTypes' /\ StreamInv'
  OBVIOUS
<1> USE DEF PeerWireInv
<1>1. pc # "handshake" /\ heard = <<>> /\ ~greeted /\ greeted'
  BY DEF PeerGreeted, WireTypes
<1>2. stream' = SubSeq(stream, 69, Len(stream)) /\ stream \in Seq(Byte)
  BY DEF PeerGreeted, WireTypes
<1>3. stream' \in Seq(Byte)
  BY <1>2
<1>4. WireTypes'
  BY <1>1, <1>3 DEF PeerGreeted, WireTypes, numbers
<1>5. ASSUME NEW messages, NEW rest, Unread(messages, rest)
      PROVE  Unread(messages, rest)'
  <2> DEFINE g == HandshakeBytes
             r == rest[0]
  <2>1. stream = g \o r
    BY <1>1, <1>5 DEF Unread
  <2>2. r \in Seq(Byte)
    BY <1>5 DEF Unread, OneByOne
  <2>3. g \in Seq(Byte) /\ Len(g) + 1 = 69
    BY GreetingBytes, Words
  <2> HIDE DEF g, r
  <2>4. SubSeq(g \o r, Len(g) + 1, Len(g \o r)) = r
    BY <2>2, <2>3, TakenApart
  <2>5. stream' = r
    BY <1>2, <2>1, <2>3, <2>4
  <2>6. Len(heard) = 0 /\ heard' = heard
    BY <1>1 DEF PeerGreeted
  <2>7. stream' = rest[Len(heard')]
    BY <2>5, <2>6 DEF r
  <2>8. UNCHANGED <<host, said, heard>>
    BY DEF PeerGreeted
  <2> QED
    BY <1>1, <1>5, <2>7, <2>8 DEF Unread
<1>6. StreamInv'
  BY <1>5 DEF StreamInv, Short, PeerGreeted
<1> QED
  BY <1>4, <1>6

(* As long as something said was not heard, all of the next message is there. *)
LEMMA NextWaits ==
  ASSUME PeerWireInv, greeted, NEW messages, NEW rest, Unread(messages, rest)
  PROVE  LET k == Len(heard)
         IN /\ k = Len(said) => stream = <<>>
            /\ k # Len(said) =>
                 /\ k + 1 \in 1..Len(said) /\ MessageWaits
                 /\ SubSeq(stream, 5, 4 + NextLength) = messages[k + 1]
                 /\ SubSeq(stream, 5 + NextLength, Len(stream)) = rest[k + 1]
<1> DEFINE k == Len(heard)
<1>1. /\ k \in Nat /\ Len(said) \in Nat /\ k <= Len(said) /\ Len(messages) = Len(said)
      /\ stream = rest[k]
      /\ messages \in Seq(Message) /\ rest \in [0..Len(said) -> Seq(Byte)]
      /\ rest[Len(said)] = <<>>
      /\ \A n \in 1..Len(said) : rest[n - 1] = Frame(messages[n]) \o rest[n]
  <2>1. heard \in Seq(Seq(Byte)) /\ said \in Seq(Seq(Byte))
    BY DEF PeerWireInv, WireTypes
  <2>2. k \in Nat /\ Len(said) \in Nat
    BY <2>1
  <2>3. OneByOne(messages, rest) /\ Len(messages) = Len(said) /\ k <= Len(said)
    BY Zenon DEF Unread
  <2>4. stream = rest[k]
    BY Zenon DEF Unread
  <2> HIDE DEF k
  <2> QED
    BY <2>2, <2>3, <2>4, Zenon DEF OneByOne
<1>2. k = Len(said) => stream = <<>>
  BY <1>1
<1>3. ASSUME k # Len(said)
      PROVE  /\ k + 1 \in 1..Len(said) /\ MessageWaits
             /\ SubSeq(stream, 5, 4 + NextLength) = messages[k + 1]
             /\ SubSeq(stream, 5 + NextLength, Len(stream)) = rest[k + 1]
  <2>1. k + 1 \in 1..Len(said) /\ (k + 1) - 1 = k /\ k + 1 \in 0..Len(said)
    BY <1>1, <1>3
  <2> DEFINE m == messages[k + 1]
             r == rest[k + 1]
  <2> HIDE DEF k
  <2>2. stream = Frame(m) \o r /\ m \in Message /\ r \in Seq(Byte)
    <3>1. rest[(k + 1) - 1] = Frame(m) \o r
      BY <1>1, <2>1, Zenon
    <3>2. m \in Message
      BY <1>1, <2>1
    <3>3. r \in Seq(Byte)
      BY <1>1, <2>1
    <3> QED
      BY <1>1, <2>1, <3>1, <3>2, <3>3, Zenon
  <2> HIDE DEF m, r
  <2>3. /\ stream \in Seq(Byte) /\ Len(stream) >= 4 + Len(m)
        /\ stream[1] = 0 /\ stream[2] = 0 /\ Length(stream) = Len(m)
        /\ Taken(stream, Len(m)) = m /\ Left(stream, Len(m)) = r
    BY <2>2, FrameIsRead, Zenon
  <2>4. Len(m) \in Nat /\ Len(stream) \in Nat
    <3>1. m \in Seq(Byte) /\ stream \in Seq(Byte)
      BY <2>2, <2>3 DEF Message
    <3> QED
      BY <3>1
  <2>5. Len(stream) >= 4
    BY <2>3, <2>4
  <2>6. NextLength = Len(m)
    BY <2>3 DEF NextLength, Length
  <2>7. MessageWaits
    BY <2>3, <2>5, <2>6, Zenon DEF MessageWaits
  <2>8. /\ SubSeq(stream, 5, 4 + NextLength) = Taken(stream, NextLength)
        /\ SubSeq(stream, 5 + NextLength, Len(stream)) = Left(stream, NextLength)
    BY DEF Taken, Left
  <2> QED
    BY <2>1, <2>3, <2>7, <2>6, <2>8 DEF m, r
<1> QED
  BY <1>2, <1>3

LEMMA PeerReadsKeeps == PeerWireInv /\ PeerReads => WireTypes' /\ StreamInv'
<1> SUFFICES ASSUME PeerWireInv, PeerReads
             PROVE  WireTypes' /\ StreamInv'
  OBVIOUS
<1> USE DEF PeerWireInv
<1> DEFINE l == NextLength
           k == Len(heard)
<1>1. /\ greeted /\ pc # "handshake"
      /\ heard' = Append(heard, SubSeq(stream, 5, 4 + l))
      /\ stream' = SubSeq(stream, 5 + l, Len(stream))
      /\ UNCHANGED <<host, pc, answer, numbers, piece, greeted, said>>
  BY DEF PeerReads, MessageWaits, WireTypes
<1>2. /\ stream \in Seq(Byte) /\ Len(stream) >= 4 /\ Len(stream) >= 4 + l
      /\ heard \in Seq(Seq(Byte)) /\ said \in Seq(Seq(Byte))
  BY DEF PeerReads, MessageWaits, WireTypes
<1>3. l \in Nat
  <2>1. stream[3] \in Byte /\ stream[4] \in Byte
    BY <1>2
  <2>2. \A x, y \in Byte : x * 256 + y \in Nat
    BY DEF Byte
  <2> QED
    BY <2>1, <2>2, Zenon DEF NextLength
<1> HIDE DEF l
<1>4. SubSeq(stream, 5, 4 + l) \in Seq(Byte) /\ SubSeq(stream, 5 + l, Len(stream)) \in Seq(Byte)
  BY <1>2, <1>3
<1>5. heard' \in Seq(Seq(Byte)) /\ stream' \in Seq(Byte)
  BY <1>1, <1>2, <1>4
<1>6. WireTypes'
  BY <1>1, <1>5 DEF WireTypes, numbers
<1>7. ASSUME NEW messages, NEW rest, Unread(messages, rest)
      PROVE  Unread(messages, rest)'
  <2>1. k # Len(said)
    <3>1. stream # <<>>
      BY <1>2
    <3> QED
      BY <1>1, <1>7, <3>1, NextWaits
  <2>2. /\ k + 1 \in 1..Len(said)
        /\ SubSeq(stream, 5, 4 + l) = messages[k + 1]
        /\ SubSeq(stream, 5 + l, Len(stream)) = rest[k + 1]
    BY <1>1, <1>7, <2>1, NextWaits, Zenon DEF l
  <2>3. heard' = Append(heard, messages[k + 1]) /\ stream' = rest[k + 1]
    BY <1>1, <2>2
  <2>4. k \in Nat /\ Len(said) \in Nat /\ Len(heard') = k + 1 /\ k + 1 <= Len(said)
    BY <1>2, <2>2, <2>3
  <2>5. \A n \in 1..Len(heard') : heard'[n] = messages[n]
    <3>1. TAKE n \in 1..Len(heard')
    <3>2. CASE n \in 1..k
      <4>1. heard'[n] = heard[n] /\ heard[n] = messages[n]
        BY <1>2, <1>7, <2>3, <3>2 DEF Unread
      <4> QED
        BY <4>1
    <3>3. CASE n \notin 1..k
      <4>1. n = k + 1
        BY <2>4, <3>3
      <4> QED
        BY <1>2, <2>3, <4>1
    <3> QED
      BY <3>2, <3>3
  <2>6. stream' = rest[Len(heard')]
    BY <2>3, <2>4
  <2> HIDE DEF k
  <2> QED
    BY <1>1, <1>7, <2>4, <2>5, <2>6 DEF Unread
<1>8. StreamInv'
  BY <1>1, <1>7 DEF StreamInv, Short
<1> QED
  BY <1>6, <1>8

-----------------------------------------------------------------------------
LEMMA StreamBegins == Init => PeerWireInv
<1> SUFFICES ASSUME Init
             PROVE  PeerWireInv
  OBVIOUS
<1>1. WireTypes /\ NumberInv
  BY NumbersBegin, PeerWireAssumption DEF Init, WireTypes, States
<1>2. Unread(<<>>, [n \in 0..0 |-> <<>>])
  BY DEF Init, Unread, OneByOne
<1> QED
  BY <1>1, <1>2 DEF PeerWireInv, StreamInv

LEMMA StreamGoesOn == PeerWireInv /\ [Next]_vars => PeerWireInv'
<1> SUFFICES ASSUME PeerWireInv, [Next]_vars
             PROVE  PeerWireInv'
  OBVIOUS
<1>1. NumberInv'
  BY NumbersStay DEF PeerWireInv
<1>2. CASE SendHandshake
  BY <1>1, <1>2, SendHandshakeKeeps DEF PeerWireInv
<1>3. CASE SendExtended
  BY <1>1, <1>3, SendExtendedKeeps DEF PeerWireInv
<1>4. CASE ReceiveExtended \/ ReadsNoKey \/ GetMetadata
  BY <1>1, <1>4, AnswerKeeps DEF PeerWireInv
<1>5. CASE RequestMetadata
  BY <1>1, <1>5, RequestMetadataKeeps DEF PeerWireInv
<1>6. CASE RequestPiece
  BY <1>1, <1>6, RequestPieceKeeps DEF PeerWireInv
<1>7. CASE PeerGreeted
  BY <1>1, <1>7, PeerGreetedKeeps DEF PeerWireInv
<1>8. CASE PeerReads
  BY <1>1, <1>8, PeerReadsKeeps DEF PeerWireInv
<1>9. CASE UNCHANGED vars
  <2>1. WireTypes'
    BY <1>9 DEF vars, numbers, PeerWireInv, WireTypes
  <2>2. ASSUME NEW messages, NEW rest, Unread(messages, rest)
        PROVE  Unread(messages, rest)'
    BY <1>9, <2>2 DEF vars, Unread
  <2> QED
    BY <1>1, <1>9, <2>1, <2>2 DEF PeerWireInv, StreamInv, Short, vars
<1> QED
  BY <1>2, <1>3, <1>4, <1>5, <1>6, <1>7, <1>8, <1>9 DEF Next

LEMMA StreamHolds == PeerWireInv => HeardAsSaid /\ TypeOK
<1> SUFFICES ASSUME PeerWireInv
             PROVE  HeardAsSaid /\ TypeOK
  OBVIOUS
<1>1. ASSUME NEW messages, NEW rest, Unread(messages, rest)
      PROVE  /\ Len(heard) <= Len(said)
             /\ \A n \in DOMAIN heard : heard[n] = AsSent(said[n])
             /\ greeted /\ ~MessageWaits => stream = <<>> /\ Len(heard) = Len(said)
  <2>1. Len(heard) \in Nat /\ Len(said) \in Nat /\ DOMAIN heard = 1..Len(heard)
    BY DEF PeerWireInv, WireTypes
  <2>2. Len(heard) <= Len(said)
    BY <1>1 DEF Unread
  <2>3. ASSUME NEW n \in DOMAIN heard
        PROVE  heard[n] = AsSent(said[n])
    <3>1. n \in 1..Len(heard) /\ n \in 1..Len(said)
      BY <2>1, <2>2
    <3>2. heard[n] = messages[n] /\ messages[n] = Reordered(said[n], host)
      BY <1>1, <3>1, Zenon DEF Unread
    <3> QED
      BY <3>2, SentReordered
  <2>4. greeted /\ ~MessageWaits => stream = <<>> /\ Len(heard) = Len(said)
    BY <1>1, NextWaits
  <2> QED
    BY <2>2, <2>3, <2>4
<1>2. HeardAsSaid
  BY <1>1 DEF PeerWireInv, StreamInv, HeardAsSaid, FramesLineUp
<1>3. TypeOK
  BY PeerWireAssumption DEF PeerWireInv, WireTypes, TypeOK, States
<1> QED
  BY <1>2, <1>3

(* Every variable has its type, and what goes over the stream are bytes. *)
THEOREM PeerWireTypes == Spec => []TypeOK
<1> QED
  BY StreamBegins, StreamGoesOn, StreamHolds, PTL DEF Spec

(* With at most ten pieces of metadata the peer hears, in their order and from a
   host of either byte order, the messages the client means, except that the
   length of the block it is asked for lies as in the memory of the client, and
   whenever no message is complete nothing is left over
   (peer_extended_handshake_packet.c:34-58, peer_metadata_packet.c:37-64,
   peer_request_piece_packet.c:34-62, peer.c:97-309).                         *)
THEOREM MessagesAreHeard == Spec => []HeardAsSaid
<1> QED
  BY StreamBegins, StreamGoesOn, StreamHolds, PTL DEF Spec

=============================================================================
