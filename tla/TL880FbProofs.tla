------------------------------ MODULE TL880FbProofs ------------------------------
(***************************************************************************)
(* Theorems about the display and the framebuffer module (TL880Fb) and the *)
(* numbers it programs (TL880Modes), for every set of sources and every    *)
(* number of descriptors.                                                  *)
(***************************************************************************)
EXTENDS TL880Fb, TLAPS

-------------------------------------------------------------------------------
(* The lists of steps. *)

\* w is what is left of the list.
IsRest(w, list) ==
  /\ Len(w) <= Len(list)
  /\ \A i \in 1..Len(w) : w[i] = list[(Len(list) - Len(w)) + i]

\* The next step of a rest is the list's, and what follows it is a rest.
LEMMA RestSteps ==
  ASSUME NEW S, NEW w \in Seq(S), NEW list \in Seq(S), IsRest(w, list), w # <<>>
  PROVE  /\ Len(w) \in 1..Len(list)
         /\ Head(w) = list[(Len(list) - Len(w)) + 1]
         /\ Tail(w) \in Seq(S)
         /\ Len(Tail(w)) = Len(w) - 1
         /\ IsRest(Tail(w), list)
<1>1. Len(w) \in 1..Len(list)
  BY DEF IsRest
<1>2. Head(w) = list[(Len(list) - Len(w)) + 1]
  BY <1>1 DEF IsRest
<1>3. Tail(w) \in Seq(S) /\ Len(Tail(w)) = Len(w) - 1
  OBVIOUS
<1>4. \A i \in 1..Len(Tail(w)) : Tail(w)[i] = list[(Len(list) - Len(Tail(w))) + i]
  <2> TAKE i \in 1..Len(Tail(w))
  <2>1. Tail(w)[i] = w[i + 1] /\ i + 1 \in 1..Len(w)
    BY <1>3
  <2>2. w[i + 1] = list[(Len(list) - Len(w)) + (i + 1)]
    BY <2>1 DEF IsRest
  <2>3. (Len(list) - Len(w)) + (i + 1) = (Len(list) - Len(Tail(w))) + i
    BY <1>1, <1>3
  <2> QED BY <2>1, <2>2, <2>3
<1> QED BY <1>1, <1>2, <1>3, <1>4 DEF IsRest

\* A list is a rest of itself, and so is nothing.
LEMMA RestOfItself ==
  ASSUME NEW S, NEW list \in Seq(S)
  PROVE  /\ IsRest(list, list)
         /\ IsRest(<<>>, list)
<1>1. \A i \in 1..Len(list) : (Len(list) - Len(list)) + i = i
  OBVIOUS
<1> QED BY <1>1 DEF IsRest

\* q is the beginning of the list, of n steps.
Begins(q, n, list) ==
  /\ q \in Seq(FbStep)
  /\ Len(q) = n
  /\ \A i \in 1..n : q[i] = list[i]

\* One more step of the list.
LEMMA OneMore ==
  ASSUME NEW list \in Seq(FbStep), NEW n \in Nat, n < Len(list),
         NEW q, Begins(q, n, list), NEW m, m = n + 1, NEW a, a = list[m]
  PROVE  Begins(q \o <<a>>, m, list)
<1>1. q \in Seq(FbStep) /\ <<a>> \in Seq(FbStep) /\ Len(q) = n
  BY DEF Begins
<1>2. q \o <<a>> \in Seq(FbStep) /\ Len(q \o <<a>>) = n + 1
  BY <1>1
<1>3. \A i \in 1..n : (q \o <<a>>)[i] = q[i]
  BY <1>1
<1>4. (q \o <<a>>)[n + 1] = a
  BY <1>1
<1> QED BY <1>2, <1>3, <1>4 DEF Begins

\* Where the elements of two sequences are in their concatenation.
LEMMA Joined ==
  ASSUME NEW T, NEW s \in Seq(T), NEW t \in Seq(T)
  PROVE  /\ s \o t \in Seq(T)
         /\ Len(s \o t) = Len(s) + Len(t)
         /\ \A i \in 1..Len(s) : (s \o t)[i] = s[i]
         /\ \A i \in 1..Len(t) : (s \o t)[Len(s) + i] = t[i]
OBVIOUS

\* Two more, a read and a write.
LEMMA TwoMore ==
  ASSUME NEW list \in Seq(FbStep), NEW n \in Nat, n + 1 < Len(list),
         NEW q, Begins(q, n, list), NEW m, m = n + 2,
         NEW a, a = list[n + 1], NEW b, b = list[m]
  PROVE  Begins(q \o (<<a>> \o <<b>>), m, list)
<1>1. q \in Seq(FbStep) /\ Len(q) = n /\ a \in FbStep /\ b \in FbStep
  BY DEF Begins
<1> DEFINE t == <<a>> \o <<b>>
<1>2. t \in Seq(FbStep) /\ Len(t) = 2 /\ t[1] = a /\ t[2] = b
  BY <1>1
<1> HIDE DEF t
<1>3. /\ q \o t \in Seq(FbStep)
      /\ Len(q \o t) = Len(q) + Len(t)
      /\ \A i \in 1..Len(q) : (q \o t)[i] = q[i]
      /\ \A i \in 1..Len(t) : (q \o t)[Len(q) + i] = t[i]
  <2>1. q \in Seq(FbStep) /\ t \in Seq(FbStep)
    BY <1>1, <1>2
  <2> QED BY <2>1, Joined
<1>5. (q \o t)[n + 1] = a /\ (q \o t)[n + 2] = b
  BY <1>1, <1>2, <1>3
<1>6. Begins(q \o t, m, list)
  <2>1. Len(q \o t) = m
    BY <1>1, <1>2, <1>3
  <2>2. ASSUME NEW i \in 1..m PROVE (q \o t)[i] = list[i]
    <3>1. i \in 1..n \/ i = n + 1 \/ i = m
      OBVIOUS
    <3>2. \A j \in 1..n : q[j] = list[j]
      BY DEF Begins
    <3> QED BY <1>1, <1>3, <1>5, <3>1, <3>2
  <2> QED BY <1>3, <2>1, <2>2 DEF Begins
<1> QED BY <1>6 DEF t

S(name)   == [do |-> name, bit |-> 0, on |-> 0]
W(bit, on) == [do |-> "write", bit |-> bit, on |-> on]

FbList ==
  <<S("mailbox"), S("lines"), S("sync"), S("hscale"), S("vscale"), S("read"), W(OSD, 0),
    S("list"), S("position"), S("clear"), S("read"), W(OSD, 1), S("read"), W(7, 0),
    S("read"), W(5, 1)>>

\* The module's start has sixteen steps, the places of which are known by their names.
LEMMA FbPlan ==
  /\ FbSteps \in Seq(FbStep)
  /\ Len(FbSteps) = 16
  /\ \A i \in 1..16 :
       /\ FbSteps[i].do = "mailbox" => i = 1
       /\ FbSteps[i].do = "lines" => i = 2
       /\ FbSteps[i].do = "sync" => i = 3
       /\ FbSteps[i].do = "hscale" => i = 4
       /\ FbSteps[i].do = "vscale" => i = 5
       /\ FbSteps[i].do = "list" => i = 8
       /\ FbSteps[i].do = "position" => i = 9
       /\ FbSteps[i].do = "clear" => i = 10
       /\ FbSteps[i].do = "read" => i \in {6, 11, 13, 15}
       /\ FbSteps[i].do = "write" => i \in {7, 12, 14, 16}
       /\ i = 7 => FbSteps[i].bit = OSD /\ FbSteps[i].on = 0
       /\ FbSteps[i].on = 1 => FbSteps[i].bit \in ControlBits
<1>1. /\ \A n \in FbStepNames : S(n) \in FbStep
      /\ \A b \in ControlBits, o \in {0, 1} : W(b, o) \in FbStep
  BY DEF FbStep, FbStepNames, S, W
<1>2. OSD \in ControlBits /\ 7 \in ControlBits /\ 5 \in ControlBits
  BY DEF OSD, ControlBits
<1>3. /\ S("mailbox") \in FbStep /\ S("lines") \in FbStep /\ S("sync") \in FbStep
      /\ S("hscale") \in FbStep /\ S("vscale") \in FbStep /\ S("read") \in FbStep
      /\ S("list") \in FbStep /\ S("position") \in FbStep /\ S("clear") \in FbStep
      /\ W(OSD, 0) \in FbStep /\ W(OSD, 1) \in FbStep /\ W(7, 0) \in FbStep /\ W(5, 1) \in FbStep
  BY <1>1, <1>2 DEF FbStepNames
<1>4. FbList \in Seq(FbStep) /\ Len(FbList) = 16
  BY <1>3 DEF FbList
<1>5. /\ FbList[1] = S("mailbox") /\ FbList[2] = S("lines") /\ FbList[3] = S("sync")
      /\ FbList[4] = S("hscale") /\ FbList[5] = S("vscale") /\ FbList[6] = S("read")
      /\ FbList[7] = W(OSD, 0) /\ FbList[8] = S("list") /\ FbList[9] = S("position")
      /\ FbList[10] = S("clear") /\ FbList[11] = S("read") /\ FbList[12] = W(OSD, 1)
      /\ FbList[13] = S("read") /\ FbList[14] = W(7, 0) /\ FbList[15] = S("read")
      /\ FbList[16] = W(5, 1)
  BY DEF FbList
<1> DEFINE q1 == <<S("mailbox")>>
           q2 == q1 \o <<S("lines")>>
           q3 == q2 \o <<S("sync")>>
           q4 == q3 \o <<S("hscale")>>
           q5 == q4 \o <<S("vscale")>>
           q7 == q5 \o (<<S("read")>> \o <<W(OSD, 0)>>)
           q8 == q7 \o <<S("list")>>
           q9 == q8 \o <<S("position")>>
           q10 == q9 \o <<S("clear")>>
           q12 == q10 \o (<<S("read")>> \o <<W(OSD, 1)>>)
           q14 == q12 \o (<<S("read")>> \o <<W(7, 0)>>)
           q16 == q14 \o (<<S("read")>> \o <<W(5, 1)>>)
<1>6. FbSteps = q16
  BY DEF FbSteps, AuxReset, Rmw, Do, S, W
<1> HIDE DEF q2, q3, q4, q5, q7, q8, q9, q10, q12, q14, q16
<1>7. Begins(q1, 1, FbList)
  BY <1>3, <1>5 DEF Begins
<1>8. Begins(q2, 2, FbList)
  BY <1>4, <1>5, <1>7, OneMore DEF q2
<1>9. Begins(q3, 3, FbList)
  BY <1>4, <1>5, <1>8, OneMore DEF q3
<1>10. Begins(q4, 4, FbList)
  BY <1>4, <1>5, <1>9, OneMore DEF q4
<1>11. Begins(q5, 5, FbList)
  BY <1>4, <1>5, <1>10, OneMore DEF q5
<1>12. Begins(q7, 7, FbList)
  BY <1>4, <1>5, <1>11, TwoMore, SMTT(60) DEF q7
<1>13. Begins(q8, 8, FbList)
  BY <1>4, <1>5, <1>12, OneMore DEF q8
<1>14. Begins(q9, 9, FbList)
  BY <1>4, <1>5, <1>13, OneMore DEF q9
<1>15. Begins(q10, 10, FbList)
  BY <1>4, <1>5, <1>14, OneMore DEF q10
<1>16. Begins(q12, 12, FbList)
  BY <1>4, <1>5, <1>15, TwoMore, SMTT(60) DEF q12
<1>17. Begins(q14, 14, FbList)
  BY <1>4, <1>5, <1>16, TwoMore, SMTT(60) DEF q14
<1>18. Begins(q16, 16, FbList)
  BY <1>4, <1>5, <1>17, TwoMore, SMTT(60) DEF q16
<1>19. FbSteps \in Seq(FbStep) /\ Len(FbSteps) = 16 /\ \A i \in 1..16 : FbSteps[i] = FbList[i]
  BY <1>6, <1>18 DEF Begins
<1> QED BY <1>2, <1>19 DEF FbList, S, W

\* A run of the tool has six.
LEMMA ToolPlan ==
  /\ DpcSyncSteps \in Seq(FbStep)
  /\ Len(DpcSyncSteps) = 6
  /\ \A i \in 1..6 :
       /\ DpcSyncSteps[i].do = "mailbox" => i = 1
       /\ DpcSyncSteps[i].do = "lines" => i = 2
       /\ DpcSyncSteps[i].do = "sync" => i = 3
       /\ DpcSyncSteps[i].do = "hscale" => i = 4
       /\ DpcSyncSteps[i].do = "vscale" => i = 5
       /\ DpcSyncSteps[i].do = "control" => i = 6
<1> DEFINE list == <<S("mailbox"), S("lines"), S("sync"), S("hscale"), S("vscale"), S("control")>>
<1>1. \A n \in FbStepNames : S(n) \in FbStep
  BY DEF FbStep, FbStepNames, S
<1>2. /\ S("mailbox") \in FbStep /\ S("lines") \in FbStep /\ S("sync") \in FbStep
      /\ S("hscale") \in FbStep /\ S("vscale") \in FbStep /\ S("control") \in FbStep
  BY <1>1 DEF FbStepNames
<1>3. /\ list \in Seq(FbStep) /\ Len(list) = 6
      /\ list[1] = S("mailbox") /\ list[2] = S("lines") /\ list[3] = S("sync")
      /\ list[4] = S("hscale") /\ list[5] = S("vscale") /\ list[6] = S("control")
  BY <1>2
<1> DEFINE q1 == <<S("mailbox")>>
           q2 == q1 \o <<S("lines")>>
           q3 == q2 \o <<S("sync")>>
           q4 == q3 \o <<S("hscale")>>
           q5 == q4 \o <<S("vscale")>>
           q6 == q5 \o <<S("control")>>
<1>4. DpcSyncSteps = q6
  BY DEF DpcSyncSteps, AuxReset, Do, S
<1> HIDE DEF list, q2, q3, q4, q5, q6
<1>5. Begins(q1, 1, list)
  BY <1>2, <1>3 DEF Begins
<1>6. Begins(q2, 2, list)
  BY <1>3, <1>5, OneMore DEF q2
<1>7. Begins(q3, 3, list)
  BY <1>3, <1>6, OneMore DEF q3
<1>8. Begins(q4, 4, list)
  BY <1>3, <1>7, OneMore DEF q4
<1>9. Begins(q5, 5, list)
  BY <1>3, <1>8, OneMore DEF q5
<1>10. Begins(q6, 6, list)
  BY <1>3, <1>9, OneMore DEF q6
<1>11. /\ DpcSyncSteps \in Seq(FbStep) /\ Len(DpcSyncSteps) = 6
       /\ \A i \in 1..6 : DpcSyncSteps[i] = list[i]
  BY <1>4, <1>10 DEF Begins
<1> QED BY <1>3, <1>11 DEF S

-------------------------------------------------------------------------------
(* Numbers. *)

\* A quotient and its remainder.
LEMMA Quotient ==
  ASSUME NEW n \in Nat, NEW w \in Nat \ {0}
  PROVE  /\ n \div w \in Nat
         /\ (n \div w) * w - n \in (1 - w)..0
<1>1. n = w * (n \div w) + (n % w) /\ n % w \in 0..(w - 1) /\ n \div w \in Nat
  OBVIOUS
<1> DEFINE q == n \div w
<1>2. q \in Int /\ w * q = q * w
  BY <1>1, SMT
<1>3. w * q \in Int /\ q * w \in Int
  BY <1>2, SMT
<1> HIDE DEF q
<1>4. q * w - n \in (1 - w)..0
  BY <1>1, <1>2, <1>3 DEF q
<1> QED BY <1>1, <1>4 DEF q

\* What twelve bits keep of t less a multiple of 256.
Kept(t, m) == (t - 256 * m) % 4096

\* They say t exactly when the multiple is one of 4096.
LEMMA TwelveBits ==
  ASSUME NEW t \in Int, -2048 <= t, t <= 2047, NEW m \in Int
  PROVE  Signed12(Kept(t, m)) = t <=> m % 16 = 0
<1>1. PICK e \in Int : m = 16 * e + (m % 16) /\ m % 16 \in 0..15
  <2>1. m = 16 * (m \div 16) + (m % 16) /\ m % 16 \in 0..15 /\ m \div 16 \in Int
    OBVIOUS
  <2> QED BY <2>1
<1>2. PICK r \in Int : r = Kept(t, m) /\ 0 <= r /\ r < 4096 /\ r \in Nat
  BY DEF Kept
<1>3. PICK d \in Int : t - 256 * m = 4096 * d + r
  BY <1>2 DEF Kept
<1>4. Signed12(r) = IF r < 2048 THEN r ELSE r - 4096
  BY DEF Signed12
<1>5. PICK x \in Int : x = m % 16 /\ 0 <= x /\ x < 16 /\ m = 16 * e + x
  BY <1>1
<1>6. t - r = 4096 * (d + e) + 256 * x
  BY <1>3, <1>5
<1>7. Signed12(r) = t => x = 0
  BY <1>2, <1>4, <1>5, <1>6
<1>8. x = 0 => Signed12(r) = t
  BY <1>2, <1>4, <1>5, <1>6
<1> QED BY <1>2, <1>5, <1>7, <1>8

\* Widths that twelve bits with a sign can hold.
Widths == 1..2047

\* The scaler's words for every source and every width that twelve bits with a sign can
\* hold: the step's lost bits do no harm exactly when Representable says so.
LEMMA ScalerExact ==
  ASSUME NEW w \in Widths, NEW a \in Nat
  PROVE  Representable(w, a) <=> Exact(w, a, Scaler(w, a))
<1> USE DEF Widths
<1>1. PICK q \in Nat : q = (256 * a) \div w /\ q * w - 256 * a \in (1 - w)..0
  <2>1. 256 * a \in Nat /\ w \in Nat \ {0}
    OBVIOUS
  <2> QED BY <2>1, Quotient
<1>2. PICK k \in Nat : k = q \div 256
  OBVIOUS
<1>3. PICK s \in 0..255 : s = q % 256 /\ q = 256 * k + s
  BY <1>2
<1>4. PICK m \in Int : m = k * w
  BY SMT
<1>5. PICK t \in Int : t = q * w - 256 * a
  BY SMT
<1>t. t \in -2047..0 /\ t + w \in 1..2047
  <2>2. 1 - w <= t /\ t <= 0
    BY <1>1, <1>5
  <2>3. w \in Int /\ w <= 2047 /\ 1 <= w
    OBVIOUS
  <2> QED BY <2>2, <2>3
<1>6. PICK p \in Int : p = s * w
  BY SMT
<1>7. q * w = 256 * m + p
  <2>1. q * w = (256 * k) * w + s * w
    BY <1>3, SMT
  <2> QED BY <2>1, <1>4, <1>6, SMT
<1>8. (s + 1) * w = p + w /\ (q + 1) * w = q * w + w
  BY <1>6, SMT
<1>9. q * w \in Int /\ (s + 1) * w \in Int /\ (q + 1) * w \in Int /\ s * w \in Int
  BY SMT
<1>10. s * w + 3840 * a = (t - 256 * m) + 4096 * a
  BY <1>5, <1>6, <1>7, <1>9
<1>11. (s + 1) * w - 256 * a = (t + w) - 256 * m
  BY <1>5, <1>7, <1>8, <1>9
<1>12. ((t - 256 * m) + 4096 * a) % 4096 = (t - 256 * m) % 4096
  OBVIOUS
<1> DEFINE f == Scaler(w, a)
<1>13. /\ f.step = s
       /\ f.top = (t - 256 * m) % 4096
       /\ f.mid = ((t + w) - 256 * m) % 4096
  <2>1. ((256 * a) \div w) % 256 = s
    BY <1>1, <1>3
  <2>2. f = Word12(s * w + 3840 * a, (s + 1) * w - 256 * a, s)
    BY <2>1 DEF Scaler
  <2>3. /\ f.step = s % 256
        /\ f.top = (s * w + 3840 * a) % 4096
        /\ f.mid = ((s + 1) * w - 256 * a) % 4096
    BY <2>2 DEF Word12
  <2>4. s % 256 = s
    OBVIOUS
  <2> QED BY <2>3, <2>4, <1>10, <1>11, <1>12
<1> HIDE DEF f
<1>14. Exact(w, a, f) <=> /\ f.step = s
                          /\ Signed12(f.top) = t
                          /\ Signed12(f.mid) = t + w
  <2>1. (q + 1) * w - 256 * a = t + w
    <3>1. q * w - 256 * a = t /\ (q + 1) * w = q * w + w /\ q * w \in Int
      BY <1>5, <1>8, <1>9
    <3> QED BY <3>1
  <2>2. Exact(w, a, f) <=> /\ f.step = q % 256
                           /\ Signed12(f.top) = q * w - 256 * a
                           /\ Signed12(f.mid) = (q + 1) * w - 256 * a
    BY <1>1 DEF Exact
  <2>3. q % 256 = s /\ q * w - 256 * a = t
    BY <1>3, <1>5
  <2> QED BY <2>1, <2>2, <2>3
<1>15. Signed12(f.top) = t <=> m % 16 = 0
  <2>1. t \in Int /\ -2048 <= t /\ t <= 2047 /\ f.top = Kept(t, m)
    BY <1>t, <1>13 DEF Kept
  <2>2. Signed12(Kept(t, m)) = t <=> m % 16 = 0
    BY <2>1, TwelveBits
  <2> QED BY <2>1, <2>2
<1>16. Signed12(f.mid) = t + w <=> m % 16 = 0
  <2>1. t + w \in Int /\ -2048 <= t + w /\ t + w <= 2047 /\ f.mid = Kept(t + w, m)
    BY <1>t, <1>13 DEF Kept
  <2>2. Signed12(Kept(t + w, m)) = t + w <=> m % 16 = 0
    BY <2>1, TwelveBits
  <2> QED BY <2>1, <2>2
<1>17. Representable(w, a) <=> m % 16 = 0
  BY <1>1, <1>2, <1>4 DEF Representable
<1> QED BY <1>13, <1>14, <1>15, <1>16, <1>17 DEF f

\* A width that is a multiple of 16 can always be said.
LEMMA Sixteenths ==
  ASSUME NEW a \in Nat, NEW c \in Nat \ {0}, NEW w \in Widths, w = 16 * c
  PROVE  Exact(w, a, Scaler(w, a))
<1>1. PICK k \in Nat : k = ((256 * a) \div w) \div 256
  <2>0. 256 * a \in Nat /\ w \in Nat \ {0}
    BY DEF Widths
  <2>1. (256 * a) \div w \in Nat
    BY <2>0, Quotient
  <2> QED BY <2>1
<1>2. k * w = 16 * (k * c) /\ k * c \in Int
  BY SMT
<1>3. (k * w) % 16 = 0
  BY <1>2
<1>4. Representable(w, a)
  BY <1>1, <1>3 DEF Representable
<1> QED BY <1>4, ScalerExact, Zenon


\* The clock's fields come back (tl880_calc_pll and its inverse, tools/dpc).
LEMMA ClocksFitHolds == ClocksFit
<1> SUFFICES ASSUME NEW a \in {0, 1, 511, 1023}, NEW b \in {0, 1, 15, 31}, NEW c \in 0..3
             PROVE  UncalcPll(CalcPll(a, b, c)) = <<a, b, c>>
  BY DEF ClocksFit
<1>1. a \in 0..1023 /\ b \in 0..31 /\ a \in Int /\ b \in Int
  OBVIOUS
<1> DEFINE n == a * 65536 + b * 256 + c * 16
<1>2. CalcPll(a, b, c) = n
  BY <1>1 DEF CalcPll
<1>3. (n \div 65536) % 1024 = a
  BY <1>1
<1>4. (n \div 256) % 32 = b
  <2>1. n \div 256 = a * 256 + b
    BY <1>1
  <2>2. (a * 256 + b) % 32 = b
    BY <1>1
  <2> QED BY <2>1, <2>2
<1>5. (n \div 16) % 4 = c
  <2>1. n \div 16 = a * 4096 + b * 16 + c
    BY <1>1
  <2>2. (a * 4096 + b * 16 + c) % 4 = c
    BY <1>1
  <2> QED BY <2>1, <2>2
<1> QED BY <1>2, <1>3, <1>4, <1>5 DEF UncalcPll

\* The scaler's words for all overlays in the tables.
LEMMA ScalersFitHolds == ScalersFit
<1>1. \A m \in AuxModes : m[1] \in Widths /\ m[2] \in Widths
  BY DEF Widths, AuxModes, Aux1024x768p, Aux720x480p, Aux720x480i, Aux1440x1080i, Aux1280x720p, Aux1920x1080i
<1>2. \A a \in Sources : a \in Nat
  BY SourcesAssumption
<1>3. /\ Scaler(1024, 512) = Word12(0, 1024, 128)
      /\ Scaler(800, 512) = Word12(3424, 128, 163)
      /\ Scaler(1360, 512) = Word12(3584, 848, 96)
  BY DEF Scaler, Word12
<1>4. ASSUME NEW m \in AuxModes, NEW a \in Sources
      PROVE  /\ Representable(m[1], a) <=> Exact(m[1], a, Scaler(m[1], a))
             /\ Representable(m[2], a) <=> Exact(m[2], a, Scaler(m[2], a))
  <2>1. m[1] \in Widths /\ m[2] \in Widths /\ a \in Nat
    BY <1>1, <1>2
  <2> QED BY <2>1, ScalerExact, Zenon
<1> QED BY <1>3, <1>4 DEF ScalersFit

\* The number of values of each field.
Limit ==
  <<2, 2, 2, 2, 1024, 2048, 2, 2, 2, 2, 512, 2, 2, 128, 512, 8, 256, 2048, 16, 2,
    8, 256, 2048, 16, 4096, 2, 4194304, 2, 16>>
\* They are the powers of two of the fields' widths.
LEMMA Limits == Len(FieldWidths) = 29 /\ \A i \in 1..29 : 2^FieldWidths[i] = Limit[i]
<1>0. Len(FieldWidths) = 29
  BY DEF FieldWidths
<1>1. 2^1 = 2 /\ 2^3 = 8 /\ 2^4 = 16 /\ 2^7 = 128 /\ 2^8 = 256 /\ 2^9 = 512
  OBVIOUS
<1>2. 2^10 = 1024 /\ 2^11 = 2048 /\ 2^12 = 4096 /\ 2^22 = 4194304
  BY SMT
<1> QED BY <1>0, <1>1, <1>2, SMT DEF Limit, FieldWidths

\* A row of numbers below them is not cut.
LEMMA RowFits ==
  ASSUME NEW row \in [1..29 -> Nat], \A i \in 1..29 : row[i] < Limit[i]
  PROVE Packed(row) = row
<1>1. \A i \in 1..29 : Limit[i] \in Nat \ {0}
  BY SMT DEF Limit
<1>2. \A i \in 1..29 : row[i] % Limit[i] = row[i]
  <2> TAKE i \in 1..29
  <2>1. Limit[i] \in Nat \ {0} /\ row[i] \in Nat /\ row[i] < Limit[i]
    BY <1>1
  <2> QED BY <2>1
<1>3. Packed(row) = [i \in 1..29 |-> row[i] % Limit[i]]
  BY Limits DEF Packed
<1> QED BY <1>2, <1>3

\* No row of the tables is cut, and its overlay fills it.
LEMMA TimingsFitHolds == TimingsFit
<1> DEFINE Fits(row, aux) ==
      /\ Packed(row) = row
      /\ row[Progressive] = 1 <=> row[YRes2] = 0
      /\ aux = <<row[XRes], row[YRes]>>
<1> DEFINE full == <<1920, 540>>
<1>1. ASSUME NEW h \in {0, 1}, NEW v \in {0, 1}
      PROVE  Fits(Sync1024x768p(h, v), Aux1024x768p)
  <2> DEFINE row == Sync1024x768p(h, v)
  <2>1. row \in [1..29 -> Nat] /\ \A i \in 1..29 : row[i] < Limit[i]
    BY SMT DEF Sync1024x768p, Limit
  <2>2. Packed(row) = row
    <3> HIDE DEF row
    <3> QED BY <2>1, RowFits
  <2>3. row[4] = 1 /\ row[23] = 0 /\ row[6] = 1024 /\ row[18] = 768
    BY DEF Sync1024x768p
  <2> QED BY <2>2, <2>3 DEF Progressive, YRes2, XRes, YRes, Aux1024x768p
<1>2. ASSUME NEW h \in {0, 1}, NEW v \in {0, 1}
      PROVE  Fits(FbSync1024x768p(h, v), FbAux1024x768p)
  <2> DEFINE row == FbSync1024x768p(h, v)
  <2>1. row \in [1..29 -> Nat] /\ \A i \in 1..29 : row[i] < Limit[i]
    BY SMT DEF FbSync1024x768p, Limit
  <2>2. Packed(row) = row
    <3> HIDE DEF row
    <3> QED BY <2>1, RowFits
  <2>3. row[4] = 1 /\ row[23] = 0 /\ row[6] = 1024 /\ row[18] = 768
    BY DEF FbSync1024x768p
  <2> QED BY <2>2, <2>3 DEF Progressive, YRes2, XRes, YRes, FbAux1024x768p
<1>3. ASSUME NEW h \in {0, 1}, NEW v \in {0, 1}
      PROVE  Fits(Sync720x480i(h, v), Aux720x480i)
  <2> DEFINE row == Sync720x480i(h, v)
  <2>1. row \in [1..29 -> Nat] /\ \A i \in 1..29 : row[i] < Limit[i]
    BY SMT DEF Sync720x480i, Limit
  <2>2. Packed(row) = row
    <3> HIDE DEF row
    <3> QED BY <2>1, RowFits
  <2>3. row[4] = 0 /\ row[23] = 243 /\ row[6] = 720 /\ row[18] = 243
    BY DEF Sync720x480i
  <2> QED BY <2>2, <2>3 DEF Progressive, YRes2, XRes, YRes, Aux720x480i
<1>4. ASSUME NEW h \in {0, 1}, NEW v \in {0, 1}
      PROVE  Fits(Sync720x480p(h, v), Aux720x480p)
  <2> DEFINE row == Sync720x480p(h, v)
  <2>1. row \in [1..29 -> Nat] /\ \A i \in 1..29 : row[i] < Limit[i]
    BY SMT DEF Sync720x480p, Limit
  <2>2. Packed(row) = row
    <3> HIDE DEF row
    <3> QED BY <2>1, RowFits
  <2>3. row[4] = 1 /\ row[23] = 0 /\ row[6] = 720 /\ row[18] = 483
    BY DEF Sync720x480p
  <2> QED BY <2>2, <2>3 DEF Progressive, YRes2, XRes, YRes, Aux720x480p
<1>5. ASSUME NEW h \in {0, 1}, NEW v \in {0, 1}
      PROVE  Fits(Sync1920x1080i(h, v), full)
  <2> DEFINE row == Sync1920x1080i(h, v)
  <2>1. row \in [1..29 -> Nat] /\ \A i \in 1..29 : row[i] < Limit[i]
    BY SMT DEF Sync1920x1080i, Limit
  <2>2. Packed(row) = row
    <3> HIDE DEF row
    <3> QED BY <2>1, RowFits
  <2>3. row[4] = 0 /\ row[23] = 540 /\ row[6] = 1920 /\ row[18] = 540
    BY DEF Sync1920x1080i
  <2> QED BY <2>2, <2>3 DEF Progressive, YRes2, XRes, YRes
<1>6. Fits(TableMode, FbAux1024x768p)
  <2>1. TableMode \in [1..29 -> Nat] /\ \A i \in 1..29 : TableMode[i] < Limit[i]
    BY SMT DEF TableMode, Limit
  <2>2. Packed(TableMode) = TableMode
    BY <2>1, RowFits
  <2>3. TableMode[4] = 1 /\ TableMode[23] = 0 /\ TableMode[6] = 1024 /\ TableMode[18] = 768
    BY DEF TableMode
  <2> QED BY <2>2, <2>3 DEF Progressive, YRes2, XRes, YRes, FbAux1024x768p
<1> HIDE DEF Fits, full
<1>7. ASSUME NEW m \in Syncs PROVE Fits(m[1], m[2])
  <2>1. \/ \E h, v \in {0, 1} : m = <<Sync1024x768p(h, v), Aux1024x768p>>
        \/ \E h, v \in {0, 1} : m = <<FbSync1024x768p(h, v), FbAux1024x768p>>
        \/ \E h, v \in {0, 1} : m = <<Sync720x480i(h, v), Aux720x480i>>
        \/ \E h, v \in {0, 1} : m = <<Sync720x480p(h, v), Aux720x480p>>
        \/ \E h, v \in {0, 1} : m = <<Sync1920x1080i(h, v), full>>
        \/ m = <<TableMode, FbAux1024x768p>>
    BY SMT DEF Syncs, Aux1920x1080i, full
  <2>2. \A row, aux : m = <<row, aux>> => m[1] = row /\ m[2] = aux
    OBVIOUS
  <2> QED BY <2>1, <2>2, <1>1, <1>2, <1>3, <1>4, <1>5, <1>6, Zenon
<1> QED BY <1>7 DEF Fits, TimingsFit

-------------------------------------------------------------------------------
(* The inductive invariant.  The number of steps that are left says how far a *)
(* list has come: the module's sixteen put the list in place before eight are *)
(* left, the position before seven, the picture before six, and set the       *)
(* scaler's words before thirteen and twelve; the tool's six set the words    *)
(* before three and two.                                                      *)

Who == {"fb", "tool"}
FbLeft   == Len(work["fb"])
ToolLeft == Len(work["tool"])

Rests == IsRest(work["fb"], FbSteps) /\ IsRest(work["tool"], DpcSyncSteps)

\* Who uses the framebuffer, or starts it, finds the device.
DeviceIn == opens > 0 \/ work["fb"] # <<>> => fbdev = "in"

\* What the start has prepared already, while it goes on.
Prepared ==
  work["fb"] # <<>> =>
    /\ FbLeft <= 8 => osdlist = "installed"
    /\ FbLeft <= 7 => osdpos = 1
    /\ FbLeft <= 6 => fbmem # "foreign"

Clock1024 == <<18160560, 1>>
HIsExact  == Exact(1024, scale.from[1], scale.h)
VIsExact  == Exact(768, scale.from[2], scale.v)

\* Everybody programs one picture.
OnePicture ==
  /\ timing # Off => timing[XRes] = 1024 /\ timing[YRes] = 768
  /\ dotclock = Clock1024

\* The scaler's words are right unless somebody is still to set them.
HScaled == timing # Off /\ FbLeft < 13 /\ ToolLeft < 3 => HIsExact
VScaled == timing # Off /\ FbLeft < 12 /\ ToolLeft < 2 => VIsExact

FbInv ==
  FbTypeOK /\ Rests /\ DeviceIn /\ Prepared /\ ShownIsReady /\ OnePicture /\ HScaled /\ VScaled

-------------------------------------------------------------------------------
(* How a list advances. *)

LEMMA PlaceInList ==
  ASSUME FbTypeOK, Rests
  PROVE  /\ work["fb"] # <<>> => FbLeft \in 1..16 /\ Head(work["fb"]) = FbSteps[17 - FbLeft]
         /\ work["tool"] # <<>> =>
              ToolLeft \in 1..6 /\ Head(work["tool"]) = DpcSyncSteps[7 - ToolLeft]
         /\ FbLeft \in 0..16 /\ ToolLeft \in 0..6
         /\ FbLeft = 0 <=> work["fb"] = <<>>
         /\ ToolLeft = 0 <=> work["tool"] = <<>>
<1>1. work["fb"] \in Seq(FbStep) /\ work["tool"] \in Seq(FbStep)
  BY DEF FbTypeOK
<1>2. work["fb"] # <<>> => FbLeft \in 1..16 /\ Head(work["fb"]) = FbSteps[(16 - FbLeft) + 1]
  <2>1. ASSUME work["fb"] # <<>>
        PROVE  /\ Len(work["fb"]) \in 1..Len(FbSteps)
               /\ Head(work["fb"]) = FbSteps[(Len(FbSteps) - Len(work["fb"])) + 1]
    <3>1. FbSteps \in Seq(FbStep) /\ IsRest(work["fb"], FbSteps)
      BY FbPlan DEF Rests
    <3> QED BY <1>1, <2>1, <3>1, RestSteps
  <2> QED BY <2>1, FbPlan DEF FbLeft
<1>3. work["tool"] # <<>> =>
        ToolLeft \in 1..6 /\ Head(work["tool"]) = DpcSyncSteps[(6 - ToolLeft) + 1]
  <2>1. ASSUME work["tool"] # <<>>
        PROVE  /\ Len(work["tool"]) \in 1..Len(DpcSyncSteps)
               /\ Head(work["tool"]) = DpcSyncSteps[(Len(DpcSyncSteps) - Len(work["tool"])) + 1]
    <3>1. DpcSyncSteps \in Seq(FbStep) /\ IsRest(work["tool"], DpcSyncSteps)
      BY ToolPlan DEF Rests
    <3> QED BY <1>1, <2>1, <3>1, RestSteps
  <2> QED BY <2>1, ToolPlan DEF ToolLeft
<1>4. FbLeft \in Nat /\ (FbLeft = 0 <=> work["fb"] = <<>>)
  BY <1>1 DEF FbLeft
<1>5. ToolLeft \in Nat /\ (ToolLeft = 0 <=> work["tool"] = <<>>)
  BY <1>1 DEF ToolLeft
<1>6. FbLeft \in 1..16 => (16 - FbLeft) + 1 = 17 - FbLeft
  OBVIOUS
<1>7. ToolLeft \in 1..6 => (6 - ToolLeft) + 1 = 7 - ToolLeft
  OBVIOUS
<1> QED BY <1>2, <1>3, <1>4, <1>5, <1>6, <1>7

LEMMA Advance ==
  ASSUME FbTypeOK, Rests, NEW w \in Who, work[w] # <<>>, Done(w)
  PROVE  /\ work' \in [Who -> Seq(FbStep)]
         /\ Rests'
         /\ w = "fb" => FbLeft' = FbLeft - 1 /\ ToolLeft' = ToolLeft
         /\ w = "tool" => FbLeft' = FbLeft /\ ToolLeft' = ToolLeft - 1
         /\ w = "tool" => work'["fb"] = work["fb"]
<1>1. work \in [Who -> Seq(FbStep)] /\ work' = [work EXCEPT ![w] = Tail(work[w])]
  BY DEF FbTypeOK, Done, Who
<1>2. CASE w = "fb"
  <2>1. work["fb"] \in Seq(FbStep) /\ IsRest(work["fb"], FbSteps) /\ work["fb"] # <<>>
    BY <1>1, <1>2 DEF Rests, Who
  <2>2. /\ Tail(work["fb"]) \in Seq(FbStep)
        /\ Len(Tail(work["fb"])) = Len(work["fb"]) - 1
        /\ IsRest(Tail(work["fb"]), FbSteps)
    BY <2>1, FbPlan, RestSteps
  <2>3. work'["fb"] = Tail(work["fb"]) /\ work'["tool"] = work["tool"]
    BY <1>1, <1>2 DEF Who
  <2> QED BY <1>1, <1>2, <2>2, <2>3 DEF Rests, FbLeft, ToolLeft, Who
<1>3. CASE w = "tool"
  <2>1. work["tool"] \in Seq(FbStep) /\ IsRest(work["tool"], DpcSyncSteps) /\ work["tool"] # <<>>
    BY <1>1, <1>3 DEF Rests, Who
  <2>2. /\ Tail(work["tool"]) \in Seq(FbStep)
        /\ Len(Tail(work["tool"])) = Len(work["tool"]) - 1
        /\ IsRest(Tail(work["tool"]), DpcSyncSteps)
    BY <2>1, ToolPlan, RestSteps
  <2>3. work'["tool"] = Tail(work["tool"]) /\ work'["fb"] = work["fb"]
    BY <1>1, <1>3 DEF Who
  <2> QED BY <1>1, <1>3, <2>2, <2>3 DEF Rests, FbLeft, ToolLeft, Who
<1> QED BY <1>2, <1>3 DEF Who

\* The number of steps left, by the name of the next: the module's.
LEMMA NamedFb ==
  ASSUME FbTypeOK, Rests
  PROVE  /\ Step("fb", "mailbox") => FbLeft = 16
         /\ Step("fb", "lines") => FbLeft = 15
         /\ Step("fb", "sync") => FbLeft = 14
         /\ Step("fb", "hscale") => FbLeft = 13
         /\ Step("fb", "vscale") => FbLeft = 12
         /\ Step("fb", "list") => FbLeft = 9
         /\ Step("fb", "position") => FbLeft = 8
         /\ Step("fb", "clear") => FbLeft = 7
         /\ Step("fb", "read") => FbLeft \in {11, 6, 4, 2}
         /\ Step("fb", "write") => FbLeft \in {10, 5, 3, 1}
         /\ Step("fb", "write") /\ FbLeft = 10 =>
              Head(work["fb"]).bit = OSD /\ Head(work["fb"]).on = 0
<1>1. CASE work["fb"] = <<>>
  BY <1>1 DEF Step
<1>2. CASE work["fb"] # <<>>
  <2>1. FbLeft \in 1..16 /\ Head(work["fb"]) = FbSteps[17 - FbLeft]
    BY <1>2, PlaceInList
  <2>2. PICK i \in 1..16 : i = 17 - FbLeft
    BY <2>1
  <2>3. FbLeft = 17 - i /\ Head(work["fb"]) = FbSteps[i]
    BY <2>1, <2>2
  <2>4. \A name : Step("fb", name) => FbSteps[i].do = name
    BY <2>3 DEF Step
  <2>5. FbLeft = 10 => i = 7
    BY <2>3
  <2> QED BY <2>3, <2>4, <2>5, FbPlan
<1> QED BY <1>1, <1>2

\* What a write sets is one of the register's bits.
LEMMA NamedOn ==
  ASSUME FbTypeOK, Rests, Step("fb", "write"), Head(work["fb"]).on = 1
  PROVE  Head(work["fb"]).bit \in ControlBits
<1>1. work["fb"] # <<>>
  BY DEF Step
<1>2. PICK i \in 1..16 : Head(work["fb"]) = FbSteps[i]
  <2>1. FbLeft \in 1..16 /\ Head(work["fb"]) = FbSteps[17 - FbLeft]
    BY <1>1, PlaceInList
  <2>2. 17 - FbLeft \in 1..16
    BY <2>1
  <2> QED BY <2>1, <2>2
<1> QED BY <1>2, FbPlan

\* And the tool's.
LEMMA NamedTool ==
  ASSUME FbTypeOK, Rests
  PROVE  /\ Step("tool", "mailbox") => ToolLeft = 6
         /\ Step("tool", "lines") => ToolLeft = 5
         /\ Step("tool", "sync") => ToolLeft = 4
         /\ Step("tool", "hscale") => ToolLeft = 3
         /\ Step("tool", "vscale") => ToolLeft = 2
         /\ Step("tool", "control") => ToolLeft = 1
<1>1. CASE work["tool"] = <<>>
  BY <1>1 DEF Step
<1>2. CASE work["tool"] # <<>>
  <2>1. ToolLeft \in 1..6 /\ Head(work["tool"]) = DpcSyncSteps[7 - ToolLeft]
    BY <1>2, PlaceInList
  <2>2. PICK i \in 1..6 : i = 7 - ToolLeft
    BY <2>1
  <2>3. ToolLeft = 7 - i /\ Head(work["tool"]) = DpcSyncSteps[i]
    BY <2>1, <2>2
  <2>4. \A name : Step("tool", name) => DpcSyncSteps[i].do = name
    BY <2>3 DEF Step
  <2> QED BY <2>3, <2>4, ToolPlan
<1> QED BY <1>1, <1>2

\* What a step of a list has to do so that the parts about preparation go on holding.
LEMMA KeepsPrepared ==
  ASSUME FbInv, NEW w \in Who, work[w] # <<>>, Done(w),
         osdlist = "installed" => osdlist' = "installed",
         osdpos = 1 => osdpos' = 1,
         fbmem # "foreign" => fbmem' # "foreign",
         w = "fb" /\ FbLeft = 9 => osdlist' = "installed",
         w = "fb" /\ FbLeft = 8 => osdpos' = 1,
         w = "fb" /\ FbLeft = 7 => fbmem' # "foreign"
  PROVE  Rests' /\ DeviceIn' /\ Prepared' /\ (opens' > 0 => osdlist' = "installed")
<1>1. FbTypeOK /\ Rests /\ DeviceIn /\ Prepared /\ (opens > 0 => osdlist = "installed")
  BY DEF FbInv, ShownIsReady
<1>2. /\ Rests'
      /\ w = "fb" => FbLeft' = FbLeft - 1
      /\ w = "tool" => FbLeft' = FbLeft /\ work'["fb"] = work["fb"]
  BY <1>1, Advance
<1>3. opens' = opens /\ fbdev' = fbdev
  BY DEF Done
<1>4. FbLeft \in 0..16 /\ (w = "fb" => work["fb"] # <<>>)
  BY <1>1, PlaceInList
<1>5. DeviceIn'
  BY <1>1, <1>2, <1>3, <1>4 DEF DeviceIn, Who
<1>6. Prepared'
  BY <1>1, <1>2, <1>4 DEF Prepared, Who
<1> QED BY <1>1, <1>2, <1>3, <1>5, <1>6

\* Likewise the parts about the picture.
LEMMA KeepsPicture ==
  ASSUME FbInv, NEW w \in Who, work[w] # <<>>, Done(w),
         dotclock' = dotclock,
         \/ timing' = timing
         \/ /\ timing'[XRes] = 1024 /\ timing'[YRes] = 768
            /\ w = "fb" => FbLeft = 14
            /\ w = "tool" => ToolLeft = 4,
         HIsExact => HIsExact', VIsExact => VIsExact',
         w = "fb" /\ FbLeft = 13 => HIsExact', w = "fb" /\ FbLeft = 12 => VIsExact',
         w = "tool" /\ ToolLeft = 3 => HIsExact', w = "tool" /\ ToolLeft = 2 => VIsExact'
  PROVE  OnePicture' /\ HScaled' /\ VScaled'
<1>1. FbTypeOK /\ Rests /\ OnePicture /\ HScaled /\ VScaled
  BY DEF FbInv
<1>2. /\ w = "fb" => FbLeft' = FbLeft - 1 /\ ToolLeft' = ToolLeft
      /\ w = "tool" => FbLeft' = FbLeft /\ ToolLeft' = ToolLeft - 1
  BY <1>1, Advance
<1>3. FbLeft \in 0..16 /\ ToolLeft \in 0..6
  BY <1>1, PlaceInList
<1>4. OnePicture'
  BY <1>1 DEF OnePicture
<1>5. HScaled'
  BY <1>1, <1>2, <1>3 DEF HScaled, Who
<1>6. VScaled'
  BY <1>1, <1>2, <1>3 DEF VScaled, Who
<1> QED BY <1>4, <1>5, <1>6

\* The timings that the module and the tool set.
LEMMA XgaTimings ==
  ASSUME NEW h \in {0, 1}, NEW v \in {0, 1}, NEW t,
         t = Packed(FbSync1024x768p(h, v)) \/ t = Packed(Sync1024x768p(h, v))
  PROVE  DOMAIN t = 1..Len(FieldWidths) /\ t[XRes] = 1024 /\ t[YRes] = 768
<1>1. DOMAIN t = 1..Len(FieldWidths)
  BY DEF Packed
<1>2. t = FbSync1024x768p(h, v) \/ t = Sync1024x768p(h, v)
  <2> DEFINE fb == FbSync1024x768p(h, v)
             tool == Sync1024x768p(h, v)
  <2>1. fb \in [1..29 -> Nat] /\ \A i \in 1..29 : fb[i] < Limit[i]
    BY SMT DEF FbSync1024x768p, Limit
  <2>2. tool \in [1..29 -> Nat] /\ \A i \in 1..29 : tool[i] < Limit[i]
    BY SMT DEF Sync1024x768p, Limit
  <2> HIDE DEF fb, tool
  <2>3. Packed(fb) = fb /\ Packed(tool) = tool
    BY <2>1, <2>2, RowFits
  <2> QED BY <2>3 DEF fb, tool
<1>3. t[6] = 1024 /\ t[18] = 768
  BY <1>2 DEF FbSync1024x768p, Sync1024x768p
<1> QED BY <1>1, <1>3 DEF XRes, YRes

\* The words for the sources that they give.
LEMMA SourcesExact ==
  ASSUME NEW w \in Who
  PROVE  /\ Exact(1024, Source(w)[1], Scaler(FbAux1024x768p[1], Source(w)[1]))
         /\ Exact(768, Source(w)[2], Scaler(FbAux1024x768p[2], Source(w)[2]))
<1>1. Source(w)[1] \in Nat /\ Source(w)[2] \in Nat
  BY DEF Source
<1>2. FbAux1024x768p[1] = 1024 /\ FbAux1024x768p[2] = 768
  BY DEF FbAux1024x768p
<1>3. 1024 \in Widths /\ 1024 = 16 * 64 /\ 768 \in Widths /\ 768 = 16 * 48
  BY SMT DEF Widths
<1>4. \A a \in Nat : Exact(1024, a, Scaler(1024, a)) /\ Exact(768, a, Scaler(768, a))
  BY <1>3, Sixteenths, SMT
<1> QED BY <1>1, <1>2, <1>4

LEMMA ClockOfProbe == DpcClock(1024, FALSE) = Clock1024
BY SMT DEF DpcClock, Clock1024

-------------------------------------------------------------------------------
(* Every step keeps the invariant. *)

LEMMA FbInvInit == FbInit => FbInv
<1> SUFFICES ASSUME FbInit PROVE FbInv
  OBVIOUS
<1>1. work["fb"] = <<>> /\ work["tool"] = <<>> /\ work = [w \in {"fb", "tool"} |-> <<>>]
  BY DEF FbInit
<1>2. Rests
  BY <1>1, FbPlan, ToolPlan, RestOfItself DEF Rests
<1>3. FbTypeOK
  <2>1. dotclock \in Int \X {0, 1}
    <3>1. Clock1024 \in Int \X {0, 1}
      BY SMT DEF Clock1024
    <3>2. dotclock = Clock1024
      BY ClockOfProbe, Zenon DEF FbInit
    <3> QED BY <3>1, <3>2
  <2>2. work \in [{"fb", "tool"} -> Seq(FbStep)] /\ opens \in 0..MaxOpens
    BY <1>1, MaxOpensAssumption DEF FbInit
  <2>3. DOMAIN timing = 1..Len(FieldWidths) /\ DOMAIN scale = {"h", "v", "from"}
    BY DEF FbInit, Off, NoScale
  <2>4. seen \subseteq ControlBits /\ control \subseteq ControlBits
    BY DEF FbInit, ControlBits
  <2> QED BY <2>1, <2>2, <2>3, <2>4 DEF FbInit, FbTypeOK
<1>4. ShownIsReady
  BY DEF FbInit, ShownIsReady, OSD
<1>5. OnePicture /\ HScaled /\ VScaled
  BY ClockOfProbe DEF FbInit, OnePicture, HScaled, VScaled
<1> QED BY <1>1, <1>2, <1>3, <1>4, <1>5 DEF FbInv, DeviceIn, Prepared, FbInit

LEMMA FbInvStep == FbInv /\ [FbNext]_fbVars => FbInv'
<1> SUFFICES ASSUME FbInv, [FbNext]_fbVars PROVE FbInv'
  OBVIOUS
<1>0. FbTypeOK /\ Rests /\ DeviceIn /\ Prepared /\ ShownIsReady /\ OnePicture /\ HScaled /\ VScaled
  BY DEF FbInv
<1>1. ASSUME InstallList PROVE FbInv'
  <2>1. work["fb"] # <<>> /\ Done("fb") /\ "fb" \in Who /\ FbLeft = 9
    BY <1>1, <1>0, NamedFb DEF InstallList, Step, Who
  <2>2. /\ osdlist' = "installed"
        /\ UNCHANGED <<fbdev, opens, seen, control, osdpos, fbmem, video, mbox, timing, scale, dotclock>>
    BY <1>1 DEF InstallList, Done
  <2>3. FbTypeOK'
    <3>1. work' \in [Who -> Seq(FbStep)]
      BY <1>0, <2>1, Advance
    <3> QED BY <1>0, <2>2, <3>1 DEF FbTypeOK, Who
  <2>4. Rests' /\ DeviceIn' /\ Prepared' /\ (opens' > 0 => osdlist' = "installed")
    BY <2>1, <2>2, KeepsPrepared
  <2>5. ShownIsReady'
    BY <1>0, <2>2, <2>4 DEF ShownIsReady
  <2>6. OnePicture' /\ HScaled' /\ VScaled'
    <3>1. (HIsExact => HIsExact') /\ (VIsExact => VIsExact')
      BY <2>2 DEF HIsExact, VIsExact
    <3> QED BY <2>1, <2>2, <3>1, KeepsPicture DEF Who
  <2> QED BY <2>3, <2>4, <2>5, <2>6 DEF FbInv
<1>2. ASSUME SetPosition PROVE FbInv'
  <2>1. work["fb"] # <<>> /\ Done("fb") /\ "fb" \in Who /\ FbLeft = 8
    BY <1>2, <1>0, NamedFb DEF SetPosition, Step, Who
  <2>2. /\ osdpos' = 1
        /\ UNCHANGED <<fbdev, opens, seen, control, osdlist, fbmem, video, mbox, timing, scale, dotclock>>
    BY <1>2 DEF SetPosition, Done
  <2>3. FbTypeOK'
    <3>1. work' \in [Who -> Seq(FbStep)]
      BY <1>0, <2>1, Advance
    <3> QED BY <1>0, <2>2, <3>1 DEF FbTypeOK, Who
  <2>4. Rests' /\ DeviceIn' /\ Prepared' /\ (opens' > 0 => osdlist' = "installed")
    BY <2>1, <2>2, KeepsPrepared
  <2>5. ShownIsReady'
    BY <1>0, <2>2, <2>4 DEF ShownIsReady
  <2>6. OnePicture' /\ HScaled' /\ VScaled'
    <3>1. (HIsExact => HIsExact') /\ (VIsExact => VIsExact')
      BY <2>2 DEF HIsExact, VIsExact
    <3> QED BY <2>1, <2>2, <3>1, KeepsPicture DEF Who
  <2> QED BY <2>3, <2>4, <2>5, <2>6 DEF FbInv
<1>3. ASSUME ClearPicture PROVE FbInv'
  <2>1. work["fb"] # <<>> /\ Done("fb") /\ "fb" \in Who /\ FbLeft = 7
    BY <1>3, <1>0, NamedFb DEF ClearPicture, Step, Who
  <2>2. /\ fbmem' = "clear"
        /\ UNCHANGED <<fbdev, opens, seen, control, osdlist, osdpos, video, mbox, timing, scale, dotclock>>
    BY <1>3 DEF ClearPicture, Done
  <2>3. FbTypeOK'
    <3>1. work' \in [Who -> Seq(FbStep)]
      BY <1>0, <2>1, Advance
    <3> QED BY <1>0, <2>2, <3>1 DEF FbTypeOK, Who
  <2>4. Rests' /\ DeviceIn' /\ Prepared' /\ (opens' > 0 => osdlist' = "installed")
    BY <2>1, <2>2, KeepsPrepared
  <2>5. ShownIsReady'
    BY <1>0, <2>2, <2>4 DEF ShownIsReady
  <2>6. OnePicture' /\ HScaled' /\ VScaled'
    <3>1. (HIsExact => HIsExact') /\ (VIsExact => VIsExact')
      BY <2>2 DEF HIsExact, VIsExact
    <3> QED BY <2>1, <2>2, <3>1, KeepsPicture DEF Who
  <2> QED BY <2>3, <2>4, <2>5, <2>6 DEF FbInv
<1>4. ASSUME NEW w \in Who, SetSync(w) PROVE FbInv'
  <2>1. work[w] # <<>> /\ Done(w)
    BY <1>4 DEF SetSync, Step
  <2>2. UNCHANGED <<fbdev, opens, seen, control, osdlist, osdpos, fbmem, video, mbox, scale, dotclock>>
    BY <1>4 DEF SetSync, Done
  <2>3. (w = "fb" => FbLeft = 14) /\ (w = "tool" => ToolLeft = 4)
    BY <1>4, <1>0, NamedFb, NamedTool DEF SetSync
  <2>4. timing'[XRes] = 1024 /\ timing'[YRes] = 768 /\ DOMAIN timing' = 1..Len(FieldWidths)
    <3>1. \E h, v \in {0, 1} : \/ timing' = Packed(FbSync1024x768p(h, v))
                              \/ timing' = Packed(Sync1024x768p(h, v))
      BY <1>4, Zenon DEF SetSync
    <3> QED BY <3>1, XgaTimings
  <2>5. FbTypeOK'
    <3>1. work' \in [Who -> Seq(FbStep)]
      BY <1>0, <2>1, Advance
    <3> QED BY <1>0, <2>2, <2>4, <3>1 DEF FbTypeOK, Who
  <2>6. Rests' /\ DeviceIn' /\ Prepared' /\ (opens' > 0 => osdlist' = "installed")
    BY <2>1, <2>2, <2>3, KeepsPrepared
  <2>7. ShownIsReady'
    BY <1>0, <2>2, <2>6 DEF ShownIsReady
  <2>8. OnePicture' /\ HScaled' /\ VScaled'
    <3>1. (HIsExact => HIsExact') /\ (VIsExact => VIsExact')
      BY <2>2 DEF HIsExact, VIsExact
    <3> QED BY <2>1, <2>2, <2>3, <2>4, <3>1, KeepsPicture DEF Who
  <2> QED BY <2>5, <2>6, <2>7, <2>8 DEF FbInv
<1>5. ASSUME NEW w \in Who, SetHScale(w) PROVE FbInv'
  <2>1. work[w] # <<>> /\ Done(w)
    BY <1>5 DEF SetHScale, Step
  <2>2. UNCHANGED <<fbdev, opens, seen, control, osdlist, osdpos, fbmem, video, mbox, timing, dotclock>>
    BY <1>5 DEF SetHScale, Done
  <2>3. (w = "fb" => FbLeft = 13) /\ (w = "tool" => ToolLeft = 3)
    BY <1>5, <1>0, NamedFb, NamedTool DEF SetHScale
  <2>4. /\ DOMAIN scale' = {"h", "v", "from"}
        /\ scale'.h = Scaler(FbAux1024x768p[1], Source(w)[1])
        /\ scale'.from = <<Source(w)[1], scale.from[2]>>
        /\ scale'.v = scale.v
    BY <1>0, <1>5 DEF SetHScale, FbTypeOK
  <2>5. FbTypeOK'
    <3>1. work' \in [Who -> Seq(FbStep)]
      BY <1>0, <2>1, Advance
    <3> QED BY <1>0, <2>2, <2>4, <3>1 DEF FbTypeOK, Who
  <2>6. Rests' /\ DeviceIn' /\ Prepared' /\ (opens' > 0 => osdlist' = "installed")
    BY <2>1, <2>2, <2>3, KeepsPrepared
  <2>7. ShownIsReady'
    BY <1>0, <2>2, <2>6 DEF ShownIsReady
  <2>8. OnePicture' /\ HScaled' /\ VScaled'
    <3>1. HIsExact'
      BY <2>4, SourcesExact DEF HIsExact
    <3>2. VIsExact => VIsExact'
      BY <2>4 DEF VIsExact
    <3> QED BY <2>1, <2>2, <2>3, <3>1, <3>2, KeepsPicture DEF Who
  <2> QED BY <2>5, <2>6, <2>7, <2>8 DEF FbInv
<1>6. ASSUME NEW w \in Who, SetVScale(w) PROVE FbInv'
  <2>1. work[w] # <<>> /\ Done(w)
    BY <1>6 DEF SetVScale, Step
  <2>2. UNCHANGED <<fbdev, opens, seen, control, osdlist, osdpos, fbmem, video, mbox, timing, dotclock>>
    BY <1>6 DEF SetVScale, Done
  <2>3. (w = "fb" => FbLeft = 12) /\ (w = "tool" => ToolLeft = 2)
    BY <1>6, <1>0, NamedFb, NamedTool DEF SetVScale
  <2>4. /\ DOMAIN scale' = {"h", "v", "from"}
        /\ scale'.v = Scaler(FbAux1024x768p[2], Source(w)[2])
        /\ scale'.from = <<scale.from[1], Source(w)[2]>>
        /\ scale'.h = scale.h
    BY <1>0, <1>6 DEF SetVScale, FbTypeOK
  <2>5. FbTypeOK'
    <3>1. work' \in [Who -> Seq(FbStep)]
      BY <1>0, <2>1, Advance
    <3> QED BY <1>0, <2>2, <2>4, <3>1 DEF FbTypeOK, Who
  <2>6. Rests' /\ DeviceIn' /\ Prepared' /\ (opens' > 0 => osdlist' = "installed")
    BY <2>1, <2>2, <2>3, KeepsPrepared
  <2>7. ShownIsReady'
    BY <1>0, <2>2, <2>6 DEF ShownIsReady
  <2>8. OnePicture' /\ HScaled' /\ VScaled'
    <3>1. VIsExact'
      BY <2>4, SourcesExact DEF VIsExact
    <3>2. HIsExact => HIsExact'
      BY <2>4 DEF HIsExact
    <3> QED BY <2>1, <2>2, <2>3, <3>1, <3>2, KeepsPicture DEF Who
  <2> QED BY <2>5, <2>6, <2>7, <2>8 DEF FbInv
<1>7. ASSUME NEW w \in Who, ClearMailbox(w) PROVE FbInv'
  <2>1. /\ mbox' \in {0, 1} \X {0, 1}
        /\ UNCHANGED <<fbdev, opens, seen, control, osdlist, osdpos, fbmem, video, timing, scale, dotclock>>
    BY <1>0, <1>7 DEF ClearMailbox, Done, FbTypeOK
  <2>2. CASE work' = work
    BY <1>0, <2>1, <2>2 DEF FbInv, FbTypeOK, Rests, DeviceIn, Prepared, ShownIsReady, OnePicture,
                            HScaled, VScaled, HIsExact, VIsExact, FbLeft, ToolLeft
  <2>3. CASE Done(w)
    <3>1. work[w] # <<>> /\ (w = "fb" => FbLeft = 16) /\ (w = "tool" => ToolLeft = 6)
      BY <1>0, <1>7, NamedFb, NamedTool DEF ClearMailbox, Step
    <3>2. FbTypeOK'
      <4>1. work' \in [Who -> Seq(FbStep)]
        BY <1>0, <2>3, <3>1, Advance
      <4> QED BY <1>0, <2>1, <4>1 DEF FbTypeOK, Who
    <3>3. Rests' /\ DeviceIn' /\ Prepared'
      BY <2>1, <2>3, <3>1, KeepsPrepared
    <3>4. ShownIsReady'
      BY <1>0, <2>1 DEF ShownIsReady
    <3>5. OnePicture' /\ HScaled' /\ VScaled'
      <4>1. (HIsExact => HIsExact') /\ (VIsExact => VIsExact')
        BY <2>1 DEF HIsExact, VIsExact
      <4> QED BY <2>1, <2>3, <3>1, <4>1, KeepsPicture DEF Who
    <3> QED BY <3>2, <3>3, <3>4, <3>5 DEF FbInv
  <2>4. work' = work \/ Done(w)
    BY <1>7 DEF ClearMailbox
  <2> QED BY <2>2, <2>3, <2>4
<1>8. ASSUME NEW w \in Who, ClearLines(w) PROVE FbInv'
  <2>1. /\ mbox' \in {0, 1} \X {0, 1}
        /\ UNCHANGED <<fbdev, opens, seen, control, osdlist, osdpos, fbmem, video, timing, scale, dotclock>>
    BY <1>0, <1>8 DEF ClearLines, Done, FbTypeOK
  <2>2. CASE work' = work
    BY <1>0, <2>1, <2>2 DEF FbInv, FbTypeOK, Rests, DeviceIn, Prepared, ShownIsReady, OnePicture,
                            HScaled, VScaled, HIsExact, VIsExact, FbLeft, ToolLeft
  <2>3. CASE Done(w)
    <3>1. work[w] # <<>> /\ (w = "fb" => FbLeft = 15) /\ (w = "tool" => ToolLeft = 5)
      BY <1>0, <1>8, NamedFb, NamedTool DEF ClearLines, Step
    <3>2. FbTypeOK'
      <4>1. work' \in [Who -> Seq(FbStep)]
        BY <1>0, <2>3, <3>1, Advance
      <4> QED BY <1>0, <2>1, <4>1 DEF FbTypeOK, Who
    <3>3. Rests' /\ DeviceIn' /\ Prepared'
      BY <2>1, <2>3, <3>1, KeepsPrepared
    <3>4. ShownIsReady'
      BY <1>0, <2>1 DEF ShownIsReady
    <3>5. OnePicture' /\ HScaled' /\ VScaled'
      <4>1. (HIsExact => HIsExact') /\ (VIsExact => VIsExact')
        BY <2>1 DEF HIsExact, VIsExact
      <4> QED BY <2>1, <2>3, <3>1, <4>1, KeepsPicture DEF Who
    <3> QED BY <3>2, <3>3, <3>4, <3>5 DEF FbInv
  <2>4. work' = work \/ Done(w)
    BY <1>8 DEF ClearLines
  <2> QED BY <2>2, <2>3, <2>4
<1>9. ASSUME ReadControl PROVE FbInv'
  <2>1. work["fb"] # <<>> /\ Done("fb") /\ "fb" \in Who /\ FbLeft \in {11, 6, 4, 2}
    BY <1>0, <1>9, NamedFb, NamedTool DEF ReadControl, Step, Who
  <2>2. UNCHANGED <<fbdev, opens, control, osdlist, osdpos, fbmem, video, mbox, timing, scale, dotclock>>
    BY <1>9 DEF ReadControl, Done
  <2>3. seen' = control
    BY <1>9 DEF ReadControl
  <2>4. FbTypeOK'
    <3>1. work' \in [Who -> Seq(FbStep)]
      BY <1>0, <2>1, Advance
    <3> QED BY <1>0, <2>2, <2>3, <3>1 DEF FbTypeOK, Who
  <2>5. Rests' /\ DeviceIn' /\ Prepared' /\ (opens' > 0 => osdlist' = "installed")
    BY <2>1, <2>2, KeepsPrepared
  <2>6. ShownIsReady'
    BY <1>0, <2>2, <2>5 DEF ShownIsReady
  <2>7. OnePicture' /\ HScaled' /\ VScaled'
    <3>1. (HIsExact => HIsExact') /\ (VIsExact => VIsExact')
      BY <2>2 DEF HIsExact, VIsExact
    <3> QED BY <2>1, <2>2, <3>1, KeepsPicture DEF Who
  <2> QED BY <2>4, <2>5, <2>6, <2>7 DEF FbInv
<1>10. ASSUME WriteControl PROVE FbInv'
  <2>1. work["fb"] # <<>> /\ Done("fb") /\ "fb" \in Who /\ FbLeft \in {10, 5, 3, 1}
    BY <1>0, <1>10, NamedFb, NamedTool DEF WriteControl, Step, Who
  <2>2. UNCHANGED <<fbdev, opens, seen, osdlist, osdpos, fbmem, video, mbox, timing, scale, dotclock>>
    BY <1>10 DEF WriteControl, Done
  <2>3. /\ control' \subseteq ControlBits
        /\ FbLeft = 10 => OSD \notin control'
    <3>1. PICK s \in FbStep : s = Head(work["fb"])
      <4>1. work["fb"] \in Seq(FbStep)
        BY <1>0 DEF FbTypeOK
      <4> QED BY <2>1, <4>1
    <3>2. control' = IF s.on = 1 THEN seen \cup {s.bit} ELSE seen \ {s.bit}
      BY <1>10, <3>1 DEF WriteControl
    <3>3. s.on = 1 => s.bit \in ControlBits
      BY <1>0, <1>10, <3>1, NamedOn DEF WriteControl
    <3>4. FbLeft = 10 => s.bit = OSD /\ s.on = 0
      BY <1>0, <1>10, <3>1, NamedFb DEF WriteControl
    <3> QED BY <1>0, <3>2, <3>3, <3>4 DEF FbTypeOK
  <2>4. FbTypeOK'
    <3>1. work' \in [Who -> Seq(FbStep)]
      BY <1>0, <2>1, Advance
    <3> QED BY <1>0, <2>2, <2>3, <3>1 DEF FbTypeOK, Who
  <2>5. Rests' /\ DeviceIn' /\ Prepared' /\ (opens' > 0 => osdlist' = "installed")
    BY <2>1, <2>2, KeepsPrepared
  <2>6. ShownIsReady'
    BY <1>0, <2>1, <2>2, <2>3, <2>5 DEF ShownIsReady, Prepared
  <2>7. OnePicture' /\ HScaled' /\ VScaled'
    <3>1. (HIsExact => HIsExact') /\ (VIsExact => VIsExact')
      BY <2>2 DEF HIsExact, VIsExact
    <3> QED BY <2>1, <2>2, <3>1, KeepsPicture DEF Who
  <2> QED BY <2>4, <2>5, <2>6, <2>7 DEF FbInv
<1>11. ASSUME ToolSetsControl PROVE FbInv'
  <2>1. work["tool"] # <<>> /\ Done("tool") /\ "tool" \in Who /\ ToolLeft = 1
    BY <1>0, <1>11, NamedFb, NamedTool DEF ToolSetsControl, Step, Who
  <2>2. UNCHANGED <<fbdev, opens, seen, osdlist, osdpos, fbmem, video, mbox, timing, scale, dotclock>>
    BY <1>11 DEF ToolSetsControl, Done
  <2>3. control' \subseteq ControlBits /\ OSD \notin control'
    BY <1>11 DEF ToolSetsControl, ControlBits, OSD
  <2>4. FbTypeOK'
    <3>1. work' \in [Who -> Seq(FbStep)]
      BY <1>0, <2>1, Advance
    <3> QED BY <1>0, <2>2, <2>3, <3>1 DEF FbTypeOK, Who
  <2>5. Rests' /\ DeviceIn' /\ Prepared' /\ (opens' > 0 => osdlist' = "installed")
    BY <2>1, <2>2, KeepsPrepared
  <2>6. ShownIsReady'
    BY <1>0, <2>2, <2>3, <2>5 DEF ShownIsReady
  <2>7. OnePicture' /\ HScaled' /\ VScaled'
    <3>1. (HIsExact => HIsExact') /\ (VIsExact => VIsExact')
      BY <2>2 DEF HIsExact, VIsExact
    <3> QED BY <2>1, <2>2, <3>1, KeepsPicture DEF Who
  <2> QED BY <2>4, <2>5, <2>6, <2>7 DEF FbInv
<1>12. ASSUME ResetDisplay PROVE FbInv'
  <2>1. /\ timing' = Off /\ scale' = NoScale /\ control' = {7}
        /\ work["fb"] = <<>> /\ fbdev = "out"
        /\ dotclock' = Clock1024
        /\ osdpos' = 0 /\ osdlist' = "foreign" /\ fbmem' = "foreign"
        /\ UNCHANGED <<fbdev, opens, work, seen, video, mbox>>
    BY <1>12, ClockOfProbe, Zenon DEF ResetDisplay
  <2>2. FbTypeOK'
    <3>1. Clock1024 \in Int \X {0, 1}
      BY SMT DEF Clock1024
    <3>2. DOMAIN timing' = 1..Len(FieldWidths) /\ DOMAIN scale' = {"h", "v", "from"}
      BY <2>1 DEF Off, NoScale
    <3> QED BY <1>0, <2>1, <3>1, <3>2 DEF FbTypeOK, ControlBits
  <2>3. opens = 0
    BY <1>0, <2>1 DEF FbTypeOK, DeviceIn
  <2>4. Rests' /\ DeviceIn' /\ Prepared' /\ ShownIsReady'
    BY <1>0, <2>1, <2>3 DEF Rests, DeviceIn, Prepared, ShownIsReady, OSD
  <2>5. OnePicture' /\ HScaled' /\ VScaled'
    BY <2>1 DEF OnePicture, HScaled, VScaled
  <2> QED BY <2>2, <2>4, <2>5 DEF FbInv
<1>13. ASSUME DpcSyncRuns PROVE FbInv'
  <2>1. /\ work'["tool"] = DpcSyncSteps /\ work'["fb"] = work["fb"]
        /\ work' \in [{"fb", "tool"} -> Seq(FbStep)]
    BY <1>0, <1>13, ToolPlan DEF DpcSyncRuns, FbTypeOK
  <2>2. UNCHANGED <<fbdev, opens, seen, control, osdlist, osdpos, fbmem, video, mbox, timing, scale, dotclock>>
    BY <1>13 DEF DpcSyncRuns
  <2>3. FbTypeOK'
    BY <1>0, <2>1, <2>2 DEF FbTypeOK
  <2>4. Rests'
    BY <1>0, <2>1, ToolPlan, RestOfItself DEF Rests
  <2>5. ToolLeft' = 6 /\ FbLeft' = FbLeft
    BY <2>1, ToolPlan DEF ToolLeft, FbLeft
  <2>6. DeviceIn' /\ Prepared' /\ ShownIsReady' /\ OnePicture'
    BY <1>0, <2>1, <2>2, <2>5 DEF DeviceIn, Prepared, ShownIsReady, OnePicture
  <2>7. HScaled' /\ VScaled'
    BY <2>5 DEF HScaled, VScaled
  <2> QED BY <2>3, <2>4, <2>6, <2>7 DEF FbInv
<1>14. ASSUME FbLoads PROVE FbInv'
  <2>1. /\ work'["fb"] = FbSteps /\ work'["tool"] = work["tool"]
        /\ work' \in [{"fb", "tool"} -> Seq(FbStep)]
    BY <1>0, <1>14, FbPlan DEF FbLoads, FbTypeOK
  <2>2. /\ fbdev' = "in"
        /\ UNCHANGED <<opens, seen, control, osdlist, osdpos, fbmem, video, mbox, timing, scale, dotclock>>
    BY <1>14 DEF FbLoads
  <2>3. FbTypeOK'
    BY <1>0, <2>1, <2>2 DEF FbTypeOK
  <2>4. Rests'
    BY <1>0, <2>1, FbPlan, RestOfItself DEF Rests
  <2>5. FbLeft' = 16 /\ ToolLeft' = ToolLeft
    BY <2>1, FbPlan DEF ToolLeft, FbLeft
  <2>6. DeviceIn' /\ Prepared' /\ ShownIsReady' /\ OnePicture'
    BY <1>0, <2>2, <2>5 DEF DeviceIn, Prepared, ShownIsReady, OnePicture
  <2>7. HScaled' /\ VScaled'
    BY <2>5 DEF HScaled, VScaled
  <2> QED BY <2>3, <2>4, <2>6, <2>7 DEF FbInv
<1>15. ASSUME FbUnloads PROVE FbInv'
  <2>1. /\ opens = 0 /\ work["fb"] = <<>> /\ fbdev' = "out" /\ video' = 0
        /\ UNCHANGED <<opens, work, seen, control, osdlist, osdpos, fbmem, mbox, timing, scale, dotclock>>
    BY <1>15 DEF FbUnloads
  <2> QED BY <1>0, <2>1 DEF FbInv, FbTypeOK, Rests, DeviceIn, Prepared, ShownIsReady, OnePicture,
         HScaled, VScaled, HIsExact, VIsExact, FbLeft, ToolLeft
<1>16. ASSUME FbOpens PROVE FbInv'
  <2>1. /\ fbdev = "in" /\ opens < MaxOpens
        /\ opens' = opens + 1 /\ osdlist' = "installed" /\ video' = 1
        /\ UNCHANGED <<fbdev, work, seen, control, osdpos, fbmem, mbox, timing, scale, dotclock>>
    BY <1>16 DEF FbOpens
  <2>2. opens' \in 0..MaxOpens
    BY <1>0, <2>1, MaxOpensAssumption DEF FbTypeOK
  <2> QED BY <1>0, <2>1, <2>2 DEF FbInv, FbTypeOK, Rests, DeviceIn, Prepared, ShownIsReady, OnePicture,
         HScaled, VScaled, HIsExact, VIsExact, FbLeft, ToolLeft
<1>17. ASSUME FbReleases PROVE FbInv'
  <2>1. /\ opens > 0 /\ opens' = opens - 1 /\ video' = 0
        /\ UNCHANGED <<fbdev, work, seen, control, osdlist, osdpos, fbmem, mbox, timing, scale, dotclock>>
    BY <1>17 DEF FbReleases
  <2>2. opens' \in 0..MaxOpens
    BY <1>0, <2>1, MaxOpensAssumption DEF FbTypeOK
  <2> QED BY <1>0, <2>1, <2>2 DEF FbInv, FbTypeOK, Rests, DeviceIn, Prepared, ShownIsReady, OnePicture,
         HScaled, VScaled, HIsExact, VIsExact, FbLeft, ToolLeft
<1>18. ASSUME FbDraws PROVE FbInv'
  <2>1. /\ fbmem' = "drawn"
        /\ UNCHANGED <<fbdev, opens, work, seen, control, osdlist, osdpos, video, mbox, timing, scale, dotclock>>
    BY <1>18 DEF FbDraws
  <2> QED BY <1>0, <2>1 DEF FbInv, FbTypeOK, Rests, DeviceIn, Prepared, ShownIsReady, OnePicture,
         HScaled, VScaled, HIsExact, VIsExact, FbLeft, ToolLeft
<1>19. ASSUME NEW mode \in {0, 1}, FbBlank(mode) PROVE FbInv'
  <2>1. /\ control' = {5}
        /\ UNCHANGED <<fbdev, opens, work, seen, osdlist, osdpos, fbmem, video, mbox, timing, scale, dotclock>>
    BY <1>19 DEF FbBlank
  <2>2. control' \subseteq ControlBits /\ OSD \notin control'
    BY <2>1 DEF ControlBits, OSD
  <2> QED BY <1>0, <2>1, <2>2 DEF FbInv, FbTypeOK, Rests, DeviceIn, Prepared, ShownIsReady, OnePicture,
         HScaled, VScaled, HIsExact, VIsExact, FbLeft, ToolLeft
<1>20. ASSUME UNCHANGED fbVars PROVE FbInv'
  BY <1>0, <1>20 DEF fbVars, FbInv, FbTypeOK, Rests, DeviceIn, Prepared, ShownIsReady, OnePicture,
         HScaled, VScaled, HIsExact, VIsExact, FbLeft, ToolLeft
<1> QED
  BY <1>1, <1>2, <1>3, <1>4, <1>5, <1>6, <1>7, <1>8, <1>9, <1>10, <1>11, <1>12, <1>13, <1>14,
     <1>15, <1>16, <1>17, <1>18, <1>19, <1>20 DEF FbNext, Who

-------------------------------------------------------------------------------
(* Theorems. *)

\* The display's registers and the lists of steps stay what they are, for every number
\* of descriptors (struct current_par, tl880fb.c 102-108).
THEOREM FbTypeCorrect == FbSpec => []FbTypeOK
<1>1. FbInv => FbTypeOK
  BY DEF FbInv
<1> QED BY FbInvInit, FbInvStep, <1>1, PTL DEF FbSpec

\* The OSD never shows memory that nobody prepared, whatever opens the framebuffer, blanks
\* it, draws or runs the tool while the module starts: a value of register 10000 that is
\* written back after another program has changed it can bring the OSD's bit back only
\* when the list, the position and the picture are in place already (tl880fb_init
\* 925-959, tl880fb_open 131-138).
THEOREM OsdShowsWhatIsReady == FbSpec => []ShownIsReady
<1>1. FbInv => ShownIsReady
  BY DEF FbInv
<1> QED BY FbInvInit, FbInvStep, <1>1, PTL DEF FbSpec

\* When the module and the tool have done what they began, in whatever order their steps
\* were taken, the overlay fills the active area, the scaler steps through its source
\* without an error and the clock is that of the width; and for every source whatever the
\* scaler's words of every overlay in the tables are exact whenever eight bits of step
\* allow it (set_aux_1024x768p 767-786, set_aux_horizontal_scaler 703-712,
\* set_aux_vertical_scaler 714-732).
THEOREM PictureIsOne == FbSpec => []PictureExact
<1>1. FbInv => PictureExact
  <2> SUFFICES ASSUME FbInv PROVE PictureExact
    OBVIOUS
  <2>1. ASSUME \A w \in {"fb", "tool"} : work[w] = <<>>, timing # Off
        PROVE  /\ Exact(timing[XRes], scale.from[1], scale.h)
               /\ Exact(timing[YRes], scale.from[2], scale.v)
               /\ dotclock = DpcClock(timing[XRes], timing[Progressive] = 0)
    <3>1. FbTypeOK /\ Rests /\ OnePicture /\ HScaled /\ VScaled
      BY DEF FbInv
    <3>2. FbLeft = 0 /\ ToolLeft = 0
      BY <2>1, <3>1, PlaceInList
    <3>3. HIsExact /\ VIsExact
      BY <2>1, <3>1, <3>2 DEF HScaled, VScaled
    <3>4. timing[XRes] = 1024 /\ timing[YRes] = 768 /\ dotclock = Clock1024
      BY <2>1, <3>1 DEF OnePicture
    <3>5. DpcClock(timing[XRes], timing[Progressive] = 0) = Clock1024
      BY <3>4, SMT DEF DpcClock, Clock1024
    <3> QED BY <3>3, <3>4, <3>5 DEF HIsExact, VIsExact
  <2> QED BY <2>1, TimingsFitHolds, ScalersFitHolds, ClocksFitHolds DEF PictureExact
<1> QED BY FbInvInit, FbInvStep, <1>1, PTL DEF FbSpec

===============================================================================
