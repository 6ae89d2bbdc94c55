----------------------------- MODULE RequestProofs -----------------------------
(***************************************************************************)
(* Theorems about what a request for a slot meets: the slot computation      *)
(* (SlotSearch), the listing against a booking made at once (SlotOffer), the *)
(* host's own calendar (BusyTime) and the intake form (IntakeForm).          *)
(*                                                                         *)
(* The windows of a day are merged by a recursive function over a sequence,  *)
(* and so are the times a whole pool is busy.  What such a function holds    *)
(* is shown by an induction in the form the provers can use: the set of the  *)
(* numbers for which it is so has 0 and the successor of each of its own     *)
(* (Inductive).  The rest is arithmetic of days, clocks and grids.            *)
(***************************************************************************)
EXTENDS SlotOffer, SlotSearch, BusyTime, IntakeForm, SequenceTheorems, FiniteSetTheorems,
        WellFoundedInduction, TLAPS

-----------------------------------------------------------------------------
(* Induction, with a set for what is shown. *)
LEMMA LeastOf ==
  ASSUME NEW T \in SUBSET Nat, T # {}
  PROVE  \E x \in T : \A y \in T : x <= y
<1> DEFINE R == OpToRel(<, Nat)
<1>1. IsWellFoundedOn(R, Nat)
  BY NatLessThanWellFounded
<1>2. \A x, y \in Nat : x < y => <<x, y>> \in R
  BY DEF OpToRel
<1> HIDE DEF R
<1>3. PICK x \in T : \A y \in T : ~ (<<y, x>> \in R)
  BY <1>1, WFMin
<1>4. ASSUME NEW y \in T PROVE x <= y
  <2>1. x \in Nat /\ y \in Nat
    OBVIOUS
  <2>2. ~ y < x
    BY <1>2, <1>3, <2>1
  <2> QED BY <2>1, <2>2
<1> QED BY <1>4

LEMMA Inductive ==
  ASSUME NEW S, 0 \in S, \A n \in Nat : n \in S => n + 1 \in S
  PROVE  Nat \subseteq S
<1> SUFFICES ASSUME Nat \ S # {} PROVE FALSE
  OBVIOUS
<1>1. PICK x \in Nat \ S : \A y \in Nat \ S : x <= y
  BY LeastOf
<1>2. x - 1 \in Nat /\ ~ x <= x - 1 /\ x - 1 + 1 = x
  BY <1>1
<1>3. x - 1 \in S
  BY <1>1, <1>2
<1> QED BY <1>1, <1>2, <1>3

-----------------------------------------------------------------------------
(* Windows that are merged. *)

Window == [start : Int, end : Int]

Inside(u, w) == w.start <= u /\ u < w.end

(* f is the windows found so far, after each of the first k of s. *)
Merges(f, s, k) ==
  f = [n \in 0 .. k |-> IF n = 0 THEN <<>> ELSE Joined(f[n - 1], s[n])]

LEMMA MergeExists ==
  ASSUME NEW s, NEW k \in Nat
  PROVE  \E f : Merges(f, s, k)
<1> DEFINE S == { n \in Nat : \E f : Merges(f, s, n) }
<1>1. 0 \in S
  <2> DEFINE g == [n \in 0 .. 0 |-> <<>>]
  <2>1. \A n \in 0 .. 0 : n = 0
    OBVIOUS
  <2>2. Merges(g, s, 0)
    BY <2>1 DEF Merges
  <2> QED BY <2>2
<1>2. ASSUME NEW n \in Nat, n \in S PROVE n + 1 \in S
  <2>1. PICK f : Merges(f, s, n)
    BY <1>2
  <2> DEFINE g == [m \in 0 .. n + 1 |->
                     IF m = n + 1 THEN Joined(f[n], s[n + 1]) ELSE f[m]]
             step(m) == IF m = 0 THEN <<>> ELSE Joined(g[m - 1], s[m])
  <2>2. \A m \in 0 .. n : f[m] = IF m = 0 THEN <<>> ELSE Joined(f[m - 1], s[m])
    BY <2>1 DEF Merges
  <2>3. ASSUME NEW m \in 0 .. n + 1 PROVE g[m] = step(m)
    <3>1. CASE m = n + 1
      <4>1. m - 1 = n /\ m # 0 /\ m - 1 \in 0 .. n + 1 /\ m - 1 # n + 1
        BY <3>1
      <4>2. g[m] = Joined(f[n], s[n + 1]) /\ g[m - 1] = f[n]
        BY <3>1, <4>1
      <4> QED BY <3>1, <4>1, <4>2
    <3>2. CASE m = 0
      BY <2>2, <3>2
    <3>3. CASE m # 0 /\ m # n + 1
      <4>1. m \in 0 .. n /\ m - 1 \in 0 .. n + 1 /\ m - 1 # n + 1
        BY <3>3
      <4>2. g[m] = f[m] /\ g[m - 1] = f[m - 1]
        BY <3>3, <4>1
      <4> QED BY <2>2, <3>3, <4>1, <4>2
    <3> QED BY <3>1, <3>2, <3>3
  <2>4. g = [m \in 0 .. n + 1 |-> g[m]]
    OBVIOUS
  <2> HIDE DEF g
  <2>5. g = [m \in 0 .. n + 1 |-> step(m)]
    BY <2>3, <2>4
  <2>6. Merges(g, s, n + 1)
    BY <2>5 DEF Merges
  <2> QED BY <2>6
<1>3. Nat \subseteq S
  <2> HIDE DEF S
  <2> QED BY <1>1, <1>2, Inductive
<1> QED BY <1>3

LEMMA MergeIs ==
  ASSUME NEW ws, Len(InOrder(ws)) \in Nat
  PROVE  \E f : /\ Merges(f, InOrder(ws), Len(InOrder(ws)))
                /\ MergeOverlaps(ws) = ToSet(f[Len(InOrder(ws))])
<1> DEFINE s == InOrder(ws)
           f == CHOOSE g : g = [n \in 0 .. Len(s) |->
                                  IF n = 0 THEN <<>> ELSE Joined(g[n - 1], s[n])]
<1>1. \E g : Merges(g, s, Len(s))
  BY MergeExists
<1>2. Merges(f, s, Len(s))
  BY <1>1 DEF Merges
<1>3. MergeOverlaps(ws) = ToSet(f[Len(s)])
  BY DEF MergeOverlaps
<1> QED BY <1>2, <1>3

(* What joining one more window does. *)
LEMMA JoinedFacts ==
  ASSUME NEW out \in Seq(Window), NEW w \in Window
  PROVE  \/ /\ out # <<>> => out[Len(out)].end < w.start
            /\ Joined(out, w) = Append(out, w)
         \/ /\ out # <<>> /\ w.start <= out[Len(out)].end
            /\ \E e \in { out[Len(out)].end, w.end } :
                 /\ out[Len(out)].end <= e /\ w.end <= e
                 /\ Joined(out, w) =
                      [out EXCEPT ![Len(out)] = Interval(out[Len(out)].start, e)]
<1>1. CASE ~ (out # <<>> /\ w.start <= Last(out).end)
  <2>1. out # <<>> => Len(out) \in 1 .. Len(out)
    OBVIOUS
  <2>2. out # <<>> => out[Len(out)] \in Window
    BY <2>1
  <2> QED BY <1>1, <2>2 DEF Joined, Last, Window
<1>2. CASE out # <<>> /\ w.start <= Last(out).end
  <2> DEFINE l == out[Len(out)]
  <2>1. Len(out) \in 1 .. Len(out)
    BY <1>2
  <2>2. l \in Window /\ l.start \in Int /\ l.end \in Int /\ w.end \in Int
    <3>1. l \in Window
      BY <2>1
    <3> HIDE DEF l
    <3> QED BY <3>1 DEF Window
  <2>3. \A e : [l EXCEPT !.end = e] = Interval(l.start, e)
    BY <2>2 DEF Interval, Window
  <2>4. \A e : Lengthen(out, e) = [out EXCEPT ![Len(out)] = Interval(l.start, e)]
    BY <2>3 DEF Lengthen
  <2>5. CASE w.end > l.end
    <3>1. Joined(out, w) = Lengthen(out, w.end)
      BY <1>2, <2>5 DEF Joined, Last
    <3> QED BY <1>2, <2>2, <2>4, <2>5, <3>1 DEF Last
  <2>6. CASE ~ w.end > l.end
    <3>1. Joined(out, w) = out
      BY <1>2, <2>6 DEF Joined, Last
    <3>2. l = Interval(l.start, l.end)
      BY <2>2 DEF Interval, Window
    <3>3. out = [out EXCEPT ![Len(out)] = l]
      OBVIOUS
    <3>4. l.end <= l.end /\ w.end <= l.end
      BY <2>2, <2>6
    <3> QED BY <1>2, <3>1, <3>2, <3>3, <3>4 DEF Last
  <2> QED BY <2>5, <2>6
<1> QED BY <1>1, <1>2

(* w is made of windows of ws: it begins and ends with some of them, and has *)
(* no time in it that none of them has.                                      *)
Made(w, ws) == /\ w \in Window
               /\ \E v \in ws : v.start = w.start
               /\ \E v \in ws : v.end = w.end
               /\ \A u \in Int : Inside(u, w) => \E v \in ws : Inside(u, v)

Separate(out) == \A i, j \in 1 .. Len(out) : i < j => out[i].end < out[j].start

Held(out, v) == \E i \in 1 .. Len(out) : out[i].start <= v.start /\ v.end <= out[i].end

LEMMA JoinedMade ==
  ASSUME NEW ws \in SUBSET Window, NEW w \in ws, NEW out \in Seq(Window),
         \A i \in 1 .. Len(out) : Made(out[i], ws)
  PROVE  /\ Joined(out, w) \in Seq(Window)
         /\ \A i \in 1 .. Len(Joined(out, w)) : Made(Joined(out, w)[i], ws)
<1>1. Made(w, ws)
  BY DEF Made
<1>2. CASE Joined(out, w) = Append(out, w)
  <2>1. /\ Append(out, w) \in Seq(Window) /\ Len(Append(out, w)) = Len(out) + 1
        /\ \A i \in 1 .. Len(out) + 1 :
             Append(out, w)[i] = IF i = Len(out) + 1 THEN w ELSE out[i]
    OBVIOUS
  <2>2. \A i \in 1 .. Len(out) + 1 : i # Len(out) + 1 => i \in 1 .. Len(out)
    OBVIOUS
  <2> QED BY <1>1, <1>2, <2>1, <2>2
<1>3. ASSUME NEW e \in { out[Len(out)].end, w.end },
             out # <<>>, w.start <= out[Len(out)].end,
             out[Len(out)].end <= e, w.end <= e,
             Joined(out, w) = [out EXCEPT ![Len(out)] = Interval(out[Len(out)].start, e)]
      PROVE  /\ Joined(out, w) \in Seq(Window)
             /\ \A i \in 1 .. Len(Joined(out, w)) : Made(Joined(out, w)[i], ws)
  <2> DEFINE l == out[Len(out)]
             m == Interval(l.start, e)
  <2>1. Len(out) \in 1 .. Len(out)
    BY <1>3
  <2>2. l \in Window /\ Made(l, ws)
    BY <2>1
  <2>3. l.start \in Int /\ l.end \in Int /\ w.start \in Int /\ w.end \in Int
    <3> HIDE DEF l
    <3> QED BY <2>2 DEF Window
  <2>4. m \in Window /\ m.start = l.start /\ m.end = e /\ e \in Int
    BY <1>3, <2>3 DEF Window, Interval
  <2>5. \E v \in ws : v.start = m.start
    BY <2>2, <2>4 DEF Made
  <2>6. \E v \in ws : v.end = m.end
    <3>1. CASE e = w.end
      BY <2>4, <3>1
    <3>2. CASE e = l.end
      BY <2>2, <2>4, <3>2 DEF Made
    <3> QED BY <1>3, <3>1, <3>2
  <2>7. ASSUME NEW u \in Int, Inside(u, m) PROVE \E v \in ws : Inside(u, v)
    <3>1. l.start <= u /\ u < e
      BY <2>4, <2>7 DEF Inside
    <3>2. CASE u < l.end
      BY <2>2, <3>1, <3>2 DEF Made, Inside
    <3>3. CASE ~ u < l.end
      <4>1. e = w.end /\ w.start <= u
        BY <1>3, <2>3, <2>4, <3>1, <3>3
      <4> QED BY <3>1, <4>1 DEF Inside
    <3> QED BY <3>2, <3>3
  <2>8. Made(m, ws)
    BY <2>4, <2>5, <2>6, <2>7 DEF Made
  <2>9. /\ [out EXCEPT ![Len(out)] = m] \in Seq(Window)
        /\ Len([out EXCEPT ![Len(out)] = m]) = Len(out)
        /\ \A i \in 1 .. Len(out) :
             [out EXCEPT ![Len(out)] = m][i] = IF i = Len(out) THEN m ELSE out[i]
    <3> HIDE DEF m
    <3> QED BY <2>1, <2>4
  <2> QED BY <1>3, <2>8, <2>9
<1> QED BY <1>2, <1>3, JoinedFacts

LEMMA JoinedType ==
  ASSUME NEW w \in Window, NEW out \in Seq(Window)
  PROVE  Joined(out, w) \in Seq(Window)
<1>1. CASE Joined(out, w) = Append(out, w)
  BY <1>1
<1>2. ASSUME NEW e \in { out[Len(out)].end, w.end }, out # <<>>,
             Joined(out, w) = [out EXCEPT ![Len(out)] = Interval(out[Len(out)].start, e)]
      PROVE  Joined(out, w) \in Seq(Window)
  <2>1. Len(out) \in 1 .. Len(out)
    BY <1>2
  <2>2. out[Len(out)] \in Window
    BY <2>1
  <2>3. Interval(out[Len(out)].start, e) \in Window
    BY <1>2, <2>2 DEF Window, Interval
  <2> QED BY <1>2, <2>1, <2>3
<1> QED BY <1>1, <1>2, JoinedFacts

LEMMA JoinedOrder ==
  ASSUME NEW out \in Seq(Window), NEW w \in Window, Separate(out),
         \A i \in 1 .. Len(out) : out[i].start <= w.start
  PROVE  /\ Separate(Joined(out, w))
         /\ \A i \in 1 .. Len(Joined(out, w)) : Joined(out, w)[i].start <= w.start
         /\ Held(Joined(out, w), w)
         /\ \A v \in Window : Held(out, v) => Held(Joined(out, w), v)
<1>1. /\ w.start \in Int /\ w.end \in Int
      /\ \A i \in 1 .. Len(out) : out[i].start \in Int /\ out[i].end \in Int
  <2>1. \A v \in Window : v.start \in Int /\ v.end \in Int
    BY DEF Window
  <2>2. \A i \in 1 .. Len(out) : out[i] \in Window
    OBVIOUS
  <2> QED BY <2>1, <2>2
<1>2. CASE Joined(out, w) = Append(out, w) /\ (out # <<>> => out[Len(out)].end < w.start)
  <2> DEFINE new == Append(out, w)
             n == Len(out)
  <2>1. /\ Len(new) = n + 1 /\ n \in Nat
        /\ \A i \in 1 .. n + 1 : new[i] = IF i = n + 1 THEN w ELSE out[i]
        /\ new[n + 1] = w
    OBVIOUS
  <2>2. \A i \in 1 .. n + 1 : i # n + 1 => i \in 1 .. n
    BY <2>1
  <2>3. ASSUME NEW i \in 1 .. n PROVE out[i].end < w.start
    <3>1. n \in 1 .. n /\ out # <<>>
      BY <2>1
    <3>2. CASE i = n
      BY <1>2, <3>1, <3>2
    <3>3. CASE i < n
      <4>1. out[i].end < out[n].start
        BY <3>1, <3>3 DEF Separate
      <4>2. out[n].start <= w.start
        BY <3>1
      <4>3. out[i].end \in Int /\ out[n].start \in Int /\ w.start \in Int
        BY <1>1, <3>1
      <4> HIDE DEF n
      <4> QED BY <4>1, <4>2, <4>3
    <3>4. i = n \/ i < n
      <4> HIDE DEF n
      <4> QED BY <2>1
    <3> QED BY <3>2, <3>3, <3>4
  <2> HIDE DEF new, n
  <2>4. \A i, j \in 1 .. n + 1 : i < j => new[i].end < new[j].start
    <3> SUFFICES ASSUME NEW i \in 1 .. n + 1, NEW j \in 1 .. n + 1, i < j
                 PROVE  new[i].end < new[j].start
      OBVIOUS
    <3>1. i \in 1 .. n /\ i # n + 1 /\ new[i] = out[i]
      BY <2>1
    <3>2. CASE j = n + 1
      BY <2>1, <2>3, <3>1, <3>2
    <3>3. CASE j # n + 1
      <4>1. j \in 1 .. n /\ new[j] = out[j]
        BY <2>1, <2>2, <3>3
      <4> QED BY <3>1, <4>1 DEF Separate, n
    <3> QED BY <3>2, <3>3
  <2>5. \A i \in 1 .. n + 1 : new[i].start <= w.start
    BY <1>1, <2>1, <2>2 DEF n
  <2>6. Held(new, w)
    <3>1. n + 1 \in 1 .. n + 1 /\ w.start <= w.start /\ w.end <= w.end
      BY <1>1, <2>1
    <3> QED BY <2>1, <3>1 DEF Held
  <2>7. ASSUME NEW v \in Window, Held(out, v) PROVE Held(new, v)
    <3>1. PICK i \in 1 .. n : out[i].start <= v.start /\ v.end <= out[i].end
      BY <2>7 DEF Held, n
    <3>2. i \in 1 .. n + 1 /\ new[i] = out[i]
      BY <2>1
    <3> QED BY <2>1, <3>1, <3>2 DEF Held
  <2> QED BY <1>2, <2>1, <2>4, <2>5, <2>6, <2>7 DEF Separate, new
<1>3. ASSUME NEW e \in { out[Len(out)].end, w.end },
             out # <<>>, w.start <= out[Len(out)].end,
             out[Len(out)].end <= e, w.end <= e,
             Joined(out, w) = [out EXCEPT ![Len(out)] = Interval(out[Len(out)].start, e)]
      PROVE  /\ Separate(Joined(out, w))
             /\ \A i \in 1 .. Len(Joined(out, w)) : Joined(out, w)[i].start <= w.start
             /\ Held(Joined(out, w), w)
             /\ \A v \in Window : Held(out, v) => Held(Joined(out, w), v)
  <2> DEFINE n == Len(out)
             new == Joined(out, w)
  <2>1. n \in 1 .. n /\ n \in Nat
    BY <1>3
  <2>2. e \in Int
    BY <1>1, <1>3, <2>1
  <2>3. /\ Len(new) = n
        /\ \A i \in 1 .. n : i # n => new[i] = out[i]
        /\ new[n] = Interval(out[n].start, e)
    BY <1>3, <2>1
  <2>4. new[n].start = out[n].start /\ new[n].end = e
    BY <2>3 DEF Interval
  <2> HIDE DEF new, n
  <2>5. \A i \in 1 .. n : /\ new[i].start = out[i].start
                          /\ out[i].end <= new[i].end
                          /\ i < n => new[i].end = out[i].end
    BY <1>1, <1>3, <2>1, <2>2, <2>3, <2>4 DEF n
  <2>6. ASSUME NEW i \in 1 .. n, NEW j \in 1 .. n, i < j
        PROVE  new[i].end < new[j].start
    <3>1. i < n
      BY <2>1, <2>6
    <3>2. out[i].end < out[j].start
      BY <2>6 DEF Separate, n
    <3> QED BY <2>5, <3>1, <3>2
  <2>7. \A i \in 1 .. n : new[i].start <= w.start
    BY <2>5 DEF n
  <2>8. Held(new, w)
    <3>1. new[n].start <= w.start /\ w.end <= new[n].end
      BY <1>3, <2>1, <2>4, <2>7
    <3> QED BY <2>1, <2>3, <3>1 DEF Held
  <2>9. ASSUME NEW v \in Window, Held(out, v) PROVE Held(new, v)
    <3>1. PICK i \in 1 .. n : out[i].start <= v.start /\ v.end <= out[i].end
      BY <2>9 DEF Held, n
    <3>2. v.end \in Int /\ new[i].end \in Int
      <4>1. i # n => new[i].end = out[i].end
        BY <2>3
      <4> QED BY <1>1, <2>2, <2>4, <4>1 DEF Window, n
    <3>3. new[i].start <= v.start /\ v.end <= new[i].end
      BY <1>1, <2>5, <3>1, <3>2 DEF n
    <3> QED BY <2>3, <3>3 DEF Held
  <2> QED BY <2>3, <2>6, <2>7, <2>8, <2>9 DEF Separate, new
<1> QED BY <1>2, <1>3, JoinedFacts

-----------------------------------------------------------------------------
(* The windows in the order of their starts. *)

Ordered(s) == \A i, j \in DOMAIN s : i < j => s[i].start <= s[j].start

(* Among windows there is one that starts last. *)
LEMMA LastOf ==
  ASSUME NEW ws \in SUBSET Window, IsFiniteSet(ws), ws # {}
  PROVE  \E w \in ws : \A v \in ws : v.start <= w.start
<1> DEFINE S == { n \in Nat :
                    \A vs \in SUBSET Window :
                      IsFiniteSet(vs) /\ Cardinality(vs) = n + 1 =>
                        \E w \in vs : \A v \in vs : v.start <= w.start }
<1>0. \A v \in Window : v.start \in Int
  BY DEF Window
<1>1. 0 \in S
  <2> SUFFICES ASSUME NEW vs \in SUBSET Window, IsFiniteSet(vs), Cardinality(vs) = 1
               PROVE  \E w \in vs : \A v \in vs : v.start <= w.start
    OBVIOUS
  <2>1. PICK w : vs = {w}
    BY FS_Singleton
  <2> QED BY <1>0, <2>1
<1>2. ASSUME NEW n \in Nat, n \in S PROVE n + 1 \in S
  <2> SUFFICES ASSUME NEW vs \in SUBSET Window, IsFiniteSet(vs),
                      Cardinality(vs) = n + 1 + 1
               PROVE  \E w \in vs : \A v \in vs : v.start <= w.start
    OBVIOUS
  <2>1. vs # {}
    BY FS_EmptySet
  <2>2. PICK x \in vs : TRUE
    BY <2>1
  <2>3. IsFiniteSet(vs \ {x}) /\ Cardinality(vs \ {x}) = n + 1
    <3>1. /\ IsFiniteSet(vs \ {x})
          /\ Cardinality(vs \ {x}) = IF x \in vs THEN Cardinality(vs) - 1 ELSE Cardinality(vs)
      BY FS_RemoveElement
    <3> QED BY <3>1
  <2>4. vs \ {x} \in SUBSET Window
    OBVIOUS
  <2>5. PICK w \in vs \ {x} : \A v \in vs \ {x} : v.start <= w.start
    BY <1>2, <2>3, <2>4
  <2>6. CASE x.start <= w.start
    BY <2>5, <2>6
  <2>7. CASE ~ x.start <= w.start
    <3>1. \A v \in vs : v.start <= x.start
      <4> TAKE v \in vs
      <4>1. v.start \in Int /\ x.start \in Int /\ w.start \in Int
        BY <1>0
      <4>2. CASE v = x
        BY <4>1, <4>2
      <4>3. CASE v # x
        BY <2>5, <2>7, <4>1, <4>3
      <4> QED BY <4>2, <4>3
    <3> QED BY <3>1
  <2> QED BY <2>6, <2>7
<1>3. Nat \subseteq S
  <2> HIDE DEF S
  <2> QED BY <1>1, <1>2, Inductive
<1>4. Cardinality(ws) \in Nat /\ Cardinality(ws) # 0
  BY FS_CardinalityType, FS_EmptySet
<1>5. Cardinality(ws) - 1 \in S
  BY <1>3, <1>4
<1> QED BY <1>4, <1>5

LEMMA OrderExists ==
  ASSUME NEW ws \in SUBSET Window, IsFiniteSet(ws)
  PROVE  \E s \in SetToSeqs(ws) : Ordered(s)
<1> DEFINE S == { n \in Nat :
                    \A vs \in SUBSET Window :
                      IsFiniteSet(vs) /\ Cardinality(vs) = n =>
                        \E s \in SetToSeqs(vs) : Ordered(s) }
<1>0. \A v \in Window : v.start \in Int
  BY DEF Window
<1>1. 0 \in S
  <2> SUFFICES ASSUME NEW vs \in SUBSET Window, IsFiniteSet(vs), Cardinality(vs) = 0
               PROVE  \E s \in SetToSeqs(vs) : Ordered(s)
    OBVIOUS
  <2> DEFINE none == [i \in 1 .. 0 |-> 0]
  <2>1. none \in [1 .. 0 -> vs] /\ DOMAIN none = 1 .. 0 /\ \A i \in 1 .. 0 : FALSE
    OBVIOUS
  <2>2. none \in SetToSeqs(vs)
    BY <2>1 DEF SetToSeqs
  <2> QED BY <2>1, <2>2 DEF Ordered
<1>2. ASSUME NEW n \in Nat, n \in S PROVE n + 1 \in S
  <2> SUFFICES ASSUME NEW vs \in SUBSET Window, IsFiniteSet(vs), Cardinality(vs) = n + 1
               PROVE  \E s \in SetToSeqs(vs) : Ordered(s)
    OBVIOUS
  <2>1. vs # {}
    BY FS_EmptySet
  <2>2. PICK x \in vs : \A v \in vs : v.start <= x.start
    BY <2>1, LastOf
  <2>3. IsFiniteSet(vs \ {x}) /\ Cardinality(vs \ {x}) = n
    <3>1. /\ IsFiniteSet(vs \ {x})
          /\ Cardinality(vs \ {x}) = IF x \in vs THEN Cardinality(vs) - 1 ELSE Cardinality(vs)
      BY FS_RemoveElement
    <3> QED BY <3>1
  <2>4. PICK s \in SetToSeqs(vs \ {x}) : Ordered(s)
    BY <1>2, <2>3
  <2>5. /\ s \in [1 .. n -> vs \ {x}]
        /\ \A i, j \in 1 .. n : i # j => s[i] # s[j]
    BY <2>3 DEF SetToSeqs
  <2> DEFINE t == [i \in 1 .. n + 1 |-> IF i = n + 1 THEN x ELSE s[i]]
  <2>6. \A i \in 1 .. n + 1 : i = n + 1 \/ i \in 1 .. n
    OBVIOUS
  <2>7. /\ t \in [1 .. n + 1 -> vs]
        /\ \A i, j \in 1 .. n + 1 : i # j => t[i] # t[j]
    BY <2>5, <2>6
  <2>8. t \in SetToSeqs(vs)
    BY <2>7 DEF SetToSeqs
  <2>9. ASSUME NEW i \in 1 .. n + 1, NEW j \in 1 .. n + 1, i < j
        PROVE  t[i].start <= t[j].start
    <3>1. i \in 1 .. n /\ t[i] = s[i] /\ s[i] \in vs
      BY <2>5, <2>9
    <3>2. CASE j = n + 1
      BY <2>2, <3>1, <3>2
    <3>3. CASE j # n + 1
      <4>1. j \in 1 .. n /\ t[j] = s[j]
        BY <2>6, <3>3
      <4> QED BY <2>4, <2>5, <2>9, <3>1, <4>1 DEF Ordered
    <3> QED BY <3>2, <3>3
  <2>10. DOMAIN t = 1 .. n + 1
    OBVIOUS
  <2> HIDE DEF t
  <2>11. Ordered(t)
    BY <2>9, <2>10 DEF Ordered
  <2> QED BY <2>8, <2>11
<1>3. Nat \subseteq S
  <2> HIDE DEF S
  <2> QED BY <1>1, <1>2, Inductive
<1>4. Cardinality(ws) \in S
  BY <1>3, FS_CardinalityType
<1> QED BY <1>4

LEMMA InOrderIs ==
  ASSUME NEW ws \in SUBSET Window, IsFiniteSet(ws)
  PROVE  /\ InOrder(ws) \in Seq(ws) /\ Ordered(InOrder(ws))
         /\ \A w \in ws : \E i \in 1 .. Len(InOrder(ws)) : InOrder(ws)[i] = w
<1> DEFINE n == Cardinality(ws)
           s == InOrder(ws)
<1>1. n \in Nat
  BY FS_CardinalityType
<1>2. s \in SetToSeqs(ws) /\ Ordered(s)
  BY OrderExists DEF InOrder, Ordered
<1>3. s \in [1 .. n -> ws] /\ \A i, j \in 1 .. n : i # j => s[i] # s[j]
  BY <1>2 DEF SetToSeqs
<1> HIDE DEF s
<1>4. s \in Seq(ws) /\ Len(s) = n
  BY <1>1, <1>3
<1>5. s \in Injection(1 .. n, ws)
  BY <1>3 DEF Injection, IsInjective
<1>6. IsFiniteSet(1 .. n) /\ Cardinality(1 .. n) = n
  <2>1. /\ IsFiniteSet(1 .. n)
        /\ Cardinality(1 .. n) = IF 1 > n THEN 0 ELSE n - 1 + 1
    BY <1>1, FS_Interval
  <2> QED BY <1>1, <2>1
<1>7. s \in Surjection(1 .. n, ws)
  BY <1>5, <1>6, FS_Injection
<1>8. \A w \in ws : \E i \in 1 .. n : s[i] = w
  BY <1>7 DEF Surjection
<1> QED BY <1>2, <1>4, <1>8 DEF s

-----------------------------------------------------------------------------
(* What the merged windows are. *)

LEMMA MergeSteps ==
  ASSUME NEW s, NEW k \in Nat, NEW f, Merges(f, s, k)
  PROVE  /\ f[0] = <<>>
         /\ \A n \in Nat : n + 1 <= k => f[n + 1] = Joined(f[n], s[n + 1])
<1>1. \A n \in 0 .. k : f[n] = IF n = 0 THEN <<>> ELSE Joined(f[n - 1], s[n])
  BY DEF Merges
<1>2. 0 \in 0 .. k
  OBVIOUS
<1>3. ASSUME NEW n \in Nat, n + 1 <= k PROVE f[n + 1] = Joined(f[n], s[n + 1])
  <2>1. n + 1 \in 0 .. k /\ n + 1 # 0 /\ n + 1 - 1 = n
    BY <1>3
  <2> QED BY <1>1, <2>1
<1> QED BY <1>1, <1>2, <1>3

(* Every merged window is made of the ones that were merged. *)
LEMMA MergedMade ==
  ASSUME NEW ws \in SUBSET Window, IsFiniteSet(ws), NEW m \in MergeOverlaps(ws)
  PROVE  Made(m, ws)
<1> DEFINE s == InOrder(ws)
           k == Len(s)
<1>1. s \in Seq(ws) /\ k \in Nat
  BY InOrderIs
<1>2. PICK f : Merges(f, s, k) /\ MergeOverlaps(ws) = ToSet(f[k])
  BY <1>1, MergeIs
<1> DEFINE S == { n \in Nat : n <= k => /\ f[n] \in Seq(Window)
                                       /\ \A i \in 1 .. Len(f[n]) : Made(f[n][i], ws) }
<1>3. f[0] = <<>> /\ \A n \in Nat : n + 1 <= k => f[n + 1] = Joined(f[n], s[n + 1])
  BY <1>1, <1>2, MergeSteps
<1> HIDE DEF s, k
<1>4. 0 \in S
  <2>1. f[0] \in Seq(Window) /\ Len(f[0]) = 0
    BY <1>3
  <2>2. \A i \in 1 .. Len(f[0]) : FALSE
    BY <2>1
  <2> QED BY <2>1, <2>2
<1>5. ASSUME NEW n \in Nat, n \in S PROVE n + 1 \in S
  <2> SUFFICES ASSUME n + 1 <= k
               PROVE  /\ f[n + 1] \in Seq(Window)
                      /\ \A i \in 1 .. Len(f[n + 1]) : Made(f[n + 1][i], ws)
    OBVIOUS
  <2>1. n <= k /\ n + 1 \in 1 .. k
    BY <1>1
  <2>2. f[n] \in Seq(Window) /\ \A i \in 1 .. Len(f[n]) : Made(f[n][i], ws)
    BY <1>5, <2>1
  <2>3. s[n + 1] \in ws
    BY <1>1, <2>1 DEF k
  <2>4. f[n + 1] = Joined(f[n], s[n + 1])
    BY <1>3
  <2> QED BY <2>2, <2>3, <2>4, JoinedMade
<1>6. k \in S
  <2> HIDE DEF S
  <2> QED BY <1>1, <1>4, <1>5, Inductive
<1>7. f[k] \in Seq(Window) /\ \A i \in 1 .. Len(f[k]) : Made(f[k][i], ws)
  BY <1>1, <1>6
<1>8. PICK i \in 1 .. Len(f[k]) : m = f[k][i]
  BY <1>2, <1>7 DEF ToSet
<1> QED BY <1>7, <1>8

(* And times without a gap are in one merged window. *)
LEMMA MergedWhole ==
  ASSUME NEW ws \in SUBSET Window, IsFiniteSet(ws),
         NEW a \in Int, NEW b \in Int, a < b,
         \A u \in a .. b - 1 : \E v \in ws : Inside(u, v)
  PROVE  \E m \in MergeOverlaps(ws) : m \in Window /\ m.start <= a /\ b <= m.end
<1> DEFINE s == InOrder(ws)
           k == Len(s)
<1>1. /\ s \in Seq(ws) /\ k \in Nat /\ Ordered(s)
      /\ \A w \in ws : \E i \in 1 .. k : s[i] = w
  BY InOrderIs
<1>2. PICK f : Merges(f, s, k) /\ MergeOverlaps(ws) = ToSet(f[k])
  BY <1>1, MergeIs
<1> DEFINE Good(n) == /\ f[n] \in Seq(Window) /\ Separate(f[n])
                      /\ \A i \in 1 .. Len(f[n]) : \A j \in 1 .. k :
                           n <= j => f[n][i].start <= s[j].start
                      /\ \A j \in 1 .. n : Held(f[n], s[j])
           S == { n \in Nat : n <= k => Good(n) }
<1>3. f[0] = <<>> /\ \A n \in Nat : n + 1 <= k => f[n + 1] = Joined(f[n], s[n + 1])
  BY <1>1, <1>2, MergeSteps
<1>4. \A j \in 1 .. k : s[j] \in ws /\ s[j] \in Window
  BY <1>1
<1>5. \A i, j \in 1 .. k : i < j => s[i].start <= s[j].start
  <2>1. DOMAIN s = 1 .. k
    BY <1>1
  <2> QED BY <1>1, <2>1 DEF Ordered
<1> HIDE DEF s, k
<1>6. 0 \in S
  <2>1. f[0] \in Seq(Window) /\ Len(f[0]) = 0
    BY <1>3
  <2>2. (\A i \in 1 .. Len(f[0]) : FALSE) /\ (\A j \in 1 .. 0 : FALSE)
    BY <2>1
  <2>3. Good(0)
    BY <2>1, <2>2 DEF Separate
  <2> QED BY <2>3
<1>7. ASSUME NEW n \in Nat, n \in S PROVE n + 1 \in S
  <2> SUFFICES ASSUME n + 1 <= k PROVE Good(n + 1)
    OBVIOUS
  <2>1. n <= k /\ n + 1 \in 1 .. k /\ n <= n + 1
    BY <1>1
  <2>2. Good(n)
    BY <1>7, <2>1
  <2> DEFINE w == s[n + 1]
  <2>3. w \in Window /\ \A i \in 1 .. Len(f[n]) : f[n][i].start <= w.start
    BY <1>4, <2>1, <2>2
  <2>4. f[n + 1] = Joined(f[n], w)
    BY <1>3
  <2>5. f[n + 1] \in Seq(Window)
    BY <2>2, <2>3, <2>4, JoinedType
  <2>6. /\ Separate(f[n + 1])
        /\ \A i \in 1 .. Len(f[n + 1]) : f[n + 1][i].start <= w.start
        /\ Held(f[n + 1], w)
        /\ \A v \in Window : Held(f[n], v) => Held(f[n + 1], v)
    BY <2>2, <2>3, <2>4, JoinedOrder
  <2>7. ASSUME NEW i \in 1 .. Len(f[n + 1]), NEW j \in 1 .. k, n + 1 <= j
        PROVE  f[n + 1][i].start <= s[j].start
    <3>1. w.start <= s[j].start
      <4>1. CASE n + 1 = j
        BY <2>3, <4>1 DEF Window
      <4>2. CASE n + 1 < j
        BY <1>5, <2>1, <4>2
      <4> QED BY <2>7, <4>1, <4>2
    <3>2. f[n + 1][i] \in Window /\ s[j] \in Window
      BY <1>4, <2>5
    <3>3. f[n + 1][i].start \in Int /\ s[j].start \in Int /\ w.start \in Int
      BY <2>3, <3>2 DEF Window
    <3> HIDE DEF w
    <3> QED BY <2>6, <3>1, <3>3
  <2>8. ASSUME NEW j \in 1 .. n + 1 PROVE Held(f[n + 1], s[j])
    <3>1. CASE j = n + 1
      BY <2>6, <3>1
    <3>2. CASE j # n + 1
      <4>1. j \in 1 .. n /\ j \in 1 .. k
        BY <1>1, <2>1, <3>2
      <4> QED BY <1>4, <2>2, <2>6, <4>1
    <3> QED BY <3>1, <3>2
  <2> QED BY <2>5, <2>6, <2>7, <2>8
<1>8. k \in S
  <2> HIDE DEF S
  <2> QED BY <1>1, <1>6, <1>7, Inductive
<1> DEFINE out == f[k]
<1>9. /\ out \in Seq(Window) /\ Separate(out)
      /\ \A v \in ws : Held(out, v)
  <2>1. Good(k)
    BY <1>1, <1>8
  <2> QED BY <1>1, <2>1
<1> HIDE DEF out, Good, S
<1>10. \A i \in 1 .. Len(out) : out[i] \in Window /\ out[i].start \in Int /\ out[i].end \in Int
  <2>1. \A i \in 1 .. Len(out) : out[i] \in Window
    BY <1>9
  <2> QED BY <2>1 DEF Window
<1>11. \A u \in a .. b - 1 : \E i \in 1 .. Len(out) : out[i].start <= u /\ u < out[i].end
  <2> TAKE u \in a .. b - 1
  <2>1. PICK v \in ws : v.start <= u /\ u < v.end
    BY DEF Inside
  <2>2. PICK i \in 1 .. Len(out) : out[i].start <= v.start /\ v.end <= out[i].end
    BY <1>9 DEF Held
  <2>3. v.start \in Int /\ v.end \in Int
    BY DEF Window
  <2> QED BY <1>10, <2>1, <2>2, <2>3
<1>12. PICK i \in 1 .. Len(out) : out[i].start <= a /\ a < out[i].end
  <2>1. a \in a .. b - 1
    OBVIOUS
  <2> QED BY <1>11, <2>1
<1>13. b <= out[i].end
  <2> SUFFICES ASSUME out[i].end < b PROVE FALSE
    BY <1>10
  <2> DEFINE u == out[i].end
  <2>1. u \in a .. b - 1 /\ u \in Int
    BY <1>10, <1>12
  <2>2. PICK j \in 1 .. Len(out) : out[j].start <= u /\ u < out[j].end
    BY <1>11, <2>1
  <2>3. i # j
    BY <1>10, <2>2
  <2>4. CASE i < j
    <3>1. u < out[j].start
      BY <1>9, <2>4 DEF Separate
    <3> QED BY <1>10, <2>1, <2>2, <3>1
  <2>5. CASE j < i
    <3>1. out[j].end < out[i].start
      BY <1>9, <2>5 DEF Separate
    <3> HIDE DEF u
    <3>2. out[i].start <= a /\ a <= u
      BY <1>12, <2>1
    <3> QED BY <1>10, <2>1, <2>2, <3>1, <3>2
  <2> QED BY <2>3, <2>4, <2>5
<1>14. out[i] \in MergeOverlaps(ws)
  BY <1>2, <1>9 DEF ToSet, out
<1> QED BY <1>10, <1>12, <1>13, <1>14

-----------------------------------------------------------------------------
LEMMA DayOf ==
  ASSUME NEW d \in Int, NEW l \in Int, d * Day <= l, l < d * Day + Day
  PROVE  l \div Day = d /\ l % Day = l - d * Day
<1> DEFINE k == l - d * Day
<1>1. k \in 0 .. Day - 1 /\ l = d * Day + k
  BY DayAssumption
<1> HIDE DEF k
<1>2. (d * Day + k) \div Day = d /\ (d * Day + k) % Day = k
  BY <1>1, DayAssumption
<1> QED BY <1>1, <1>2 DEF k

LEMMA DayBack ==
  ASSUME NEW l \in Int
  PROVE  /\ l \div Day \in Int /\ l % Day \in 0 .. Day - 1
         /\ l = (l \div Day) * Day + (l % Day)
  BY DayAssumption

(* The marks of a grid. *)
LEMMA GridMark ==
  ASSUME NEW s \in Nat \ {0}, NEW x \in Int
  PROVE  /\ x \div s \in Int /\ (x \div s) * s \in Int
         /\ (x \div s) * s <= x /\ x < (x \div s) * s + s
  OBVIOUS

LEMMA GridAligned ==
  ASSUME NEW s \in Nat \ {0}, NEW x \in Int, NEW k \in Int, x % s = 0
  PROVE  /\ (x - k * s) % s = 0
         /\ x > k * s => x >= k * s + s
<1> DEFINE y == x \div s
<1>1. y \in Int /\ x = y * s
  OBVIOUS
<1> HIDE DEF y
<1>2. x - k * s = (y - k) * s
  BY <1>1
<1>3. ((y - k) * s) % s = 0
  BY <1>1
<1>4. ASSUME x > k * s PROVE x >= k * s + s
  <2>1. y > k
    BY <1>1, <1>4
  <2>2. y >= k + 1
    BY <1>1, <2>1
  <2> QED BY <1>1, <2>2
<1> QED BY <1>2, <1>3, <1>4

-----------------------------------------------------------------------------
(* The windows of a day. *)

Zoned(z) == z \in [base : Int, shift : Int, jump : Int]

HoursWindows(q, d) == UNION { WindowFromHM(q.zone, d, r) : r \in HoursOn(q, d) }

LEMMA ZoneType ==
  ASSUME NEW z, Zoned(z)
  PROVE  /\ z.base \in Int /\ z.shift \in Int /\ z.jump \in Int
         /\ \A t \in Int : Local(z, t) \in Int /\ Utc(z, t) \in Int /\ DateOf(z, t) \in Int
<1>1. z.base \in Int /\ z.shift \in Int /\ z.jump \in Int
  BY DEF Zoned
<1>2. ASSUME NEW t \in Int PROVE Local(z, t) \in Int /\ Utc(z, t) \in Int
  BY <1>1 DEF Local, Utc, Offset, Change
<1> QED BY <1>1, <1>2, DayBack DEF DateOf

LEMMA QueryType ==
  ASSUME NEW q, WellFormed(q)
  PROVE  /\ Zoned(q.zone) /\ StepOf(q) \in Nat \ {0}
         /\ \A d \in Int : \A r \in HoursOn(q, d) : r.start \in 0 .. Day - 1 /\ r.end \in 0 .. Day - 1
<1>1. Zoned(q.zone) /\ StepOf(q) \in Nat \ {0}
  BY DEF WellFormed, Zoned, StepOf
<1>2. \A r \in q.rules \cup q.overrides : Interval(r.start, r.end) \in Hours
  BY DEF WellFormed
<1>3. \A r \in q.rules \cup q.overrides : r.start \in 0 .. Day - 1 /\ r.end \in 0 .. Day - 1
  <2>1. \A a, b : Interval(a, b) \in Hours => a \in 0 .. Day - 1 /\ b \in 0 .. Day - 1
    BY DEF Interval, Hours
  <2> QED BY <1>2, <2>1
<1> QED BY <1>1, <1>3 DEF HoursOn

LEMMA WindowIs ==
  ASSUME NEW z, Zoned(z), NEW d \in Int, NEW r, r.start \in 0 .. Day - 1, r.end \in 0 .. Day - 1
  PROVE  /\ WindowFromHM(z, d, r) \in SUBSET Window
         /\ IsFiniteSet(WindowFromHM(z, d, r))
         /\ \A w \in WindowFromHM(z, d, r) :
              w.start = Utc(z, d * Day + r.start) /\ w.end = Utc(z, d * Day + r.end)
<1> DEFINE a == d * Day + r.start
           b == d * Day + r.end
           w == Interval(Utc(z, a), Utc(z, b))
<1>1. a \in Int /\ b \in Int
  BY DayAssumption
<1>2. w \in Window /\ w.start = Utc(z, a) /\ w.end = Utc(z, b)
  <2> HIDE DEF a, b
  <2> QED BY <1>1, ZoneType DEF Interval, Window
<1>3. WindowFromHM(z, d, r) \in { {w}, {} }
  BY DEF WindowFromHM
<1> HIDE DEF w
<1>4. IsFiniteSet({w}) /\ IsFiniteSet({})
  BY FS_Singleton, FS_EmptySet
<1> QED BY <1>2, <1>3, <1>4

LEMMA HoursWindowsType ==
  ASSUME NEW q, WellFormed(q), NEW d \in Int
  PROVE  HoursWindows(q, d) \in SUBSET Window
<1>1. \A r \in HoursOn(q, d) : WindowFromHM(q.zone, d, r) \in SUBSET Window
  BY QueryType, WindowIs
<1> QED BY <1>1 DEF HoursWindows

(* The image of the weekly hours is finite. *)
LEMMA RuleWindowsFinite ==
  ASSUME NEW q, WellFormed(q), NEW d \in Int, NEW rs \in SUBSET q.rules
  PROVE  IsFiniteSet(UNION { WindowFromHM(q.zone, d, r) : r \in rs })
<1> DEFINE W(r) == WindowFromHM(q.zone, d, r)
           f == [r \in rs |-> W(r)]
           T == { W(r) : r \in rs }
<1>1. IsFiniteSet(rs)
  BY FS_Subset DEF WellFormed
<1>2. f \in Surjection(rs, T)
  BY DEF Surjection
<1>3. IsFiniteSet(T)
  <2> HIDE DEF f, T
  <2> QED BY <1>1, <1>2, FS_Surjection
<1>4. \A r \in rs : IsFiniteSet(W(r))
  <2>1. \A r \in rs : r.start \in 0 .. Day - 1 /\ r.end \in 0 .. Day - 1
    <3>1. \A a, b : Interval(a, b) \in Hours => a \in 0 .. Day - 1 /\ b \in 0 .. Day - 1
      BY DEF Interval, Hours
    <3> QED BY <3>1 DEF WellFormed
  <2> QED BY <2>1, QueryType, WindowIs
<1>5. \A S \in T : IsFiniteSet(S)
  BY <1>4
<1>6. IsFiniteSet(UNION T)
  <2> HIDE DEF T
  <2> QED BY <1>3, <1>5, FS_UNION
<1> QED BY <1>6

(* The free windows of a day are its hours, those of weekdays merged. *)
LEMMA FreeWindowsMade ==
  ASSUME NEW q, WellFormed(q), NEW d \in Int, NEW w \in FreeWindowsForDay(q, d)
  PROVE  Made(w, HoursWindows(q, d))
<1> DEFINE dated == { o \in q.overrides : DateOf(q.zone, o.date) = d }
<1>1. CASE dated # {}
  <2>1. w \in HoursWindows(q, d)
    BY <1>1 DEF FreeWindowsForDay, HoursWindows, HoursOn
  <2> QED BY <2>1, HoursWindowsType DEF Made
<1>2. CASE dated = {}
  <2> DEFINE rs == { r \in q.rules : r.weekday = WeekdayISO(d) }
             ws == UNION { WindowFromHM(q.zone, d, r) : r \in rs }
  <2>1. w \in MergeOverlaps(ws)
    BY <1>2 DEF FreeWindowsForDay
  <2>2. ws = HoursWindows(q, d)
    BY <1>2 DEF HoursWindows, HoursOn, WeekdayISO
  <2>3. IsFiniteSet(ws)
    BY RuleWindowsFinite
  <2> HIDE DEF ws
  <2> QED BY <2>1, <2>2, <2>3, HoursWindowsType, MergedMade
<1> QED BY <1>1, <1>2

LEMMA FreeWindowsWhole ==
  ASSUME NEW q, WellFormed(q), NEW d \in Int, NEW a \in Int, NEW b \in Int, a < b,
         \A u \in a .. b - 1 : \E v \in HoursWindows(q, d) : Inside(u, v)
  PROVE  \E m \in FreeWindowsForDay(q, d) : m \in Window /\ m.start <= a /\ b <= m.end
<1> DEFINE dated == { o \in q.overrides : DateOf(q.zone, o.date) = d }
<1>1. CASE dated # {}
  <2>1. FreeWindowsForDay(q, d) = HoursWindows(q, d)
    BY <1>1 DEF FreeWindowsForDay, HoursWindows, HoursOn
  <2>2. \A o, p \in HoursOn(q, d) : o = p
    BY <1>1 DEF WellFormed, HoursOn
  <2>3. \A v, w \in HoursWindows(q, d) : v = w
    <3>1. \A r \in HoursOn(q, d) : \A v, w \in WindowFromHM(q.zone, d, r) : v = w
      BY DEF WindowFromHM
    <3> QED BY <2>2, <3>1 DEF HoursWindows
  <2>4. a \in a .. b - 1 /\ b - 1 \in a .. b - 1
    OBVIOUS
  <2>5. PICK v \in HoursWindows(q, d) : Inside(a, v)
    BY <2>4
  <2>6. Inside(b - 1, v)
    BY <2>3, <2>4
  <2>7. v \in Window /\ v.start \in Int /\ v.end \in Int
    <3>1. v \in Window
      BY HoursWindowsType
    <3> QED BY <3>1 DEF Window
  <2>8. v.start <= a /\ b <= v.end
    BY <2>5, <2>6, <2>7 DEF Inside
  <2> QED BY <2>1, <2>7, <2>8
<1>2. CASE dated = {}
  <2> DEFINE rs == { r \in q.rules : r.weekday = WeekdayISO(d) }
             ws == UNION { WindowFromHM(q.zone, d, r) : r \in rs }
  <2>1. FreeWindowsForDay(q, d) = MergeOverlaps(ws)
    BY <1>2 DEF FreeWindowsForDay
  <2>2. ws = HoursWindows(q, d)
    BY <1>2 DEF HoursWindows, HoursOn, WeekdayISO
  <2>3. IsFiniteSet(ws)
    BY RuleWindowsFinite
  <2> HIDE DEF ws
  <2> QED BY <2>1, <2>2, <2>3, HoursWindowsType, MergedWhole
<1> QED BY <1>1, <1>2

-----------------------------------------------------------------------------
(* The clock on the host's wall, and the slots of a query. *)

(* What ClockKeepsHours says of an end, and of a begin with the mark of the  *)
(* grid before it.                                                          *)
KeptEnd(z, end) ==
  /\ ~ (z.shift < end /\ end < z.shift + z.jump)
  /\ ~ (z.shift + z.jump <= end /\ end < z.shift)

KeptBegin(z, begin, mark) ==
  /\ ~ (z.shift <= begin /\ begin < z.shift + z.jump)
  /\ ~ (z.shift + z.jump < begin /\ begin < z.shift)
  /\ z.jump < 0 =>
       \A turn \in { z.shift + z.jump, z.shift } : turn <= begin => turn <= mark

(* In the hours between two times of the clock it shows no other. *)
LEMMA ClockWithin ==
  ASSUME NEW z, Zoned(z), NEW a \in Int, NEW b \in Int, NEW u \in Int,
         ~ (z.shift <= a /\ a < z.shift + z.jump),
         ~ (z.shift + z.jump < a /\ a < z.shift),
         KeptEnd(z, b), Utc(z, a) <= u, u < Utc(z, b)
  PROVE  a <= Local(z, u) /\ Local(z, u) < b
<1>1. z.base \in Int /\ z.shift \in Int /\ z.jump \in Int
  BY ZoneType
<1>2. a <= Local(z, u)
  BY <1>1 DEF Utc, Local, Offset, Change
<1>3. Local(z, u) < b
  BY <1>1 DEF Utc, Local, Offset, Change, KeptEnd
<1> QED BY <1>2, <1>3

LEMMA ClockAtBegin ==
  ASSUME NEW z, Zoned(z), NEW a \in Int,
         ~ (z.shift <= a /\ a < z.shift + z.jump),
         ~ (z.shift + z.jump < a /\ a < z.shift)
  PROVE  Local(z, Utc(z, a)) = a
<1>1. z.base \in Int /\ z.shift \in Int /\ z.jump \in Int
  BY ZoneType
<1> QED BY <1>1 DEF Utc, Local, Offset, Change

(* Before and after the change there is nothing to choose.                  *)
LEMMA UtcIs ==
  ASSUME NEW z, Zoned(z), NEW l \in Int
  PROVE  /\ Utc(z, l) \in { l - z.base, l - z.base - z.jump }
         /\ l < z.shift /\ l < z.shift + z.jump => Utc(z, l) = l - z.base
         /\ z.shift <= l /\ z.shift + z.jump <= l => Utc(z, l) = l - z.base - z.jump
<1>1. z.base \in Int /\ z.shift \in Int /\ z.jump \in Int
  BY ZoneType
<1> QED BY <1>1 DEF Utc, Offset, Change

LEMMA MarkBefore ==
  ASSUME NEW z, Zoned(z), NEW a \in Int, NEW m \in Int, NEW s \in Nat \ {0},
         m <= a, a < m + s, KeptBegin(z, a, m), Utc(z, m) < Utc(z, a)
  PROVE  Utc(z, a) <= Utc(z, m) + s
<1>1. z.base \in Int /\ z.shift \in Int /\ z.jump \in Int
  BY ZoneType
<1>2. CASE a < z.shift /\ a < z.shift + z.jump
  BY <1>1, <1>2, UtcIs
<1>3. CASE z.shift <= a /\ z.shift + z.jump <= a
  <2>1. CASE z.shift <= m /\ z.shift + z.jump <= m
    BY <1>1, <1>3, <2>1, UtcIs
  <2>2. CASE z.jump >= 0
    BY <1>1, <1>3, <2>2, UtcIs
  <2> QED BY <1>1, <1>3, <2>1, <2>2 DEF KeptBegin
<1>4. CASE a = z.shift + z.jump /\ z.jump < 0
  <2>1. z.shift + z.jump <= m
    BY <1>1, <1>4 DEF KeptBegin
  <2>2. m = a
    BY <1>1, <1>4, <2>1
  <2>3. Utc(z, a) \in Int
    BY ZoneType
  <2> QED BY <2>2, <2>3
<1>5. /\ ~ (z.shift <= a /\ a < z.shift + z.jump)
      /\ ~ (z.shift + z.jump < a /\ a < z.shift)
  BY DEF KeptBegin
<1> QED BY <1>1, <1>2, <1>3, <1>4, <1>5

(* What ClockKeepsHours says of the hours r of day d. *)
LEMMA KeptHours ==
  ASSUME NEW q, ClockKeepsHours(q), NEW d \in Days(q), NEW r \in HoursOn(q, d)
  PROVE  /\ KeptBegin(q.zone, d * Day + r.start,
                      d * Day + (r.start \div StepOf(q)) * StepOf(q))
         /\ KeptEnd(q.zone, d * Day + r.end)
  BY DEF ClockKeepsHours, KeptBegin, KeptEnd

LEMMA OnDutyInHours ==
  ASSUME NEW q, WellFormed(q), ClockKeepsHours(q), NEW d \in Days(q), d \in Int,
         NEW u \in Int, NEW w \in HoursWindows(q, d), Inside(u, w)
  PROVE  OnDuty(q, u)
<1>1. PICK r \in HoursOn(q, d) : w \in WindowFromHM(q.zone, d, r)
  BY DEF HoursWindows
<1> DEFINE a == d * Day + r.start
           b == d * Day + r.end
           l == Local(q.zone, u)
<1>2. r.start \in 0 .. Day - 1 /\ r.end \in 0 .. Day - 1 /\ Zoned(q.zone)
  BY <1>1, QueryType
<1>3. a \in Int /\ b \in Int /\ d * Day \in Int
  BY <1>2, DayAssumption
<1>4. w.start = Utc(q.zone, a) /\ w.end = Utc(q.zone, b)
  BY <1>1, <1>2, WindowIs
<1>5. Utc(q.zone, a) <= u /\ u < Utc(q.zone, b)
  BY <1>4 DEF Inside
<1>6. /\ ~ (q.zone.shift <= a /\ a < q.zone.shift + q.zone.jump)
      /\ ~ (q.zone.shift + q.zone.jump < a /\ a < q.zone.shift)
      /\ KeptEnd(q.zone, b)
  BY KeptHours DEF KeptBegin
<1> HIDE DEF a, b
<1>7. a <= l /\ l < b
  BY <1>2, <1>3, <1>5, <1>6, ClockWithin
<1>8. l \in Int
  BY <1>2, ZoneType
<1> HIDE DEF l
<1>9. l \div Day = d /\ l % Day = l - d * Day
  <2>1. d * Day <= l /\ l < d * Day + Day
    BY <1>2, <1>3, <1>7, <1>8, DayAssumption DEF a, b
  <2> QED BY <1>8, <2>1, DayOf
<1>10. DateOf(q.zone, u) = d
  BY <1>9 DEF DateOf, l
<1>11. r.start <= l % Day /\ l % Day < r.end
  BY <1>2, <1>3, <1>7, <1>8, <1>9 DEF a, b
<1> QED BY <1>1, <1>10, <1>11 DEF OnDuty, l

(* No position is tried before its window. *)
LEMMA FirstNotBefore ==
  ASSUME NEW q, WellFormed(q), ClockKeepsHours(q), NEW d \in Days(q), d \in Int,
         NEW w \in FreeWindowsForDay(q, d)
  PROVE  FirstInWindow(q, w) \in Int /\ w.start <= FirstInWindow(q, w)
<1>1. PICK v \in HoursWindows(q, d) : v.start = w.start
  BY FreeWindowsMade DEF Made
<1>2. PICK r \in HoursOn(q, d) : v \in WindowFromHM(q.zone, d, r)
  BY DEF HoursWindows
<1> DEFINE a == d * Day + r.start
           s == StepOf(q)
           k == r.start \div s
           m == d * Day + k * s
<1>3. r.start \in 0 .. Day - 1 /\ r.end \in 0 .. Day - 1 /\ Zoned(q.zone) /\ s \in Nat \ {0}
  BY <1>2, QueryType
<1>4. a \in Int /\ d * Day \in Int /\ d * Day <= a /\ a < d * Day + Day
  BY <1>3, DayAssumption
<1>5. w.start = Utc(q.zone, a) /\ w.start \in Int
  BY <1>1, <1>2, <1>3, <1>4, WindowIs, ZoneType
<1>6. KeptBegin(q.zone, a, m)
  BY KeptHours
<1> HIDE DEF a, s
<1>7. k \in Int /\ k * s \in Int /\ k * s <= r.start /\ r.start < k * s + s
  BY <1>3, GridMark
<1> HIDE DEF k
<1>8. m \in Int /\ m <= a /\ a < m + s
  BY <1>3, <1>4, <1>7 DEF a
<1>9. Local(q.zone, w.start) = a
  BY <1>3, <1>4, <1>5, <1>6, ClockAtBegin DEF KeptBegin
<1>10. a % Day = r.start /\ a - r.start = d * Day
  BY <1>3, <1>4, DayOf DEF a
<1>11. AlignDown(q.zone, w.start, s) = Utc(q.zone, m)
  BY <1>9, <1>10 DEF AlignDown, k
<1> HIDE DEF m
<1>12. Utc(q.zone, m) \in Int
  BY <1>3, <1>8, ZoneType
<1>13. CASE Utc(q.zone, m) < w.start
  <2>1. FirstInWindow(q, w) = Utc(q.zone, m) + s
    BY <1>11, <1>13 DEF FirstInWindow, s
  <2>2. w.start <= Utc(q.zone, m) + s
    BY <1>3, <1>4, <1>5, <1>6, <1>8, <1>13, MarkBefore
  <2> QED BY <1>3, <1>12, <2>1, <2>2
<1>14. CASE ~ Utc(q.zone, m) < w.start
  <2>1. FirstInWindow(q, w) = Utc(q.zone, m)
    BY <1>11, <1>14 DEF FirstInWindow, s
  <2> QED BY <1>5, <1>12, <1>14, <2>1
<1> QED BY <1>13, <1>14

LEMMA SlotIs ==
  ASSUME NEW q, q.dur \in Nat \ {0}, NEW t
  PROVE  t \in ComputeSlots(q) <=>
           \E d \in Days(q) : \E w \in FreeWindowsForDay(q, d) : t \in CandidatesInWindow(q, w)
<1>1. ASSUME t \in ComputeSlots(q)
      PROVE  \E d \in Days(q) : \E w \in FreeWindowsForDay(q, d) : t \in CandidatesInWindow(q, w)
  <2>1. PICK p \in Positions(q) : p.start = t
    BY <1>1 DEF ComputeSlots
  <2>2. \E d \in Days(q) : \E w \in FreeWindowsForDay(q, d) :
          \E x \in CandidatesInWindow(q, w) : p = [window |-> w, start |-> x]
    BY <2>1 DEF Positions
  <2> QED BY <2>1, <2>2
<1>2. ASSUME NEW d \in Days(q), NEW w \in FreeWindowsForDay(q, d),
             t \in CandidatesInWindow(q, w)
      PROVE  t \in ComputeSlots(q)
  <2>1. [window |-> w, start |-> t] \in Positions(q)
    <3> DEFINE At(v) == { [window |-> v, start |-> x] : x \in CandidatesInWindow(q, v) }
               On(e) == UNION { At(v) : v \in FreeWindowsForDay(q, e) }
    <3>1. ~ q.dur <= 0
      OBVIOUS
    <3>2. [window |-> w, start |-> t] \in At(w)
      BY <1>2
    <3>3. [window |-> w, start |-> t] \in On(d)
      <4> HIDE DEF At
      <4> QED BY <3>2
    <3>4. Positions(q) = UNION { On(e) : e \in Days(q) }
      BY <3>1 DEF Positions
    <3> HIDE DEF On
    <3> QED BY <3>3, <3>4
  <2>2. [window |-> w, start |-> t].start = t
    OBVIOUS
  <2> QED BY <2>1, <2>2 DEF ComputeSlots
<1> QED BY <1>1, <1>2

LEMMA DaysType ==
  ASSUME NEW q, NEW d \in Days(q)
  PROVE  d \in Int
  BY DEF Days

LEMMA BuffersKept ==
  ASSUME NEW q, WellFormed(q), NEW t \in Int
  PROVE  ~ BusyConflict(q, t) <=>
           \A b \in q.busy : b.end <= t - q.before \/ t + q.dur + q.after <= b.start
<1>1. \A b \in q.busy : b.start \in Int /\ b.end \in Int
  BY DEF WellFormed
<1>2. q.dur \in Int /\ q.before \in Int /\ q.after \in Int
  BY DEF WellFormed
<1>3. \A b \in q.busy :
        Meet(Interval(t - q.before, t + q.dur + q.after), b) <=>
          t - q.before < b.end /\ b.start < t + q.dur + q.after
  BY DEF Meet, Interval
<1> QED BY <1>1, <1>2, <1>3 DEF BusyConflict

LEMMA Sound ==
  ASSUME NEW q, WellFormed(q), ClockKeepsHours(q), NEW t \in ComputeSlots(q)
  PROVE  /\ \A u \in t .. t + q.dur - 1 : OnDuty(q, u)
         /\ KeepsBuffers(q, t)
         /\ t - q.now >= q.notice
<1>1. q.dur \in Nat \ {0} /\ q.notice \in Int /\ q.now \in Int /\ q.before \in Int
  BY DEF WellFormed
<1>0. PICK d \in Days(q) : \E w \in FreeWindowsForDay(q, d) : t \in CandidatesInWindow(q, w)
  BY <1>1, SlotIs
<1>2. PICK w \in FreeWindowsForDay(q, d) : t \in CandidatesInWindow(q, w)
  BY <1>0
<1>3. d \in Int
  BY DaysType
<1>4. Made(w, HoursWindows(q, d))
  BY <1>3, FreeWindowsMade
<1>5. w.start \in Int /\ w.end \in Int
  BY <1>4 DEF Made, Window
<1>6. FirstInWindow(q, w) \in Int /\ w.start <= FirstInWindow(q, w)
  BY <1>3, FirstNotBefore
<1>7. /\ t \in Int /\ FirstInWindow(q, w) <= t /\ t <= w.end - q.dur
      /\ t >= q.now + q.notice
      /\ ~ BusyConflict(q, t)
  BY <1>1, <1>2, <1>5, <1>6 DEF CandidatesInWindow
<1>8. ASSUME NEW u \in t .. t + q.dur - 1 PROVE OnDuty(q, u)
  <2>1. u \in Int /\ Inside(u, w)
    BY <1>1, <1>5, <1>6, <1>7 DEF Inside
  <2>2. PICK v \in HoursWindows(q, d) : Inside(u, v)
    BY <1>4, <2>1 DEF Made
  <2> QED BY <1>3, <2>1, <2>2, OnDutyInHours
<1>9. KeepsBuffers(q, t)
  <2>1. \A b \in q.busy : b.start \in Int /\ b.end \in Int
    BY DEF WellFormed
  <2>2. \A b \in q.busy : b.end <= t - q.before \/ t + q.dur + q.after <= b.start
    BY <1>7, BuffersKept
  <2> QED BY <1>1, <1>7, <2>1, <2>2 DEF KeepsBuffers
<1>10. t - q.now >= q.notice
  BY <1>1, <1>7
<1> QED BY <1>8, <1>9, <1>10

-----------------------------------------------------------------------------
(* Where the clock does not change. *)

LEMMA ClockFixed ==
  ASSUME NEW z, Zoned(z), z.jump = 0
  PROVE  \A t \in Int : Local(z, t) = t + z.base /\ Utc(z, t) = t - z.base
<1>1. z.base \in Int /\ z.shift \in Int
  BY ZoneType
<1> QED BY <1>1 DEF Local, Utc, Offset, Change

(* The host's hours end before midnight. *)
LEMMA OneDate ==
  ASSUME NEW q, WellFormed(q), q.zone.jump = 0, NEW t \in Int,
         \A u \in t .. t + q.dur - 1 : OnDuty(q, u)
  PROVE  \A u \in t .. t + q.dur - 1 : DateOf(q.zone, u) = DateOf(q.zone, t)
<1> DEFINE d == DateOf(q.zone, t)
           next == d * Day + Day
           last == next - 1 - q.zone.base
<1>1. Zoned(q.zone) /\ q.zone.base \in Int /\ q.dur \in Nat \ {0}
  BY QueryType, ZoneType DEF WellFormed
<1>2. \A u \in Int : Local(q.zone, u) = u + q.zone.base
  BY <1>1, ClockFixed
<1>3. /\ d \in Int /\ next \in Int /\ last \in Int
      /\ d * Day \in Int /\ d * Day <= t + q.zone.base /\ t + q.zone.base < next
  <2>1. t + q.zone.base \in Int /\ d = (t + q.zone.base) \div Day
    BY <1>1, <1>2 DEF DateOf
  <2> HIDE DEF d
  <2>2. /\ d \in Int /\ d * Day \in Int
        /\ d * Day <= t + q.zone.base /\ t + q.zone.base < d * Day + Day
    BY <2>1, DayAssumption, GridMark
  <2> QED BY <1>1, <2>2, DayAssumption
<1>4. d * Day + Day = next
  OBVIOUS
<1> HIDE DEF d, next
<1>5. ~ OnDuty(q, last)
  <2>1. Local(q.zone, last) = next - 1
    BY <1>1, <1>2, <1>3
  <2>2. (next - 1) \div Day = d /\ (next - 1) % Day = Day - 1
    <3>1. d * Day <= next - 1 /\ next - 1 < d * Day + Day /\ next - 1 - d * Day = Day - 1
      BY <1>3, <1>4, DayAssumption
    <3> QED BY <1>3, <3>1, DayOf
  <2>3. \A r \in HoursOn(q, d) : r.end \in 0 .. Day - 1
    BY <1>3, QueryType
  <2>4. \A r \in HoursOn(q, d) : ~ Day - 1 < r.end
    BY <2>3, DayAssumption
  <2> QED BY <2>1, <2>2, <2>4 DEF OnDuty, DateOf
<1>6. t <= last
  BY <1>1, <1>3
<1>7. t + q.dur - 1 < last
  BY <1>1, <1>3, <1>5, <1>6
<1>8. ASSUME NEW u \in t .. t + q.dur - 1 PROVE DateOf(q.zone, u) = d
  <2>1. u \in Int /\ d * Day <= u + q.zone.base /\ u + q.zone.base < d * Day + Day
    BY <1>1, <1>3, <1>4, <1>7
  <2>2. (u + q.zone.base) \div Day = d
    BY <1>1, <1>3, <2>1, DayOf
  <2> QED BY <1>2, <2>1, <2>2 DEF DateOf
<1> QED BY <1>8 DEF d

LEMMA DutyInWindow ==
  ASSUME NEW q, WellFormed(q), q.zone.jump = 0, NEW u \in Int, OnDuty(q, u)
  PROVE  \E v \in HoursWindows(q, DateOf(q.zone, u)) : Inside(u, v)
<1> DEFINE d == DateOf(q.zone, u)
           l == u + q.zone.base
<1>1. Zoned(q.zone) /\ q.zone.base \in Int
  BY QueryType, ZoneType
<1>2. l \in Int /\ Local(q.zone, u) = l
  BY <1>1, ClockFixed
<1>3. d \in Int /\ d * Day \in Int /\ l = d * Day + (l % Day) /\ l % Day \in Int
  <2>1. d = l \div Day
    BY <1>2 DEF DateOf
  <2> HIDE DEF d, l
  <2> QED BY <1>2, <2>1, DayBack, DayAssumption
<1>4. PICK r \in HoursOn(q, d) : r.start <= l % Day /\ l % Day < r.end
  BY <1>2 DEF OnDuty
<1>5. r.start \in 0 .. Day - 1 /\ r.end \in 0 .. Day - 1
  BY <1>3, QueryType
<1> DEFINE v == Interval(Utc(q.zone, d * Day + r.start), Utc(q.zone, d * Day + r.end))
<1>6. /\ v.start = d * Day + r.start - q.zone.base
      /\ v.end = d * Day + r.end - q.zone.base
  <2>1. d * Day + r.start \in Int /\ d * Day + r.end \in Int
    BY <1>3, <1>5
  <2>2. /\ Utc(q.zone, d * Day + r.start) = d * Day + r.start - q.zone.base
        /\ Utc(q.zone, d * Day + r.end) = d * Day + r.end - q.zone.base
    <3>1. \A y \in Int : Utc(q.zone, y) = y - q.zone.base
      BY <1>1, ClockFixed
    <3> DEFINE a == d * Day + r.start
               b == d * Day + r.end
    <3>2. a \in Int /\ b \in Int
      BY <2>1
    <3> HIDE DEF a, b
    <3>3. Utc(q.zone, a) = a - q.zone.base /\ Utc(q.zone, b) = b - q.zone.base
      BY <3>1, <3>2
    <3>4. a - q.zone.base = d * Day + r.start - q.zone.base
          /\ b - q.zone.base = d * Day + r.end - q.zone.base
      BY <1>1, <1>3, <1>5 DEF a, b
    <3>5. a = d * Day + r.start /\ b = d * Day + r.end
      BY DEF a, b
    <3> QED BY <3>3, <3>4, <3>5
  <2> QED BY <2>2 DEF Interval
<1>7. v.start <= u /\ u < v.end
  <2> HIDE DEF v, d
  <2> QED BY <1>1, <1>3, <1>4, <1>5, <1>6
<1>8. v.end > v.start
  <2> HIDE DEF v, d
  <2> QED BY <1>1, <1>3, <1>4, <1>5, <1>6
<1>9. v \in WindowFromHM(q.zone, d, r)
  BY <1>8 DEF WindowFromHM
<1> QED BY <1>4, <1>7, <1>9 DEF HoursWindows, Inside

LEMMA OnTheGrid ==
  ASSUME NEW q, WellFormed(q), q.zone.jump = 0, NEW t \in Int, NEW d \in Int,
         d = DateOf(q.zone, t), NEW w \in FreeWindowsForDay(q, d), w.start <= t,
         (Local(q.zone, t) % Day) % StepOf(q) = 0
  PROVE  /\ FirstInWindow(q, w) \in Int /\ FirstInWindow(q, w) <= t
         /\ (t - FirstInWindow(q, w)) % StepOf(q) = 0
<1>1. PICK v \in HoursWindows(q, d) : v.start = w.start
  BY FreeWindowsMade DEF Made
<1>2. PICK r \in HoursOn(q, d) : v \in WindowFromHM(q.zone, d, r)
  BY DEF HoursWindows
<1> DEFINE a == d * Day + r.start
           s == StepOf(q)
           k == r.start \div s
           m == d * Day + k * s
           x == t + q.zone.base - d * Day
<1>3. /\ r.start \in 0 .. Day - 1 /\ r.end \in 0 .. Day - 1 /\ Zoned(q.zone)
      /\ s \in Nat \ {0} /\ q.zone.base \in Int
  BY <1>2, QueryType, ZoneType
<1>4. a \in Int /\ d * Day \in Int /\ d * Day <= a /\ a < d * Day + Day
  BY <1>3, DayAssumption
<1>5. w.start = Utc(q.zone, a)
  BY <1>1, <1>2, <1>3, WindowIs
<1>6. \A y \in Int : Local(q.zone, y) = y + q.zone.base /\ Utc(q.zone, y) = y - q.zone.base
  BY <1>3, ClockFixed
<1>7. x \in Int /\ Local(q.zone, t) % Day = x
  <2>1. t + q.zone.base \in Int /\ Local(q.zone, t) = t + q.zone.base
        /\ d = (t + q.zone.base) \div Day
    BY <1>3, <1>6 DEF DateOf
  <2>2. t + q.zone.base = d * Day + ((t + q.zone.base) % Day) /\ (t + q.zone.base) % Day \in Int
    BY <2>1, DayBack
  <2> QED BY <1>3, <1>4, <2>1, <2>2
<1>8. a % Day = r.start
  BY <1>3, <1>4, DayOf
<1> HIDE DEF a, s
<1>9. k \in Int /\ k * s \in Int /\ k * s <= r.start /\ r.start < k * s + s
  <2>1. s \in Nat \ {0} /\ r.start \in Int
    BY <1>3
  <2> HIDE DEF x, m
  <2> QED BY <2>1, GridMark
<1> HIDE DEF k
<1>10. w.start = a - q.zone.base /\ w.start \in Int /\ Local(q.zone, w.start) = a
  BY <1>3, <1>4, <1>5, <1>6
<1>11. m \in Int /\ AlignDown(q.zone, w.start, s) = m - q.zone.base
  <2>1. m \in Int /\ a - r.start + k * s = m
    BY <1>3, <1>4, <1>9 DEF a
  <2>2. AlignDown(q.zone, w.start, s) = Utc(q.zone, a - r.start + k * s)
    BY <1>8, <1>10 DEF AlignDown, k
  <2> QED BY <1>6, <2>1, <2>2
<1>12. x % s = 0
  BY <1>7 DEF s
<1>13. t - (m - q.zone.base) = x - k * s
  BY <1>3, <1>4, <1>9
<1> HIDE DEF x
<1>14. (x - k * s) % s = 0 /\ (x > k * s => x >= k * s + s)
  BY <1>3, <1>7, <1>9, <1>12, GridAligned
<1>15. CASE m - q.zone.base < w.start
  <2>1. FirstInWindow(q, w) = m - q.zone.base + s
    BY <1>11, <1>15 DEF FirstInWindow, s
  <2>2. x > k * s
    BY <1>3, <1>4, <1>7, <1>9, <1>10, <1>11, <1>13, <1>15
  <2>3. m - q.zone.base + s <= t
    BY <1>3, <1>7, <1>9, <1>11, <1>13, <1>14, <2>2
  <2>4. (k + 1) * s = k * s + s
    BY <1>3, <1>9
  <2>5. (x - (k + 1) * s) % s = 0
    <3>1. k + 1 \in Int /\ s \in Nat \ {0} /\ x \in Int
      BY <1>3, <1>7, <1>9
    <3> HIDE DEF m
    <3> QED BY <1>12, <3>1, GridAligned
  <2>6. t - (m - q.zone.base + s) = x - (k + 1) * s
    BY <1>3, <1>7, <1>9, <1>11, <1>13, <2>4
  <2> HIDE DEF m
  <2> QED BY <1>3, <1>11, <2>1, <2>3, <2>5, <2>6 DEF s
<1>16. CASE ~ m - q.zone.base < w.start
  <2>1. FirstInWindow(q, w) = m - q.zone.base
    BY <1>11, <1>16 DEF FirstInWindow, s
  <2>2. m - q.zone.base <= t
    BY <1>3, <1>4, <1>9, <1>10, <1>11, <1>16 DEF a
  <2> HIDE DEF m
  <2> QED BY <1>3, <1>11, <1>13, <1>14, <2>1, <2>2 DEF s
<1> QED BY <1>15, <1>16

LEMMA Complete ==
  ASSUME NEW q, WellFormed(q), q.zone.jump = 0, NEW t \in q.from .. q.to - 1,
         (Local(q.zone, t) % Day) % StepOf(q) = 0,
         \A u \in t .. t + q.dur - 1 : OnDuty(q, u),
         KeepsBuffers(q, t),
         t - q.now >= q.notice,
         q.horizon > 0 => t - q.now <= q.horizon * Day
  PROVE  t \in ComputeSlots(q)
<1> DEFINE d == DateOf(q.zone, t)
<1>1. /\ q.from \in Int /\ q.to \in Int /\ q.dur \in Nat \ {0} /\ q.now \in Int
      /\ q.notice \in Int /\ q.horizon \in Nat /\ q.before \in Int /\ q.after \in Int
  BY DEF WellFormed
<1>2. t \in Int /\ q.from <= t /\ t < q.to
  BY <1>1
<1>3. Zoned(q.zone) /\ q.zone.base \in Int /\ d \in Int
  BY <1>2, QueryType, ZoneType
<1>4. \A u \in t .. t + q.dur - 1 : \E v \in HoursWindows(q, d) : Inside(u, v)
  <2> TAKE u \in t .. t + q.dur - 1
  <2>1. u \in Int /\ DateOf(q.zone, u) = d
    BY <1>1, <1>2, OneDate
  <2> QED BY <2>1, DutyInWindow
<1>5. t + q.dur \in Int /\ t < t + q.dur
  BY <1>1, <1>2
<1> HIDE DEF d
<1>6. PICK w \in FreeWindowsForDay(q, d) : w \in Window /\ w.start <= t /\ t + q.dur <= w.end
  <2> DEFINE b == t + q.dur
  <2>1. b \in Int /\ t < b /\ \A u \in t .. b - 1 : \E v \in HoursWindows(q, d) : Inside(u, v)
    <3>1. \A u \in t .. b - 1 : \E v \in HoursWindows(q, d) : Inside(u, v)
      <4>1. b - 1 = t + q.dur - 1
        BY <1>1, <1>2
      <4> HIDE DEF b
      <4> QED BY <1>4, <4>1
    <3> QED BY <1>5, <3>1
  <2> HIDE DEF b
  <2>2. \E w \in FreeWindowsForDay(q, d) : w \in Window /\ w.start <= t /\ b <= w.end
    BY <1>2, <1>3, <2>1, FreeWindowsWhole
  <2> QED BY <2>2 DEF b
<1>7. w.start \in Int /\ w.end \in Int
  BY <1>6 DEF Window
<1>8. /\ FirstInWindow(q, w) \in Int /\ FirstInWindow(q, w) <= t
      /\ (t - FirstInWindow(q, w)) % StepOf(q) = 0
  BY <1>2, <1>3, <1>6, OnTheGrid DEF d
<1>9. ~ BusyConflict(q, t)
  <2>1. \A b \in q.busy : b.start \in Int /\ b.end \in Int
    BY DEF WellFormed
  <2>2. \A b \in q.busy : b.end <= t - q.before \/ t + q.dur + q.after <= b.start
    BY <1>1, <1>2, <2>1 DEF KeepsBuffers
  <2> QED BY <1>2, <2>2, BuffersKept
<1>10. t \in FirstInWindow(q, w) .. w.end - q.dur
  BY <1>1, <1>2, <1>6, <1>7, <1>8
<1>11. t >= q.now + q.notice /\ (q.horizon > 0 => t <= q.now + q.horizon * Day)
  <2>1. q.horizon * Day \in Int
    BY <1>1, DayAssumption
  <2> QED BY <1>1, <1>2, <2>1
<1>12. t \in CandidatesInWindow(q, w)
  BY <1>2, <1>8, <1>9, <1>10, <1>11 DEF CandidatesInWindow
<1>13. d \in Days(q)
  <2>1. \A y \in Int : Local(q.zone, y) = y + q.zone.base /\ Utc(q.zone, y) = y - q.zone.base
    BY <1>3, ClockFixed
  <2> DEFINE f == q.from + q.zone.base
             l == t + q.zone.base
             e == q.to + q.zone.base
  <2>2. f \in Int /\ l \in Int /\ e \in Int /\ f <= l /\ l < e
    BY <1>1, <1>2, <1>3
  <2>3. d = l \div Day /\ DateOf(q.zone, q.from) = f \div Day /\ DateOf(q.zone, q.to) = e \div Day
    BY <1>1, <1>2, <2>1 DEF DateOf, d
  <2> HIDE DEF f, l, e
  <2>4. f \div Day <= l \div Day /\ l \div Day <= e \div Day
    BY <2>2, DayAssumption
  <2>5. f \div Day \in Int /\ e \div Day \in Int
    BY <2>2, DayBack
  <2>6. d * Day <= l /\ d * Day \in Int
    <3>1. l = (l \div Day) * Day + (l % Day) /\ l % Day \in 0 .. Day - 1
      BY <2>2, DayBack
    <3> QED BY <1>3, <2>2, <2>3, <3>1, DayAssumption
  <2>7. Utc(q.zone, d * Day) = d * Day - q.zone.base
    BY <2>1, <2>6
  <2>8. Utc(q.zone, d * Day) <= q.to
    BY <1>1, <1>2, <1>3, <2>6, <2>7 DEF l
  <2>9. d \in DateOf(q.zone, q.from) .. DateOf(q.zone, q.to) + 1
    BY <1>3, <2>3, <2>4, <2>5
  <2> QED BY <2>8, <2>9 DEF Days
<1> QED BY <1>1, <1>6, <1>12, <1>13, SlotIs

-----------------------------------------------------------------------------

(* The answer is that of the computation. *)
SearchInv == query \in Queries /\ (computed => slots = ComputeSlots(query))

LEMMA SearchInit == SlotInit => SearchInv
  BY DEF SlotInit, SearchInv

LEMMA SearchStep == SearchInv /\ [Compute]_slotVars => SearchInv'
  BY DEF SearchInv, Compute, slotVars

(* Every slot offered is one the host can keep (slot.go, ComputeSlots): he  *)
(* is on duty all the while by his own clock, on the days the clock changes *)
(* too, and nothing busy comes nearer than the buffers; for every zone, east *)
(* and west, and every query whose hours meet the change of the clock in     *)
(* none of the ways that ClockKeepsHours excepts.                            *)
THEOREM OfferedSlotsKept == SlotSpec => []SlotsSound
<1>1. SearchInv => SlotsSound
  <2> SUFFICES ASSUME SearchInv, computed, ClockKeepsHours(query), NEW t \in slots
               PROVE  /\ \A u \in t .. t + query.dur - 1 : OnDuty(query, u)
                      /\ KeepsBuffers(query, t)
                      /\ t - query.now >= query.notice
    BY DEF SlotsSound
  <2>1. WellFormed(query) /\ t \in ComputeSlots(query)
    BY QueriesAssumption DEF SearchInv
  <2> QED BY <2>1, Sound
<1> QED BY <1>1, SearchInit, SearchStep, PTL DEF SlotSpec

(* Where the clock does not change every position of the grid the host can  *)
(* keep is offered (slot.go, ComputeSlots, mergeOverlaps), however many     *)
(* hours he has and however they overlap.                                   *)
THEOREM KeepableSlotsOffered == SlotSpec => []SlotsComplete
<1>1. SearchInv => SlotsComplete
  <2> SUFFICES ASSUME SearchInv, computed, query.zone.jump = 0,
                      NEW t \in query.from .. query.to - 1,
                      (Local(query.zone, t) % Day) % StepOf(query) = 0,
                      \A u \in t .. t + query.dur - 1 : OnDuty(query, u),
                      KeepsBuffers(query, t),
                      t - query.now >= query.notice,
                      query.horizon > 0 => t - query.now <= query.horizon * Day
               PROVE  t \in slots
    BY DEF SlotsComplete
  <2>1. WellFormed(query) /\ slots = ComputeSlots(query)
    BY QueriesAssumption DEF SearchInv
  <2> QED BY <2>1, Complete
<1> QED BY <1>1, SearchInit, SearchStep, PTL DEF SlotSpec

-----------------------------------------------------------------------------
(* The listing and the booking. *)

(* The states of the listing: well-typed, and finitely many bookings. *)
OfferInv == TypeOK /\ IsFiniteSet(bookings)

LEMMA OfferTypes ==
  ASSUME OfferInv, NEW e \in EventType
  PROVE  /\ Dur[e] \in Nat \ {0} /\ Before[e] \in Nat /\ After[e] \in Nat
         /\ Notice[e] \in Nat /\ Horizon[e] \in Nat /\ Capacity[e] \in Nat
         /\ Pool[e] \in Seq(Host) /\ Len(Pool[e]) \in Nat \ {0}
         /\ DOMAIN Pool[e] = 1 .. Len(Pool[e])
         /\ \A i \in DOMAIN Pool[e] : Pool[e][i] \in Host
         /\ Owner(e) \in Host
         /\ now \in Nat /\ From \in Int /\ To \in Int
<1>1. /\ Dur \in [EventType -> Nat \ {0}] /\ Before \in [EventType -> Nat]
      /\ After \in [EventType -> Nat] /\ Notice \in [EventType -> Nat]
      /\ Horizon \in [EventType -> Nat] /\ Capacity \in [EventType -> Nat]
  BY OfferAssumption
<1>2. Pool[e] \in Seq(Host) /\ Pool[e] # <<>>
  BY OfferAssumption
<1>3. now \in Nat /\ From \in Int /\ To \in Int
  BY OfferAssumption DEF OfferInv, TypeOK
<1> QED BY <1>1, <1>2, <1>3 DEF Owner

(* The least of a set of naturals, as FiniteSetsExt picks it. *)
LEMMA MinIs ==
  ASSUME NEW T \in SUBSET Nat, T # {}
  PROVE  Min(T) \in T
<1>1. \E x \in T : \A y \in T : x <= y
  BY LeastOf
<1> QED BY <1>1 DEF Min

LEMMA LoadType ==
  ASSUME OfferInv, NEW h
  PROVE  Load(h) \in Nat
<1>1. IsFiniteSet({ b \in bookings : b.host = h })
  BY FS_Subset DEF OfferInv
<1> QED BY <1>1, FS_CardinalityType DEF Load

(* pickHost answers with a host of the pool. *)
LEMMA PickedFromPool ==
  ASSUME OfferInv, NEW e \in EventType, NEW t
  PROVE  \E i \in DOMAIN Pool[e] : PickHost(e, t) = Pool[e][i]
<1> DEFINE pool == Pool[e]
           free == { i \in DOMAIN pool : Free(pool[i], e, t) }
           lightest == { i \in free : \A j \in free : Load(pool[i]) <= Load(pool[j]) }
<1>1. DOMAIN pool = 1 .. Len(pool) /\ Len(pool) \in Nat \ {0} /\ free \in SUBSET Nat
  BY OfferTypes
<1>2. Owner(e) = pool[1] /\ 1 \in DOMAIN pool
  BY <1>1 DEF Owner
<1>3. CASE Strategy[e] \in { "", "single" } \/ free = {}
  BY <1>2, <1>3 DEF PickHost
<1>4. CASE ~ (Strategy[e] \in { "", "single" } \/ free = {})
  <2> DEFINE T == { Load(pool[i]) : i \in free }
  <2>1. T \in SUBSET Nat /\ T # {}
    BY <1>4, LoadType
  <2>2. PICK x \in T : \A y \in T : x <= y
    <3> HIDE DEF T
    <3> QED BY <2>1, LeastOf
  <2>3. PICK i \in free : x = Load(pool[i])
    OBVIOUS
  <2>4. i \in lightest
    BY <2>2, <2>3
  <2>5. Min(free) \in free /\ Min(lightest) \in lightest
    <3> HIDE DEF free
    <3>1. lightest \in SUBSET Nat
      BY <1>1
    <3> QED BY <1>1, <1>4, <2>4, <3>1, MinIs
  <2>6. PickHost(e, t) = pool[Min(free)] \/ PickHost(e, t) = pool[Min(lightest)]
    BY <1>4 DEF PickHost
  <2>7. Min(free) \in DOMAIN pool /\ Min(lightest) \in DOMAIN pool
    BY <2>5
  <2> QED BY <2>6, <2>7
<1> QED BY <1>3, <1>4

LEMMA OneHostPicked ==
  ASSUME OfferInv, NEW e \in EventType, Len(Pool[e]) = 1, NEW t
  PROVE  PickHost(e, t) = Owner(e)
<1>1. DOMAIN Pool[e] = 1 .. 1
  BY OfferTypes
<1>2. PICK i \in 1 .. 1 : PickHost(e, t) = Pool[e][i]
  BY <1>1, PickedFromPool
<1>3. i = 1
  BY <1>2
<1> QED BY <1>2, <1>3 DEF Owner

-----------------------------------------------------------------------------

LEMMA OfferInit == Init => OfferInv
<1> SUFFICES ASSUME Init PROVE OfferInv
  OBVIOUS
<1>1. closed \in [Host -> SUBSET OverrideDate]
  BY DEF Init
<1>2. DOMAIN external = Host /\ \A h \in Host : external[h] \in External[h]
  BY DEF Init
<1>3. now \in 0 .. MaxNow
  BY OfferAssumption DEF Init
<1>4. IsFiniteSet(bookings)
  BY FS_EmptySet DEF Init
<1> QED BY <1>1, <1>2, <1>3, <1>4 DEF OfferInv, TypeOK, Init

LEMMA OfferStep == OfferInv /\ [Next]_vars => OfferInv'
<1> SUFFICES ASSUME OfferInv, [Next]_vars PROVE OfferInv'
  OBVIOUS
<1> USE DEF OfferInv, TypeOK
<1>1. ASSUME NEW e \in EventType, NEW t \in Times, Book(e, t) PROVE OfferInv'
  <2>1. PickHost(e, t) \in Host
    BY PickedFromPool, OfferTypes
  <2>2. t \in Int
    BY DEF Times
  <2> DEFINE b(n) == Row(e, t, n)
  <2>3. PICK n \in 1 .. MaxBooking : bookings' = bookings \cup {b(n)}
    BY <1>1 DEF Book
  <2>4. b(n) \in [et : EventType, host : Host, start : Int, seat : 1 .. MaxBooking]
    BY <2>1, <2>2 DEF Row
  <2> HIDE DEF b
  <2>5. IsFiniteSet(bookings')
    BY <2>3, FS_AddElement
  <2> QED BY <1>1, <2>3, <2>4, <2>5 DEF Book
<1>2. ASSUME NEW b \in bookings, Cancel(b) PROVE OfferInv'
  <2>1. IsFiniteSet(bookings')
    BY <1>2, FS_Subset DEF Cancel
  <2> QED BY <1>2, <2>1 DEF Cancel
<1>3. ASSUME NEW h \in Host, Provider(h) PROVE OfferInv'
  BY <1>3 DEF Provider
<1>4. ASSUME NEW h \in Host, NEW d \in OverrideDate, CreateDateOverride(h, d) PROVE OfferInv'
  BY <1>4 DEF CreateDateOverride
<1>5. ASSUME NEW h \in Host, NEW d \in OverrideDate, DeleteDateOverride(h, d) PROVE OfferInv'
  BY <1>5 DEF DeleteDateOverride
<1>6. CASE Tick
  BY <1>6, OfferAssumption DEF Tick
<1>7. CASE UNCHANGED vars
  BY <1>7 DEF vars
<1> QED BY <1>1, <1>2, <1>3, <1>4, <1>5, <1>6, <1>7 DEF Next

-----------------------------------------------------------------------------
LEMMA TakenIs ==
  ASSUME OfferInv, NEW b \in bookings
  PROVE  /\ b.et \in EventType /\ b.host \in Host /\ b.start \in Int
         /\ Taken(b).start = b.start /\ Taken(b).end = b.start + Dur[b.et]
         /\ Taken(b).start \in Int /\ Taken(b).end \in Int
         /\ Taken(b) \in Window
<1>1. b.et \in EventType /\ b.host \in Host /\ b.start \in Int
  BY DEF OfferInv, TypeOK
<1>2. Taken(b).start = b.start /\ Taken(b).end = b.start + Dur[b.et]
  BY DEF Taken, Interval
<1>3. Dur[b.et] \in Int
  BY <1>1, OfferTypes
<1>4. Taken(b).start \in Int /\ Taken(b).end \in Int
  BY <1>1, <1>2, <1>3
<1>5. Taken(b) \in Window
  BY <1>1, <1>3 DEF Taken, Interval, Window
<1> QED BY <1>1, <1>2, <1>4, <1>5

(* The query of the listing, and that of validation. *)
Listed(e) == Query(e, Owner(e), FindOverridesInRange(Owner(e), From, To),
                   ListedBusy(e) \cup ListedExternal(e), From, To + Day)

Validated(e, h, t) ==
  Query(e, h, FindOverridesInRange(h, t - Day, t + 2 * Day),
        IF Simple(e) THEN ValidatedExternal(e, h, t) ELSE {}, t, t + Dur[e])

LEMMA QueryFields ==
  ASSUME NEW e, NEW h, NEW ov, NEW bs, NEW from, NEW to
  PROVE  LET q == Query(e, h, ov, bs, from, to)
         IN /\ q.zone = Zone[h] /\ q.rules = Rules[h] /\ q.overrides = ov /\ q.busy = bs
            /\ q.dur = Dur[e] /\ q.before = Before[e] /\ q.after = After[e]
            /\ q.notice = Notice[e] /\ q.horizon = Horizon[e] /\ q.now = now
            /\ q.from = from /\ q.to = to /\ q.step = 0
  BY DEF Query

(* What a position in a window of a query is. *)
LEMMA CandidateIs ==
  ASSUME OfferInv, NEW e \in EventType, NEW h, NEW ov, NEW bs, NEW from, NEW to, NEW w, NEW t
  PROVE  LET q == Query(e, h, ov, bs, from, to)
             first == FirstInWindow(q, w)
         IN t \in CandidatesInWindow(q, w) <=>
              /\ t \in first .. w.end - Dur[e]
              /\ (t - first) % Dur[e] = 0
              /\ t >= now + Notice[e]
              /\ Horizon[e] > 0 => t <= now + Horizon[e] * Day
              /\ from <= t /\ t < to
              /\ \A b \in bs : ~ Meet(Interval(t - Before[e], t + Dur[e] + After[e]), b)
<1> DEFINE q == Query(e, h, ov, bs, from, to)
<1>1. /\ q.busy = bs /\ q.dur = Dur[e] /\ q.before = Before[e] /\ q.after = After[e]
      /\ q.notice = Notice[e] /\ q.horizon = Horizon[e] /\ q.now = now
      /\ q.from = from /\ q.to = to /\ q.step = 0
  BY QueryFields
<1> HIDE DEF q
<1>2. StepOf(q) = Dur[e]
  BY <1>1 DEF StepOf
<1>3. ~ BusyConflict(q, t) <=>
        \A b \in bs : ~ Meet(Interval(t - Before[e], t + Dur[e] + After[e]), b)
  BY <1>1 DEF BusyConflict
<1> QED BY <1>1, <1>2, <1>3 DEF CandidatesInWindow, q

LEMMA MeetIs ==
  ASSUME NEW a, NEW b, NEW c, NEW d, NEW i
  PROVE  /\ Meet(Interval(a, b), Interval(c, d)) <=> a < d /\ c < b
         /\ Meet(i, Interval(c, d)) <=> i.start < d /\ c < i.end
         /\ Meet(Interval(c, d), i) <=> c < i.end /\ i.start < d
  BY DEF Meet, Interval

(* What a listed slot is. *)
LEMMA ListedIs ==
  ASSUME OfferInv, NEW e \in EventType, NEW t
  PROVE  t \in Listing(e) <=>
           /\ \E d \in Days(Listed(e)) : \E w \in FreeWindowsForDay(Listed(e), d) :
                t \in CandidatesInWindow(Listed(e), w)
           /\ IsGroup(e) => CountActiveAtSlot(e, t) < Capacity[e]
<1>1. Listed(e).dur = Dur[e]
  BY QueryFields DEF Listed
<1>2. Listed(e).dur \in Nat \ {0}
  BY <1>1, OfferTypes
<1>3. t \in ComputeSlots(Listed(e)) <=>
        \E d \in Days(Listed(e)) : \E w \in FreeWindowsForDay(Listed(e), d) :
          t \in CandidatesInWindow(Listed(e), w)
  BY <1>2, SlotIs
<1> QED BY <1>3 DEF Listing, Listed

LEMMA CandidateType ==
  ASSUME NEW q, NEW w, NEW t \in CandidatesInWindow(q, w)
  PROVE  t \in Int
  BY DEF CandidatesInWindow

(* The bookings of the host the listing takes for busy. *)
LEMMA OwnBookingListed ==
  ASSUME OfferInv, NEW e \in EventType, Len(Pool[e]) = 1, NEW b \in bookings,
         b.host = Owner(e), IsGroup(e) => b.et # e,
         Meet(Taken(b), Interval(From, To + Day))
  PROVE  Taken(b) \in Listed(e).busy
<1>1. Listed(e).busy = ListedBusy(e) \cup ListedExternal(e)
  BY QueryFields DEF Listed
<1>2. b.et \in EventType
  BY TakenIs
<1>3. Taken(b) \in ListedBusy(e)
  <2>1. CASE IsGroup(e)
    BY <1>2, <2>1 DEF ListedBusy, BusyOf
  <2>2. CASE ~ IsGroup(e)
    BY <1>2, <2>2 DEF ListedBusy, BusyOf, ActiveBusyForHost
  <2> QED BY <2>1, <2>2
<1> QED BY <1>1, <1>3

LEMMA ListedKeepsBuffers == OfferInv => OfferKeepsBuffers
<1> SUFFICES ASSUME OfferInv, NEW e \in EventType, Len(Pool[e]) = 1,
                    NEW t \in Listing(e), NEW b \in bookings,
                    b.host = Owner(e), IsGroup(e) => b.et # e,
                    From <= t - Before[e], t + Dur[e] + After[e] <= To + Day
             PROVE  \/ Taken(b).end + Before[e] <= t
                    \/ t + Dur[e] + After[e] <= b.start
  BY DEF OfferKeepsBuffers
<1>1. PICK d \in Days(Listed(e)) : \E w \in FreeWindowsForDay(Listed(e), d) :
             t \in CandidatesInWindow(Listed(e), w)
  BY ListedIs
<1>2. PICK w : t \in CandidatesInWindow(Listed(e), w)
  BY <1>1
<1>3. t \in Int
  BY <1>2, CandidateType
<1>4. \A i \in Listed(e).busy : ~ Meet(Interval(t - Before[e], t + Dur[e] + After[e]), i)
  <2>1. Listed(e).busy = ListedBusy(e) \cup ListedExternal(e)
    BY QueryFields DEF Listed
  <2> DEFINE ov == FindOverridesInRange(Owner(e), From, To)
             bs == ListedBusy(e) \cup ListedExternal(e)
             to == To + Day
             q == Query(e, Owner(e), ov, bs, From, to)
  <2>2. t \in CandidatesInWindow(q, w)
    BY <1>2 DEF Listed
  <2> HIDE DEF ov, bs, to
  <2>3. \A i \in bs : ~ Meet(Interval(t - Before[e], t + Dur[e] + After[e]), i)
    BY <2>2, CandidateIs
  <2> QED BY <2>1, <2>3 DEF bs
<1>5. /\ Dur[e] \in Int /\ Before[e] \in Int /\ After[e] \in Int /\ From \in Int /\ To \in Int
      /\ Day \in Int /\ Taken(b).start = b.start
      /\ Taken(b).start \in Int /\ Taken(b).end \in Int
  BY OfferTypes, TakenIs, DayAssumption
<1>6. CASE Meet(Taken(b), Interval(From, To + Day))
  <2>1. ~ Meet(Interval(t - Before[e], t + Dur[e] + After[e]), Taken(b))
    BY <1>4, <1>6, OwnBookingListed
  <2>2. ~ (t - Before[e] < Taken(b).end /\ b.start < t + Dur[e] + After[e])
    BY <1>5, <2>1 DEF Meet, Interval
  <2> QED BY <1>3, <1>5, <2>2
<1>7. CASE ~ Meet(Taken(b), Interval(From, To + Day))
  <2>1. ~ (b.start < To + Day /\ From < Taken(b).end)
    BY <1>5, <1>7 DEF Meet, Interval
  <2> QED BY <1>3, <1>5, <2>1
<1> QED BY <1>6, <1>7

(* A listed slot keeps the buffers to every booking of its host it was not  *)
(* made for (api.go, handleListSlots), in every state that bookings,        *)
(* overrides, external calendars and the clock can reach, in any time zone. *)
THEOREM ListedSlotsKeepBuffers == Spec => []OfferKeepsBuffers
<1> QED BY ListedKeepsBuffers, OfferInit, OfferStep, PTL DEF Spec

-----------------------------------------------------------------------------
(* Instant t is on day d of a clock that never changes. *)
OnDay(z, d, t) == d * Day <= t + z.base /\ t + z.base < d * Day + Day

LEMMA OnDayIs ==
  ASSUME NEW z, Zoned(z), z.jump = 0, NEW d \in Int, NEW t \in Int
  PROVE  DateOf(z, t) = d <=> OnDay(z, d, t)
<1> DEFINE l == t + z.base
<1>1. l \in Int /\ Local(z, t) = l /\ z.base \in Int
  BY ZoneType, ClockFixed
<1> HIDE DEF l
<1>2. d * Day <= l /\ l < d * Day + Day => l \div Day = d
  BY <1>1, DayOf
<1>3. d = l \div Day => d * Day <= l /\ l < d * Day + Day
  BY <1>1, DayAssumption, GridMark
<1> QED BY <1>1, <1>2, <1>3 DEF DateOf, OnDay, l

LEMMA DayWalked ==
  ASSUME NEW q, Zoned(q.zone), q.zone.jump = 0, q.from \in Int, q.to \in Int,
         NEW d \in Int, NEW t \in q.from .. q.to, OnDay(q.zone, d, t)
  PROVE  d \in Days(q)
<1>1. q.zone.base \in Int
  BY ZoneType
<1>2. \A y \in Int : Local(q.zone, y) = y + q.zone.base /\ Utc(q.zone, y) = y - q.zone.base
  BY ClockFixed
<1> DEFINE f == q.from + q.zone.base
           l == t + q.zone.base
           e == q.to + q.zone.base
<1>3. f \in Int /\ l \in Int /\ e \in Int /\ f <= l /\ l <= e
  BY <1>1
<1>4. d = l \div Day /\ DateOf(q.zone, q.from) = f \div Day /\ DateOf(q.zone, q.to) = e \div Day
  <2>1. t \in Int
    BY <1>2
  <2>2. \A z : Zoned(z) /\ z.jump = 0 /\ OnDay(z, d, t) => DateOf(z, t) = d
    BY <2>1, OnDayIs
  <2>3. DateOf(q.zone, t) = d
    BY <2>2
  <2> QED BY <1>2, <2>3 DEF DateOf
<1> HIDE DEF f, l, e
<1>5. f \div Day <= l \div Day /\ l \div Day <= e \div Day
  BY <1>3, DayAssumption
<1>6. f \div Day \in Int /\ e \div Day \in Int
  BY <1>3, DayBack
<1>7. d * Day <= l /\ d * Day \in Int
  BY DayAssumption DEF OnDay, l
<1>8. Utc(q.zone, d * Day) = d * Day - q.zone.base
  BY <1>2, <1>7
<1>9. Utc(q.zone, d * Day) <= q.to
  BY <1>1, <1>7, <1>8 DEF l
<1>10. d \in DateOf(q.zone, q.from) .. DateOf(q.zone, q.to) + 1
  BY <1>4, <1>5, <1>6
<1> QED BY <1>9, <1>10 DEF Days

(* A slot of a day begins and ends on it, where the clock does not change. *)
LEMMA SlotOnDay ==
  ASSUME NEW q, WellFormed(q), q.zone.jump = 0, NEW d \in Days(q),
         NEW w \in FreeWindowsForDay(q, d), NEW t \in CandidatesInWindow(q, w)
  PROVE  OnDay(q.zone, d, t) /\ OnDay(q.zone, d, t + q.dur)
<1>1. d \in Int /\ t \in Int
  BY DaysType, CandidateType
<1>2. ClockKeepsHours(q)
  <2>1. q.zone.jump = 0 /\ q.zone.shift \in Int
    BY QueryType, ZoneType
  <2>2. \A i \in Days(q) : \A r \in HoursOn(q, i) :
          i \in Int /\ r.start \in Int /\ r.end \in Int
    BY DaysType, QueryType
  <2>3. \A i \in Days(q) : \A r \in HoursOn(q, i) :
          i * Day + r.start \in Int /\ i * Day + r.end \in Int
    BY <2>2, DayAssumption
  <2>4. q.zone.shift + q.zone.jump = q.zone.shift
    BY <2>1
  <2>5. \A x \in Int : ~ (q.zone.shift <= x /\ x < q.zone.shift)
    BY <2>1
  <2> QED BY <2>1, <2>3, <2>4, <2>5 DEF ClockKeepsHours
<1>3. FirstInWindow(q, w) \in Int /\ w.start <= FirstInWindow(q, w)
  BY <1>1, <1>2, FirstNotBefore
<1>4. Made(w, HoursWindows(q, d))
  BY <1>1, FreeWindowsMade
<1>5. q.dur \in Nat \ {0} /\ Zoned(q.zone) /\ q.zone.base \in Int
  BY QueryType, ZoneType DEF WellFormed
<1>6. \A v \in HoursWindows(q, d) : /\ v.start >= d * Day - q.zone.base
                                    /\ v.end < d * Day + Day - q.zone.base
  <2> SUFFICES ASSUME NEW r \in HoursOn(q, d), NEW v \in WindowFromHM(q.zone, d, r)
               PROVE  v.start >= d * Day - q.zone.base /\ v.end < d * Day + Day - q.zone.base
    BY DEF HoursWindows
  <2>1. r.start \in 0 .. Day - 1 /\ r.end \in 0 .. Day - 1
    BY <1>1, QueryType
  <2> DEFINE a == d * Day + r.start
             b == d * Day + r.end
  <2>2. v.start = Utc(q.zone, a) /\ v.end = Utc(q.zone, b)
    BY <1>1, <1>5, <2>1, WindowIs
  <2>3. d * Day \in Int /\ a \in Int /\ b \in Int /\ d * Day <= a /\ b < d * Day + Day
    BY <1>1, <2>1, DayAssumption
  <2> HIDE DEF a, b
  <2>4. v.start = a - q.zone.base /\ v.end = b - q.zone.base
    BY <1>5, <2>2, <2>3, ClockFixed
  <2> QED BY <1>5, <2>3, <2>4, DayAssumption
<1>7. w.start >= d * Day - q.zone.base /\ w.end < d * Day + Day - q.zone.base
  BY <1>4, <1>6 DEF Made
<1>8. w.start \in Int /\ w.end \in Int /\ d * Day \in Int
  BY <1>1, <1>4, DayAssumption DEF Made, Window
<1>9. FirstInWindow(q, w) <= t /\ t <= w.end - q.dur
  BY <1>5, <1>8, <1>3 DEF CandidatesInWindow
<1>10. d * Day <= t + q.zone.base /\ t + q.dur + q.zone.base < d * Day + Day
  BY <1>1, <1>3, <1>5, <1>7, <1>8, <1>9, DayAssumption
<1>11. t + q.zone.base < d * Day + Day /\ d * Day <= t + q.dur + q.zone.base
  BY <1>1, <1>5, <1>8, <1>10, DayAssumption
<1> QED BY <1>10, <1>11 DEF OnDay

-----------------------------------------------------------------------------
(* Date overrides. *)

LEMMA HostTypes ==
  ASSUME NEW h \in Host
  PROVE  /\ Zoned(Zone[h]) /\ IsFiniteSet(Rules[h])
         /\ \A r \in Rules[h] : r.weekday \in 0 .. 6 /\ Interval(r.start, r.end) \in Hours
         /\ External[h] \subseteq SUBSET Window
  BY OfferAssumption DEF Zoned, Window

LEMMA OverrideIs ==
  ASSUME OfferInv, NEW h \in Host, NEW lo, NEW hi, NEW o
  PROVE  o \in FindOverridesInRange(h, lo, hi) <=>
           \E x \in closed[h] :
             /\ x \in Int /\ lo <= x * Day /\ x * Day < hi
             /\ o = [date |-> x * Day, type |-> "unavailable", start |-> 0, end |-> 0]
<1>1. closed[h] \subseteq Int
  BY OfferAssumption DEF OfferInv, TypeOK
<1> QED BY <1>1 DEF FindOverridesInRange

LEMMA QueryWellFormed ==
  ASSUME OfferInv, NEW e \in EventType, NEW h \in Host, Zone[h].jump = 0,
         NEW lo, NEW hi, NEW bs \in SUBSET Window, NEW from \in Int, NEW to \in Int
  PROVE  WellFormed(Query(e, h, FindOverridesInRange(h, lo, hi), bs, from, to))
<1> DEFINE ov == FindOverridesInRange(h, lo, hi)
           q == Query(e, h, ov, bs, from, to)
<1>1. /\ q.zone = Zone[h] /\ q.rules = Rules[h] /\ q.overrides = ov /\ q.busy = bs
      /\ q.dur = Dur[e] /\ q.before = Before[e] /\ q.after = After[e]
      /\ q.notice = Notice[e] /\ q.horizon = Horizon[e] /\ q.now = now
      /\ q.from = from /\ q.to = to /\ q.step = 0
  BY QueryFields
<1> HIDE DEF q, ov
<1>2. \A o \in ov : /\ o.date \in Int /\ o.type = "unavailable" /\ o.start = 0 /\ o.end = 0
                    /\ \E x \in Int : o.date = x * Day
  <2>1. \A x \in Int : x * Day \in Int
    BY DayAssumption
  <2> QED BY <2>1, OverrideIs DEF ov
<1>3. Interval(0, 0) \in Hours
  BY DayAssumption DEF Interval, Hours
<1>4. ASSUME NEW o \in ov, NEW p \in ov, DateOf(Zone[h], o.date) = DateOf(Zone[h], p.date)
      PROVE  o = p
  <2>1. PICK x \in Int : o = [date |-> x * Day, type |-> "unavailable", start |-> 0, end |-> 0]
    BY OverrideIs DEF ov
  <2>2. PICK y \in Int : p = [date |-> y * Day, type |-> "unavailable", start |-> 0, end |-> 0]
    BY OverrideIs DEF ov
  <2>3. o.date = x * Day /\ p.date = y * Day /\ x * Day \in Int /\ y * Day \in Int
    BY <2>1, <2>2, DayAssumption
  <2> DEFINE d == DateOf(Zone[h], o.date)
  <2>4. d \in Int /\ Zone[h].base \in Int
    BY <2>3, HostTypes, ZoneType
  <2>5. OnDay(Zone[h], d, x * Day) /\ OnDay(Zone[h], d, y * Day)
    <3>1. DateOf(Zone[h], x * Day) = d /\ DateOf(Zone[h], y * Day) = d
      BY <1>4, <2>3
    <3> HIDE DEF d
    <3> QED BY <2>3, <2>4, <3>1, HostTypes, OnDayIs
  <2>6. x * Day < y * Day + Day /\ y * Day < x * Day + Day
    <3> HIDE DEF d
    <3>1. d * Day \in Int
      BY <2>4, DayAssumption
    <3> QED BY <2>3, <2>4, <2>5, <3>1, DayAssumption DEF OnDay
  <2>7. x = y
    <3>1. ASSUME x < y PROVE FALSE
      <4>1. x + 1 <= y
        BY <3>1
      <4>2. x * Day + Day <= y * Day
        BY <4>1, DayAssumption
      <4> QED BY <2>3, <2>6, <4>2, DayAssumption
    <3>2. ASSUME y < x PROVE FALSE
      <4>1. y + 1 <= x
        BY <3>2
      <4>2. y * Day + Day <= x * Day
        BY <4>1, DayAssumption
      <4> QED BY <2>3, <2>6, <4>2, DayAssumption
    <3> QED BY <3>1, <3>2
  <2> QED BY <2>1, <2>2, <2>7
<1>5. /\ Dur[e] \in Nat \ {0} /\ Before[e] \in Nat /\ After[e] \in Nat
      /\ Notice[e] \in Nat /\ Horizon[e] \in Nat /\ now \in Int
  BY OfferTypes
<1>6. \A b \in bs : b.start \in Int /\ b.end \in Int
  BY DEF Window
<1>7. /\ Zone[h] \in [base : Int, shift : Int, jump : Int] /\ IsFiniteSet(Rules[h])
      /\ \A r \in Rules[h] : r.weekday \in 0 .. 6 /\ Interval(r.start, r.end) \in Hours
  BY HostTypes DEF Zoned
<1>8. WellFormed(q)
  BY <1>1, <1>2, <1>3, <1>4, <1>5, <1>6, <1>7 DEF WellFormed
<1> QED BY <1>8 DEF q, ov

(* An override of the local day of t is near t. *)
LEMMA OverrideNear ==
  ASSUME OfferInv, NEW h \in Host, Zone[h].jump = 0, NEW d \in Int, NEW t \in Int,
         OnDay(Zone[h], d, t), NEW lo, NEW hi, NEW o \in FindOverridesInRange(h, lo, hi),
         DateOf(Zone[h], o.date) = d
  PROVE  \E x \in closed[h] :
           /\ x \in Int /\ x * Day \in Int /\ lo <= x * Day /\ x * Day < hi
           /\ o = [date |-> x * Day, type |-> "unavailable", start |-> 0, end |-> 0]
           /\ t - Day < x * Day /\ x * Day < t + Day
<1>1. PICK x \in closed[h] :
        /\ x \in Int /\ lo <= x * Day /\ x * Day < hi
        /\ o = [date |-> x * Day, type |-> "unavailable", start |-> 0, end |-> 0]
  BY OverrideIs
<1>2. x * Day \in Int /\ o.date = x * Day /\ Zone[h].base \in Int /\ d * Day \in Int
  BY <1>1, HostTypes, ZoneType, DayAssumption
<1>3. OnDay(Zone[h], d, x * Day)
  BY <1>2, HostTypes, OnDayIs
<1>4. t - Day < x * Day /\ x * Day < t + Day
  BY <1>2, <1>3, DayAssumption DEF OnDay
<1> QED BY <1>1, <1>2, <1>4

-----------------------------------------------------------------------------
(* The hours of a day hang on the zone, the weekly hours and the overrides   *)
(* of that day only.                                                        *)
LEMMA SameWindows ==
  ASSUME NEW q, NEW p, NEW d, q.zone = p.zone, q.rules = p.rules,
         { o \in q.overrides : DateOf(q.zone, o.date) = d } =
         { o \in p.overrides : DateOf(q.zone, o.date) = d }
  PROVE  FreeWindowsForDay(q, d) = FreeWindowsForDay(p, d)
  BY DEF FreeWindowsForDay

LEMMA ClosedDay ==
  ASSUME NEW q, NEW d, NEW o \in q.overrides, DateOf(q.zone, o.date) = d,
         \A x \in q.overrides : x.type = "unavailable"
  PROVE  FreeWindowsForDay(q, d) = {}
  BY DEF FreeWindowsForDay

LEMMA SameFirst ==
  ASSUME NEW q, NEW p, NEW w, q.zone = p.zone, q.step = p.step, q.dur = p.dur
  PROVE  FirstInWindow(q, w) = FirstInWindow(p, w)
  BY DEF FirstInWindow, StepOf

LEMMA BusyTypes ==
  ASSUME OfferInv, NEW h \in Host, NEW es, NEW range
  PROVE  /\ BusyOf(h, es, range) \subseteq Window
         /\ FreeBusy(h, range) \subseteq Window
<1>1. BusyOf(h, es, range) \subseteq Window
  BY TakenIs DEF BusyOf
<1>2. external[h] \subseteq Window
  BY HostTypes DEF OfferInv, TypeOK
<1> QED BY <1>1, <1>2 DEF FreeBusy

(* The two queries for an event type of one host. *)
LEMMA OneHostQueries ==
  ASSUME OfferInv, NEW e \in EventType, Len(Pool[e]) = 1, Zone[Owner(e)].jump = 0,
         NEW t \in Int
  PROVE  /\ WellFormed(Listed(e)) /\ WellFormed(Validated(e, Owner(e), t))
         /\ Zone[Owner(e)].jump = 0
<1> DEFINE h == Owner(e)
<1>1. h \in Host /\ Zone[h].jump = 0
  BY OfferTypes
<1>2. From \in Int /\ To + Day \in Int /\ t + Dur[e] \in Int
  BY OfferTypes, DayAssumption
<1>3. ListedBusy(e) \subseteq Window
  BY <1>1, BusyTypes DEF ListedBusy, ActiveBusyForHost
<1>4. ListedExternal(e) \subseteq Window
  BY <1>1, BusyTypes DEF ListedExternal
<1>5. ValidatedExternal(e, h, t) \subseteq Window
  BY <1>1, BusyTypes DEF ValidatedExternal
<1> HIDE DEF h
<1>6. WellFormed(Listed(e))
  <2> DEFINE bs == ListedBusy(e) \cup ListedExternal(e)
             to == To + Day
  <2>1. bs \in SUBSET Window
    BY <1>3, <1>4
  <2>2. to \in Int
    BY <1>2
  <2> HIDE DEF bs, to
  <2>3. WellFormed(Query(e, h, FindOverridesInRange(h, From, To), bs, From, to))
    BY <1>1, <1>2, <2>1, <2>2, QueryWellFormed
  <2> QED BY <2>3 DEF Listed, bs, to, h
<1>7. WellFormed(Validated(e, h, t))
  <2> DEFINE bs == IF Simple(e) THEN ValidatedExternal(e, h, t) ELSE {}
             to == t + Dur[e]
             lo == t - Day
             hi == t + 2 * Day
  <2>1. bs \in SUBSET Window
    BY <1>5 DEF h
  <2>2. to \in Int
    BY <1>2
  <2> HIDE DEF bs, to, lo, hi
  <2>3. WellFormed(Query(e, h, FindOverridesInRange(h, lo, hi), bs, t, to))
    BY <1>1, <2>1, <2>2, QueryWellFormed
  <2> QED BY <2>3 DEF Validated, bs, to, lo, hi
<1> QED BY <1>1, <1>6, <1>7 DEF h

(* Listing and validation look at the same hours for a slot listed. *)
LEMMA ListedHoursValid ==
  ASSUME OfferInv, NEW h \in Host, Zone[h].jump = 0, NEW d \in Int, NEW t \in Int,
         OnDay(Zone[h], d, t), From <= t, t + Day <= To
  PROVE  { o \in FindOverridesInRange(h, From, To) : DateOf(Zone[h], o.date) = d } =
         { o \in FindOverridesInRange(h, t - Day, t + 2 * Day) : DateOf(Zone[h], o.date) = d }
<1>1. From \in Int /\ To \in Int /\ Day \in Nat \ {0} /\ From % Day = 0
  BY OfferAssumption, DayAssumption
<1> DEFINE lo == t - Day
           hi == t + 2 * Day
<1>2. lo \in Int /\ hi \in Int /\ lo < t /\ t + Day < hi
  BY <1>1
<1>3. ASSUME NEW o \in FindOverridesInRange(h, From, To), DateOf(Zone[h], o.date) = d
      PROVE  o \in FindOverridesInRange(h, lo, hi)
  <2>1. PICK x \in closed[h] :
          /\ x \in Int /\ x * Day \in Int
          /\ o = [date |-> x * Day, type |-> "unavailable", start |-> 0, end |-> 0]
          /\ t - Day < x * Day /\ x * Day < t + Day
    BY <1>3, OverrideNear
  <2>2. lo <= x * Day /\ x * Day < hi
    BY <1>1, <2>1
  <2> HIDE DEF lo, hi
  <2> QED BY <2>1, <2>2, OverrideIs
<1>4. ASSUME NEW o \in FindOverridesInRange(h, lo, hi), DateOf(Zone[h], o.date) = d
      PROVE  o \in FindOverridesInRange(h, From, To)
  <2> HIDE DEF lo, hi
  <2>1. PICK x \in closed[h] :
          /\ x \in Int /\ x * Day \in Int
          /\ o = [date |-> x * Day, type |-> "unavailable", start |-> 0, end |-> 0]
          /\ t - Day < x * Day /\ x * Day < t + Day
    BY <1>4, OverrideNear
  <2>2. From <= x * Day
    <3> DEFINE f == From \div Day
    <3>1. f \in Int /\ From = f * Day
      BY <1>1
    <3> HIDE DEF f
    <3>2. (f - 1) * Day < x * Day
      BY <1>1, <2>1, <3>1
    <3>3. f - 1 < x
      BY <1>1, <2>1, <3>1, <3>2
    <3>4. f <= x
      BY <2>1, <3>1, <3>3
    <3> QED BY <1>1, <2>1, <3>1, <3>4
  <2>3. x * Day < To
    BY <1>1, <2>1
  <2> QED BY <2>1, <2>2, <2>3, OverrideIs
<1> QED BY <1>3, <1>4

LEMMA ListedIsValid ==
  ASSUME OfferInv, NEW e \in EventType, Zone[Owner(e)].jump = 0, After[e] <= Day,
         Len(Pool[e]) = 1, Owner(e) \in readable, NEW t \in Listing(e), t + Day <= To
  PROVE  ValidateSlot(e, Owner(e), t)
<1> DEFINE h == Owner(e)
           q == Listed(e)
           p == Validated(e, h, t)
<1>1. PICK d \in Days(q) : \E w \in FreeWindowsForDay(q, d) : t \in CandidatesInWindow(q, w)
  BY ListedIs
<1>2. PICK w \in FreeWindowsForDay(q, d) : t \in CandidatesInWindow(q, w)
  BY <1>1
<1>3. d \in Int /\ t \in Int
  BY <1>2, DaysType, CandidateType
<1>4. WellFormed(q) /\ WellFormed(p) /\ Zone[h].jump = 0 /\ h \in Host
  BY <1>3, OneHostQueries, OfferTypes
<1>5. /\ q.zone = Zone[h] /\ q.rules = Rules[h] /\ q.step = 0 /\ q.dur = Dur[e]
      /\ q.overrides = FindOverridesInRange(h, From, To)
  BY QueryFields DEF Listed
<1>6. /\ p.zone = Zone[h] /\ p.rules = Rules[h] /\ p.step = 0 /\ p.dur = Dur[e]
      /\ p.overrides = FindOverridesInRange(h, t - Day, t + 2 * Day)
      /\ p.from = t /\ p.to = t + Dur[e]
  BY QueryFields DEF Validated
<1>7. OnDay(Zone[h], d, t)
  <2> HIDE DEF q, h
  <2> QED BY <1>2, <1>4, <1>5, SlotOnDay
<1>8. /\ t \in FirstInWindow(q, w) .. w.end - Dur[e]
      /\ (t - FirstInWindow(q, w)) % Dur[e] = 0
      /\ t >= now + Notice[e]
      /\ Horizon[e] > 0 => t <= now + Horizon[e] * Day
      /\ From <= t
      /\ \A b \in ListedBusy(e) \cup ListedExternal(e) :
           ~ Meet(Interval(t - Before[e], t + Dur[e] + After[e]), b)
  <2> DEFINE bs == ListedBusy(e) \cup ListedExternal(e)
             to == To + Day
             ov == FindOverridesInRange(h, From, To)
  <2>1. t \in CandidatesInWindow(Query(e, h, ov, bs, From, to), w)
    BY <1>2 DEF Listed
  <2> HIDE DEF bs, to, ov, h
  <2>2. Query(e, h, ov, bs, From, to) = q
    BY DEF Listed, bs, to, ov, h
  <2> HIDE DEF q
  <2>3. \A b \in bs : ~ Meet(Interval(t - Before[e], t + Dur[e] + After[e]), b)
    BY <2>1, CandidateIs
  <2> QED BY <2>1, <2>2, <2>3, CandidateIs DEF bs
<1>9. /\ Dur[e] \in Nat \ {0} /\ Before[e] \in Nat /\ After[e] \in Nat
      /\ From \in Int /\ To \in Int /\ Day \in Nat /\ After[e] <= Day
  BY OfferTypes, DayAssumption
<1>10. Dur[e] <= Day
  <2>1. OnDay(Zone[h], d, t) /\ OnDay(Zone[h], d, t + Dur[e])
    <3> HIDE DEF q, h
    <3> QED BY <1>2, <1>4, <1>5, SlotOnDay
  <2>2. Zone[h].base \in Int /\ d * Day \in Int
    BY <1>3, <1>4, HostTypes, ZoneType, DayAssumption
  <2> HIDE DEF h
  <2> QED BY <1>3, <1>9, <2>1, <2>2 DEF OnDay
<1> HIDE DEF h, q, p
<1>11. FreeWindowsForDay(p, d) = FreeWindowsForDay(q, d)
  <2>1. { o \in q.overrides : DateOf(q.zone, o.date) = d } =
        { o \in p.overrides : DateOf(q.zone, o.date) = d }
    BY <1>3, <1>4, <1>5, <1>6, <1>7, <1>8, ListedHoursValid
  <2> QED BY <1>5, <1>6, <2>1, SameWindows
<1>12. d \in Days(p)
  <2>1. t \in p.from .. p.to /\ p.from \in Int /\ p.to \in Int
    BY <1>3, <1>6, <1>9
  <2>2. Zoned(p.zone) /\ p.zone.jump = 0
    BY <1>4, <1>6, HostTypes
  <2> QED BY <1>3, <1>6, <1>7, <2>1, <2>2, DayWalked
<1>13. FirstInWindow(p, w) = FirstInWindow(q, w)
  BY <1>5, <1>6, SameFirst
<1> DEFINE bs == IF Simple(e) THEN ValidatedExternal(e, h, t) ELSE {}
<1>14. ASSUME NEW b \in bs
       PROVE  ~ Meet(Interval(t - Before[e], t + Dur[e] + After[e]), b)
  <2>1. Simple(e) /\ b \in FreeBusy(h, Interval(t - Before[e], t + Dur[e] + After[e]))
    BY <1>14 DEF ValidatedExternal
  <2>2. b.start \in Int /\ b.end \in Int
    <3>1. b \in Window
      BY <1>4, <2>1, BusyTypes
    <3> QED BY <3>1 DEF Window
  <2>3. b \in external[h] /\ b.start < t + Dur[e] + After[e] /\ t - Before[e] < b.end
    BY <2>1, MeetIs DEF FreeBusy
  <2>4. b.start < To + Day /\ From - Before[e] < b.end
    BY <1>3, <1>8, <1>9, <1>10, <2>2, <2>3
  <2>5. b \in FreeBusy(h, Interval(From - Before[e], To + Day))
    BY <2>3, <2>4, MeetIs DEF FreeBusy
  <2>6. b \in ListedExternal(e)
    BY <2>1, <2>5 DEF ListedExternal, h
  <2> QED BY <1>8, <2>6
<1>15. t \in CandidatesInWindow(p, w)
  <2> DEFINE ov == FindOverridesInRange(h, t - Day, t + 2 * Day)
             to == t + Dur[e]
             x == Query(e, h, ov, bs, t, to)
  <2>1. x = p
    BY DEF p, Validated
  <2>2. t <= t /\ t < to
    BY <1>3, <1>9
  <2> HIDE DEF bs, ov, to
  <2>3. FirstInWindow(x, w) = FirstInWindow(q, w)
    BY <1>13, <2>1
  <2>4. t \in CandidatesInWindow(x, w)
    BY <1>8, <1>14, <2>2, <2>3, CandidateIs
  <2> QED BY <2>1, <2>4
<1>16. t \in ComputeSlots(p)
  <2>1. p.dur \in Nat \ {0}
    BY <1>6, <1>9
  <2> QED BY <1>2, <1>11, <1>12, <1>15, <2>1, SlotIs
<1> QED BY <1>8, <1>16 DEF ValidateSlot, p, Validated, h

-----------------------------------------------------------------------------
LEMMA ListedIsFree ==
  ASSUME OfferInv, NEW e \in EventType,
         Len(Pool[e]) = 1, ~ IsGroup(e), NEW t \in Listing(e), t + Day <= To,
         NEW d \in Int, OnDay(Zone[Owner(e)], d, t), OnDay(Zone[Owner(e)], d, t + Dur[e]),
         From <= t,
         \A b \in Listed(e).busy : ~ Meet(Interval(t - Before[e], t + Dur[e] + After[e]), b),
         t \in Int
  PROVE  Free(Owner(e), e, t)
<1>1. /\ Dur[e] \in Nat \ {0} /\ Before[e] \in Nat /\ After[e] \in Nat
      /\ From \in Int /\ To \in Int /\ Day \in Nat /\ Owner(e) \in Host
  BY OfferTypes, DayAssumption
<1>2. Dur[e] <= Day
  <2>1. Zone[Owner(e)].base \in Int /\ d * Day \in Int
    BY <1>1, HostTypes, ZoneType, DayAssumption
  <2> QED BY <1>1, <2>1 DEF OnDay
<1>3. ASSUME NEW b \in bookings, b.host = Owner(e), Meet(Taken(b), Interval(t, t + Dur[e]))
      PROVE  FALSE
  <2>1. /\ Taken(b).start \in Int /\ Taken(b).end \in Int
        /\ Taken(b).start < t + Dur[e] /\ t < Taken(b).end
    BY <1>3, TakenIs, MeetIs
  <2>2. Meet(Taken(b), Interval(From, To + Day))
    <3>1. Taken(b).start < To + Day /\ From < Taken(b).end
      BY <1>1, <1>2, <2>1
    <3> QED BY <3>1, MeetIs
  <2>3. Taken(b) \in Listed(e).busy
    BY <1>3, <2>2, OwnBookingListed
  <2>4. Meet(Interval(t - Before[e], t + Dur[e] + After[e]), Taken(b))
    <3>1. t - Before[e] < Taken(b).end /\ Taken(b).start < t + Dur[e] + After[e]
      BY <1>1, <2>1
    <3> QED BY <3>1 DEF Meet, Interval
  <2> QED BY <2>3, <2>4
<1> QED BY <1>3 DEF Free, ActiveBusyForHost, BusyOf

LEMMA ListedIsBookable == OfferInv => OfferHolds
<1> SUFFICES ASSUME OfferInv, NEW e \in EventType, Zone[Owner(e)].jump = 0,
                    After[e] <= Day, Len(Pool[e]) = 1, Owner(e) \in readable,
                    NEW t \in Listing(e), t + Day <= To
             PROVE  Bookable(e, t)
  BY DEF OfferHolds
<1>1. ValidateSlot(e, Owner(e), t)
  BY ListedIsValid
<1>2. PickHost(e, t) = Owner(e)
  BY OneHostPicked
<1>3. IsGroup(e) => CountActiveAtSlot(e, t) < Capacity[e]
  BY ListedIs
<1>4. ASSUME ~ IsGroup(e) PROVE Free(Owner(e), e, t)
  <2> DEFINE h == Owner(e)
             q == Listed(e)
  <2>1. PICK d \in Days(q) : \E w \in FreeWindowsForDay(q, d) : t \in CandidatesInWindow(q, w)
    BY ListedIs
  <2>2. PICK w \in FreeWindowsForDay(q, d) : t \in CandidatesInWindow(q, w)
    BY <2>1
  <2>3. d \in Int /\ t \in Int
    BY <2>2, DaysType, CandidateType
  <2>4. WellFormed(q) /\ Zone[h].jump = 0
    BY <2>3, OneHostQueries
  <2>5. /\ q.zone = Zone[h] /\ q.dur = Dur[e] /\ q.from = From
        /\ q.before = Before[e] /\ q.after = After[e]
    BY QueryFields DEF Listed
  <2> HIDE DEF q, h
  <2>6. OnDay(Zone[h], d, t) /\ OnDay(Zone[h], d, t + Dur[e])
    BY <2>2, <2>4, <2>5, SlotOnDay
  <2>7. From <= t /\ ~ BusyConflict(q, t)
    BY <2>2, <2>5 DEF CandidatesInWindow
  <2>8. \A b \in q.busy : ~ Meet(Interval(t - Before[e], t + Dur[e] + After[e]), b)
    BY <2>5, <2>7 DEF BusyConflict
  <2> QED BY <1>4, <2>3, <2>6, <2>7, <2>8, ListedIsFree DEF q, h
<1> QED BY <1>1, <1>2, <1>3, <1>4 DEF Bookable

(* What is listed for one host is accepted by a booking made at once        *)
(* (api.go, handleListSlots; pipeline.go, validate; store.go,               *)
(* ReserveBookingTx), for every host and event type OfferHolds speaks of,    *)
(* a class with seats left among them.                                      *)
THEOREM ListedSlotsBookable == Spec => []OfferHolds
<1> QED BY ListedIsBookable, OfferInit, OfferStep, PTL DEF Spec

-----------------------------------------------------------------------------

(* Where a slot is valid no override closes its day. *)
LEMMA ValidHoursListed ==
  ASSUME OfferInv, NEW h \in Host, Zone[h].jump = 0, NEW d \in Int, NEW t \in Int,
         OnDay(Zone[h], d, t),
         { o \in FindOverridesInRange(h, t - Day, t + 2 * Day) : DateOf(Zone[h], o.date) = d } = {}
  PROVE  { o \in FindOverridesInRange(h, From, To) : DateOf(Zone[h], o.date) = d } = {}
<1> SUFFICES ASSUME NEW o \in FindOverridesInRange(h, From, To), DateOf(Zone[h], o.date) = d
             PROVE  FALSE
  OBVIOUS
<1> DEFINE lo == t - Day
           hi == t + 2 * Day
<1>1. PICK x \in closed[h] :
        /\ x \in Int /\ x * Day \in Int
        /\ o = [date |-> x * Day, type |-> "unavailable", start |-> 0, end |-> 0]
        /\ t - Day < x * Day /\ x * Day < t + Day
  BY OverrideNear
<1>2. lo <= x * Day /\ x * Day < hi
  BY <1>1, DayAssumption
<1>3. o \in FindOverridesInRange(h, lo, hi)
  <2> HIDE DEF lo, hi
  <2> QED BY <1>1, <1>2, OverrideIs
<1> QED BY <1>3

LEMMA ValidIsListed ==
  ASSUME OfferInv, NEW e \in EventType, Zone[Owner(e)].jump = 0,
         Len(Pool[e]) = 1, Before[e] = 0, After[e] = 0, NEW t \in From .. To - 1,
         Bookable(e, t),
         BusyOf(Owner(e), EventType \ {e}, Interval(t, t + Dur[e])) = {}
  PROVE  t \in Listing(e)
<1> DEFINE h == Owner(e)
           q == Listed(e)
           p == Validated(e, h, t)
<1>0. /\ Dur[e] \in Nat \ {0} /\ From \in Int /\ To \in Int /\ Day \in Nat \ {0}
      /\ t \in Int /\ From <= t /\ t < To
  BY OfferTypes, DayAssumption
<1>1. ValidateSlot(e, h, t) /\ (IsGroup(e) => CountActiveAtSlot(e, t) < Capacity[e])
      /\ (~ IsGroup(e) => Free(h, e, t))
  BY OneHostPicked DEF Bookable
<1>2. t \in ComputeSlots(p) /\ (Simple(e) => h \in readable)
  BY <1>1 DEF ValidateSlot, Validated
<1>3. WellFormed(q) /\ WellFormed(p) /\ Zone[h].jump = 0 /\ h \in Host
  BY <1>0, OneHostQueries, OfferTypes
<1>4. /\ q.zone = Zone[h] /\ q.rules = Rules[h] /\ q.step = 0 /\ q.dur = Dur[e]
      /\ q.overrides = FindOverridesInRange(h, From, To)
      /\ q.from = From /\ q.to = To + Day
  BY QueryFields DEF Listed
<1>5. /\ p.zone = Zone[h] /\ p.rules = Rules[h] /\ p.step = 0 /\ p.dur = Dur[e]
      /\ p.overrides = FindOverridesInRange(h, t - Day, t + 2 * Day)
  BY QueryFields DEF Validated
<1>6. PICK d \in Days(p) : \E w \in FreeWindowsForDay(p, d) : t \in CandidatesInWindow(p, w)
  <2>1. p.dur \in Nat \ {0}
    BY <1>0, <1>5
  <2> HIDE DEF p
  <2> QED BY <1>2, <2>1, SlotIs
<1>7. PICK w \in FreeWindowsForDay(p, d) : t \in CandidatesInWindow(p, w)
  BY <1>6
<1>8. d \in Int
  BY DaysType
<1>9. OnDay(Zone[h], d, t)
  <2> HIDE DEF p, h
  <2> QED BY <1>3, <1>5, <1>7, SlotOnDay
<1>10. /\ t \in FirstInWindow(p, w) .. w.end - Dur[e]
       /\ (t - FirstInWindow(p, w)) % Dur[e] = 0
       /\ t >= now + Notice[e]
       /\ Horizon[e] > 0 => t <= now + Horizon[e] * Day
       /\ Simple(e) => \A b \in ValidatedExternal(e, h, t) :
                         ~ Meet(Interval(t - Before[e], t + Dur[e] + After[e]), b)
  <2> DEFINE bs == IF Simple(e) THEN ValidatedExternal(e, h, t) ELSE {}
             to == t + Dur[e]
             ov == FindOverridesInRange(h, t - Day, t + 2 * Day)
  <2>1. Query(e, h, ov, bs, t, to) = p
    BY DEF Validated
  <2> HIDE DEF bs, to, ov, p
  <2>2. \A b \in bs : ~ Meet(Interval(t - Before[e], t + Dur[e] + After[e]), b)
    BY <1>7, <2>1, CandidateIs
  <2>3. Simple(e) => bs = ValidatedExternal(e, h, t)
    BY DEF bs
  <2> QED BY <1>7, <2>1, <2>2, <2>3, CandidateIs
<1> HIDE DEF h, q, p
<1>11. FreeWindowsForDay(q, d) = FreeWindowsForDay(p, d)
  <2>1. { o \in p.overrides : DateOf(Zone[h], o.date) = d } = {}
    <3> SUFFICES ASSUME NEW o \in p.overrides, DateOf(Zone[h], o.date) = d PROVE FALSE
      OBVIOUS
    <3>1. \A x \in p.overrides : x.type = "unavailable"
      <4> DEFINE lo == t - Day
                 hi == t + 2 * Day
      <4>1. p.overrides = FindOverridesInRange(h, lo, hi)
        BY <1>5
      <4> HIDE DEF lo, hi
      <4> QED BY <1>3, <4>1, OverrideIs
    <3>2. FreeWindowsForDay(p, d) = {}
      BY <1>5, <3>1, ClosedDay
    <3> QED BY <1>7, <3>2
  <2>2. { o \in q.overrides : DateOf(Zone[h], o.date) = d } = {}
    BY <1>0, <1>3, <1>4, <1>5, <1>8, <1>9, <2>1, ValidHoursListed
  <2> QED BY <1>4, <1>5, <2>1, <2>2, SameWindows
<1>12. d \in Days(q)
  <2>1. t \in q.from .. q.to /\ q.from \in Int /\ q.to \in Int
    BY <1>0, <1>4
  <2>2. Zoned(q.zone) /\ q.zone.jump = 0
    BY <1>3, <1>4, HostTypes
  <2> QED BY <1>4, <1>8, <1>9, <2>1, <2>2, DayWalked
<1>13. FirstInWindow(q, w) = FirstInWindow(p, w)
  BY <1>4, <1>5, SameFirst
<1>14. t - Before[e] = t /\ t + Dur[e] + After[e] = t + Dur[e]
  BY <1>0
<1>15. ASSUME NEW b \in ListedBusy(e), Meet(Interval(t, t + Dur[e]), b) PROVE FALSE
  <2>0. Meet(b, Interval(t, t + Dur[e]))
    BY <1>15, MeetIs
  <2>1. CASE IsGroup(e)
    <3>1. b \in BusyOf(h, EventType \ {e}, Interval(From, To + Day))
      BY <1>15, <2>1 DEF ListedBusy, h
    <3>2. b \in BusyOf(h, EventType \ {e}, Interval(t, t + Dur[e]))
      BY <2>0, <3>1 DEF BusyOf
    <3> QED BY <3>2 DEF h
  <2>2. CASE ~ IsGroup(e)
    <3>1. b \in BusyOf(h, EventType, Interval(From, To + Day))
      BY <1>15, <2>2 DEF ListedBusy, ActiveBusyForHost, h
    <3>2. b \in BusyOf(h, EventType, Interval(t, t + Dur[e]))
      BY <2>0, <3>1 DEF BusyOf
    <3> QED BY <1>1, <2>2, <3>2 DEF Free, ActiveBusyForHost
  <2> QED BY <2>1, <2>2
<1>16. ASSUME NEW b \in ListedExternal(e), Meet(Interval(t, t + Dur[e]), b) PROVE FALSE
  <2>1. Simple(e) /\ b \in external[h]
    BY <1>16 DEF ListedExternal, FreeBusy, h
  <2>2. Meet(b, Interval(t, t + Dur[e]))
    BY <1>16, MeetIs
  <2>3. b \in ValidatedExternal(e, h, t)
    BY <1>14, <2>1, <2>2 DEF ValidatedExternal, FreeBusy
  <2> QED BY <1>10, <1>14, <1>16, <2>1, <2>3
<1>17. t \in CandidatesInWindow(q, w)
  <2> DEFINE bs == ListedBusy(e) \cup ListedExternal(e)
             to == To + Day
             ov == FindOverridesInRange(h, From, To)
  <2>1. Query(e, h, ov, bs, From, to) = q
    BY DEF q, Listed, h
  <2>2. \A b \in bs : ~ Meet(Interval(t - Before[e], t + Dur[e] + After[e]), b)
    BY <1>14, <1>15, <1>16
  <2>3. From <= t /\ t < to
    BY <1>0
  <2> HIDE DEF bs, to, ov
  <2> QED BY <1>10, <1>13, <2>1, <2>2, <2>3, CandidateIs
<1>18. w \in FreeWindowsForDay(q, d)
  BY <1>11
<1> QED BY <1>1, <1>12, <1>17, <1>18, ListedIs DEF q

-----------------------------------------------------------------------------
(* The later of two times, and the earlier. *)
LEMMA PairIs ==
  ASSUME NEW a \in Int, NEW b \in Int
  PROVE  /\ Max({a, b}) \in {a, b} /\ a <= Max({a, b}) /\ b <= Max({a, b})
         /\ Min({a, b}) \in {a, b} /\ Min({a, b}) <= a /\ Min({a, b}) <= b
<1>1. \E x \in {a, b} : \A y \in {a, b} : x >= y
  <2>1. CASE a >= b
    BY <2>1
  <2>2. CASE ~ a >= b
    BY <2>2
  <2> QED BY <2>1, <2>2
<1>2. Max({a, b}) \in {a, b} /\ \A y \in {a, b} : Max({a, b}) >= y
  BY <1>1 DEF Max
<1>3. \E x \in {a, b} : \A y \in {a, b} : x <= y
  <2>1. CASE a <= b
    BY <2>1
  <2>2. CASE ~ a <= b
    BY <2>2
  <2> QED BY <2>1, <2>2
<1>4. Min({a, b}) \in {a, b} /\ \A y \in {a, b} : Min({a, b}) <= y
  BY <1>3 DEF Min
<1>5. Max({a, b}) \in Int
  BY <1>2
<1> QED BY <1>2, <1>4, <1>5

(* Interval i lies within one of js. *)
Within(i, js) == \E j \in js : j.start <= i.start /\ i.end <= j.end

LEMMA IntersectionWithin ==
  ASSUME NEW is \in SUBSET Window, NEW js \in SUBSET Window,
         NEW i \in IntersectIntervals(is, js)
  PROVE  i \in Window /\ Within(i, is) /\ Within(i, js)
<1>1. PICK p \in is \X js :
        i = Interval(Max({p[1].start, p[2].start}), Min({p[1].end, p[2].end}))
  BY DEF IntersectIntervals
<1> DEFINE v == p[1]
           w == p[2]
<1>2. v \in is /\ w \in js
  BY <1>1
<1> HIDE DEF v, w
<1>3. v.start \in Int /\ v.end \in Int /\ w.start \in Int /\ w.end \in Int
  BY <1>2 DEF Window
<1>4. i.start = Max({v.start, w.start}) /\ i.end = Min({v.end, w.end})
      /\ i = Interval(Max({v.start, w.start}), Min({v.end, w.end}))
  BY <1>1 DEF Interval, v, w
<1>5. /\ v.start <= i.start /\ w.start <= i.start /\ i.start \in Int
      /\ i.end <= v.end /\ i.end <= w.end /\ i.end \in Int
  <2>1. /\ Max({v.start, w.start}) \in {v.start, w.start}
        /\ v.start <= Max({v.start, w.start}) /\ w.start <= Max({v.start, w.start})
    BY <1>3, PairIs
  <2>2. /\ Min({v.end, w.end}) \in {v.end, w.end}
        /\ Min({v.end, w.end}) <= v.end /\ Min({v.end, w.end}) <= w.end
    BY <1>3, PairIs
  <2> QED BY <1>3, <1>4, <2>1, <2>2
<1>6. i \in Window
  <2>1. \A a, b \in Int : Interval(a, b) \in Window
    BY DEF Interval, Window
  <2>2. i = Interval(i.start, i.end)
    BY <1>4
  <2> QED BY <1>5, <2>1, <2>2
<1> QED BY <1>2, <1>5, <1>6 DEF Within

(* f is the times at which each of the first hosts of hs is busy. *)
AllBusy(f, hs, range, k) ==
  f = [n \in 1 .. k |-> IF n = 1 THEN ActiveBusyForHost(hs[1], range)
                        ELSE IntersectIntervals(f[n - 1], ActiveBusyForHost(hs[n], range))]

LEMMA AllBusyExists ==
  ASSUME NEW hs, NEW range, NEW k \in Nat
  PROVE  \E f : AllBusy(f, hs, range, k)
<1> DEFINE B(n) == ActiveBusyForHost(hs[n], range)
           S == { n \in Nat : \E f : AllBusy(f, hs, range, n) }
<1>1. 0 \in S
  <2> DEFINE g == [n \in 1 .. 0 |-> {}]
  <2>1. \A n \in 1 .. 0 : FALSE
    OBVIOUS
  <2>2. AllBusy(g, hs, range, 0)
    BY <2>1 DEF AllBusy
  <2> QED BY <2>2
<1>2. ASSUME NEW n \in Nat, n \in S PROVE n + 1 \in S
  <2>1. PICK f : AllBusy(f, hs, range, n)
    BY <1>2
  <2> DEFINE g == [m \in 1 .. n + 1 |->
                     IF m = n + 1 THEN IF n = 0 THEN B(1) ELSE IntersectIntervals(f[n], B(n + 1))
                     ELSE f[m]]
             step(m) == IF m = 1 THEN B(1) ELSE IntersectIntervals(g[m - 1], B(m))
  <2>2. \A m \in 1 .. n : f[m] = IF m = 1 THEN B(1) ELSE IntersectIntervals(f[m - 1], B(m))
    BY <2>1 DEF AllBusy
  <2>3. ASSUME NEW m \in 1 .. n + 1 PROVE g[m] = step(m)
    <3>1. CASE m = n + 1 /\ n = 0
      BY <3>1
    <3>2. CASE m = n + 1 /\ n # 0
      <4>1. m - 1 = n /\ m # 1 /\ m - 1 \in 1 .. n + 1 /\ m - 1 # n + 1
        BY <3>2
      <4>2. g[m] = IntersectIntervals(f[n], B(n + 1)) /\ g[m - 1] = f[n]
        BY <3>2, <4>1
      <4> QED BY <3>2, <4>1, <4>2
    <3>3. CASE m # n + 1 /\ m = 1
      BY <2>2, <3>3
    <3>4. CASE m # n + 1 /\ m # 1
      <4>1. m \in 1 .. n /\ m - 1 \in 1 .. n + 1 /\ m - 1 # n + 1
        BY <3>4
      <4>2. g[m] = f[m] /\ g[m - 1] = f[m - 1]
        BY <3>4, <4>1
      <4> QED BY <2>2, <3>4, <4>1, <4>2
    <3> QED BY <3>1, <3>2, <3>3, <3>4
  <2>4. g = [m \in 1 .. n + 1 |-> g[m]]
    OBVIOUS
  <2> HIDE DEF g
  <2>5. g = [m \in 1 .. n + 1 |-> step(m)]
    BY <2>3, <2>4
  <2>6. AllBusy(g, hs, range, n + 1)
    BY <2>5 DEF AllBusy
  <2> QED BY <2>6
<1>3. Nat \subseteq S
  <2> HIDE DEF S
  <2> QED BY <1>1, <1>2, Inductive
<1> QED BY <1>3

(* A time at which all hosts are busy is one at which each of them is. *)
LEMMA EachOneBusy ==
  ASSUME OfferInv, NEW hs \in Seq(Host), Len(hs) # 0, NEW range,
         NEW i \in ActiveBusyAllHostsIntersection(hs, range), NEW m \in 1 .. Len(hs)
  PROVE  i \in Window /\ Within(i, ActiveBusyForHost(hs[m], range))
<1> DEFINE k == Len(hs)
           B(n) == ActiveBusyForHost(hs[n], range)
           f == CHOOSE g : g = [n \in DOMAIN hs |->
                                  IF n = 1 THEN B(1) ELSE IntersectIntervals(g[n - 1], B(n))]
<1>1. k \in Nat \ {0} /\ DOMAIN hs = 1 .. k /\ \A n \in 1 .. k : hs[n] \in Host
  OBVIOUS
<1>2. i \in f[k]
  BY DEF ActiveBusyAllHostsIntersection
<1>3. AllBusy(f, hs, range, k)
  BY <1>1, AllBusyExists DEF AllBusy
<1>4. \A n \in 1 .. k : B(n) \in SUBSET Window
  BY <1>1, BusyTypes DEF ActiveBusyForHost
<1> HIDE DEF k, f
<1>5. \A n \in 1 .. k : f[n] = IF n = 1 THEN B(1) ELSE IntersectIntervals(f[n - 1], B(n))
  BY <1>3 DEF AllBusy
<1> HIDE DEF B
<1>6. \A c \in Window : \A js : c \in js => Within(c, js)
  BY DEF Within, Window
<1> DEFINE Good(n) == /\ f[n] \in SUBSET Window
                      /\ \A c \in f[n] : \A x \in 1 .. n : Within(c, B(x))
           S == { n \in Nat : n \in 1 .. k => Good(n) }
<1>7. 0 \in S
  OBVIOUS
<1>8. ASSUME NEW n \in Nat, n \in S PROVE n + 1 \in S
  <2> SUFFICES ASSUME n + 1 \in 1 .. k PROVE Good(n + 1)
    OBVIOUS
  <2>1. CASE n = 0
    <3>1. f[1] = B(1) /\ 1 \in 1 .. k
      BY <1>5, <2>1
    <3>2. \A x \in 1 .. 1 : x = 1
      OBVIOUS
    <3>3. Good(1)
      BY <1>4, <1>6, <3>1, <3>2
    <3> QED BY <2>1, <3>3
  <2>2. CASE n # 0
    <3>1. n \in 1 .. k /\ n + 1 # 1 /\ n + 1 - 1 = n
      BY <1>1, <2>2
    <3>2. f[n + 1] = IntersectIntervals(f[n], B(n + 1))
      BY <1>5, <3>1
    <3>3. Good(n)
      BY <1>8, <3>1
    <3>4. B(n + 1) \in SUBSET Window
      BY <1>4
    <3>5. \A c \in f[n + 1] : c \in Window /\ Within(c, f[n]) /\ Within(c, B(n + 1))
      BY <3>2, <3>3, <3>4, IntersectionWithin
    <3>6. ASSUME NEW c \in f[n + 1], NEW x \in 1 .. n PROVE Within(c, B(x))
      <4>1. PICK j \in f[n] : j.start <= c.start /\ c.end <= j.end
        BY <3>5 DEF Within
      <4>2. x \in 1 .. k
        BY <1>1, <3>1
      <4>3. PICK b \in B(x) : b.start <= j.start /\ j.end <= b.end
        BY <3>3 DEF Within
      <4>4. /\ c.start \in Int /\ c.end \in Int /\ j.start \in Int /\ j.end \in Int
            /\ b.start \in Int /\ b.end \in Int
        <5>1. c \in Window /\ j \in Window /\ b \in Window
          BY <1>4, <3>3, <3>5, <4>1, <4>2, <4>3
        <5> QED BY <5>1 DEF Window
      <4>5. b.start <= c.start /\ c.end <= b.end
        BY <4>1, <4>3, <4>4
      <4> QED BY <4>3, <4>5 DEF Within
    <3>7. \A x \in 1 .. n + 1 : x \in 1 .. n \/ x = n + 1
      OBVIOUS
    <3> QED BY <3>5, <3>6, <3>7
  <2> QED BY <2>1, <2>2
<1>9. k \in S
  <2> HIDE DEF S
  <2> QED BY <1>1, <1>7, <1>8, Inductive
<1>10. Good(k)
  BY <1>1, <1>9
<1>11. m \in 1 .. k
  BY DEF k
<1> QED BY <1>2, <1>10, <1>11 DEF B

(* A slot of the owner's hours is listed if some host of the pool is free. *)
LEMMA PoolListed ==
  ASSUME OfferInv, NEW e \in EventType, Len(Pool[e]) > 1, ~ IsGroup(e),
         NEW t \in ComputeSlots(Query(e, Owner(e), FindOverridesInRange(Owner(e), From, To),
                                      {}, From, To + Day)),
         NEW h \in ToSet(Pool[e]),
         ActiveBusyForHost(h, Interval(t - Before[e], t + Dur[e] + After[e])) = {}
  PROVE  t \in Listing(e)
<1> DEFINE to == To + Day
           ov == FindOverridesInRange(Owner(e), From, To)
           range == Interval(From, To + Day)
           bs == ListedBusy(e) \cup ListedExternal(e)
           p == Query(e, Owner(e), ov, {}, From, to)
           q == Query(e, Owner(e), ov, bs, From, to)
           around == Interval(t - Before[e], t + Dur[e] + After[e])
<1>1. /\ Pool[e] \in Seq(Host) /\ Dur[e] \in Nat \ {0} /\ Before[e] \in Int /\ After[e] \in Int
      /\ Len(Pool[e]) # 1
  BY OfferTypes
<1>2. PICK m \in 1 .. Len(Pool[e]) : Pool[e][m] = h
  BY <1>1 DEF ToSet
<1>3. bs = ActiveBusyAllHostsIntersection(Pool[e], range)
  <2>1. ListedExternal(e) = {}
    BY <1>1 DEF ListedExternal, Simple
  <2>2. ListedBusy(e) = ActiveBusyAllHostsIntersection(Pool[e], range)
    BY <1>1 DEF ListedBusy
  <2> HIDE DEF range
  <2> QED BY <2>1, <2>2
<1>4. /\ q.zone = p.zone /\ q.rules = p.rules /\ q.overrides = p.overrides
      /\ q.from = p.from /\ q.to = p.to /\ q.step = p.step /\ q.dur = p.dur /\ p.dur = Dur[e]
  <2> HIDE DEF ov, bs, to
  <2> QED BY QueryFields
<1>5. q = Listed(e)
  BY DEF Listed
<1>6. t \in ComputeSlots(p)
  OBVIOUS
<1> HIDE DEF p, q
<1>7. PICK d \in Days(p) : \E w \in FreeWindowsForDay(p, d) : t \in CandidatesInWindow(p, w)
  BY <1>1, <1>4, <1>6, SlotIs
<1>8. PICK w \in FreeWindowsForDay(p, d) : t \in CandidatesInWindow(p, w)
  BY <1>7
<1>9. t \in Int
  BY <1>8, CandidateType
<1>10. d \in Days(q) /\ w \in FreeWindowsForDay(q, d)
  BY <1>4, <1>8, SameWindows DEF Days
<1>11. ASSUME NEW b \in bs, Meet(around, b) PROVE FALSE
  <2>1. b \in Window /\ Within(b, ActiveBusyForHost(Pool[e][m], range))
    <3>1. b \in ActiveBusyAllHostsIntersection(Pool[e], range)
      BY <1>3, <1>11
    <3>2. Len(Pool[e]) # 0
      BY <1>1
    <3> HIDE DEF range
    <3> QED BY <1>1, <3>1, <3>2, EachOneBusy
  <2>2. PICK j \in ActiveBusyForHost(h, range) : j.start <= b.start /\ b.end <= j.end
    BY <1>2, <2>1 DEF Within
  <2>3. PICK c \in bookings : c.host = h /\ c.et \in EventType /\ j = Taken(c)
    BY DEF ActiveBusyForHost, BusyOf
  <2>4. j.start \in Int /\ j.end \in Int
    BY <2>3, TakenIs
  <2>5. t - Before[e] < b.end /\ b.start < t + Dur[e] + After[e]
    BY <1>11 DEF Meet, Interval
  <2>6. b.start \in Int /\ b.end \in Int
    BY <2>1 DEF Window
  <2>7. j.start < t + Dur[e] + After[e] /\ t - Before[e] < j.end
    <3>1. \A x, y \in Int : x <= b.start /\ b.end <= y
                             => x < t + Dur[e] + After[e] /\ t - Before[e] < y
      BY <1>1, <1>9, <2>5, <2>6
    <3> QED BY <2>2, <2>4, <3>1
  <2>8. Meet(Taken(c), around)
    BY <2>3, <2>7, MeetIs
  <2>9. Taken(c) \in ActiveBusyForHost(h, around)
    BY <2>3, <2>8 DEF ActiveBusyForHost, BusyOf
  <2> QED BY <2>9
<1>12. t \in CandidatesInWindow(q, w)
  <2> HIDE DEF bs, to, ov
  <2>1. FirstInWindow(q, w) = FirstInWindow(p, w)
    BY <1>4, SameFirst
  <2> QED BY <1>8, <1>11, <2>1, CandidateIs DEF p, q
<1> QED BY <1>5, <1>10, <1>12, ListedIs

LEMMA NothingIsHidden == OfferInv => NothingHidden
  BY ValidIsListed, PoolListed DEF NothingHidden

(* And what a booking would be given within the range is listed (store.go,  *)
(* ActiveBusyForHostExcludingEventType, ActiveBusyAllHostsIntersection),    *)
(* for one host whose clock does not change, and for a pool of any size.    *)
THEOREM BookableSlotsListed == Spec => []NothingHidden
<1> QED BY NothingIsHidden, OfferInit, OfferStep, PTL DEF Spec

-----------------------------------------------------------------------------
(* The host's own calendar. *)

(* The adapter gives up after maxPages. *)
PagesLeft == answer = "reading" => page < maxPages

(* What the pages read so far have left for the ones to come: an event that  *)
(* was there from the start, and was not pulled back, is taken up or on a     *)
(* page not yet read.                                                        *)
PagesRead ==
  provider = "microsoft" /\ answer = "reading" =>
    \A i \in DOMAIN calendar :
      calendar[i] \in asked \ shifted /\ ~ FreeEvent(calendar[i])
        => calendar[i] \in busy \/ i - 1 >= page * PageSize

(* What an answer that is no error holds. *)
Answered ==
  answer = "ok" /\ provider # "none" =>
    \A e \in asked :
      /\ ~ FreeEvent(e)
      /\ IF provider = "microsoft" THEN e \notin shifted
         ELSE ~ withheld /\ event[e].times = "legible"
      => e \in busy

(* Microsoft's adapter takes up only what it can read. *)
ReadLegibly ==
  provider = "microsoft" => \A e \in busy : event[e].times = "legible"

(* All of it, inductive. *)
BusyInv ==
        /\ BusyTypeOK /\ PagesLeft /\ asked \subseteq InCalendar
        /\ PagesRead /\ Answered /\ ReadLegibly /\ BusyHeeded

(* The events counted from a page's first are on it or on a later one. *)
LEMMA PageOf ==
  ASSUME NEW size \in Nat \ {0}, NEW n \in Nat, NEW a \in Nat, a >= n * size
  PROVE  a \div size = n \/ a >= (n + 1) * size
<1> DEFINE q == a \div size
           r == a % size
<1>1. q \in Int /\ r \in 0 .. size - 1 /\ a = size * q + r
  OBVIOUS
<1>2. CASE q <= n - 1
  <2>1. size * q <= size * (n - 1)
    BY <1>1, <1>2
  <2>2. size * (n - 1) = n * size - size
    OBVIOUS
  <2> QED BY <1>1, <2>1, <2>2
<1>3. CASE q >= n + 1
  <2>1. size * q >= size * (n + 1)
    BY <1>1, <1>3
  <2> QED BY <1>1, <2>1
<1> QED BY <1>1, <1>2, <1>3

(* t is s without its i-th, or with e put before it. *)
Without(s, i, t) ==
  /\ Len(t) = Len(s) - 1
  /\ \A k \in 1 .. i - 1 : t[k] = s[k]
  /\ \A k \in i .. Len(s) - 1 : t[k] = s[k + 1]

WithAt(s, i, e, t) ==
  /\ Len(t) = Len(s) + 1
  /\ \A k \in 1 .. i - 1 : t[k] = s[k]
  /\ t[i] = e
  /\ \A k \in i + 1 .. Len(s) + 1 : t[k] = s[k - 1]

LEMMA Removed ==
  ASSUME NEW S, NEW s \in Seq(S), NEW i \in 1 .. Len(s)
  PROVE  /\ RemoveAt(s, i) \in Seq(S)
         /\ Without(s, i, RemoveAt(s, i))
<1>0. PICK t : t = RemoveAt(s, i)
  OBVIOUS
<1>1. PICK u : u = SubSeq(s, 1, i - 1)
  OBVIOUS
<1>2. PICK v : v = SubSeq(s, i + 1, Len(s))
  OBVIOUS
<1>3. u \in Seq(S) /\ Len(u) = i - 1 /\ \A k \in 1 .. i - 1 : u[k] = s[k]
  BY <1>1, SubSeqProperties
<1>4. v \in Seq(S) /\ Len(v) = Len(s) - i /\ \A k \in 1 .. Len(s) - i : v[k] = s[i + k]
  BY <1>2, SubSeqProperties
<1>5. /\ t \in Seq(S) /\ Len(t) = Len(s) - 1
      /\ \A k \in 1 .. Len(s) - 1 : t[k] = IF k <= i - 1 THEN u[k] ELSE v[k - (i - 1)]
  <2>1. u \in Seq(S) /\ v \in Seq(S)
    BY <1>3, <1>4
  <2>2. /\ u \o v \in Seq(S) /\ Len(u \o v) = Len(u) + Len(v)
        /\ \A k \in 1 .. Len(u) + Len(v) :
             (u \o v)[k] = IF k <= Len(u) THEN u[k] ELSE v[k - Len(u)]
    BY <2>1, ConcatProperties, Zenon
  <2>3. t = u \o v
    BY <1>0, <1>1, <1>2 DEF RemoveAt
  <2>4. Len(u) = i - 1 /\ Len(u) + Len(v) = Len(s) - 1
    BY <1>3, <1>4
  <2> QED BY <2>2, <2>3, <2>4, Zenon
<1>6. \A k \in 1 .. i - 1 : t[k] = s[k]
  <2> TAKE k \in 1 .. i - 1
  <2>1. k \in 1 .. Len(s) - 1 /\ k <= i - 1
    OBVIOUS
  <2>2. t[k] = u[k]
    BY <1>5, <2>1, Zenon
  <2> QED BY <1>3, <2>2, Zenon
<1>7. ASSUME NEW k \in i .. Len(s) - 1 PROVE t[k] = s[k + 1]
  <2>1. /\ k \in 1 .. Len(s) - 1 /\ ~ k <= i - 1
        /\ k - (i - 1) \in 1 .. Len(s) - i /\ i + (k - (i - 1)) = k + 1
    OBVIOUS
  <2>2. v[k - (i - 1)] = s[i + (k - (i - 1))]
    BY <1>4, <2>1, Zenon
  <2>3. t[k] = v[k - (i - 1)]
    BY <1>5, <2>1, Zenon
  <2> QED BY <2>1, <2>2, <2>3
<1>8. t \in Seq(S) /\ Without(s, i, t)
  BY <1>5, <1>6, <1>7, Zenon DEF Without
<1> QED BY <1>0, <1>8

LEMMA Inserted ==
  ASSUME NEW S, NEW s \in Seq(S), NEW i \in 1 .. Len(s) + 1, NEW e \in S
  PROVE  /\ InsertAt(s, i, e) \in Seq(S)
         /\ WithAt(s, i, e, InsertAt(s, i, e))
<1>0. PICK t : t = InsertAt(s, i, e)
  OBVIOUS
<1>1. PICK u : u = SubSeq(s, 1, i - 1)
  OBVIOUS
<1>2. PICK v : v = SubSeq(s, i, Len(s))
  OBVIOUS
<1>3. u \in Seq(S) /\ Len(u) = i - 1 /\ \A k \in 1 .. i - 1 : u[k] = s[k]
  BY <1>1, SubSeqProperties
<1>4. /\ v \in Seq(S) /\ Len(v) = Len(s) - i + 1
      /\ \A k \in 1 .. Len(s) - i + 1 : v[k] = s[i + k - 1]
  BY <1>2, SubSeqProperties
<1>5. PICK m : m = u \o << e >>
  OBVIOUS
<1>6. /\ m \in Seq(S) /\ Len(m) = i
      /\ \A k \in 1 .. i - 1 : m[k] = s[k]
      /\ m[i] = e
  <2>1. m = Append(u, e)
    BY <1>3, <1>5
  <2>2. m \in Seq(S) /\ Len(m) = i /\ m[i] = e /\ \A k \in 1 .. i - 1 : m[k] = u[k]
    BY <1>3, <2>1
  <2> QED BY <1>3, <2>2
<1>7. /\ t \in Seq(S) /\ Len(t) = Len(s) + 1
      /\ \A k \in 1 .. Len(s) + 1 : t[k] = IF k <= i THEN m[k] ELSE v[k - i]
  <2>1. m \in Seq(S) /\ v \in Seq(S)
    BY <1>4, <1>6
  <2>2. /\ m \o v \in Seq(S) /\ Len(m \o v) = Len(m) + Len(v)
        /\ \A k \in 1 .. Len(m) + Len(v) :
             (m \o v)[k] = IF k <= Len(m) THEN m[k] ELSE v[k - Len(m)]
    BY <2>1, ConcatProperties, Zenon
  <2>3. t = m \o v
    BY <1>0, <1>1, <1>2, <1>5 DEF InsertAt
  <2>4. Len(m) = i /\ Len(m) + Len(v) = Len(s) + 1
    BY <1>4, <1>6
  <2> QED BY <2>2, <2>3, <2>4, Zenon
<1>8. \A k \in 1 .. i - 1 : t[k] = s[k]
  <2> TAKE k \in 1 .. i - 1
  <2>1. k \in 1 .. Len(s) + 1 /\ k <= i
    OBVIOUS
  <2> QED BY <1>6, <1>7, <2>1
<1>9. t[i] = e
  <2>1. i \in 1 .. Len(s) + 1 /\ i <= i
    OBVIOUS
  <2> QED BY <1>6, <1>7, <2>1
<1>10. ASSUME NEW k \in i + 1 .. Len(s) + 1 PROVE t[k] = s[k - 1]
  <2>1. /\ k \in 1 .. Len(s) + 1 /\ ~ k <= i
        /\ k - i \in 1 .. Len(s) - i + 1 /\ i + (k - i) - 1 = k - 1
    OBVIOUS
  <2>2. v[k - i] = s[i + (k - i) - 1]
    BY <1>4, <2>1, Zenon
  <2>3. t[k] = v[k - i]
    BY <1>7, <2>1, Zenon
  <2> QED BY <2>1, <2>2, <2>3
<1>11. t \in Seq(S) /\ WithAt(s, i, e, t)
  BY <1>7, <1>8, <1>9, <1>10, Zenon DEF WithAt
<1> QED BY <1>0, <1>11


LEMMA GoneSeq ==
  ASSUME BusyTypeOK, NEW i \in DOMAIN calendar, EventGone(i)
  PROVE  /\ calendar' \in Seq(EventId)
         /\ InCalendar \ { calendar[i] } \subseteq InCalendar'
<1>1. calendar \in Seq(EventId) /\ i \in 1 .. Len(calendar)
  BY DEF BusyTypeOK
<1>2. calendar' = RemoveAt(calendar, i)
  BY DEF EventGone
<1>3. /\ calendar' \in Seq(EventId) /\ Len(calendar') = Len(calendar) - 1
      /\ \A k \in 1 .. i - 1 : calendar'[k] = calendar[k]
      /\ \A k \in i .. Len(calendar) - 1 : calendar'[k] = calendar[k + 1]
  <2>1. calendar' \in Seq(EventId) /\ Without(calendar, i, calendar')
    BY <1>1, <1>2, Removed
  <2> QED BY <2>1 DEF Without
<1>4. ASSUME NEW k \in 1 .. Len(calendar), k # i
      PROVE  calendar[k] \in InCalendar'
  <2>1. CASE k < i
    <3>1. k \in DOMAIN calendar' /\ calendar'[k] = calendar[k]
      BY <1>1, <1>3, <2>1
    <3> QED BY <3>1 DEF InCalendar
  <2>2. CASE k > i
    <3>1. k - 1 \in i .. Len(calendar) - 1 /\ (k - 1) + 1 = k
      BY <1>1, <2>2
    <3>2. k - 1 \in DOMAIN calendar' /\ calendar'[k - 1] = calendar[k]
      BY <1>1, <1>3, <3>1
    <3> QED BY <3>2 DEF InCalendar
  <2> QED BY <1>1, <1>4, <2>1, <2>2
<1> QED BY <1>1, <1>3, <1>4 DEF InCalendar

LEMMA CameSeq ==
  ASSUME BusyTypeOK, NEW e \in EventId, NEW i \in 1 .. Len(calendar) + 1, EventCame(e, i)
  PROVE  /\ calendar' \in Seq(EventId) /\ Len(calendar') = Len(calendar) + 1
         /\ \A k \in 1 .. i - 1 : calendar'[k] = calendar[k]
         /\ calendar'[i] = e
         /\ \A k \in i + 1 .. Len(calendar) + 1 : calendar'[k] = calendar[k - 1]
         /\ InCalendar \subseteq InCalendar'
<1>1. calendar \in Seq(EventId)
  BY DEF BusyTypeOK
<1>2. calendar' = InsertAt(calendar, i, e)
  BY DEF EventCame
<1>3. /\ calendar' \in Seq(EventId) /\ Len(calendar') = Len(calendar) + 1
      /\ \A k \in 1 .. i - 1 : calendar'[k] = calendar[k]
      /\ calendar'[i] = e
      /\ \A k \in i + 1 .. Len(calendar) + 1 : calendar'[k] = calendar[k - 1]
  <2>1. calendar' \in Seq(EventId) /\ WithAt(calendar, i, e, calendar')
    BY <1>1, <1>2, Inserted
  <2> QED BY <2>1 DEF WithAt
<1>4. ASSUME NEW k \in 1 .. Len(calendar) PROVE calendar[k] \in InCalendar'
  <2>1. CASE k < i
    <3>1. k \in DOMAIN calendar' /\ calendar'[k] = calendar[k]
      BY <1>1, <1>3, <2>1
    <3> QED BY <3>1 DEF InCalendar
  <2>2. CASE k >= i
    <3>1. k + 1 \in i + 1 .. Len(calendar) + 1 /\ (k + 1) - 1 = k
      BY <1>1, <2>2
    <3>2. calendar'[k + 1] = calendar[k] /\ k + 1 \in DOMAIN calendar'
      BY <1>1, <1>3, <3>1
    <3> QED BY <3>2 DEF InCalendar
  <2> QED BY <1>1, <2>1, <2>2
<1>5. InCalendar \subseteq InCalendar'
  BY <1>1, <1>4 DEF InCalendar
<1> QED BY <1>3, <1>5

(* Every action but validate comes before the verdict. *)
LEMMA BusyType ==
  ASSUME BusyTypeOK, PagesLeft, [BusyNext]_(busyVars)
  PROVE  BusyTypeOK'
<1>1. CASE \E i \in DOMAIN calendar : EventGone(i)
  <2>1. PICK i \in DOMAIN calendar : EventGone(i)
    BY <1>1
  <2>2. calendar' \in Seq(EventId)
    BY <2>1, GoneSeq
  <2>3. shifted' \subseteq EventId
    BY <2>1 DEF BusyTypeOK, EventGone, PulledBack
  <2> QED BY <2>1, <2>2, <2>3, BusyTimeAssumption DEF BusyTypeOK, EventGone, request, reading
<1>2. CASE \E e \in EventId, i \in 1 .. Len(calendar) + 1 : EventCame(e, i)
  <2>1. PICK e \in EventId, i \in 1 .. Len(calendar) + 1 : EventCame(e, i)
    BY <1>2
  <2>2. calendar' \in Seq(EventId)
    BY <2>1, CameSeq
  <2> QED BY <2>1, <2>2, BusyTimeAssumption DEF BusyTypeOK, EventCame, request, reading
<1>3. CASE Fail \/ NoCalendar
  BY <1>3 DEF BusyTypeOK, Fail, NoCalendar, request
<1>4. CASE ReadPage
  <2>1. Page \subseteq EventId
    BY DEF BusyTypeOK, Page
  <2>2. busy' \subseteq EventId /\ answer' \in { "reading", "error", "ok" }
    BY <1>4, <2>1 DEF BusyTypeOK, ReadPage, Takes, AfterLastPage
  <2>3. page' \in 0 .. maxPages
    BY <1>4, BusyTimeAssumption DEF PagesLeft, Open, BusyTypeOK, ReadPage
  <2> QED BY <1>4, <2>2, <2>3 DEF BusyTypeOK, ReadPage, request
<1>5. CASE ReadSchedule \/ ReadGoogle \/ ReadNextcloud
  <2>1. InCalendar \subseteq EventId
    BY DEF BusyTypeOK, InCalendar
  <2>2. PICK p \in { "msgraph", "google", "nextcloud" }, all \in SUBSET EventId,
             told \in SUBSET SUBSET EventId : ReadAll(p, all, told)
    BY <1>5, <2>1 DEF ReadSchedule, ReadGoogle, ReadNextcloud
  <2>3. PICK es \in SUBSET EventId :
          /\ answer' = IF Refuses(p, es) THEN "error" ELSE "ok"
          /\ busy' = IF Refuses(p, es) THEN {} ELSE Takes(p, es)
          /\ withheld' = (es # all)
    BY <2>2 DEF ReadAll
  <2>4. busy' \subseteq EventId
    BY <2>2, <2>3 DEF Takes
  <2> QED BY <2>2, <2>3, <2>4 DEF BusyTypeOK, ReadAll, request
<1>6. CASE validate
  BY <1>6 DEF BusyTypeOK, validate, request, reading
<1>7. CASE UNCHANGED busyVars
  BY <1>7 DEF BusyTypeOK, busyVars, request, reading
<1> QED BY <1>1, <1>2, <1>3, <1>4, <1>5, <1>6, <1>7 DEF BusyNext

LEMMA BusyGone ==
  ASSUME BusyInv, NEW i \in DOMAIN calendar, EventGone(i)
  PROVE  BusyInv'
<1>1. BusyTypeOK'
  BY BusyType DEF BusyInv, BusyNext
<1>2. /\ BusyTypeOK /\ UNCHANGED <<provider, simple, event, page, busy, answer, verdict, withheld>>
      /\ asked' = asked \ { calendar[i] } /\ verdict = "none"
      /\ shifted' = shifted \cup PulledBack(i)
  BY DEF BusyInv, EventGone, request, reading
<1>3. asked' \subseteq InCalendar'
  <2>1. InCalendar \ { calendar[i] } \subseteq InCalendar'
    BY <1>2, GoneSeq
  <2> QED BY <1>2, <2>1 DEF BusyInv
<1>4. PagesRead'
  <2> DEFINE P == page * PageSize
  <2>0. P \in Nat /\ i \in 1 .. Len(calendar) /\ DOMAIN calendar = 1 .. Len(calendar)
        /\ Len(calendar) \in Nat
    BY <1>2, BusyTimeAssumption DEF BusyTypeOK
  <2> SUFFICES ASSUME provider = "microsoft", answer = "reading",
                      NEW k \in DOMAIN calendar', calendar'[k] \in asked \ shifted',
                      ~ FreeEvent(calendar'[k]), calendar'[k] \notin busy
               PROVE  k - 1 >= P
    BY <1>2 DEF PagesRead, FreeEvent
  <2>1. /\ k \in 1 .. Len(calendar) - 1
        /\ k < i => calendar'[k] = calendar[k]
        /\ k >= i => calendar'[k] = calendar[k + 1]
    <3>1. calendar' = RemoveAt(calendar, i) /\ calendar \in Seq(EventId)
      BY <1>2 DEF EventGone, BusyTypeOK
    <3>2. calendar' \in Seq(EventId) /\ Without(calendar, i, calendar')
      BY <2>0, <3>1, Removed
    <3>3. k \in 1 .. Len(calendar) - 1
      BY <3>2 DEF Without
    <3> QED BY <2>0, <3>2, <3>3 DEF Without
  <2>2. \A j \in DOMAIN calendar : calendar[j] = calendar'[k] => j - 1 >= P
    BY <1>2 DEF BusyInv, PagesRead
  <2> HIDE DEF P
  <2>3. CASE k < i
    BY <2>0, <2>1, <2>2, <2>3
  <2>4. CASE k >= i
    <3>1. k >= P
      <4>1. k + 1 \in DOMAIN calendar /\ calendar[k + 1] = calendar'[k]
        BY <2>0, <2>1, <2>4
      <4>2. (k + 1) - 1 >= P
        BY <2>2, <4>1
      <4> QED BY <2>0, <2>1, <4>2
    <3>2. ASSUME k = P PROVE FALSE
      <4>1. P + 1 \in DOMAIN calendar /\ i <= P
        BY <2>0, <2>1, <2>4, <3>2
      <4>2. calendar[P + 1] \in PulledBack(i)
        BY <4>1 DEF PulledBack, P
      <4> QED BY <1>2, <2>1, <2>4, <3>2, <4>2
    <3> QED BY <2>0, <2>1, <3>1, <3>2
  <2> QED BY <2>0, <2>1, <2>3, <2>4
<1>5. Answered'
  BY <1>2 DEF BusyInv, Answered, FreeEvent
<1>6. PagesLeft' /\ ReadLegibly' /\ BusyHeeded'
  BY <1>2 DEF BusyInv, PagesLeft, ReadLegibly, BusyHeeded
<1> QED BY <1>1, <1>3, <1>4, <1>5, <1>6 DEF BusyInv

LEMMA BusyCame ==
  ASSUME BusyInv, NEW e \in EventId, NEW i \in 1 .. Len(calendar) + 1,
         EventCame(e, i)
  PROVE  BusyInv'
<1>1. BusyTypeOK'
  BY BusyType DEF BusyInv, BusyNext
<1>2. /\ BusyTypeOK /\ verdict = "none" /\ e \notin asked
      /\ UNCHANGED <<provider, simple, event, page, busy, answer, verdict, asked, shifted, withheld>>
  BY DEF BusyInv, EventCame, request, reading
<1>3. asked' \subseteq InCalendar'
  <2>1. InCalendar \subseteq InCalendar'
    BY <1>2, CameSeq
  <2> QED BY <1>2, <2>1 DEF BusyInv
<1>4. PagesRead'
  <2> SUFFICES ASSUME provider = "microsoft", answer = "reading",
                      NEW k \in DOMAIN calendar', calendar'[k] \in asked \ shifted,
                      ~ FreeEvent(calendar'[k]), calendar'[k] \notin busy
               PROVE  k - 1 >= page * PageSize
    BY <1>2 DEF PagesRead, FreeEvent
  <2>1. k \in 1 .. Len(calendar) + 1 /\ DOMAIN calendar = 1 .. Len(calendar)
        /\ Len(calendar) \in Nat /\ page * PageSize \in Nat
    BY <1>1, <1>2, CameSeq, BusyTimeAssumption DEF BusyTypeOK
  <2>2. \A j \in DOMAIN calendar : calendar[j] = calendar'[k] => j - 1 >= page * PageSize
    BY DEF BusyInv, PagesRead
  <2>3. CASE k < i
    <3>1. calendar'[k] = calendar[k] /\ k \in DOMAIN calendar
      BY <1>2, <2>1, <2>3, CameSeq
    <3> QED BY <2>2, <3>1
  <2>4. CASE k = i
    BY <1>2, <2>4, CameSeq
  <2>5. CASE k > i
    <3>1. calendar'[k] = calendar[k - 1] /\ k - 1 \in DOMAIN calendar
      BY <1>2, <2>1, <2>5, CameSeq
    <3>2. (k - 1) - 1 >= page * PageSize
      BY <2>2, <3>1
    <3> QED BY <2>1, <3>2
  <2> QED BY <2>1, <2>3, <2>4, <2>5
<1>5. Answered'
  BY <1>2 DEF BusyInv, Answered, FreeEvent
<1>6. PagesLeft' /\ ReadLegibly' /\ BusyHeeded'
  BY <1>2 DEF BusyInv, PagesLeft, ReadLegibly, BusyHeeded
<1> QED BY <1>1, <1>3, <1>4, <1>5, <1>6 DEF BusyInv

LEMMA BusyPage ==
  ASSUME BusyInv, ReadPage
  PROVE  BusyInv'
<1>1. BusyTypeOK'
  BY BusyType DEF BusyInv, BusyNext
<1>2. /\ BusyTypeOK /\ provider = "microsoft" /\ answer = "reading" /\ verdict = "none"
      /\ UNCHANGED <<provider, simple, event, calendar, verdict, asked, shifted, withheld>>
  BY DEF BusyInv, ReadPage, Open, request
<1>3. asked' \subseteq InCalendar' /\ BusyHeeded'
  BY <1>2 DEF BusyInv, InCalendar, BusyHeeded
<1>4. CASE Refuses(provider, Page)
  <2>1. answer' = "error" /\ busy' = busy
    BY <1>4 DEF ReadPage
  <2> QED BY <1>1, <1>2, <1>3, <2>1 DEF BusyInv, PagesLeft, PagesRead, Answered, ReadLegibly
<1>5. CASE ~ Refuses(provider, Page)
  <2>1. /\ busy' = busy \cup { e \in Page : ~ FreeEvent(e) } /\ page' = page + 1
        /\ \/ answer' = "ok" /\ ~ More
           \/ answer' = "reading" /\ page + 1 < maxPages
           \/ answer' = "error"
    BY <1>2, <1>5 DEF ReadPage, Takes, AfterLastPage
  <2>2. PagesLeft'
    BY <2>1 DEF PagesLeft
  <2>3. ReadLegibly'
    <3>1. \A e \in Page : ~ FreeEvent(e) => event[e].times = "legible"
      BY <1>2, <1>5 DEF Refuses
    <3> QED BY <1>2, <2>1, <3>1 DEF BusyInv, ReadLegibly
  <2>4. ASSUME NEW i \in DOMAIN calendar, calendar[i] \in asked \ shifted,
               ~ FreeEvent(calendar[i])
        PROVE  calendar[i] \in busy' \/ i - 1 >= (page + 1) * PageSize
    <3>1. CASE calendar[i] \in busy
      BY <2>1, <3>1
    <3>2. CASE i - 1 >= page * PageSize
      <4>1. i - 1 \in Nat /\ page \in Nat /\ PageSize \in Nat \ {0}
        BY <1>2, BusyTimeAssumption DEF BusyTypeOK
      <4>2. (i - 1) \div PageSize = page \/ i - 1 >= (page + 1) * PageSize
        BY <3>2, <4>1, PageOf
      <4>3. (i - 1) \div PageSize = page => calendar[i] \in Page
        BY DEF Page
      <4> QED BY <2>1, <2>4, <4>2, <4>3
    <3> QED BY <1>2, <2>4, <3>1, <3>2 DEF BusyInv, PagesRead
  <2>5. PagesRead'
    BY <1>2, <2>1, <2>4 DEF PagesRead, FreeEvent
  <2>6. Answered'
    <3> SUFFICES ASSUME ~ More, NEW e \in asked \ shifted, ~ FreeEvent(e)
                 PROVE  e \in busy'
      BY <1>2, <2>1 DEF Answered, FreeEvent
    <3>1. PICK i \in DOMAIN calendar : calendar[i] = e
      BY DEF BusyInv, InCalendar
    <3>2. ~ i - 1 >= (page + 1) * PageSize
      <4>1. (page + 1) * PageSize >= Len(calendar) /\ (page + 1) * PageSize \in Int
        BY <1>2, BusyTimeAssumption DEF More, BusyTypeOK
      <4>2. i \in Int /\ i <= Len(calendar)
        BY <1>2 DEF BusyTypeOK
      <4> QED BY <4>1, <4>2
    <3> QED BY <2>4, <3>1, <3>2
  <2> QED BY <1>1, <1>3, <2>2, <2>3, <2>5, <2>6 DEF BusyInv
<1> QED BY <1>4, <1>5

LEMMA BusyAll ==
  ASSUME BusyInv, ReadSchedule \/ ReadGoogle \/ ReadNextcloud
  PROVE  BusyInv'
<1>1. BusyTypeOK'
  BY BusyType DEF BusyInv, BusyNext
<1>2. PICK p, all, told :
        /\ p \in { "msgraph", "google", "nextcloud" }
        /\ ReadAll(p, all, told)
        /\ \/ p = "google" /\ all = { e \in InCalendar : ~ FreeEvent(e) }
           \/ p # "google" /\ all = InCalendar
  BY DEF ReadSchedule, ReadGoogle, ReadNextcloud
<1>3. /\ p \in { "msgraph", "google", "nextcloud" }
      /\ provider = p /\ verdict = "none" /\ answer' \in { "ok", "error" }
      /\ UNCHANGED <<provider, simple, event, calendar, page, verdict, asked, shifted>>
  BY <1>2 DEF ReadAll, Open, request
<1>4. asked' \subseteq InCalendar' /\ BusyHeeded'
  BY <1>3 DEF BusyInv, InCalendar, BusyHeeded
<1>5. PagesLeft' /\ PagesRead' /\ ReadLegibly'
  BY <1>3 DEF PagesLeft, PagesRead, ReadLegibly
<1>6. Answered'
  <2> SUFFICES ASSUME answer' = "ok", ~ withheld', NEW e \in asked, ~ FreeEvent(e),
                      event[e].times = "legible"
               PROVE  e \in busy'
    BY <1>3 DEF Answered, FreeEvent
  <2>1. ~ Refuses(p, all) /\ busy' = Takes(p, all)
    BY <1>2 DEF ReadAll
  <2>2. e \in all
    BY <1>2 DEF BusyInv
  <2>3. e \in Takes(p, all)
    <3>1. CASE p = "msgraph"
      BY <2>2, <3>1 DEF Takes
    <3>2. CASE p = "google"
      BY <2>2, <3>2 DEF Takes
    <3>3. CASE p = "nextcloud"
      BY <2>2, <3>3 DEF Takes
    <3> QED BY <1>3, <3>1, <3>2, <3>3
  <2> QED BY <2>1, <2>3
<1> QED BY <1>1, <1>4, <1>5, <1>6 DEF BusyInv

LEMMA BusyVerdict ==
  ASSUME BusyInv, validate
  PROVE  BusyInv'
<1>1. BusyTypeOK'
  BY BusyType DEF BusyInv, BusyNext
<1>2. UNCHANGED <<provider, simple, event, calendar, page, busy, answer, asked, shifted, withheld>>
  BY DEF validate, request, reading
<1>3. /\ PagesLeft' /\ asked' \subseteq InCalendar'
      /\ PagesRead' /\ Answered' /\ ReadLegibly'
  BY <1>2 DEF BusyInv, PagesLeft, InCalendar, PagesRead, Answered, ReadLegibly, FreeEvent
<1>4. BusyHeeded'
  <2> SUFFICES ASSUME verdict' = "accepted", simple, provider # "none", NEW e \in asked,
                      ~ FreeEvent(e), event[e].near,
                      IF provider = "microsoft" THEN e \notin shifted
                      ELSE ~ withheld /\ event[e].times = "legible"
               PROVE  FALSE
    BY <1>2 DEF BusyHeeded, FreeEvent
  <2>1. answer = "ok"
    BY DEF validate, Blocked, BusyInv, BusyTypeOK
  <2>2. e \in busy
    BY <2>1 DEF BusyInv, Answered
  <2>3. event[e].times = "legible"
    BY <2>2 DEF BusyInv, ReadLegibly
  <2> QED BY <2>2, <2>3 DEF validate, Blocked
<1> QED BY <1>1, <1>3, <1>4 DEF BusyInv

(* What a busy event of the host's own calendar has blocked since before the *)
(* check is not given away (pipeline.go, validate; FreeBusy of the four      *)
(* adapters), for every size of a page and number of pages, and whatever     *)
(* comes and goes between them, but for the events that BusyHeeded names:     *)
(* Microsoft's pulled onto a page already read, and with the others what is   *)
(* left out of the answer or cannot be read.                                 *)
THEOREM BusyAlwaysHeeded ==
  BusySpec => []BusyHeeded
<1>1. BusyInit => BusyInv
  <2> SUFFICES ASSUME BusyInit PROVE BusyInv
    OBVIOUS
  <2>1. calendar \in Seq(EventId)
    BY DEF BusyInit
  <2>2. BusyTypeOK
    <3>1. asked \subseteq EventId
      BY <2>1 DEF BusyInit, InCalendar
    <3>2. /\ provider \in Providers /\ simple \in BOOLEAN
          /\ event \in [EventId -> Event]
          /\ page = 0 /\ busy = {} /\ answer = "reading" /\ verdict = "none"
          /\ shifted = {} /\ withheld = FALSE /\ changes = 0
      BY DEF BusyInit
    <3>3. 0 \in 0 .. maxPages /\ 0 \in 0 .. MaxChanges
      BY BusyTimeAssumption
    <3> QED BY <2>1, <3>1, <3>2, <3>3 DEF BusyTypeOK
  <2>3. PagesRead
    <3> SUFFICES ASSUME NEW i \in DOMAIN calendar PROVE i - 1 >= page * PageSize
      BY DEF PagesRead
    <3>1. page = 0 /\ 0 * PageSize = 0 /\ i \in Nat \ {0}
      BY <2>1, BusyTimeAssumption DEF BusyInit
    <3> QED BY <3>1
  <2> QED BY <2>2, <2>3, BusyTimeAssumption DEF BusyInit, BusyInv, PagesLeft, Answered, ReadLegibly, BusyHeeded
<1>2. BusyInv /\ [BusyNext]_(busyVars) => BusyInv'
  <2> SUFFICES ASSUME BusyInv, [BusyNext]_(busyVars) PROVE BusyInv'
    OBVIOUS
  <2>1. BusyTypeOK'
    BY BusyType DEF BusyInv
  <2>2. CASE Fail \/ NoCalendar
    <3>1. /\ verdict = "none" /\ UNCHANGED <<provider, simple, event, calendar, page, busy,
                                             verdict, asked, shifted, withheld>>
          /\ \/ answer' = "error"
             \/ answer' = "ok" /\ provider = "none"
      BY <2>2 DEF Fail, NoCalendar, Open, request
    <3> QED BY <2>1, <3>1 DEF BusyInv, PagesLeft, InCalendar, PagesRead, Answered,
                              ReadLegibly, BusyHeeded
  <2>3. CASE UNCHANGED busyVars
    <3>1. UNCHANGED <<provider, simple, event, calendar, page, busy, answer, verdict, asked,
                      shifted, withheld>>
      BY <2>3 DEF busyVars, request, reading
    <3> QED BY <2>1, <3>1 DEF BusyInv, PagesLeft, InCalendar, PagesRead, Answered,
                              ReadLegibly, BusyHeeded, FreeEvent
  <2> QED BY <2>2, <2>3, BusyGone, BusyCame, BusyPage, BusyAll, BusyVerdict DEF BusyNext
<1>3. BusyInv => BusyHeeded
  BY DEF BusyInv
<1> QED BY <1>1, <1>2, <1>3, PTL DEF BusySpec

-----------------------------------------------------------------------------
(* The intake form. *)

(* The answer is that of the check. *)
FormInv == /\ fields \in Schemas /\ data \in Submissions
           /\ accepted # "no answer" =>
                accepted = IF Accepts(fields, data) THEN "yes" ELSE "no"

(* As many different items as there are items: each of them once. *)
LEMMA EachOnce ==
  ASSUME NEW T, NEW s \in Seq(T)
  PROVE  Cardinality({ s[i] : i \in DOMAIN s }) = Len(s) <=>
           \A i, j \in DOMAIN s : s[i] = s[j] => i = j
<1> DEFINE R == { s[i] : i \in DOMAIN s }
           n == Len(s)
<1>1. DOMAIN s = 1 .. n /\ n \in Nat
  OBVIOUS
<1>2. IsFiniteSet(1 .. n) /\ Cardinality(1 .. n) = n
  <2>1. /\ IsFiniteSet(1 .. n)
        /\ Cardinality(1 .. n) = IF 1 > n THEN 0 ELSE n - 1 + 1
    BY <1>1, FS_Interval
  <2> QED BY <1>1, <2>1
<1>3. s \in Surjection(1 .. n, R)
  <2>1. s \in [1 .. n -> R]
    BY <1>1
  <2> QED BY <1>1, <2>1 DEF Surjection
<1> HIDE DEF R
<1>4. Cardinality(R) = Cardinality(1 .. n) <=> s \in Injection(1 .. n, R)
  BY <1>2, <1>3, FS_Surjection
<1>5. s \in Injection(1 .. n, R) <=> \A i, j \in 1 .. n : s[i] = s[j] => i = j
  <2>1. s \in [1 .. n -> R]
    BY <1>3 DEF Surjection
  <2> QED BY <2>1 DEF Injection, IsInjective
<1> QED BY <1>1, <1>2, <1>4, <1>5 DEF R

(* What passes the check of a field is what answers it. *)
LEMMA PassesIfAnswers ==
  ASSUME NEW f, f.required \in BOOLEAN, f.max_length \in Nat,
         f.min \subseteq Int, f.max \subseteq Int, f.type \in FieldType,
         NEW v, Sent(v), ~ IsZero(v)
  PROVE  Answers(f, v) <=>
           /\ ~ (f.required /\ f.type = "checkbox" /\ v.is # "true")
           /\ ValidateValue(f, v)
<1>1. /\ v.is \in { "nil", "true", "false", "number", "text", "list" }
      /\ v.texts \in Seq(Text \cup { NotText }) /\ v.number \in Int
  BY DEF Sent, Value
<1>2. v.is # "nil" /\ (v.is = "text" => v.texts[1] \notin Blank) /\ (v.is = "list" => v.texts # <<>>)
  BY DEF IsZero
<1>3. CASE f.type \in { "text", "textarea", "tel" }
  <2>1. v.is = "text" => v.texts[1] \in Text /\ Length[v.texts[1]] \in Nat
    BY FormAssumption, IntakeAssumption DEF Sent
  <2>2. Answers(f, v) <=>
          /\ v.is = "text" /\ v.texts[1] \notin Blank /\ v.texts[1] \in f.pattern
          /\ f.max_length = 0 \/ Length[v.texts[1]] <= f.max_length
    BY <1>3 DEF Answers, TextAnswers, ListAnswers
  <2>3. ValidateValue(f, v) <=>
          /\ v.is = "text" /\ v.texts[1] \in f.pattern
          /\ f.max_length > 0 => Length[v.texts[1]] <= f.max_length
    BY <1>3 DEF ValidateValue
  <2>4. (f.max_length > 0) <=> ~ (f.max_length = 0)
    OBVIOUS
  <2> QED BY <1>2, <1>3, <2>2, <2>3, <2>4
<1>4. CASE f.type \in { "email", "date", "select" }
  BY <1>1, <1>2, <1>4 DEF Answers, TextAnswers, ListAnswers, ValidateValue
<1>5. CASE f.type = "checkbox"
  <2>1. Answers(f, v) <=> v.is = "true" \/ (v.is = "false" /\ ~ f.required)
    BY <1>5 DEF Answers, TextAnswers, ListAnswers
  <2>2. ValidateValue(f, v) <=> v.is \in { "true", "false" }
    BY <1>5 DEF ValidateValue
  <2> QED BY <1>5, <2>1, <2>2
<1>6. CASE f.type = "number"
  <2>1. ValidateValue(f, v) <=>
          \E n \in ToFloat(v) : /\ \A m \in f.min : ~ Less(n, m)
                                /\ \A m \in f.max : ~ Less(m, n)
    BY <1>6 DEF ValidateValue
  <2>2. NaN \notin Int
    BY FormAssumption, IntakeAssumption
  <2>3. ASSUME NEW n \in Int
        PROVE  /\ (\A m \in f.min : ~ Less(n, m)) <=> AtLeast(n, f)
               /\ (\A m \in f.max : ~ Less(m, n)) <=> AtMost(n, f)
    BY <2>2, <2>3 DEF Less, AtLeast, AtMost
  <2>4. /\ \A m \in f.min : ~ Less(NaN, m)
        /\ \A m \in f.max : ~ Less(m, NaN)
    BY DEF Less
  <2>5. CASE v.is = "number"
    <3>1. ToFloat(v) = { v.number }
      BY <2>5 DEF ToFloat
    <3>2. Answers(f, v) <=> AtLeast(v.number, f) /\ AtMost(v.number, f)
      BY <1>6, <2>5 DEF Answers
    <3> QED BY <1>1, <1>6, <2>1, <2>3, <3>1, <3>2
  <2>6. CASE v.is = "text" /\ v.texts[1] \in DOMAIN Numeral
    <3> DEFINE n == Numeral[v.texts[1]]
    <3>1. ToFloat(v) = { n }
      BY <2>6 DEF ToFloat
    <3>2. Answers(f, v) <=> n = NaN \/ (AtLeast(n, f) /\ AtMost(n, f))
      BY <1>2, <1>6, <2>6 DEF Answers, TextAnswers
    <3>3. n \in Int \cup { NaN }
      BY <2>6, FormAssumption, IntakeAssumption
    <3> HIDE DEF n
    <3> QED BY <1>6, <2>1, <2>3, <2>4, <3>1, <3>2, <3>3
  <2>7. CASE v.is # "number" /\ ~ (v.is = "text" /\ v.texts[1] \in DOMAIN Numeral)
    <3>1. ToFloat(v) = {}
      BY <2>7 DEF ToFloat
    <3>2. ~ Answers(f, v)
      BY <1>6, <2>7 DEF Answers, TextAnswers, ListAnswers
    <3> QED BY <2>1, <3>1, <3>2
  <2> QED BY <2>5, <2>6, <2>7
<1>7. CASE f.type = "multiselect"
  <2>1. Answers(f, v) <=> v.is = "list" /\ ListAnswers(f, v.texts)
    BY <1>1, <1>7 DEF Answers, TextAnswers
  <2>2. ListAnswers(f, v.texts) <=>
          /\ v.texts # <<>>
          /\ \A i \in DOMAIN v.texts : v.texts[i] \in f.options
          /\ \A i, j \in DOMAIN v.texts : v.texts[i] = v.texts[j] => i = j
    BY <1>1, <1>7, EachOnce DEF ListAnswers
  <2> QED BY <1>2, <1>7, <2>1, <2>2 DEF ValidateValue
<1> QED BY <1>3, <1>4, <1>5, <1>6, <1>7 DEF FieldType

LEMMA AcceptedIfRight ==
  ASSUME fields \in Schemas, data \in Submissions, ParseSchema(fields)
  PROVE  Accepts(fields, data) <=>
           /\ \A i \in DOMAIN fields :
                IF fields[i].key \notin DOMAIN data \/ IsZero(data[fields[i].key])
                THEN ~ fields[i].required
                ELSE Answers(fields[i], data[fields[i].key])
           /\ \A k \in DOMAIN data \ { fields[i].key : i \in DOMAIN fields } :
                ShortNote(k, data[k])
<1>1. Accepts(fields, data) <=>
        /\ \A i \in DOMAIN fields : ~ FieldError(fields[i], data)
        /\ \A k \in DOMAIN data \ { fields[i].key : i \in DOMAIN fields } :
             ~ UnknownError(k, data[k])
  BY DEF Accepts, Validate
<1>2. ASSUME NEW i \in DOMAIN fields
      PROVE  ~ FieldError(fields[i], data) <=>
               IF fields[i].key \notin DOMAIN data \/ IsZero(data[fields[i].key])
               THEN ~ fields[i].required
               ELSE Answers(fields[i], data[fields[i].key])
  <2> DEFINE f == fields[i]
             v == data[f.key]
  <2>1. /\ f.required \in BOOLEAN /\ f.max_length \in Nat
        /\ f.min \subseteq Int /\ f.max \subseteq Int
    BY FormAssumption, IntakeAssumption
  <2>2. f.type \in FieldType
    BY DEF ParseSchema
  <2>3. f.key \in DOMAIN data => Sent(v)
    BY FormAssumption, IntakeAssumption
  <2> HIDE DEF f
  <2>4. CASE f.key \notin DOMAIN data \/ IsZero(v)
    BY <2>4 DEF FieldError, f
  <2>5. CASE ~ (f.key \notin DOMAIN data \/ IsZero(v))
    <3>1. ~ FieldError(f, data) <=>
            /\ ~ (f.required /\ f.type = "checkbox" /\ v.is # "true")
            /\ ValidateValue(f, v)
      BY <2>5 DEF FieldError
    <3> HIDE DEF v
    <3>2. ~ FieldError(f, data) <=> Answers(f, v)
      BY <2>1, <2>2, <2>3, <2>5, <3>1, PassesIfAnswers
    <3> QED BY <2>5, <3>2 DEF f, v
  <2> QED BY <2>4, <2>5
<1>3. ASSUME NEW k \in DOMAIN data
      PROVE  ~ UnknownError(k, data[k]) <=> ShortNote(k, data[k])
  <2>1. maxNotesLen \in Nat /\ (data[k].is = "text" => Length[data[k].texts[1]] \in Nat)
    BY FormAssumption, IntakeAssumption DEF Sent
  <2> QED BY <2>1 DEF UnknownError, ShortNote
<1> QED BY <1>1, <1>2, <1>3

(* A form is accepted just if it answers its schema (intake.go, Validate),  *)
(* for every schema a host can enter and everything that can be sent with   *)
(* it.                                                                      *)
THEOREM FormCheckedRight ==
  FormSpec => []FormRight
<1>1. FormInit => FormInv
  BY DEF FormInit, FormInv
<1>2. FormInv /\ [Submit]_(formVars) => FormInv'
  BY DEF FormInv, Submit, formVars
<1>3. FormInv => FormRight
  <2> SUFFICES ASSUME FormInv, accepted # "no answer", ParseSchema(fields)
               PROVE  accepted = "yes" <=>
                        /\ \A i \in DOMAIN fields :
                             IF fields[i].key \notin DOMAIN data \/ IsZero(data[fields[i].key])
                             THEN ~ fields[i].required
                             ELSE Answers(fields[i], data[fields[i].key])
                        /\ \A k \in DOMAIN data \ { fields[i].key : i \in DOMAIN fields } :
                             ShortNote(k, data[k])
    BY DEF FormRight
  <2>1. accepted = "yes" <=> Accepts(fields, data)
    BY DEF FormInv
  <2> QED BY <2>1, AcceptedIfRight DEF FormInv
<1> QED BY <1>1, <1>2, <1>3, PTL DEF FormSpec

===============================================================================
