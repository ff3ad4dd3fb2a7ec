-------------------------- MODULE ProjectViewsProofs --------------------------
(***************************************************************************)
(* What enriching, stopping and deleting do to the report on disk, what a  *)
(* viewer makes of it, and that no finding gets lost or is there twice,    *)
(* for any plugins and any number of faults; then that the pages of a      *)
(* project are right about the reports they read: the histories of its     *)
(* assets, its overview, and a hunt for a list of indicators.              *)
(***************************************************************************)
EXTENDS ProjectViews, FiniteSetTheorems, WellFoundedInduction, TLAPS

JobFields == {"who", "step", "i", "held", "artifact", "told", "ok"}

IsDocument(r) == "ext" \in DOMAIN r /\ "findings" \in DOMAIN r

\* The report on disk holds what Stage 4 left; what a job is about to put in
\* its place holds what the report on disk holds.
ReportInv ==
  /\ DOMAIN job = JobFields
  /\ job.told \in {"no", "writing", "done"}
  /\ job.step \in {"plugin", "computed", "opened", "merging"} => job.i \in Nat \ {0}
  /\ job.step \in {"computed", "opened"} => job.i <= Len(Specs)
  /\ IsDocument(base)
  /\ Whole(MainFile) =>
       /\ IsDocument(dir[MainFile])
       /\ DOMAIN base.ext \subseteq DOMAIN dir[MainFile].ext
       /\ job.told # "writing"
  /\ job.step \in {"merging", "replacing"} =>
       /\ IsDocument(job.held)
       /\ DOMAIN base.ext \subseteq DOMAIN job.held.ext
       /\ Whole(MainFile) => DOMAIN dir[MainFile].ext \subseteq DOMAIN job.held.ext

\* Until the page is shown the viewer holds what it found merged.
ViewInv ==
  /\ step = "load" => page # "viewer"
  /\ step \in {"mitre", "classify", "write", "sidecars", "done"} /\ page = "viewer" =>
       IsDocument(view) /\ merged \subseteq DOMAIN view.ext

IInv == ReportInv /\ ViewInv

-----------------------------------------------------------------------------
(* Walks along a list, and what is picked on the way                        *)

\* What holds of 0, and of k + 1 when it holds of k, holds of all up to n.
LEMMA AllUpTo ==
  ASSUME NEW n \in Nat, NEW G, 0 \in G, \A k \in 0 .. n - 1 : k \in G => k + 1 \in G
  PROVE  \A k \in 0 .. n : k \in G
<1> DEFINE T == {k \in 0 .. n : k \notin G}
<1> SUFFICES ASSUME T # {}
             PROVE  FALSE
  OBVIOUS
<1>1. T \subseteq Nat
  OBVIOUS
<1>2. PICK m \in T : \A k \in T : ~(<<k, m>> \in OpToRel(<, Nat))
  <2> HIDE DEF T
  <2> QED BY <1>1, WFMin, NatLessThanWellFounded
<1>3. m # 0 /\ m \in 0 .. n /\ m \notin G
  BY <1>2
<1>4. m - 1 \in 0 .. n - 1 /\ m - 1 < m /\ (m - 1) + 1 = m
  BY <1>3
<1>5. m - 1 \notin T
  <2> SUFFICES ASSUME m - 1 \in T
               PROVE  FALSE
    OBVIOUS
  <2>1. <<m - 1, m>> \in OpToRel(<, Nat)
    BY <1>3, <1>4 DEF OpToRel
  <2> QED BY <1>2, <2>1
<1>6. m - 1 \in G
  BY <1>3, <1>4, <1>5
<1> QED BY <1>3, <1>4, <1>6

\* A walk of n steps from a, the k-th being g[k].
IsWalk(h, n, a, g) == h[0] = a /\ \A k \in 1 .. n : h[k] = g[k][h[k - 1]]

\* It exists when every step is a function on one set.
LEMMA StepsExist ==
  ASSUME NEW n \in Nat, NEW A, NEW a \in A, NEW g \in [1 .. n -> [A -> A]]
  PROVE  \E h \in [0 .. n -> A] : IsWalk(h, n, a, g)
<1> DEFINE Ok(m, h) == /\ h \in [0 .. m -> A] /\ h[0] = a
                       /\ \A k \in 1 .. m : h[k] = g[k][h[k - 1]]
           G == {m \in Nat : \E h : Ok(m, h)}
<1>1. 0 \in G
  <2>1. Ok(0, [k \in 0 .. 0 |-> a])
    OBVIOUS
  <2> HIDE DEF Ok
  <2> QED BY <2>1
<1>2. ASSUME NEW m \in 0 .. n - 1, m \in G
      PROVE  m + 1 \in G
  <2>1. PICK h : Ok(m, h)
    BY <1>2
  <2> DEFINE new == [k \in 0 .. m + 1 |-> IF k = m + 1 THEN g[m + 1][h[m]] ELSE h[k]]
  <2>2. /\ m + 1 \in 1 .. n /\ m \in 0 .. m /\ m + 1 \in Nat /\ h[m] \in A
        /\ \A k \in 0 .. m : k \in 0 .. m + 1 /\ k # m + 1
        /\ \A k \in 1 .. m + 1 : k # m + 1 => k \in 1 .. m /\ k - 1 \in 0 .. m /\ k \in 0 .. m
        /\ 0 \in 0 .. m
    BY <2>1
  <2>3. new \in [0 .. m + 1 -> A]
    BY <2>1, <2>2
  <2>4. new[0] = a
    BY <2>1, <2>2
  <2>5. ASSUME NEW k \in 1 .. m + 1
        PROVE  new[k] = g[k][new[k - 1]]
    BY <2>1, <2>2
  <2>6. Ok(m + 1, new)
    <3> HIDE DEF new
    <3> QED BY <2>3, <2>4, <2>5
  <2> HIDE DEF Ok, new
  <2> QED BY <2>2, <2>6
<1>3. n \in G
  <2> HIDE DEF Ok, G
  <2>1. \A k \in 0 .. n : k \in G
    BY <1>1, <1>2, AllUpTo
  <2> QED BY <2>1
<1> QED BY <1>3 DEF IsWalk

Pick(C, kept, x) == IF x \in C THEN Append(kept, x) ELSE kept

\* Elements are taken one by one.
LEMMA AmongSteps ==
  ASSUME NEW C, NEW F, NEW s \in Seq(F)
  PROVE  \E f : /\ f \in [0 .. Len(s) -> Seq(F)] /\ f[0] = <<>> /\ f[Len(s)] = Among(s, C)
                /\ \A k \in 1 .. Len(s) : f[k] = Pick(C, f[k - 1], s[k])
<1> DEFINE n == Len(s)
           A == Seq(F)
           g == [k \in 1 .. n |-> [l \in A |-> Pick(C, l, s[k])]]
<1>0. n \in Nat /\ \A k \in 1 .. n : s[k] \in F
  OBVIOUS
<1>1. g \in [1 .. n -> [A -> A]] /\ <<>> \in A
  BY <1>0 DEF Pick
<1>2. PICK h \in [0 .. n -> A] : h[0] = <<>> /\ \A k \in 1 .. n : h[k] = g[k][h[k - 1]]
  <2> DEFINE none == <<>>
  <2>1. n \in Nat /\ none \in A /\ g \in [1 .. n -> [A -> A]]
    BY <1>0, <1>1
  <2> HIDE DEF A, g, n, none
  <2>2. \E h \in [0 .. n -> A] : IsWalk(h, n, none, g)
    BY <2>1, StepsExist
  <2> QED BY <2>2 DEF none, IsWalk
<1>3. \A k \in 1 .. n : h[k] = Pick(C, h[k - 1], s[k])
  <2>1. \A k \in 1 .. n : k - 1 \in 0 .. n
    BY <1>0
  <2> QED BY <1>2, <2>1
<1> DEFINE Eq(f) ==
      f = [i \in 0 .. Len(s) |->
             IF i = 0 THEN <<>>
             ELSE IF s[i] \in C THEN Append(f[i - 1], s[i]) ELSE f[i - 1]]
<1>4. Eq(h)
  <2>1. \A i \in 0 .. n : i = 0 \/ i \in 1 .. n
    BY <1>0
  <2>2. \A i \in 0 .. n : h[i] = IF i = 0 THEN <<>>
             ELSE IF s[i] \in C THEN Append(h[i - 1], s[i]) ELSE h[i - 1]
    BY <1>2, <1>3, <2>1 DEF Pick
  <2> QED BY <1>2, <2>2
<1>5. PICK f : Eq(f) /\ Among(s, C) = f[Len(s)]
  BY <1>4 DEF Among
<1>6. f[0] = <<>> /\ \A k \in 1 .. n : f[k] = Pick(C, f[k - 1], s[k])
  <2>1. 0 \in 0 .. n /\ \A k \in 1 .. n : k \in 0 .. n /\ k # 0
    BY <1>0
  <2> QED BY <1>5, <2>1 DEF Pick
<1>7. \A k \in 0 .. n : f[k] = h[k]
  <2> DEFINE G == {k \in 0 .. n : f[k] = h[k]}
  <2>1. 0 \in G
    BY <1>0, <1>2, <1>6
  <2>2. \A k \in 0 .. n - 1 : k \in G => k + 1 \in G
    <3>1. \A k \in 0 .. n - 1 : k + 1 \in 1 .. n /\ (k + 1) - 1 = k /\ k + 1 \in 0 .. n
      BY <1>0
    <3> HIDE DEF n
    <3> QED BY <1>3, <1>6, <3>1
  <2> HIDE DEF G, n
  <2>3. \A k \in 0 .. n : k \in G
    BY <1>0, <2>1, <2>2, AllUpTo
  <2> QED BY <2>3 DEF G
<1>8. Among(s, C) = h[n]
  <2>1. n \in 0 .. n
    BY <1>0
  <2> QED BY <1>5, <1>7, <2>1
<1> QED BY <1>2, <1>3, <1>8

Keep(S, kept, f) == IF f.source \in S THEN Append(kept, f) ELSE kept

Takes(f, S, F, s) ==
  /\ f \in [0 .. Len(s) -> Seq(F)] /\ f[0] = <<>> /\ f[Len(s)] = From(S, s)
  /\ \A k \in 1 .. Len(s) : f[k] = Keep(S, f[k - 1], s[k])

\* So are the findings of some sources.
LEMMA FromSteps ==
  ASSUME NEW S, NEW F, NEW s \in Seq(F)
  PROVE  \E f : Takes(f, S, F, s)
<1> DEFINE C == {f \in ToSet(s) : f.source \in S}
<1>1. \A k \in 1 .. Len(s) : s[k] \in C <=> s[k].source \in S
  BY DEF ToSet
<1>2. From(S, s) = Among(s, C)
  BY DEF From
<1> HIDE DEF C
<1>3. PICK f : /\ f \in [0 .. Len(s) -> Seq(F)] /\ f[0] = <<>> /\ f[Len(s)] = Among(s, C)
               /\ \A k \in 1 .. Len(s) : f[k] = Pick(C, f[k - 1], s[k])
  BY AmongSteps
<1>4. \A k \in 1 .. Len(s) : f[k] = Keep(S, f[k - 1], s[k])
  BY <1>1, <1>3 DEF Keep, Pick
<1> QED BY <1>2, <1>3, <1>4 DEF Takes

\* What is kept of a list is a list of the same elements.
LEMMA FromTyped ==
  ASSUME NEW S, NEW F, NEW s \in Seq(F)
  PROVE  From(S, s) \in Seq(F)
<1>1. Len(s) \in 0 .. Len(s)
  OBVIOUS
<1>2. \E f : Takes(f, S, F, s)
  BY FromSteps
<1> QED BY <1>1, <1>2 DEF Takes

\* Keeping commutes with putting something in front.
IsConcat(c, a, b) == c = a \o b

\* Keeping one more element keeps what was kept before.
LEMMA KeepAfter ==
  ASSUME NEW S, NEW F, NEW a \in Seq(F), NEW b \in Seq(F), NEW x \in F
  PROVE  IsConcat(Keep(S, a \o b, x), a, Keep(S, b, x))
<1>1. Append(a \o b, x) = a \o Append(b, x)
  OBVIOUS
<1> QED BY <1>1, Zenon DEF Keep, IsConcat

\* Of two lists one after the other, the findings of one after those of the other.
LEMMA FromConcat ==
  ASSUME NEW S, NEW F, NEW s \in Seq(F), NEW t \in Seq(F)
  PROVE  From(S, s \o t) = From(S, s) \o From(S, t)
<1> DEFINE m == Len(s)
           n == Len(t)
           st == s \o t
<1>1. /\ m \in Nat /\ n \in Nat /\ st \in Seq(F) /\ Len(st) = m + n
      /\ \A k \in 1 .. m : st[k] = s[k]
      /\ \A k \in 1 .. n : st[m + k] = t[k] /\ t[k] \in F
  OBVIOUS
<1>2. PICK f : /\ f \in [0 .. m -> Seq(F)] /\ f[0] = <<>> /\ f[m] = From(S, s)
               /\ \A k \in 1 .. m : f[k] = Keep(S, f[k - 1], s[k])
  <2>1. \E f : Takes(f, S, F, s)
    BY FromSteps
  <2> QED BY <2>1 DEF Takes
<1>3. PICK g : /\ g \in [0 .. n -> Seq(F)] /\ g[0] = <<>> /\ g[n] = From(S, t)
               /\ \A k \in 1 .. n : g[k] = Keep(S, g[k - 1], t[k])
  <2>1. \E g : Takes(g, S, F, t)
    BY FromSteps
  <2> QED BY <2>1 DEF Takes
<1>4. PICK h \in [0 .. m + n -> Seq(F)] :
        /\ h[0] = <<>> /\ h[m + n] = From(S, st)
        /\ \A k \in 1 .. m + n : h[k] = Keep(S, h[k - 1], st[k])
  <2> HIDE DEF st
  <2>1. \E h : Takes(h, S, F, st)
    BY <1>1, FromSteps
  <2>2. PICK h : Takes(h, S, F, st)
    BY <2>1
  <2>3. /\ h \in [0 .. m + n -> Seq(F)] /\ h[0] = <<>> /\ h[m + n] = From(S, st)
        /\ \A k \in 1 .. m + n : h[k] = Keep(S, h[k - 1], st[k])
    BY <1>1, <2>2 DEF Takes
  <2> QED BY <2>3
<1> HIDE DEF m, n, st
<1>5. \A k \in 0 .. m : h[k] = f[k]
  <2> DEFINE G == {k \in 0 .. m : h[k] = f[k]}
  <2>1. 0 \in G
    BY <1>1, <1>2, <1>4
  <2>2. \A k \in 0 .. m - 1 : k \in G => k + 1 \in G
    <3>1. \A k \in 0 .. m - 1 : /\ k + 1 \in 1 .. m /\ (k + 1) - 1 = k /\ k + 1 \in 0 .. m
                                /\ k + 1 \in 1 .. m + n
      BY <1>1
    <3> QED BY <1>1, <1>2, <1>4, <3>1
  <2> HIDE DEF G
  <2>3. \A k \in 0 .. m : k \in G
    BY <1>1, <2>1, <2>2, AllUpTo
  <2> QED BY <2>3 DEF G
<1>6. \A k \in 0 .. n : h[m + k] = f[m] \o g[k]
  <2> DEFINE G == {k \in 0 .. n : h[m + k] = f[m] \o g[k]}
  <2>0. f[m] \in Seq(F)
    BY <1>1, <1>2
  <2>1. 0 \in G
    <3>1. f[m] \o <<>> = f[m]
      BY <2>0
    <3>2. 0 \in 0 .. n /\ m + 0 = m /\ m \in 0 .. m
      BY <1>1
    <3>3. h[m + 0] = f[m] /\ f[m] \o g[0] = f[m]
      BY <1>3, <1>5, <3>1, <3>2
    <3> QED BY <3>2, <3>3
  <2>2. ASSUME NEW k \in 0 .. n - 1, k \in G
        PROVE  k + 1 \in G
    <3>1. /\ k + 1 \in 1 .. n /\ (k + 1) - 1 = k /\ k \in 0 .. n /\ k + 1 \in 0 .. n
          /\ m + (k + 1) \in 1 .. m + n /\ (m + (k + 1)) - 1 = m + k
      BY <1>1
    <3>2. h[m + (k + 1)] = Keep(S, h[m + k], t[k + 1])
      BY <1>1, <1>4, <3>1
    <3>3. g[k + 1] = Keep(S, g[k], t[k + 1]) /\ g[k] \in Seq(F) /\ t[k + 1] \in F
      BY <1>1, <1>3, <3>1
    <3>4. h[m + k] = f[m] \o g[k]
      BY <2>2
    <3>5. Keep(S, f[m] \o g[k], t[k + 1]) = f[m] \o Keep(S, g[k], t[k + 1])
      <4>1. IsConcat(Keep(S, f[m] \o g[k], t[k + 1]), f[m], Keep(S, g[k], t[k + 1]))
        BY <2>0, <3>3, KeepAfter
      <4> QED BY <4>1 DEF IsConcat
    <3> QED BY <3>1, <3>2, <3>3, <3>4, <3>5
  <2> HIDE DEF G
  <2>3. \A k \in 0 .. n : k \in G
    BY <1>1, <2>1, <2>2, AllUpTo
  <2> QED BY <2>3 DEF G
<1>7. h[m + n] = f[m] \o g[n]
  <2>1. n \in 0 .. n
    BY <1>1
  <2> QED BY <1>6, <2>1, Zenon
<1> QED BY <1>2, <1>3, <1>4, <1>7 DEF st

\* Nothing is kept of an empty list,
LEMMA FromEmpty == \A S : From(S, <<>>) = <<>>
<1> SUFFICES ASSUME NEW S
             PROVE  From(S, <<>>) = <<>>
  OBVIOUS
<1> DEFINE none == <<>>
<1>1. none \in Seq({}) /\ Len(none) = 0
  OBVIOUS
<1>2. \E f : Takes(f, S, {}, none)
  <2> HIDE DEF none
  <2> QED BY <1>1, FromSteps
<1> QED BY <1>1, <1>2 DEF Takes

\* The next finding is kept or not.
LEMMA FromAppend ==
  ASSUME NEW S, NEW F, NEW s \in Seq(F), NEW x \in F
  PROVE  From(S, Append(s, x)) = Keep(S, From(S, s), x)
<1> DEFINE one == <<x>>
<1>1. /\ one \in Seq(F) /\ Len(one) = 1 /\ one[1] = x /\ Append(s, x) = s \o one
  OBVIOUS
<1>2. From(S, one) = Keep(S, <<>>, x)
  <2> HIDE DEF one
  <2>1. PICK f : Takes(f, S, F, one)
    BY <1>1, FromSteps
  <2>2. f[1] = Keep(S, f[1 - 1], one[1]) /\ f[0] = <<>> /\ f[1] = From(S, one)
    <3>1. 1 \in 1 .. 1 /\ 1 - 1 = 0
      OBVIOUS
    <3> QED BY <1>1, <2>1, <3>1 DEF Takes
  <2>3. f[1] = Keep(S, <<>>, x)
    <3>1. 1 - 1 = 0
      OBVIOUS
    <3> QED BY <1>1, <2>2, <3>1
  <2> QED BY <2>2, <2>3, Zenon
<1>3. From(S, Append(s, x)) = From(S, s) \o From(S, one)
  <2> HIDE DEF one
  <2> QED BY <1>1, FromConcat
<1>4. From(S, s) \in Seq(F)
  BY FromTyped
<1>5. Keep(S, From(S, s), x) = From(S, s) \o Keep(S, <<>>, x)
  <2> DEFINE kept == From(S, s)
  <2>1. kept \in Seq(F)
    BY <1>4
  <2> HIDE DEF kept
  <2>2. kept \o <<>> = kept /\ kept \o <<x>> = Append(kept, x) /\ Append(<<>>, x) = <<x>>
    BY <2>1
  <2>3. Keep(S, kept, x) = kept \o Keep(S, <<>>, x)
    BY <2>2, Zenon DEF Keep
  <2> QED BY <2>3 DEF kept
<1> QED BY <1>2, <1>3, <1>5, Zenon

\* What is taken out of what was taken.
LEMMA FromFrom ==
  ASSUME NEW S, NEW T, NEW F, NEW s \in Seq(F)
  PROVE  From(S, From(T, s)) = From(S \cap T, s)
<1> DEFINE n == Len(s)
<1>1. n \in Nat /\ \A k \in 1 .. n : s[k] \in F
  OBVIOUS
<1>2. PICK f : /\ f \in [0 .. n -> Seq(F)] /\ f[0] = <<>> /\ f[n] = From(T, s)
               /\ \A k \in 1 .. n : f[k] = Keep(T, f[k - 1], s[k])
  <2>1. \E f : Takes(f, T, F, s)
    BY FromSteps
  <2> QED BY <2>1 DEF Takes
<1>3. PICK h : /\ h \in [0 .. n -> Seq(F)] /\ h[0] = <<>> /\ h[n] = From(S \cap T, s)
               /\ \A k \in 1 .. n : h[k] = Keep(S \cap T, h[k - 1], s[k])
  <2>1. \E h : Takes(h, S \cap T, F, s)
    BY FromSteps
  <2> QED BY <2>1 DEF Takes
<1> HIDE DEF n
<1> DEFINE G == {k \in 0 .. n : From(S, f[k]) = h[k]}
<1>4. 0 \in G
  BY <1>1, <1>2, <1>3, FromEmpty
<1>5. ASSUME NEW k \in 0 .. n - 1, k \in G
      PROVE  k + 1 \in G
  <2>1. /\ k + 1 \in 1 .. n /\ (k + 1) - 1 = k /\ k \in 0 .. n /\ k + 1 \in 0 .. n
        /\ s[k + 1] \in F /\ f[k] \in Seq(F) /\ From(S, f[k]) = h[k]
    BY <1>1, <1>2, <1>5
  <2>2. f[k + 1] = Keep(T, f[k], s[k + 1]) /\ h[k + 1] = Keep(S \cap T, h[k], s[k + 1])
    BY <1>2, <1>3, <2>1
  <2>3. From(S, Append(f[k], s[k + 1])) = Keep(S, h[k], s[k + 1])
    BY <2>1, FromAppend
  <2>4. From(S, f[k + 1]) = h[k + 1]
    BY <2>1, <2>2, <2>3 DEF Keep
  <2> QED BY <2>1, <2>4
<1> HIDE DEF G
<1>6. \A k \in 0 .. n : k \in G
  BY <1>1, <1>4, <1>5, AllUpTo
<1>7. n \in G
  BY <1>1, <1>6
<1> QED BY <1>2, <1>3, <1>7 DEF G

\* All findings, if all are of these sources, none if none is.
LEMMA FromAll ==
  ASSUME NEW S, NEW F, NEW s \in Seq(F), \A k \in 1 .. Len(s) : s[k].source \in S
  PROVE  From(S, s) = s
<1> DEFINE n == Len(s)
           start == [k \in 0 .. n |-> SubSeq(s, 1, k)]
<1>1. n \in Nat /\ \A k \in 1 .. n : s[k] \in F
  OBVIOUS
<1>2. PICK f : /\ f \in [0 .. n -> Seq(F)] /\ f[0] = <<>> /\ f[n] = From(S, s)
               /\ \A k \in 1 .. n : f[k] = Keep(S, f[k - 1], s[k])
  <2>1. \E f : Takes(f, S, F, s)
    BY FromSteps
  <2> QED BY <2>1 DEF Takes
<1>3. /\ SubSeq(s, 1, 0) = <<>> /\ SubSeq(s, 1, n) = s
      /\ \A k \in 0 .. n - 1 : SubSeq(s, 1, k + 1) = Append(SubSeq(s, 1, k), s[k + 1])
  <2>1. SubSeq(s, 1, 0) = <<>>
    OBVIOUS
  <2>2. SubSeq(s, 1, n) = s
    OBVIOUS
  <2>3. ASSUME NEW k \in 0 .. n - 1
        PROVE  SubSeq(s, 1, k + 1) = Append(SubSeq(s, 1, k), s[k + 1])
    OBVIOUS
  <2> QED BY <2>1, <2>2, <2>3
<1> HIDE DEF n
<1> DEFINE G == {k \in 0 .. n : f[k] = SubSeq(s, 1, k)}
<1>4. 0 \in G
  BY <1>1, <1>2, <1>3
<1>5. ASSUME NEW k \in 0 .. n - 1, k \in G
      PROVE  k + 1 \in G
  <2>1. /\ k + 1 \in 1 .. n /\ (k + 1) - 1 = k /\ k + 1 \in 0 .. n
        /\ f[k] = SubSeq(s, 1, k) /\ s[k + 1].source \in S
    BY <1>1, <1>5 DEF n
  <2>2. f[k + 1] = Append(f[k], s[k + 1])
    BY <1>2, <2>1 DEF Keep
  <2> QED BY <1>3, <2>1, <2>2
<1> HIDE DEF G
<1>6. \A k \in 0 .. n : k \in G
  BY <1>1, <1>4, <1>5, AllUpTo
<1>7. n \in G
  BY <1>1, <1>6
<1> QED BY <1>2, <1>3, <1>7 DEF G

\* ... nor of one whose elements are all from elsewhere.
LEMMA FromNone ==
  ASSUME NEW S, NEW F, NEW s \in Seq(F), \A k \in 1 .. Len(s) : s[k].source \notin S
  PROVE  From(S, s) = <<>>
<1> DEFINE n == Len(s)
<1>1. n \in Nat
  OBVIOUS
<1>2. PICK f : /\ f \in [0 .. n -> Seq(F)] /\ f[0] = <<>> /\ f[n] = From(S, s)
               /\ \A k \in 1 .. n : f[k] = Keep(S, f[k - 1], s[k])
  <2>1. \E f : Takes(f, S, F, s)
    BY FromSteps
  <2> QED BY <2>1 DEF Takes
<1> DEFINE G == {k \in 0 .. n : f[k] = <<>>}
<1>3. 0 \in G
  BY <1>1, <1>2
<1>4. ASSUME NEW k \in 0 .. n - 1, k \in G
      PROVE  k + 1 \in G
  <2>1. /\ k + 1 \in 1 .. n /\ (k + 1) - 1 = k /\ k + 1 \in 0 .. n
        /\ f[k] = <<>> /\ s[k + 1].source \notin S
    BY <1>1, <1>4
  <2> QED BY <1>2, <2>1 DEF Keep
<1> HIDE DEF G, n
<1>5. \A k \in 0 .. n : k \in G
  BY <1>1, <1>3, <1>4, AllUpTo
<1>6. n \in G
  BY <1>1, <1>5
<1> QED BY <1>2, <1>6 DEF G

\* What the report adapts from the findings of a plugin.
Given(p) == IF p \in DOMAIN PluginFindings THEN PluginFindings[p] ELSE <<>>

\* An artifact has what its plugin finds, and is no report.
IsArtifact(p, a) ==
  /\ DOMAIN a = {"plugin", "findings", "read"}
  /\ a.findings = Given(p)

Artifacts(ext) ==
  /\ DOMAIN ext \subseteq ToSet(Specs)
  /\ \A p \in DOMAIN ext : IsArtifact(p, ext[p])

\* A report that sidecars may be merged into: it has the engine's findings of b.
Fit(b, r) ==
  /\ IsReport(r) /\ IsDocument(r) /\ r.findings \in Seq(FindingRecord) /\ Artifacts(r.ext)
  /\ From({"engine"}, r.findings) = From({"engine"}, b.findings)

\* WellMerged, when Stage 4 has left b.
Well(b, r) ==
  /\ From({"engine"}, r.findings) = From({"engine"}, b.findings)
  /\ \A p \in DOMAIN PluginFindings :
       From({p}, r.findings) = IF p \in DOMAIN r.ext THEN PluginFindings[p] ELSE <<>>

-----------------------------------------------------------------------------
(* Merging *)

\* What the assumptions say of plugins and their findings.
LEMMA PluginsTyped ==
  /\ Len(Specs) \in Nat
  /\ \A i \in 1 .. Len(Specs) : Specs[i] \in ToSet(Specs) /\ Specs[i] # "engine"
  /\ \A i, j \in 1 .. Len(Specs) : Specs[i] = Specs[j] => i = j
  /\ \A p \in ToSet(Specs) : p \in STRING /\ p # "engine" /\ p # "report"
                             /\ \E i \in 1 .. Len(Specs) : Specs[i] = p
  /\ DOMAIN PluginFindings \subseteq ToSet(Specs)
  /\ \A p : /\ Given(p) \in Seq(FindingRecord)
            /\ \A i \in 1 .. Len(Given(p)) : Given(p)[i].source = p
<1>1. DOMAIN Specs = 1 .. Len(Specs) /\ Len(Specs) \in Nat /\ \A i \in DOMAIN Specs : Specs[i] \in STRING
  BY EnrichmentAssumption
<1>2. \A p \in ToSet(Specs) : p \in STRING /\ \E i \in 1 .. Len(Specs) : Specs[i] = p
  BY <1>1 DEF ToSet
<1>3. \A i \in 1 .. Len(Specs) : Specs[i] \in ToSet(Specs)
  BY <1>1 DEF ToSet
<1>4. \A p \in ToSet(Specs) : p # "engine" /\ p # "report"
  BY EnrichmentAssumption
<1>5. \A i, j \in 1 .. Len(Specs) : Specs[i] = Specs[j] => i = j
  BY <1>1, EnrichmentAssumption DEF IsInjective
<1>6. ASSUME NEW p
      PROVE  /\ Given(p) \in Seq(FindingRecord)
             /\ \A i \in 1 .. Len(Given(p)) : Given(p)[i].source = p
  <2>1. CASE p \in DOMAIN PluginFindings
    <3>1. /\ Given(p) = PluginFindings[p] /\ PluginFindings[p] \in Seq(FindingRecord)
          /\ \A i \in DOMAIN PluginFindings[p] : PluginFindings[p][i].source = p
      BY <2>1, EnrichmentAssumption DEF Given
    <3>2. DOMAIN PluginFindings[p] = 1 .. Len(PluginFindings[p])
      BY <3>1
    <3> QED BY <3>1, <3>2
  <2>2. CASE p \notin DOMAIN PluginFindings
    BY <2>2 DEF Given
  <2> QED BY <2>1, <2>2
<1> QED BY <1>1, <1>2, <1>3, <1>4, <1>5, <1>6, EnrichmentAssumption

\* One plugin more of those that are merged.
With(ext, l, p) == IF p \in DOMAIN ext THEN l \o ext[p].findings ELSE l

\* The findings of the plugins are put one after the other.
LEMMA PluginsOfSteps ==
  ASSUME NEW ext, Artifacts(ext)
  PROVE  \E f : /\ f \in [0 .. Len(Specs) -> Seq(FindingRecord)]
                /\ f[0] = <<>> /\ f[Len(Specs)] = PluginsOf(ext)
                /\ \A k \in 1 .. Len(Specs) : f[k] = With(ext, f[k - 1], Specs[k])
<1> DEFINE n == Len(Specs)
           A == Seq(FindingRecord)
           g == [k \in 1 .. n |-> [l \in A |-> With(ext, l, Specs[k])]]
           none == <<>>
<1>0. n \in Nat
  BY PluginsTyped
<1>1. g \in [1 .. n -> [A -> A]] /\ none \in A
  <2>1. ASSUME NEW l \in A, NEW p
        PROVE  With(ext, l, p) \in A
    <3>1. CASE p \in DOMAIN ext
      <4> DEFINE t == ext[p].findings
      <4>1. t \in A
        BY <3>1, PluginsTyped DEF Artifacts, IsArtifact
      <4>2. With(ext, l, p) = l \o t
        BY <3>1 DEF With
      <4> HIDE DEF t
      <4>3. l \o t \in A
        BY <4>1
      <4> QED BY <4>2, <4>3
    <3>2. CASE p \notin DOMAIN ext
      BY <3>2 DEF With
    <3> QED BY <3>1, <3>2
  <2> QED BY <2>1
<1>2. PICK h \in [0 .. n -> A] : h[0] = <<>> /\ \A k \in 1 .. n : h[k] = g[k][h[k - 1]]
  <2> HIDE DEF A, g, n, none
  <2>1. \E h \in [0 .. n -> A] : IsWalk(h, n, none, g)
    BY <1>0, <1>1, StepsExist
  <2> QED BY <2>1 DEF none, IsWalk
<1>3. \A k \in 1 .. n : h[k] = With(ext, h[k - 1], Specs[k])
  <2>1. \A k \in 1 .. n : k - 1 \in 0 .. n
    BY <1>0
  <2> QED BY <1>2, <2>1
<1> DEFINE Eq(f) ==
      f = [i \in 0 .. Len(Specs) |->
             IF i = 0 THEN <<>>
             ELSE IF Specs[i] \in DOMAIN ext THEN f[i - 1] \o ext[Specs[i]].findings
             ELSE f[i - 1]]
<1>4. Eq(h)
  <2>1. \A i \in 0 .. n : i = 0 \/ i \in 1 .. n
    BY <1>0
  <2>2. \A i \in 0 .. n : h[i] = IF i = 0 THEN <<>>
             ELSE IF Specs[i] \in DOMAIN ext THEN h[i - 1] \o ext[Specs[i]].findings
             ELSE h[i - 1]
    BY <1>2, <1>3, <2>1 DEF With
  <2> QED BY <1>2, <2>2
<1>5. PICK f : Eq(f) /\ PluginsOf(ext) = f[Len(Specs)]
  BY <1>4 DEF PluginsOf
<1>6. f[0] = <<>> /\ \A k \in 1 .. n : f[k] = With(ext, f[k - 1], Specs[k])
  <2>1. 0 \in 0 .. n /\ \A k \in 1 .. n : k \in 0 .. n /\ k # 0
    BY <1>0
  <2> QED BY <1>5, <2>1 DEF With
<1>7. \A k \in 0 .. n : f[k] = h[k]
  <2> DEFINE G == {k \in 0 .. n : f[k] = h[k]}
  <2>1. 0 \in G
    BY <1>0, <1>2, <1>6
  <2>2. \A k \in 0 .. n - 1 : k \in G => k + 1 \in G
    <3>1. \A k \in 0 .. n - 1 : k + 1 \in 1 .. n /\ (k + 1) - 1 = k /\ k + 1 \in 0 .. n
      BY <1>0
    <3> HIDE DEF n
    <3> QED BY <1>3, <1>6, <3>1
  <2> HIDE DEF G, n
  <2>3. \A k \in 0 .. n : k \in G
    BY <1>0, <2>1, <2>2, AllUpTo
  <2> QED BY <2>3 DEF G
<1>8. PluginsOf(ext) = h[n]
  <2>1. n \in 0 .. n
    BY <1>0
  <2> QED BY <1>5, <1>7, <2>1
<1> QED BY <1>2, <1>3, <1>8

\* What one plugin adds is its own.
LEMMA FromGiven ==
  ASSUME NEW p, NEW q
  PROVE  /\ q = p => From({q}, Given(p)) = Given(p)
         /\ q # p => From({q}, Given(p)) = <<>>
<1> DEFINE s == Given(p)
<1>1. s \in Seq(FindingRecord) /\ \A i \in 1 .. Len(s) : s[i].source = p
  BY PluginsTyped
<1> HIDE DEF s
<1>2. CASE q = p
  <2>1. \A i \in 1 .. Len(s) : s[i].source \in {q}
    BY <1>1, <1>2
  <2>2. From({q}, s) = s
    BY <1>1, <2>1, FromAll
  <2> QED BY <1>2, <2>2 DEF s
<1>3. CASE q # p
  <2>1. \A i \in 1 .. Len(s) : s[i].source \notin {q}
    BY <1>1, <1>3
  <2>2. From({q}, s) = <<>>
    BY <1>1, <2>1, FromNone
  <2> QED BY <1>3, <2>2 DEF s
<1> QED BY <1>2, <1>3

\* The findings of all plugins merged: those of each once, none of the engine.
LEMMA FromPlugins ==
  ASSUME NEW ext, Artifacts(ext), NEW q
  PROVE  /\ PluginsOf(ext) \in Seq(FindingRecord)
         /\ From({q}, PluginsOf(ext)) = IF q \in DOMAIN ext THEN Given(q) ELSE <<>>
<1> DEFINE n == Len(Specs)
           Has(k) == q \in DOMAIN ext /\ \E i \in 1 .. k : Specs[i] = q
<1>0. n \in Nat /\ \A i, j \in 1 .. n : Specs[i] = Specs[j] => i = j
  BY PluginsTyped
<1>1. PICK f : /\ f \in [0 .. n -> Seq(FindingRecord)]
               /\ f[0] = <<>> /\ f[n] = PluginsOf(ext)
               /\ \A k \in 1 .. n : f[k] = With(ext, f[k - 1], Specs[k])
  BY PluginsOfSteps
<1> HIDE DEF n
<1> DEFINE G == {k \in 0 .. n : From({q}, f[k]) = IF Has(k) THEN Given(q) ELSE <<>>}
<1>2. 0 \in G
  <2>1. 0 \in 0 .. n /\ 1 .. 0 = {}
    BY <1>0
  <2> QED BY <1>1, <2>1, FromEmpty
<1>3. ASSUME NEW k \in 0 .. n - 1, k \in G
      PROVE  k + 1 \in G
  <2> DEFINE p == Specs[k + 1]
  <2>1. /\ k + 1 \in 1 .. n /\ (k + 1) - 1 = k /\ k + 1 \in 0 .. n /\ k \in 0 .. n
        /\ 1 .. k + 1 = (1 .. k) \cup {k + 1} /\ k + 1 \notin 1 .. k /\ 1 .. k \subseteq 1 .. n
    BY <1>0
  <2>2. /\ f[k] \in Seq(FindingRecord) /\ f[k + 1] = With(ext, f[k], p)
        /\ From({q}, f[k]) = IF Has(k) THEN Given(q) ELSE <<>>
    BY <1>1, <1>3, <2>1
  <2>3. \A i \in 1 .. k : Specs[i] # p
    BY <1>0, <2>1
  <2>4. CASE p \notin DOMAIN ext
    <3>1. Has(k + 1) <=> Has(k)
      BY <2>1, <2>4
    <3>2. f[k + 1] = f[k]
      BY <2>2, <2>4 DEF With
    <3> HIDE DEF Has, p
    <3> QED BY <2>1, <2>2, <3>1, <3>2
  <2>5. CASE p \in DOMAIN ext
    <3>1. f[k + 1] = f[k] \o Given(p)
      BY <2>2, <2>5 DEF With, Artifacts, IsArtifact
    <3>2. From({q}, f[k] \o Given(p)) = From({q}, f[k]) \o From({q}, Given(p))
      BY <2>2, PluginsTyped, FromConcat
    <3>3. CASE q = p
      <4>1. ~Has(k) /\ Has(k + 1)
        BY <2>1, <2>3, <2>5, <3>3
      <4>2. From({q}, f[k]) = <<>> /\ From({q}, Given(p)) = Given(q)
        BY <2>2, <3>3, <4>1, FromGiven
      <4>3. <<>> \o Given(q) = Given(q)
        <5> DEFINE s == Given(q)
        <5>1. s \in Seq(FindingRecord)
          BY PluginsTyped
        <5> HIDE DEF s
        <5>2. <<>> \o s = s
          BY <5>1
        <5> QED BY <5>2 DEF s
      <4>4. From({q}, f[k + 1]) = Given(q)
        BY <3>1, <3>2, <4>2, <4>3, Zenon
      <4> HIDE DEF Has
      <4> QED BY <2>1, <4>1, <4>4
    <3>4. CASE q # p
      <4>1. Has(k + 1) <=> Has(k)
        BY <2>1, <3>4
      <4>2. From({q}, Given(p)) = <<>>
        BY <3>4, FromGiven
      <4>3. From({q}, f[k]) \o <<>> = From({q}, f[k])
        <5> DEFINE s == From({q}, f[k])
        <5>1. s \in Seq(FindingRecord)
          BY <2>2, FromTyped
        <5> HIDE DEF s
        <5>2. s \o <<>> = s
          BY <5>1
        <5> QED BY <5>2 DEF s
      <4>4. From({q}, f[k + 1]) = From({q}, f[k])
        BY <3>1, <3>2, <4>2, <4>3, Zenon
      <4> HIDE DEF Has
      <4> QED BY <2>1, <2>2, <4>1, <4>4
    <3> QED BY <3>3, <3>4
  <2> QED BY <2>4, <2>5
<1> HIDE DEF G
<1>4. \A k \in 0 .. n : k \in G
  BY <1>0, <1>2, <1>3, AllUpTo
<1>5. n \in 0 .. n /\ n \in G
  BY <1>0, <1>4
<1>6. Has(n) <=> q \in DOMAIN ext
  <2>1. q \in DOMAIN ext => \E i \in 1 .. n : Specs[i] = q
    BY PluginsTyped DEF Artifacts, n
  <2> QED BY <2>1
<1> HIDE DEF Has
<1> QED BY <1>1, <1>5, <1>6 DEF G

\* So a merge is well merged, whatever was merged before.
LEMMA MergedWell ==
  ASSUME NEW b, NEW r, Fit(b, r), NEW ext, Artifacts(ext)
  PROVE  Fit(b, Merged(r, ext)) /\ Well(b, Merged(r, ext))
<1> DEFINE T == {f.source : f \in ToSet(r.findings)} \ ToSet(Specs)
           e == EngineOnly(r.findings)
           ps == PluginsOf(ext)
           m == Merged(r, ext)
<1>1. /\ m = [r EXCEPT !.ext = ext, !.findings = e \o ps]
      /\ IsDocument(m) /\ m.ext = ext /\ m.findings = e \o ps
  BY DEF Merged, Fit, IsDocument
<1>2. e = From(T, r.findings) /\ r.findings \in Seq(FindingRecord)
  BY DEF EngineOnly, Fit
<1>3. e \in Seq(FindingRecord) /\ ps \in Seq(FindingRecord)
  BY <1>2, FromTyped, FromPlugins
<1> HIDE DEF e, ps, m
<1>4. \A q : From({q}, m.findings) = From({q}, e) \o From({q}, ps)
  <2> TAKE q
  <2>1. From({q}, e \o ps) = From({q}, e) \o From({q}, ps)
    BY <1>3, FromConcat
  <2> QED BY <1>1, <2>1, Zenon
<1>5. \A q : From({q}, e) = From({q} \cap T, r.findings)
  BY <1>2, FromFrom
<1>6. From({"engine"}, m.findings) = From({"engine"}, b.findings)
  <2>1. From({"engine"} \cap T, r.findings) = From({"engine"}, r.findings)
    <3>1. CASE "engine" \in T
      <4>1. {"engine"} \cap T = {"engine"}
        BY <3>1
      <4> QED BY <4>1
    <3>2. CASE "engine" \notin T
      <4>1. \A k \in 1 .. Len(r.findings) : r.findings[k] \in ToSet(r.findings)
        BY <1>2 DEF ToSet
      <4>2. \A k \in 1 .. Len(r.findings) : r.findings[k].source \notin {"engine"}
        BY <3>2, <4>1, PluginsTyped
      <4>3. From({"engine"}, r.findings) = <<>> /\ From({}, r.findings) = <<>>
        BY <1>2, <4>2, FromNone
      <4>4. {"engine"} \cap T = {}
        BY <3>2
      <4> QED BY <4>3, <4>4
    <3> QED BY <3>1, <3>2
  <2>2. From({"engine"}, ps) = <<>>
    BY FromPlugins, PluginsTyped DEF ps, Artifacts
  <2> DEFINE s == From({"engine"}, e)
  <2>3. s \in Seq(FindingRecord)
    BY <1>3, FromTyped
  <2> HIDE DEF s
  <2>4. s \o <<>> = s
    BY <2>3
  <2>5. From({"engine"}, m.findings) = s
    BY <1>4, <2>2, <2>4, Zenon DEF s
  <2>6. s = From({"engine"}, r.findings)
    BY <1>5, <2>1, Zenon DEF s
  <2> QED BY <2>5, <2>6 DEF Fit
<1>7. ASSUME NEW p \in DOMAIN PluginFindings
      PROVE  From({p}, m.findings) = IF p \in DOMAIN m.ext THEN PluginFindings[p] ELSE <<>>
  <2>1. p \in ToSet(Specs) /\ {p} \cap T = {}
    BY PluginsTyped
  <2>2. From({}, r.findings) = <<>>
    BY <1>2, FromNone
  <2>3. From({p}, e) = <<>>
    BY <1>5, <2>1, <2>2, Zenon
  <2>4. From({p}, ps) = IF p \in DOMAIN ext THEN Given(p) ELSE <<>>
    BY FromPlugins DEF ps
  <2> DEFINE s == From({p}, ps)
  <2>5. s \in Seq(FindingRecord)
    BY <1>3, FromTyped
  <2> HIDE DEF s
  <2>6. <<>> \o s = s
    BY <2>5
  <2>7. From({p}, m.findings) = s
    BY <1>4, <2>3, <2>6, Zenon DEF s
  <2>8. Given(p) = PluginFindings[p]
    BY DEF Given
  <2> QED BY <1>1, <2>4, <2>7, <2>8 DEF s
<1>8. m.findings \in Seq(FindingRecord)
  <2>1. e \o ps \in Seq(FindingRecord)
    BY <1>3
  <2> QED BY <1>1, <2>1
<1>9. IsReport(m)
  <2>1. /\ DOMAIN m = DOMAIN r
        /\ \A field \in {"start", "nodes", "convs", "anomalies", "channels", "hashes", "traffic"} :
             m[field] = r[field]
    BY <1>1
  <2> QED BY <1>8, <2>1 DEF Fit, IsReport
<1> QED BY <1>1, <1>6, <1>7, <1>8, <1>9 DEF Fit, Well, m

-----------------------------------------------------------------------------
(* Files                                                                    *)

\* No sidecar has the name of the report.
LEMMA SidecarsAreNoReport ==
  /\ SidecarPath("mitre") # MainFile
  /\ \A i \in 1 .. Len(Specs) : SidecarPath(Specs[i]) # MainFile
<1>1. \A i \in 1 .. Len(Specs) : Specs[i] # "report"
  BY EnrichmentAssumption DEF ToSet
<1>2. \A p : p # "report" => SidecarPath(p) # MainFile
  BY DEF SidecarPath, MainFile
<1> QED BY <1>1, <1>2

\* The report is neither written nor removed.
SameReport ==
  /\ MainFile \in DOMAIN dir' <=> MainFile \in DOMAIN dir
  /\ MainFile \in DOMAIN dir => dir'[MainFile] = dir[MainFile]

\* Writing another file leaves the report as it is.
LEMMA PutElsewhere ==
  ASSUME NEW file, NEW c, file # MainFile, dir' = Put(file, c)
  PROVE  SameReport
  BY DEF Put, SameReport

\* A report that was written is there and is what was written.
LEMMA PutReport ==
  ASSUME NEW c, dir' = Put(MainFile, c)
  PROVE  MainFile \in DOMAIN dir' /\ dir'[MainFile] = c
  BY DEF Put

\* A report with fields is not torn.
LEMMA DocumentsAreWhole ==
  ASSUME NEW r, IsDocument(r)
  PROVE  r # Torn
<1>1. DOMAIN Torn = {"torn"}
  BY DEF Torn
<1> QED BY <1>1 DEF IsDocument

\* A step that leaves the report and moves the job without holding a report anew.
LEMMA JobMoves ==
  ASSUME ReportInv, base' = base, SameReport, DOMAIN job' = JobFields,
         job'.told \in {"no", "writing", "done"},
         job'.told = "writing" => job.told = "writing",
         job'.step \in {"plugin", "computed", "opened", "merging"} => job'.i \in Nat \ {0},
         job'.step \in {"computed", "opened"} => job'.i <= Len(Specs),
         job'.step \in {"merging", "replacing"} =>
           job.step \in {"merging", "replacing"} /\ IsDocument(job'.held)
             /\ DOMAIN job.held.ext \subseteq DOMAIN job'.held.ext
  PROVE  ReportInv'
<1>1. Whole(MainFile)' => Whole(MainFile) /\ dir'[MainFile] = dir[MainFile]
  BY DEF SameReport, Whole, Present
<1>2. MainFile' = MainFile
  BY DEF MainFile
<1> QED BY <1>1, <1>2 DEF ReportInv, IsDocument

-----------------------------------------------------------------------------
(* The job                                                                  *)

\* Stage 4's save: the report is the engine's, or mixed with the signal handler's.
LEMMA SaveKeeps ==
  ASSUME ReportInv, Save, job.told # "writing"
  PROVE  ReportInv'
<1>1. PICK c \in {base, Torn} : dir' = Put(MainFile, c)
  BY DEF Save
<1>2. dir'[MainFile] = c /\ (c = base \/ c = Torn)
  BY <1>1, PutReport
<1>3. /\ DOMAIN job' = JobFields /\ job'.told = job.told /\ job'.step = "plugin"
      /\ job'.i = 1 /\ base' = base
  BY DEF Save, ReportInv, JobFields
<1> QED BY <1>2, <1>3 DEF ReportInv, Whole, IsDocument, MainFile

\* Running a plugin touches no report.
LEMMA PluginKeeps ==
  ASSUME ReportInv, StartPlugin \/ OpenSidecar \/ WriteSidecar \/ PluginFails
  PROVE  ReportInv' /\ SameReport
<1>1. /\ DOMAIN job = JobFields
      /\ job.told \in {"no", "writing", "done"}
      /\ job.step \in {"plugin", "computed", "opened"} => job.i \in Nat \ {0}
      /\ job.step \in {"computed", "opened"} => job.i <= Len(Specs)
  BY DEF ReportInv
<1>2. CASE StartPlugin
  <2>1. SameReport /\ base' = base
    BY <1>2 DEF StartPlugin, SameReport
  <2>2. /\ DOMAIN job' = JobFields /\ job'.told = job.told
        /\ \/ job'.step = "computed" /\ job'.i = job.i /\ job.i <= Len(Specs)
           \/ job'.step = "plugin" /\ job'.i = job.i + 1
        /\ job.i \in Nat \ {0}
    BY <1>1, <1>2 DEF StartPlugin, ToNextPlugin, JobFields
  <2> QED BY <1>1, <2>1, <2>2, JobMoves
<1>3. CASE OpenSidecar
  <2>1. SidecarPath(Specs[job.i]) # MainFile
    BY <1>1, <1>3, SidecarsAreNoReport DEF OpenSidecar
  <2>2. SameReport /\ base' = base
    BY <1>3, <2>1, PutElsewhere DEF OpenSidecar
  <2>3. /\ DOMAIN job' = JobFields /\ job'.told = job.told
        /\ job'.step = "opened" /\ job'.i = job.i /\ job.step = "computed"
    BY <1>1, <1>3 DEF OpenSidecar, JobFields
  <2> QED BY <1>1, <2>2, <2>3, JobMoves
<1>4. CASE WriteSidecar
  <2>1. SidecarPath(Specs[job.i]) # MainFile
    BY <1>1, <1>4, SidecarsAreNoReport DEF WriteSidecar
  <2>2. SameReport /\ base' = base
    BY <1>4, <2>1, PutElsewhere DEF WriteSidecar, Written, SameReport
  <2>3. /\ DOMAIN job' = JobFields /\ job'.told = job.told
        /\ job'.step = "plugin" /\ job'.i = job.i + 1 /\ job.step = "opened"
    BY <1>1, <1>4 DEF WriteSidecar, ToNextPlugin, JobFields
  <2> QED BY <1>1, <2>2, <2>3, JobMoves
<1>5. CASE PluginFails
  <2>1. SameReport /\ base' = base
    BY <1>5 DEF PluginFails, SameReport
  <2>2. /\ DOMAIN job' = JobFields /\ job'.told = job.told
        /\ job'.step = "plugin" /\ job'.i = job.i + 1 /\ job.i \in Nat \ {0}
    BY <1>1, <1>5 DEF PluginFails, ToNextPlugin, JobFields
  <2> QED BY <1>1, <2>1, <2>2, JobMoves
<1> QED BY <1>2, <1>3, <1>4, <1>5

\* A sidecar that was read adds to what is merged, or changes nothing.
LEMMA SidecarAdds ==
  ASSUME NEW ext, NEW ps
  PROVE  DOMAIN ext \subseteq DOMAIN WithSidecars(ext, ps)
  BY DEF WithSidecars

\* The job takes the report as it is on disk, or has nothing to merge.
LEMMA PluginsDoneKeeps ==
  ASSUME ReportInv, PluginsDone
  PROVE  ReportInv' /\ SameReport
<1>1. /\ DOMAIN job = JobFields /\ job.told \in {"no", "writing", "done"}
      /\ dir' = dir /\ base' = base /\ SameReport
  BY DEF ReportInv, PluginsDone, SameReport
<1>2. CASE job.who = "web" \/ ~Whole(MainFile)
  <2>1. /\ DOMAIN job' = JobFields /\ job'.told \in {job.told, "no"}
        /\ job'.step \in {"emitting", "end"}
    BY <1>1, <1>2 DEF PluginsDone, Enriched, EndsWell, Idle, JobFields
  <2> QED BY <1>1, <2>1, JobMoves
<1>3. CASE ~(job.who = "web" \/ ~Whole(MainFile))
  <2> DEFINE r == dir[MainFile]
  <2>1. job' = [job EXCEPT !.step = "merging", !.i = 1, !.held = [r EXCEPT !.ext = r.ext]]
    BY <1>3 DEF PluginsDone, Extensions
  <2>2. IsDocument(r) /\ DOMAIN base.ext \subseteq DOMAIN r.ext /\ IsDocument(base)
        /\ job.told # "writing"
    BY <1>3 DEF ReportInv
  <2> HIDE DEF r
  <2>3. /\ DOMAIN job' = JobFields /\ job'.told = job.told /\ job'.step = "merging"
        /\ job'.i = 1 /\ job'.held = [r EXCEPT !.ext = r.ext]
    BY <1>1, <2>1 DEF JobFields
  <2>4. IsDocument(job'.held) /\ job'.held.ext = r.ext
    BY <2>2, <2>3 DEF IsDocument
  <2>5. dir'[MainFile'] = r /\ MainFile' = MainFile
    BY <1>1 DEF r, MainFile
  <2> QED BY <1>1, <2>2, <2>3, <2>4, <2>5 DEF ReportInv, Whole, IsDocument
<1> QED BY <1>1, <1>2, <1>3

\* Merging sidecars only adds to the report the job holds.
LEMMA MergeKeeps ==
  ASSUME ReportInv, MergeSidecar \/ WriteTmp
  PROVE  ReportInv' /\ SameReport
<1>1. /\ DOMAIN job = JobFields /\ job.told \in {"no", "writing", "done"}
      /\ dir' = dir /\ base' = base /\ SameReport /\ job.step = "merging"
      /\ job.i \in Nat \ {0} /\ IsDocument(job.held)
  BY DEF ReportInv, MergeSidecar, WriteTmp, SameReport
<1>2. CASE MergeSidecar
  <2> DEFINE more == WithSidecars(job.held.ext, {Specs[job.i]})
  <2>1. job' = [job EXCEPT !.i = @ + 1, !.held.ext = more]
    BY <1>2 DEF MergeSidecar
  <2>2. DOMAIN job.held.ext \subseteq DOMAIN more
    BY SidecarAdds
  <2> HIDE DEF more
  <2>3. /\ DOMAIN job' = JobFields /\ job'.told = job.told /\ job'.step = "merging"
        /\ job'.i = job.i + 1 /\ job'.held = [job.held EXCEPT !.ext = more]
    BY <1>1, <2>1 DEF JobFields
  <2>4. IsDocument(job'.held) /\ job'.held.ext = more
    BY <1>1, <2>3 DEF IsDocument
  <2> QED BY <1>1, <2>2, <2>3, <2>4, JobMoves
<1>3. CASE WriteTmp
  <2>1. job' = [job EXCEPT !.step = "replacing", !.held = Merged(job.held, job.held.ext)]
    BY <1>3 DEF WriteTmp
  <2>2. IsDocument(Merged(job.held, job.held.ext))
        /\ Merged(job.held, job.held.ext).ext = job.held.ext
    BY <1>1 DEF Merged, IsDocument
  <2>3. /\ DOMAIN job' = JobFields /\ job'.told = job.told /\ job'.step = "replacing"
        /\ job'.held = Merged(job.held, job.held.ext)
    BY <1>1, <2>1 DEF JobFields
  <2> QED BY <1>1, <2>2, <2>3, JobMoves
<1> QED BY <1>2, <1>3

\* The report is replaced by one with at least as much merged into it.
LEMMA ReplaceKeeps ==
  ASSUME ReportInv, ReplaceReport, job.told # "writing"
  PROVE  /\ ReportInv' /\ IsDocument(dir'[MainFile])
         /\ Whole(MainFile) => DOMAIN dir[MainFile].ext \subseteq DOMAIN dir'[MainFile].ext
<1>1. /\ DOMAIN job = JobFields /\ job.told \in {"no", "done"}
      /\ IsDocument(job.held) /\ IsDocument(base)
      /\ DOMAIN base.ext \subseteq DOMAIN job.held.ext
      /\ Whole(MainFile) => DOMAIN dir[MainFile].ext \subseteq DOMAIN job.held.ext
  BY DEF ReportInv, ReplaceReport
<1>2. dir'[MainFile] = job.held /\ base' = base
  BY PutReport DEF ReplaceReport
<1>3. /\ DOMAIN job' = JobFields /\ job'.told \in {job.told, "no"}
      /\ job'.step \in {"emitting", "end"}
  BY <1>1 DEF ReplaceReport, Enriched, EndsWell, Idle, JobFields
<1>4. ReportInv'
  BY <1>1, <1>2, <1>3 DEF ReportInv, IsDocument, MainFile
<1> QED BY <1>1, <1>2, <1>4

\* The signal handler tears the report, then puts Stage 4's in its place.
LEMMA SignalKeeps ==
  ASSUME ReportInv, Terminate \/ ShutdownSaves
  PROVE  ReportInv'
<1>1. DOMAIN job = JobFields /\ IsDocument(base) /\ base' = base
  BY DEF ReportInv, Terminate, ShutdownSaves
<1>2. CASE Terminate
  <2>1. /\ DOMAIN job' = JobFields /\ job'.told = "writing" /\ job'.step = job.step
        /\ job'.i = job.i /\ job'.held = job.held
    BY <1>1, <1>2 DEF Terminate, JobFields
  <2>2. dir'[MainFile] = Torn
    BY <1>2, PutReport DEF Terminate
  <2> QED BY <1>1, <2>1, <2>2 DEF ReportInv, Whole, IsDocument, MainFile, Torn
<1>3. CASE ShutdownSaves
  <2>1. /\ DOMAIN job' = JobFields /\ job'.told = "done" /\ job'.step = job.step
        /\ job'.i = job.i /\ job'.held = job.held
    BY <1>1, <1>3 DEF ShutdownSaves, JobFields
  <2>2. dir'[MainFile] = base
    BY <1>3, PutReport DEF ShutdownSaves
  <2> QED BY <1>1, <2>1, <2>2 DEF ReportInv, Whole, IsDocument, MainFile
<1> QED BY <1>2, <1>3

\* A job that ends, dies or starts leaves the report.
LEMMA JobChangesKeep ==
  ASSUME ReportInv, EngineEnds \/ Kill \/ StartNext
  PROVE  ReportInv' /\ SameReport
<1>1. dir' = dir /\ base' = base /\ SameReport
  BY DEF EngineEnds, Kill, StartNext, SameReport
<1>2. /\ DOMAIN job' = JobFields /\ job'.told = "no" /\ job'.step \in {"end", "plugin"}
      /\ job'.step = "plugin" => job'.i = 1
  BY DEF EngineEnds, EndsWell, Kill, StartNext, Idle, JobFields
<1> QED BY <1>1, <1>2, JobMoves

\* A deletion removes the report or leaves it as it is.
LEMMA DeletionKeeps ==
  ASSUME ReportInv, Delete \/ Unlink
  PROVE  /\ ReportInv'
         /\ MainFile \in DOMAIN dir' =>
              MainFile \in DOMAIN dir /\ dir'[MainFile] = dir[MainFile]
<1>1. base' = base /\ job' = job
  BY DEF Delete, Unlink
<1>2. MainFile \in DOMAIN dir' => MainFile \in DOMAIN dir /\ dir'[MainFile] = dir[MainFile]
  BY DEF Delete, Unlink
<1>3. Whole(MainFile)' => Whole(MainFile) /\ dir'[MainFile] = dir[MainFile]
  BY <1>2 DEF Whole, Present, MainFile
<1>4. MainFile' = MainFile
  BY DEF MainFile
<1>5. ReportInv'
  BY <1>1, <1>3, <1>4 DEF ReportInv, IsDocument
<1> QED BY <1>2, <1>5

-----------------------------------------------------------------------------
(* The pages                                                                *)

\* No page writes the report.
LEMMA PagesKeepReport ==
  ASSUME ReportInv, PageNext
  PROVE  ReportInv' /\ SameReport
<1>1. base' = base /\ job' = job
  BY DEF PageNext, OpenViewer, EnsureMitre, OpenMitre, WriteMitre, MitreFails, ReadSidecar,
         ShowReport, ListReports, LoadReport, ShowProject, fileVars
<1>2. SameReport
  <2>1. CASE OpenMitre
    BY <2>1, SidecarsAreNoReport, PutElsewhere DEF OpenMitre
  <2>2. CASE WriteMitre
    BY <2>2, SidecarsAreNoReport, PutElsewhere DEF WriteMitre, Written, SameReport
  <2>3. CASE dir' = dir
    BY <2>3 DEF SameReport
  <2> QED
    BY <2>1, <2>2, <2>3 DEF PageNext, OpenViewer, EnsureMitre, MitreFails, ReadSidecar,
       ShowReport, ListReports, LoadReport, ShowProject, fileVars
<1>3. ReportInv'
  BY <1>1, <1>2, JobMoves DEF ReportInv
<1> QED BY <1>2, <1>3

\* A viewer only adds to what it found merged.
LEMMA ViewKeeps ==
  ASSUME ReportInv, ViewInv, PageNext
  PROVE  ViewInv'
<1>1. CASE OpenViewer
  BY <1>1 DEF OpenViewer, ReportInv, ViewInv, Extensions, IsDocument
<1>2. CASE EnsureMitre \/ OpenMitre \/ WriteMitre \/ MitreFails
  BY <1>2 DEF EnsureMitre, OpenMitre, WriteMitre, MitreFails, ViewInv, IsDocument
<1>3. ASSUME NEW p \in ToSet(Specs), ReadSidecar(p)
      PROVE  ViewInv'
  BY <1>3, SidecarAdds DEF ReadSidecar, ViewInv, IsDocument
<1>4. CASE ShowReport
  BY <1>4 DEF ShowReport, Merged, ViewInv, IsDocument
<1>5. CASE ListReports \/ ShowProject \/ \E file \in todo : LoadReport(file)
  BY <1>5 DEF ListReports, LoadReport, ShowProject, ViewInv
<1> QED BY <1>1, <1>2, <1>3, <1>4, <1>5 DEF PageNext
-----------------------------------------------------------------------------
(* The theorems                                                             *)

\* The invariant holds before the engine saves.
LEMMA InitInv == Init => IInv
<1> SUFFICES ASSUME Init
             PROVE  IInv
  OBVIOUS
<1>1. IsDocument(base)
  BY ProjectsAreReports DEF Init, IsReport, IsDocument, Blank
<1>2. dir[MainFile] = Torn /\ ~Whole(MainFile)
  <2>1. PICK project \in Projects :
          dir = [f \in {<<n, "report">> : n \in DOMAIN project} |->
                   IF f = MainFile THEN Torn ELSE project[f[1]]]
    BY DEF Init
  <2>2. MainFile \in {<<n, "report">> : n \in DOMAIN project}
    BY ProjectsAreReports DEF MainFile
  <2> QED BY <2>1, <2>2 DEF Whole
<1>3. /\ DOMAIN job = JobFields /\ job.told = "no" /\ job.step = "saving"
  BY DEF Init, EnrichmentInit, Idle, JobFields
<1>4. ReportInv
  BY <1>1, <1>2, <1>3 DEF ReportInv
<1>5. ViewInv
  BY DEF Init, ViewInv
<1> QED BY <1>4, <1>5 DEF IInv

\* Every step keeps the invariant.
LEMMA NextInv == IInv /\ [Next]_vars => IInv'
<1> SUFFICES ASSUME IInv, [Next]_vars
             PROVE  IInv'
  OBVIOUS
<1> USE DEF IInv
<1>1. CASE PageNext
  BY <1>1, PagesKeepReport, ViewKeeps
<1>2. CASE EnrichmentNext /\ UNCHANGED pageVars
  <2>1. ReportInv'
    BY <1>2, SaveKeeps, PluginKeeps, PluginsDoneKeeps, MergeKeeps, ReplaceKeeps,
       SignalKeeps, JobChangesKeep, DeletionKeeps DEF EnrichmentNext, Advance
  <2>2. ViewInv'
    BY <1>2 DEF ViewInv, pageVars, IsDocument
  <2> QED BY <2>1, <2>2
<1>3. CASE UNCHANGED vars
  BY <1>3 DEF vars, fileVars, pageVars, ReportInv, ViewInv, IsDocument, Whole, Present,
              MainFile
<1> QED BY <1>1, <1>2, <1>3 DEF Next

\* No step tears the report or takes an artifact out of it.
LEMMA ReportStep ==
  ASSUME ReportInv, [Next]_vars, Whole(MainFile), MainFile \in DOMAIN dir',
         job.step # "saving", job'.told # "writing"
  PROVE  /\ dir'[MainFile] # Torn
         /\ DOMAIN dir[MainFile].ext \subseteq DOMAIN dir'[MainFile].ext
<1>1. dir[MainFile] # Torn
  BY DEF Whole
<1>2. CASE SameReport
  BY <1>1, <1>2 DEF SameReport
<1>3. CASE ReplaceReport /\ job.told # "writing"
  BY <1>3, ReplaceKeeps, DocumentsAreWhole
<1>4. CASE Delete \/ Unlink
  BY <1>1, <1>4, DeletionKeeps
<1>5. ~Save /\ ~ShutdownSaves /\ ~Terminate
  BY DEF Save, ShutdownSaves, Terminate, ReportInv, JobFields
<1>6. CASE UNCHANGED vars
  BY <1>1, <1>6 DEF vars, fileVars
<1> QED
  BY <1>2, <1>3, <1>4, <1>5, <1>6, PluginKeeps, PluginsDoneKeeps, MergeKeeps,
     JobChangesKeep, PagesKeepReport DEF Next, EnrichmentNext, Advance

\* Reports on disk, held by a job and shown to a viewer fit together at every
\* moment.
THEOREM ReportInvariant == Spec => []IInv
  BY InitInv, NextInv, PTL DEF Spec

\* Once the engine has saved, a report that stays on disk is never torn and loses
\* no artifact, unless a stop writes it anew.
THEOREM ReportsOnlyGain == Spec => ReportOnlyGains
<1>1. IInv /\ [Next]_vars =>
        [Whole(MainFile) /\ MainFile \in DOMAIN dir' /\ job.step # "saving"
           /\ job'.told # "writing" =>
           /\ dir'[MainFile] # Torn
           /\ DOMAIN dir[MainFile].ext \subseteq DOMAIN dir'[MainFile].ext]_dir
  BY ReportStep DEF IInv
<1> QED BY <1>1, ReportInvariant, PTL DEF Spec, ReportOnlyGains

\* A viewer shows every plugin that it found merged into the report.
THEOREM ViewersKeepEnrichment == Spec => []EnrichmentIsKept
<1>1. IInv => EnrichmentIsKept
  BY DEF IInv, ViewInv, EnrichmentIsKept
<1> QED BY <1>1, ReportInvariant, PTL

-----------------------------------------------------------------------------
(* What is merged into the report                                           *)

\* A file is a report or the sidecar of a plugin.
IsFile(f) ==
  /\ f = <<f[1], "report">> \/ \E p \in ToSet(Specs) : f = SidecarPath(p)
  /\ Changed[f[1]] \in Nat

\* Reports and sidecars that can be read are what their names say, and the report
\* in the works is well merged.
Stored(b, d) ==
  \A f \in DOMAIN d :
    /\ IsFile(f)
    /\ f = <<f[1], "report">> /\ d[f] # Torn => IsReport(d[f])
    /\ f = MainFile /\ d[f] # Torn => Fit(b, d[f]) /\ Well(b, d[f])
    /\ \A p \in ToSet(Specs) : f = SidecarPath(p) /\ d[f] # Torn => IsArtifact(p, d[f])

\* So is what a job is about to write.
Carried(b, j) ==
  /\ j.step \in {"computed", "opened"} => IsArtifact(Specs[j.i], j.artifact)
  /\ j.step \in {"merging", "replacing"} => Fit(b, j.held)
  /\ j.step = "replacing" => Well(b, j.held)

MergeInv == Fit(base, base) /\ Well(base, base) /\ Stored(base, dir) /\ Carried(base, job)

\* What a page has read: reports with names of their own, and nothing.
Listed(b, fs) ==
  /\ \E S : fs \in Seq(S)
  /\ \A i \in DOMAIN fs :
       /\ fs[i].name = Main /\ fs[i].report # Blank => Well(b, fs[i].report)
       /\ fs[i].mtime \in Nat /\ IsReport(fs[i].report)
  /\ \A i, j \in DOMAIN fs :
       fs[i].name = fs[j].name /\ fs[i].report # Blank /\ fs[j].report # Blank => i = j

PageInv ==
  /\ step \in {"classify", "write"} => "mitre" \in ToSet(Specs) /\ IsArtifact("mitre", made)
  /\ step \in {"mitre", "classify", "write", "sidecars"} => page = "viewer" /\ Fit(base, view)
  /\ page = "viewer" /\ step = "done" => Well(base, view)
  /\ step = "start" => files = <<>>
  /\ step = "load" => \A f \in todo :
       /\ IsFile(f)
       /\ f = <<f[1], "report">> =>
            \A i \in DOMAIN files : files[i].name = f[1] => files[i].report = Blank
  /\ Listed(base, files)

\* Sidecars have names of their own.
LEMMA Paths ==
  /\ IsFile(MainFile) /\ \A p \in ToSet(Specs) : IsFile(SidecarPath(p))
  /\ \A p \in ToSet(Specs) : SidecarPath(p) # MainFile
  /\ \A p, q : SidecarPath(p) = SidecarPath(q) => p = q
<1>1. \A p \in ToSet(Specs) : p # "report"
  BY PluginsTyped
<1>2. Changed[Main] \in Nat
  BY FilesAreDated
<1> QED BY <1>1, <1>2 DEF IsFile, MainFile, SidecarPath

\* The report is written anew.
LEMMA ReportStored ==
  ASSUME NEW b, Stored(b, dir), NEW c, c = Torn \/ (Fit(b, c) /\ Well(b, c))
  PROVE  Stored(b, Put(MainFile, c))
<1> DEFINE d == Put(MainFile, c)
<1>1. /\ DOMAIN d = DOMAIN dir \cup {MainFile} /\ d[MainFile] = c
      /\ \A f \in DOMAIN dir : f # MainFile => d[f] = dir[f]
  BY DEF Put
<1> HIDE DEF d
<1>2. ASSUME NEW f \in DOMAIN d
      PROVE  /\ IsFile(f)
             /\ f = <<f[1], "report">> /\ d[f] # Torn => IsReport(d[f])
             /\ f = MainFile /\ d[f] # Torn => Fit(b, d[f]) /\ Well(b, d[f])
             /\ \A p \in ToSet(Specs) : f = SidecarPath(p) /\ d[f] # Torn => IsArtifact(p, d[f])
  <2>1. CASE f = MainFile
    BY <1>1, <2>1, Paths DEF Fit
  <2>2. CASE f # MainFile
    <3>1. f \in DOMAIN dir /\ d[f] = dir[f]
      BY <1>1, <2>2
    <3> QED BY <2>2, <3>1 DEF Stored
  <2> QED BY <2>1, <2>2
<1> QED BY <1>2 DEF Stored, d

\* A sidecar is written.
LEMMA SidecarStored ==
  ASSUME NEW b, Stored(b, dir), NEW p \in ToSet(Specs), NEW c, c = Torn \/ IsArtifact(p, c)
  PROVE  Stored(b, Put(SidecarPath(p), c))
<1> DEFINE d == Put(SidecarPath(p), c)
<1>1. /\ DOMAIN d = DOMAIN dir \cup {SidecarPath(p)} /\ d[SidecarPath(p)] = c
      /\ \A f \in DOMAIN dir : f # SidecarPath(p) => d[f] = dir[f]
  BY DEF Put
<1> HIDE DEF d
<1>2. ASSUME NEW f \in DOMAIN d
      PROVE  /\ IsFile(f)
             /\ f = <<f[1], "report">> /\ d[f] # Torn => IsReport(d[f])
             /\ f = MainFile /\ d[f] # Torn => Fit(b, d[f]) /\ Well(b, d[f])
             /\ \A q \in ToSet(Specs) : f = SidecarPath(q) /\ d[f] # Torn => IsArtifact(q, d[f])
  <2>1. CASE f = SidecarPath(p)
    <3>1. f # <<f[1], "report">>
      BY <2>1, PluginsTyped DEF SidecarPath
    <3> QED BY <1>1, <2>1, <3>1, Paths
  <2>2. CASE f # SidecarPath(p)
    <3>1. f \in DOMAIN dir /\ d[f] = dir[f]
      BY <1>1, <2>2
    <3> QED BY <3>1 DEF Stored
  <2> QED BY <2>1, <2>2
<1> QED BY <1>2 DEF Stored, d

\* The whole report on disk.
LEMMA OnDisk ==
  ASSUME MergeInv, Whole(MainFile)
  PROVE  Fit(base, dir[MainFile]) /\ Well(base, dir[MainFile])
BY DEF MergeInv, Stored, Whole, Present

\* What has been read of sidecars are artifacts.
LEMMA SidecarsRead ==
  ASSUME MergeInv, NEW ext, Artifacts(ext), NEW ps \in SUBSET ToSet(Specs)
  PROVE  Artifacts(WithSidecars(ext, ps))
<1> DEFINE read == {p \in ps : Whole(SidecarPath(p))}
           new == WithSidecars(ext, ps)
<1>1. /\ DOMAIN new = DOMAIN ext \cup read
      /\ \A p \in DOMAIN new : new[p] = IF p \in read THEN dir[SidecarPath(p)] ELSE ext[p]
  BY DEF WithSidecars
<1> HIDE DEF new
<1>2. ASSUME NEW p \in read
      PROVE  IsArtifact(p, dir[SidecarPath(p)])
  BY <1>2 DEF MergeInv, Stored, Whole, Present
<1>3. read \subseteq ToSet(Specs)
  OBVIOUS
<1> HIDE DEF read
<1> QED BY <1>1, <1>2, <1>3 DEF Artifacts, new

\* Reading sidecars into a report leaves it fit.
LEMMA ExtChanged ==
  ASSUME NEW b, NEW r, Fit(b, r), NEW ext, Artifacts(ext)
  PROVE  Fit(b, [r EXCEPT !.ext = ext])
BY DEF Fit, IsDocument, IsReport

\* An artifact is one.
LEMMA ArtifactMade ==
  ASSUME NEW p, NEW r
  PROVE  IsArtifact(p, Artifact(p, r))
BY DEF IsArtifact, Artifact, Given

-----------------------------------------------------------------------------
(* The job *)

\* A plugin runs.
LEMMA PluginMerges ==
  ASSUME ReportInv, MergeInv, StartPlugin \/ OpenSidecar \/ WriteSidecar \/ PluginFails
  PROVE  MergeInv'
<1>1. /\ DOMAIN job = JobFields /\ base' = base
      /\ job.step \in {"computed", "opened"} => Specs[job.i] \in ToSet(Specs)
  <2>1. job.step \in {"computed", "opened"} => job.i \in 1 .. Len(Specs)
    BY PluginsTyped DEF ReportInv
  <2> QED BY <2>1, PluginsTyped DEF ReportInv, StartPlugin, OpenSidecar, WriteSidecar, PluginFails
<1>2. CASE StartPlugin
  <2>1. /\ dir' = dir
        /\ \/ job'.step = "computed" /\ job'.i = job.i
              /\ job'.artifact = Artifact(Specs[job.i], dir[MainFile])
           \/ job'.step = "plugin"
    BY <1>1, <1>2 DEF StartPlugin, ToNextPlugin, JobFields
  <2>2. Carried(base, job')
    BY <2>1, ArtifactMade DEF Carried
  <2> QED BY <1>1, <2>1, <2>2 DEF MergeInv
<1>3. CASE OpenSidecar
  <2>1. /\ dir' = Put(SidecarPath(Specs[job.i]), Torn) /\ job.step = "computed"
        /\ job'.step = "opened" /\ job'.i = job.i /\ job'.artifact = job.artifact
    BY <1>1, <1>3 DEF OpenSidecar, JobFields
  <2>2. Carried(base, job')
    BY <2>1 DEF Carried, MergeInv
  <2>3. Stored(base, dir')
    BY <1>1, <2>1, SidecarStored DEF MergeInv
  <2> QED BY <1>1, <2>2, <2>3 DEF MergeInv
<1>4. CASE WriteSidecar
  <2>1. /\ dir' \in Written(Specs[job.i], job.artifact) /\ job.step = "opened"
        /\ job'.step = "plugin"
    BY <1>1, <1>4 DEF WriteSidecar, ToNextPlugin, JobFields
  <2>2. IsArtifact(Specs[job.i], job.artifact)
    BY <2>1 DEF MergeInv, Carried
  <2>3. dir' = dir \/ \E c \in {job.artifact, Torn} : dir' = Put(SidecarPath(Specs[job.i]), c)
    BY <2>1 DEF Written
  <2>4. Stored(base, dir')
    BY <1>1, <2>1, <2>2, <2>3, SidecarStored DEF MergeInv
  <2>5. Carried(base, job')
    BY <2>1 DEF Carried
  <2> QED BY <1>1, <2>4, <2>5 DEF MergeInv
<1>5. CASE PluginFails
  <2>1. dir' = dir /\ job'.step = "plugin"
    BY <1>1, <1>5 DEF PluginFails, ToNextPlugin, JobFields
  <2> QED BY <1>1, <2>1 DEF MergeInv, Carried
<1> QED BY <1>2, <1>3, <1>4, <1>5

\* The report is read, sidecars are merged into it, and it goes back.
LEMMA JobMerges ==
  ASSUME ReportInv, MergeInv, PluginsDone \/ MergeSidecar \/ WriteTmp \/ ReplaceReport
  PROVE  MergeInv'
<1>1. DOMAIN job = JobFields /\ base' = base
  BY DEF ReportInv, PluginsDone, MergeSidecar, WriteTmp, ReplaceReport
<1>2. CASE PluginsDone
  <2>1. dir' = dir
    BY <1>2 DEF PluginsDone
  <2>2. CASE Enriched
    <3>1. job'.step \in {"emitting", "end"}
      BY <1>1, <2>2 DEF Enriched, EndsWell, Idle, JobFields
    <3> QED BY <1>1, <2>1, <3>1 DEF MergeInv, Carried
  <2>3. CASE ~Enriched
    <3> DEFINE r == dir[MainFile]
    <3>1. /\ Whole(MainFile)
          /\ job' = [job EXCEPT !.step = "merging", !.i = 1, !.held = [r EXCEPT !.ext = r.ext]]
      BY <1>2, <2>3 DEF PluginsDone, Extensions
    <3>2. Fit(base, r)
      BY <3>1, OnDisk
    <3> HIDE DEF r
    <3>3. job'.step = "merging" /\ job'.held = [r EXCEPT !.ext = r.ext]
      BY <1>1, <3>1 DEF JobFields
    <3>4. Fit(base, job'.held)
      BY <3>2, <3>3, ExtChanged DEF Fit
    <3> QED BY <1>1, <2>1, <3>3, <3>4 DEF MergeInv, Carried
  <2> QED BY <2>2, <2>3
<1>3. CASE MergeSidecar
  <2> DEFINE ext == WithSidecars(job.held.ext, {Specs[job.i]})
  <2>1. /\ dir' = dir /\ job.step = "merging" /\ job.i \in 1 .. Len(Specs)
        /\ job' = [job EXCEPT !.i = @ + 1, !.held.ext = ext]
    BY <1>3, PluginsTyped DEF MergeSidecar, ReportInv
  <2>2. Fit(base, job.held) /\ Artifacts(job.held.ext)
    BY <2>1 DEF MergeInv, Carried, Fit
  <2>3. Artifacts(ext)
    <3>1. {Specs[job.i]} \in SUBSET ToSet(Specs)
      BY <2>1, PluginsTyped
    <3> QED BY <2>2, <3>1, SidecarsRead
  <2> HIDE DEF ext
  <2>4. job'.step = "merging" /\ job'.held = [job.held EXCEPT !.ext = ext]
    BY <1>1, <2>1 DEF JobFields
  <2>5. Fit(base, job'.held)
    BY <2>2, <2>3, <2>4, ExtChanged
  <2> QED BY <1>1, <2>1, <2>4, <2>5 DEF MergeInv, Carried
<1>4. CASE WriteTmp
  <2>1. /\ dir' = dir /\ job.step = "merging" /\ job'.step = "replacing"
        /\ job'.held = Merged(job.held, job.held.ext)
    BY <1>1, <1>4 DEF WriteTmp, JobFields
  <2>2. Fit(base, job.held) /\ Artifacts(job.held.ext)
    BY <2>1 DEF MergeInv, Carried, Fit
  <2>3. Fit(base, job'.held) /\ Well(base, job'.held)
    BY <2>1, <2>2, MergedWell
  <2> QED BY <1>1, <2>1, <2>3 DEF MergeInv, Carried
<1>5. CASE ReplaceReport
  <2>1. dir' = Put(MainFile, job.held) /\ job.step = "replacing" /\ job'.step \in {"emitting", "end"}
    BY <1>1, <1>5 DEF ReplaceReport, Enriched, EndsWell, Idle, JobFields
  <2>2. Fit(base, job.held) /\ Well(base, job.held)
    BY <2>1 DEF MergeInv, Carried
  <2>3. Stored(base, dir')
    BY <2>1, <2>2, ReportStored DEF MergeInv
  <2> QED BY <1>1, <2>1, <2>3 DEF MergeInv, Carried
<1> QED BY <1>2, <1>3, <1>4, <1>5

\* The engine saves, its handler does, or something else ends or starts.
LEMMA OthersMerge ==
  ASSUME ReportInv, MergeInv,
         Save \/ EngineEnds \/ Terminate \/ ShutdownSaves \/ Kill \/ StartNext \/ Delete \/ Unlink
  PROVE  MergeInv'
<1>1. DOMAIN job = JobFields /\ base' = base
  BY DEF ReportInv, Save, EngineEnds, Terminate, ShutdownSaves, Kill, StartNext, Delete, Unlink
<1>2. Carried(base, job')
  <2>1. CASE Save \/ EngineEnds \/ Kill \/ StartNext
    <3>1. job'.step \in {"plugin", "end"}
      BY <1>1, <2>1 DEF Save, EngineEnds, EndsWell, Kill, StartNext, Idle, JobFields
    <3> QED BY <3>1 DEF Carried
  <2>2. CASE Terminate \/ ShutdownSaves
    <3>1. /\ job'.step = job.step /\ job'.i = job.i /\ job'.held = job.held
          /\ job'.artifact = job.artifact
      BY <1>1, <2>2 DEF Terminate, ShutdownSaves, JobFields
    <3> QED BY <3>1 DEF MergeInv, Carried
  <2>3. CASE Delete \/ Unlink
    BY <2>3 DEF Delete, Unlink, MergeInv
  <2> QED BY <2>1, <2>2, <2>3
<1>3. Stored(base, dir')
  <2>1. CASE dir' = dir
    BY <2>1 DEF MergeInv
  <2>2. CASE \E c \in {base, Torn} : dir' = Put(MainFile, c)
    BY <2>2, ReportStored DEF MergeInv
  <2>3. CASE Unlink
    BY <2>3 DEF Unlink, MergeInv, Stored
  <2> QED BY <2>1, <2>2, <2>3 DEF Save, EngineEnds, Terminate, ShutdownSaves, Kill, StartNext, Delete
<1> QED BY <1>1, <1>2, <1>3 DEF MergeInv

-----------------------------------------------------------------------------
(* The pages *)

\* Pages write no file but the sidecar of ATT&CK.
LEMMA PagesMerge ==
  ASSUME MergeInv, PageInv, PageNext
  PROVE  MergeInv'
<1>1. base' = base /\ job' = job
  BY DEF PageNext, OpenViewer, EnsureMitre, OpenMitre, WriteMitre, MitreFails, ReadSidecar,
         ShowReport, ListReports, LoadReport, ShowProject, fileVars
<1>2. Stored(base, dir')
  <2>1. CASE OpenMitre
    <3>1. dir' = Put(SidecarPath("mitre"), Torn) /\ "mitre" \in ToSet(Specs)
      BY <2>1 DEF OpenMitre, PageInv
    <3> QED BY <3>1, SidecarStored DEF MergeInv
  <2>2. CASE WriteMitre
    <3>1. /\ "mitre" \in ToSet(Specs) /\ IsArtifact("mitre", made)
          /\ dir' = dir \/ \E c \in {made, Torn} : dir' = Put(SidecarPath("mitre"), c)
      BY <2>2 DEF WriteMitre, Written, PageInv
    <3> QED BY <3>1, SidecarStored DEF MergeInv
  <2>3. CASE dir' = dir
    BY <2>3 DEF MergeInv
  <2> QED
    BY <2>1, <2>2, <2>3 DEF PageNext, OpenViewer, EnsureMitre, MitreFails, ReadSidecar,
       ShowReport, ListReports, LoadReport, ShowProject, fileVars
<1> QED BY <1>1, <1>2 DEF MergeInv

\* A viewer reads the report and its sidecars and merges them once.
LEMMA ViewerMerges ==
  ASSUME MergeInv, PageInv,
         OpenViewer \/ EnsureMitre \/ OpenMitre \/ WriteMitre \/ MitreFails \/ ShowReport
           \/ \E p \in ToSet(Specs) : ReadSidecar(p)
  PROVE  PageInv'
<1>1. base' = base /\ page' = page /\ files' = files /\ Listed(base, files)
  BY DEF OpenViewer, EnsureMitre, OpenMitre, WriteMitre, MitreFails, ReadSidecar, ShowReport,
         fileVars, PageInv
<1>2. CASE OpenViewer
  <2>1. CASE Whole(MainFile)
    <3> DEFINE r == dir[MainFile]
    <3>1. page = "viewer" /\ step' = "mitre" /\ view' = [r EXCEPT !.ext = r.ext]
      BY <1>2, <2>1 DEF OpenViewer, Extensions
    <3>2. Fit(base, r)
      BY <2>1, OnDisk
    <3> HIDE DEF r
    <3>3. Fit(base, view')
      BY <3>1, <3>2, ExtChanged DEF Fit
    <3> QED BY <1>1, <3>1, <3>3 DEF PageInv
  <2>2. CASE ~Whole(MainFile)
    BY <1>1, <1>2, <2>2 DEF OpenViewer, PageInv
  <2> QED BY <2>1, <2>2
<1>3. CASE EnsureMitre
  <2>1. /\ page = "viewer" /\ Fit(base, view) /\ view' = view
        /\ \/ "mitre" \in Enabled /\ step' = "classify" /\ made' = Artifact("mitre", dir[MainFile])
           \/ step' = "sidecars"
    BY <1>3 DEF EnsureMitre, PageInv
  <2>2. "mitre" \in Enabled => "mitre" \in ToSet(Specs)
    BY EnrichmentAssumption
  <2> QED BY <1>1, <2>1, <2>2, ArtifactMade DEF PageInv
<1>4. CASE OpenMitre \/ WriteMitre \/ MitreFails
  <2>1. /\ page = "viewer" /\ Fit(base, view) /\ view' = view
        /\ \/ step = "classify" /\ step' = "write" /\ made' = made
           \/ step' = "sidecars"
    BY <1>4 DEF OpenMitre, WriteMitre, MitreFails, PageInv
  <2> QED BY <1>1, <2>1 DEF PageInv
<1>5. ASSUME NEW p \in ToSet(Specs), ReadSidecar(p)
      PROVE  PageInv'
  <2> DEFINE ext == WithSidecars(view.ext, {p})
  <2>1. /\ page = "viewer" /\ Fit(base, view) /\ step = "sidecars" /\ step' = step
        /\ view' = [view EXCEPT !.ext = ext]
    BY <1>5 DEF ReadSidecar, PageInv
  <2>2. Artifacts(ext)
    BY <2>1, SidecarsRead DEF Fit
  <2> HIDE DEF ext
  <2>3. Fit(base, view')
    BY <2>1, <2>2, ExtChanged
  <2> QED BY <1>1, <2>1, <2>3 DEF PageInv
<1>6. CASE ShowReport
  <2>1. /\ Fit(base, view) /\ step' = "done" /\ view' = Merged(view, view.ext)
    BY <1>6 DEF ShowReport, PageInv
  <2>2. Well(base, view')
    BY <2>1, MergedWell DEF Fit
  <2> QED BY <1>1, <2>1, <2>2 DEF PageInv
<1> QED BY <1>2, <1>3, <1>4, <1>5, <1>6

\* Nothing is a report, too.
LEMMA BlankIsReport == IsReport(Blank)
<1>1. DOMAIN <<>> = {} /\ \A S : <<>> \in Seq(S)
  OBVIOUS
<1>2. \A c : c \notin ToSet(<<>>)
  BY <1>1 DEF ToSet
<1> QED BY <1>1, <1>2 DEF IsReport, Blank

\* A page of the project reads reports, that in the works well merged, and nothing
\* of a sidecar.
LEMMA FileWell ==
  ASSUME MergeInv, NEW file \in DOMAIN dir, Whole(file), NEW r \in {Content(file), Loaded(file)}
  PROVE  /\ IsReport(r)
         /\ file # <<file[1], "report">> => r = Blank
         /\ file[1] = Main /\ r # Blank => Well(base, r)
<1>0. IsFile(file)
  BY DEF MergeInv, Stored
<1>1. CASE file = MainFile
  <2>1. Fit(base, dir[MainFile]) /\ Well(base, dir[MainFile])
    BY <1>1, OnDisk
  <2>2. CASE r = Content(file)
    BY <1>1, <2>1, <2>2, BlankIsReport DEF Content, Fit, MainFile
  <2>3. CASE r = Loaded(file)
    <3> DEFINE ext == WithSidecars(Extensions(dir[MainFile]), ToSet(Specs))
    <3>1. r = Merged(dir[MainFile], ext)
      BY <1>1, <2>3 DEF Loaded
    <3>2. Artifacts(ext)
      BY <2>1, SidecarsRead DEF Fit, Extensions
    <3> HIDE DEF ext
    <3>3. Fit(base, r) /\ Well(base, r)
      BY <2>1, <3>1, <3>2, MergedWell
    <3> QED BY <1>1, <3>3 DEF Fit, MainFile
  <2> QED BY <2>2, <2>3
<1>2. CASE file # MainFile /\ file = <<file[1], "report">>
  <2>1. file[1] # Main /\ IsReport(dir[file])
    BY <1>2 DEF MergeInv, Stored, MainFile, Whole
  <2>2. r = Content(file)
    BY <1>2 DEF Loaded
  <2> QED BY <1>2, <2>1, <2>2, BlankIsReport DEF Content
<1>3. CASE file # <<file[1], "report">>
  <2>1. PICK p \in ToSet(Specs) : file = SidecarPath(p)
    BY <1>0, <1>3 DEF IsFile
  <2>2. IsArtifact(p, dir[file])
    BY <2>1 DEF MergeInv, Stored, Whole
  <2>3. "start" \in DOMAIN Blank /\ "start" \notin DOMAIN dir[file]
    BY <2>2 DEF IsArtifact, Blank
  <2>4. file # MainFile
    BY <2>1, Paths
  <2>5. r = Blank
    BY <2>3, <2>4 DEF Content, Loaded
  <2> QED BY <2>5, BlankIsReport
<1> QED BY <1>1, <1>2, <1>3

\* One more file on a page.
LEMMA ListedAppend ==
  ASSUME NEW fs, Listed(base, fs), NEW f, f.mtime \in Nat, IsReport(f.report),
         f.report # Blank =>
           /\ f.name = Main => Well(base, f.report)
           /\ \A i \in DOMAIN fs : fs[i].name = f.name => fs[i].report = Blank
  PROVE  /\ Listed(base, Append(fs, f))
         /\ \A i \in DOMAIN Append(fs, f) :
              Append(fs, f)[i] = f \/ (i \in DOMAIN fs /\ Append(fs, f)[i] = fs[i])
<1>1. PICK S : fs \in Seq(S)
  BY DEF Listed
<1>2. fs \in Seq(S \cup {f}) /\ f \in S \cup {f}
  BY <1>1
<1> DEFINE T == S \cup {f}
           more == Append(fs, f)
           m == Len(fs) + 1
<1> HIDE DEF T
<1>3. /\ more \in Seq(T) /\ DOMAIN more = 1 .. m /\ more[m] = f
      /\ \A i \in 1 .. Len(fs) : more[i] = fs[i] /\ i \in DOMAIN fs
      /\ \A i \in 1 .. m : i = m \/ i \in 1 .. Len(fs)
  BY <1>2 DEF T
<1> HIDE DEF more, m
<1>4. ASSUME NEW i \in DOMAIN more
      PROVE  /\ more[i].name = Main /\ more[i].report # Blank => Well(base, more[i].report)
             /\ more[i].mtime \in Nat /\ IsReport(more[i].report)
  BY <1>3 DEF Listed
<1>5. ASSUME NEW i \in DOMAIN more, NEW j \in DOMAIN more,
             more[i].name = more[j].name, more[i].report # Blank, more[j].report # Blank
      PROVE  i = j
  <2>1. CASE i = m \/ j = m
    BY <1>3, <1>5, <2>1
  <2>2. CASE i # m /\ j # m
    BY <1>3, <1>5, <2>2 DEF Listed
  <2> QED BY <2>1, <2>2
<1>6. ASSUME NEW i \in DOMAIN more
      PROVE  more[i] = f \/ (i \in DOMAIN fs /\ more[i] = fs[i])
  <2>1. i = m \/ i \in 1 .. Len(fs)
    BY <1>3
  <2> QED BY <1>3, <2>1
<1> QED BY <1>3, <1>4, <1>5, <1>6 DEF Listed, more

\* The same files in another order.
LEMMA ListedSorted ==
  ASSUME NEW fs, Listed(base, fs), NEW gs \in Sorted(fs)
  PROVE  Listed(base, gs)
<1>1. PICK S : fs \in Seq(S)
  BY DEF Listed
<1>2. PICK at \in Bijection(DOMAIN fs, DOMAIN fs) : gs = [i \in DOMAIN fs |-> fs[at[i]]]
  BY DEF Sorted
<1>3. /\ at \in [DOMAIN fs -> DOMAIN fs]
      /\ \A i, j \in DOMAIN fs : at[i] = at[j] => i = j
  BY <1>2 DEF Bijection, Injection, IsInjective
<1>4. DOMAIN fs = 1 .. Len(fs) /\ Len(fs) \in Nat /\ \A i \in DOMAIN fs : fs[i] \in S
  BY <1>1
<1>5. gs \in [1 .. Len(fs) -> S]
  BY <1>2, <1>3, <1>4
<1>6. gs \in Seq(S)
  BY <1>4, <1>5
<1>7. DOMAIN gs = DOMAIN fs /\ \A i \in DOMAIN gs : at[i] \in DOMAIN fs /\ gs[i] = fs[at[i]]
  BY <1>2, <1>3
<1>8. ASSUME NEW i \in DOMAIN gs, NEW j \in DOMAIN gs,
             gs[i].name = gs[j].name, gs[i].report # Blank, gs[j].report # Blank
      PROVE  i = j
  <2>1. at[i] = at[j]
    BY <1>7, <1>8 DEF Listed
  <2> QED BY <1>3, <1>7, <2>1
<1>9. ASSUME NEW i \in DOMAIN gs
      PROVE  /\ gs[i].name = Main /\ gs[i].report # Blank => Well(base, gs[i].report)
             /\ gs[i].mtime \in Nat /\ IsReport(gs[i].report)
  <2>1. at[i] \in DOMAIN fs /\ gs[i] = fs[at[i]]
    BY <1>7
  <2> QED BY <2>1 DEF Listed
<1> QED BY <1>6, <1>8, <1>9 DEF Listed

\* A page of the project lists files, reads and sorts them.
LEMMA ProjectMerges ==
  ASSUME MergeInv, PageInv, ViewInv, ListReports \/ ShowProject \/ \E file \in todo : LoadReport(file)
  PROVE  PageInv'
<1>1. base' = base /\ page' = page /\ view' = view /\ made' = made /\ Listed(base, files)
  BY DEF ListReports, LoadReport, ShowProject, fileVars, PageInv
<1>2. CASE ListReports
  <2>1. step' = "load" /\ files' = files /\ files = <<>> /\ todo' \subseteq DOMAIN dir
    BY <1>2 DEF ListReports, Newest, PageInv
  <2>2. \A f \in todo' : IsFile(f)
    BY <2>1 DEF MergeInv, Stored
  <2>3. DOMAIN files' = {}
    BY <2>1
  <2> QED BY <1>1, <2>1, <2>2, <2>3 DEF PageInv
<1>3. ASSUME NEW file \in todo, LoadReport(file)
      PROVE  PageInv'
  <2> DEFINE r == IF page = "history" THEN Content(file) ELSE Loaded(file)
             f == [name |-> file[1], mtime |-> Changed[file[1]], report |-> r]
  <2>1. /\ step = "load" /\ step' = step /\ todo' = todo \ {file} /\ IsFile(file)
        /\ files' = IF Whole(file) THEN Append(files, f) ELSE files
    BY <1>3 DEF LoadReport, PageInv
  <2>2. f.name = file[1] /\ f.report = r /\ f.mtime \in Nat
    BY <2>1 DEF IsFile
  <2>3. r \in {Content(file), Loaded(file)}
    OBVIOUS
  <2>4. \A g \in todo' : IsFile(g) /\ g # file
    BY <2>1 DEF PageInv
  <2>5. \A g \in todo : g = <<g[1], "report">> =>
          \A i \in DOMAIN files : files[i].name = g[1] => files[i].report = Blank
    BY <2>1 DEF PageInv
  <2>6. CASE Whole(file)
    <3>1. file \in DOMAIN dir
      BY <2>6 DEF Whole, Present
    <3>2. /\ IsReport(r)
          /\ file # <<file[1], "report">> => r = Blank
          /\ file[1] = Main /\ r # Blank => Well(base, r)
      BY <2>3, <2>6, <3>1, FileWell
    <3> DEFINE more == Append(files, f)
    <3> HIDE DEF f, r
    <3>3. f.report # Blank =>
            /\ f.name = Main => Well(base, f.report)
            /\ \A i \in DOMAIN files : files[i].name = f.name => files[i].report = Blank
      BY <2>2, <2>5, <3>2
    <3>4. /\ Listed(base, more)
          /\ \A i \in DOMAIN more : more[i] = f \/ (i \in DOMAIN files /\ more[i] = files[i])
      BY <1>1, <2>2, <3>2, <3>3, ListedAppend
    <3> HIDE DEF more
    <3>5. files' = more
      BY <2>1, <2>6 DEF more
    <3>6. ASSUME NEW g \in todo', g = <<g[1], "report">>,
                 NEW i \in DOMAIN more, more[i].name = g[1]
          PROVE  more[i].report = Blank
      <4>1. CASE more[i] = f
        <5>1. file[1] = g[1] /\ file # g
          BY <2>2, <2>4, <3>6, <4>1
        <5>2. file # <<file[1], "report">>
          BY <3>6, <5>1
        <5> QED BY <2>2, <3>2, <4>1, <5>2
      <4>2. CASE i \in DOMAIN files /\ more[i] = files[i]
        BY <2>1, <2>5, <3>6, <4>2
      <4> QED BY <3>4, <4>1, <4>2
    <3>7. \A g \in todo' : /\ IsFile(g)
                          /\ g = <<g[1], "report">> =>
                               \A i \in DOMAIN files' : files'[i].name = g[1] => files'[i].report = Blank
      BY <2>4, <3>5, <3>6
    <3>8. Listed(base, files')
      BY <3>4, <3>5
    <3> QED BY <1>1, <2>1, <3>7, <3>8 DEF PageInv
  <2>7. CASE ~Whole(file)
    BY <1>1, <2>1, <2>4, <2>5, <2>7 DEF PageInv
  <2> QED BY <2>6, <2>7
<1>4. CASE ShowProject
  <2>1. page # "viewer" /\ step' = "done" /\ todo' = todo
        /\ (files' \in Sorted(files) \/ files' = files)
    BY <1>4 DEF ShowProject, ViewInv
  <2>2. Listed(base, files')
    BY <1>1, <2>1, ListedSorted
  <2> QED BY <1>1, <2>1, <2>2 DEF PageInv
<1> QED BY <1>2, <1>3, <1>4

-----------------------------------------------------------------------------
(* Findings are there once *)

\* Before the engine saves there are reports only, and nothing is merged.
LEMMA InitMerge == Init => MergeInv /\ PageInv
<1> SUFFICES ASSUME Init
             PROVE  MergeInv /\ PageInv
  OBVIOUS
<1>1. PICK project \in Projects :
        /\ Main \in DOMAIN project /\ base = project[Main]
        /\ dir = [f \in {<<n, "report">> : n \in DOMAIN project} |->
                    IF f = MainFile THEN Torn ELSE project[f[1]]]
  BY ProjectsAreReports DEF Init
<1>2. /\ IsReport(base) /\ base.ext = <<>>
      /\ \A f \in ToSet(base.findings) : f.source = "engine"
  BY <1>1, ProjectsAreReports
<1>3. IsDocument(base) /\ base.findings \in Seq(FindingRecord)
  BY <1>2 DEF IsReport, IsDocument, Blank
<1>4. DOMAIN base.ext = {}
  BY <1>2
<1>5. \A i \in 1 .. Len(base.findings) : base.findings[i].source = "engine"
  <2>1. \A i \in 1 .. Len(base.findings) : base.findings[i] \in ToSet(base.findings)
    BY <1>3 DEF ToSet
  <2> QED BY <1>2, <2>1
<1>6. Fit(base, base)
  BY <1>2, <1>3, <1>4 DEF Fit, Artifacts
<1>7. ASSUME NEW p \in DOMAIN PluginFindings
      PROVE  From({p}, base.findings) = <<>>
  <2>1. p # "engine"
    BY PluginsTyped
  <2>2. \A i \in 1 .. Len(base.findings) : base.findings[i].source \notin {p}
    BY <1>5, <2>1
  <2> QED BY <1>3, <2>2, FromNone
<1>8. Well(base, base)
  BY <1>4, <1>7 DEF Well
<1>9. ASSUME NEW f \in DOMAIN dir
      PROVE  /\ IsFile(f)
             /\ f = <<f[1], "report">> /\ dir[f] # Torn => IsReport(dir[f])
             /\ f = MainFile => dir[f] = Torn
             /\ \A p \in ToSet(Specs) : f # SidecarPath(p)
  <2>1. PICK n \in DOMAIN project : f = <<n, "report">>
    BY <1>1
  <2>2. \A p \in ToSet(Specs) : p # "report"
    BY PluginsTyped
  <2>3. IsReport(project[n]) /\ Changed[n] \in Nat
    BY ProjectsAreReports, FilesAreDated
  <2>4. IsFile(f)
    BY <2>1, <2>3 DEF IsFile
  <2>5. dir[f] = Torn \/ dir[f] = project[n]
    BY <1>1, <2>1
  <2>6. f = MainFile => dir[f] = Torn
    BY <1>1
  <2> QED BY <2>1, <2>2, <2>3, <2>4, <2>5, <2>6 DEF SidecarPath
<1>10. Stored(base, dir)
  BY <1>9 DEF Stored
<1>11. job.step = "saving"
  BY DEF Init, EnrichmentInit, Idle
<1>12. PageInv
  BY DEF Init, PageInv, Listed
<1> QED BY <1>6, <1>8, <1>10, <1>11, <1>12 DEF MergeInv, Carried

\* Every step keeps what is on disk, with a job and on a page well merged.
LEMMA NextMerge == IInv /\ MergeInv /\ PageInv /\ [Next]_vars => MergeInv' /\ PageInv'
<1> SUFFICES ASSUME IInv, MergeInv, PageInv, [Next]_vars
             PROVE  MergeInv' /\ PageInv'
  OBVIOUS
<1> USE DEF IInv
<1>1. CASE PageNext
  BY <1>1, PagesMerge, ViewerMerges, ProjectMerges DEF PageNext
<1>2. CASE EnrichmentNext /\ UNCHANGED pageVars
  <2>1. MergeInv'
    BY <1>2, PluginMerges, JobMerges, OthersMerge DEF EnrichmentNext, Advance
  <2>2. base' = base
    BY <1>2 DEF EnrichmentNext, Advance, Save, StartPlugin, OpenSidecar, WriteSidecar, PluginFails,
       PluginsDone, MergeSidecar, WriteTmp, ReplaceReport, EngineEnds, Terminate, ShutdownSaves,
       Kill, StartNext, Delete, Unlink
  <2>3. PageInv'
    BY <1>2, <2>2 DEF PageInv, pageVars, Listed
  <2> QED BY <2>1, <2>3
<1>3. CASE UNCHANGED vars
  BY <1>3 DEF vars, fileVars, pageVars, MergeInv, PageInv, Listed
<1> QED BY <1>1, <1>2, <1>3 DEF Next

\* Reports that are on disk, about to be written or shown are well merged, and
\* sidecars are artifacts of their plugins.
THEOREM MergeInvariant == Spec => [](MergeInv /\ PageInv)
  BY InitMerge, NextMerge, ReportInvariant, PTL DEF Spec

\* On disk and on every page a report has the engine's findings as they were and
\* those of each plugin merged into it exactly once.
THEOREM FindingsAreOnce == Spec => []FindingsOnce
<1>1. MergeInv /\ PageInv => FindingsOnce
  <2> SUFFICES ASSUME MergeInv, PageInv
               PROVE  FindingsOnce
    OBVIOUS
  <2>1. \A r : Well(base, r) => WellMerged(r)
    BY DEF Well, WellMerged
  <2>2. Whole(MainFile) => WellMerged(dir[MainFile])
    BY <2>1, OnDisk
  <2>3. page = "viewer" /\ step = "done" => WellMerged(view)
    BY <2>1 DEF PageInv
  <2>4. \A i \in DOMAIN files :
          files[i].name = Main /\ files[i].report # Blank => WellMerged(files[i].report)
    BY <2>1 DEF PageInv, Listed
  <2> QED BY <2>2, <2>3, <2>4 DEF FindingsOnce
<1> QED BY <1>1, MergeInvariant, PTL

-----------------------------------------------------------------------------
(* Elements picked from a list                                             *)

\* Elements are picked in the order of the list, each as often as it is there.
Chosen(s, C, m, a, pos) ==
  /\ a = [i \in 1 .. Len(a) |-> s[pos[i]]] /\ Len(a) \in Nat
  /\ pos \in [1 .. Len(a) -> 1 .. m]
  /\ \A i \in 1 .. Len(a) : s[pos[i]] \in C
  /\ \A i, j \in 1 .. Len(a) : i < j => pos[i] < pos[j]
  /\ \A k \in 1 .. m : s[k] \in C => \E i \in 1 .. Len(a) : pos[i] = k

\* Among keeps the order of a list and all that is chosen of it.
LEMMA AmongPlaces ==
  ASSUME NEW C, NEW F, NEW s \in Seq(F)
  PROVE  /\ Among(s, C) \in Seq(F)
         /\ \E pos : Chosen(s, C, Len(s), Among(s, C), pos)
<1> DEFINE n == Len(s)
<1>0. n \in Nat
  OBVIOUS
<1>1. PICK f : /\ f \in [0 .. n -> Seq(F)] /\ f[0] = <<>> /\ f[n] = Among(s, C)
               /\ \A k \in 1 .. n : f[k] = Pick(C, f[k - 1], s[k])
  BY AmongSteps
<1> HIDE DEF n
<1> DEFINE G == {k \in 0 .. n : \E pos : Chosen(s, C, k, f[k], pos)}
<1>2. 0 \in G
  <2> DEFINE none == <<>>
  <2>1. Len(none) = 0 /\ 1 .. 0 = {} /\ none = [i \in 1 .. 0 |-> s[none[i]]] /\ none \in [1 .. 0 -> 1 .. 0]
    OBVIOUS
  <2> HIDE DEF none
  <2>2. Chosen(s, C, 0, none, none)
    BY <2>1 DEF Chosen
  <2> QED BY <1>0, <1>1, <2>2 DEF none
<1>3. ASSUME NEW k \in 0 .. n - 1, k \in G
      PROVE  k + 1 \in G
  <2>1. /\ k + 1 \in 1 .. n /\ (k + 1) - 1 = k /\ k + 1 \in 0 .. n /\ k \in 0 .. n /\ k \in Nat
        /\ 1 .. k + 1 = (1 .. k) \cup {k + 1}
    BY <1>0
  <2>2. PICK pos : Chosen(s, C, k, f[k], pos)
    BY <1>3
  <2>3. f[k + 1] = Pick(C, f[k], s[k + 1]) /\ f[k] \in Seq(F)
    BY <1>1, <2>1
  <2>4. CASE s[k + 1] \notin C
    <3>1. f[k + 1] = f[k]
      BY <2>3, <2>4 DEF Pick
    <3>2. Chosen(s, C, k + 1, f[k], pos)
      BY <2>1, <2>2, <2>4 DEF Chosen
    <3> QED BY <2>1, <3>1, <3>2
  <2>5. CASE s[k + 1] \in C
    <3> DEFINE a == f[k]
               b == Append(a, s[k + 1])
               m == Len(a)
               new == [i \in 1 .. m + 1 |-> IF i = m + 1 THEN k + 1 ELSE pos[i]]
    <3>1. f[k + 1] = b
      BY <2>3, <2>5 DEF Pick
    <3>2. /\ m \in Nat /\ Len(b) = m + 1 /\ b[m + 1] = s[k + 1] /\ \A i \in 1 .. m : b[i] = a[i]
          /\ DOMAIN b = 1 .. m + 1 /\ b = [i \in 1 .. m + 1 |-> b[i]]
          /\ \A i \in 1 .. m + 1 : i = m + 1 \/ (i \in 1 .. m /\ i # m + 1)
      BY <2>3
    <3>3. /\ \A i \in 1 .. m : a[i] = s[pos[i]] /\ pos[i] \in 1 .. k /\ s[pos[i]] \in C
          /\ \A i, j \in 1 .. m : i < j => pos[i] < pos[j]
          /\ \A l \in 1 .. k : s[l] \in C => \E i \in 1 .. m : pos[i] = l
      BY <2>2 DEF Chosen
    <3> HIDE DEF a, b, m
    <3>4. new[m + 1] = k + 1 /\ \A i \in 1 .. m : new[i] = pos[i]
      BY <3>2
    <3>5. \A i \in 1 .. m + 1 : new[i] \in 1 .. k + 1 /\ b[i] = s[new[i]] /\ s[new[i]] \in C
      BY <2>1, <2>5, <3>2, <3>3, <3>4
    <3>6. \A i, j \in 1 .. m + 1 : i < j => new[i] < new[j]
      <4> SUFFICES ASSUME NEW i \in 1 .. m + 1, NEW j \in 1 .. m + 1, i < j
                   PROVE  new[i] < new[j]
        OBVIOUS
      <4>1. i \in 1 .. m
        BY <3>2
      <4>2. CASE j = m + 1
        BY <2>1, <3>3, <3>4, <4>1, <4>2
      <4>3. CASE j # m + 1
        BY <3>2, <3>3, <3>4, <4>1, <4>3
      <4> QED BY <4>2, <4>3
    <3>7. \A l \in 1 .. k + 1 : s[l] \in C => \E i \in 1 .. m + 1 : new[i] = l
      <4> SUFFICES ASSUME NEW l \in 1 .. k + 1, s[l] \in C
                   PROVE  \E i \in 1 .. m + 1 : new[i] = l
        OBVIOUS
      <4>1. CASE l = k + 1
        <5>1. m + 1 \in 1 .. m + 1
          BY <3>2
        <5> QED BY <3>4, <4>1, <5>1
      <4>2. CASE l # k + 1
        <5>1. l \in 1 .. k
          BY <2>1, <4>2
        <5>2. PICK i \in 1 .. m : pos[i] = l
          BY <3>3, <5>1
        <5>3. i \in 1 .. m + 1
          BY <3>2
        <5> QED BY <3>4, <5>2, <5>3
      <4> QED BY <4>1, <4>2
    <3>8. DOMAIN new = 1 .. m + 1 /\ new = [i \in 1 .. m + 1 |-> new[i]]
      OBVIOUS
    <3> HIDE DEF new
    <3>9. b = [i \in 1 .. m + 1 |-> s[new[i]]] /\ new \in [1 .. m + 1 -> 1 .. k + 1]
      BY <3>2, <3>5, <3>8
    <3>10. Chosen(s, C, k + 1, b, new)
      BY <3>2, <3>5, <3>6, <3>7, <3>9 DEF Chosen
    <3> QED BY <2>1, <3>1, <3>10
  <2> QED BY <2>4, <2>5
<1> HIDE DEF G
<1>4. \A k \in 0 .. n : k \in G
  BY <1>0, <1>2, <1>3, AllUpTo
<1>5. n \in 0 .. n /\ n \in G
  BY <1>0, <1>4
<1> QED BY <1>1, <1>5 DEF G, n

\* What is picked are the elements of the list that are in the set.
LEMMA AmongAre ==
  ASSUME NEW C, NEW F, NEW s \in Seq(F)
  PROVE  ToSet(Among(s, C)) = ToSet(s) \cap C
<1> DEFINE a == Among(s, C)
<1>1. a \in Seq(F)
  BY AmongPlaces
<1>2. PICK pos : Chosen(s, C, Len(s), a, pos)
  BY AmongPlaces
<1> HIDE DEF a
<1>3. DOMAIN a = 1 .. Len(a) /\ DOMAIN s = 1 .. Len(s)
  BY <1>1
<1>4. \A i \in 1 .. Len(a) : a[i] = s[pos[i]] /\ pos[i] \in 1 .. Len(s) /\ s[pos[i]] \in C
  BY <1>2 DEF Chosen
<1>5. \A k \in 1 .. Len(s) : s[k] \in C => \E i \in 1 .. Len(a) : a[i] = s[k]
  BY <1>2, <1>4 DEF Chosen
<1>6. ToSet(a) = {a[i] : i \in 1 .. Len(a)} /\ ToSet(s) = {s[k] : k \in 1 .. Len(s)}
  BY <1>3 DEF ToSet
<1>7. \A x : x \in ToSet(a) => x \in ToSet(s) \cap C
  BY <1>4, <1>6
<1>8. \A x : x \in ToSet(s) \cap C => x \in ToSet(a)
  BY <1>5, <1>6
<1> QED BY <1>7, <1>8 DEF a

\* As many are picked as there are places to pick from.
LEMMA AmongCounted ==
  ASSUME NEW C, NEW F, NEW s \in Seq(F)
  PROVE  LET places == {k \in 1 .. Len(s) : s[k] \in C}
         IN IsFiniteSet(places) /\ Len(Among(s, C)) = Cardinality(places)
<1> DEFINE a == Among(s, C)
           places == {k \in 1 .. Len(s) : s[k] \in C}
           m == Len(a)
<1>1. PICK pos : Chosen(s, C, Len(s), a, pos)
  BY AmongPlaces
<1>2. m \in Nat /\ pos \in [1 .. m -> places]
  BY <1>1 DEF Chosen
<1>3. \A i, j \in 1 .. m : pos[i] = pos[j] => i = j
  <2> SUFFICES ASSUME NEW i \in 1 .. m, NEW j \in 1 .. m, pos[i] = pos[j], i # j
               PROVE  FALSE
    OBVIOUS
  <2>1. i < j \/ j < i
    BY <1>2
  <2>2. pos[i] \in Nat /\ pos[j] \in Nat
    BY <1>2
  <2> QED BY <1>1, <2>1, <2>2 DEF Chosen
<1>4. \A k \in places : \E i \in 1 .. m : pos[i] = k
  BY <1>1 DEF Chosen
<1> HIDE DEF m, places
<1>5. pos \in Bijection(1 .. m, places)
  BY <1>2, <1>3, <1>4 DEF Bijection, Injection, Surjection, IsInjective
<1>6. ExistsBijection(1 .. m, places)
  BY <1>5 DEF ExistsBijection
<1>7. IsFiniteSet(1 .. m) /\ Cardinality(1 .. m) = m
  <2>1. Cardinality(1 .. m) = IF 1 > m THEN 0 ELSE m - 1 + 1
    BY <1>2, FS_Interval
  <2> QED BY <1>2, <2>1, FS_Interval
<1>8. IsFiniteSet(places) /\ Cardinality(places) = m
  BY <1>6, <1>7, FS_Bijection
<1> QED BY <1>8 DEF m, places

-----------------------------------------------------------------------------
(* Keys of the files of a list, one set of them for each file.              *)

KeysUpTo(ks, k) == UNION {ks[i] : i \in 1 .. k}
At(ks, k, key) == {i \in 1 .. k : key \in ks[i]}

\* One file more has a key or not.
LEMMA UpToMore ==
  ASSUME NEW ks, NEW k \in Nat
  PROVE  KeysUpTo(ks, 0) = {} /\ KeysUpTo(ks, k + 1) = KeysUpTo(ks, k) \cup ks[k + 1]
<1>1. 1 .. k + 1 = (1 .. k) \cup {k + 1} /\ k + 1 \notin 1 .. k /\ 1 .. 0 = {}
  OBVIOUS
<1> QED BY <1>1 DEF KeysUpTo

\* The places of a key among k + 1 files are those among k, and the last when it has the key.
LEMMA AtMore ==
  ASSUME NEW ks, NEW k \in Nat, NEW key
  PROVE  /\ IsFiniteSet(At(ks, k, key)) /\ Cardinality(At(ks, k, key)) \in Nat
         /\ key \in KeysUpTo(ks, k) <=> At(ks, k, key) # {}
         /\ key \notin ks[k + 1] => At(ks, k + 1, key) = At(ks, k, key)
         /\ key \in ks[k + 1] =>
              /\ At(ks, k + 1, key) = At(ks, k, key) \cup {k + 1}
              /\ Cardinality(At(ks, k + 1, key)) = Cardinality(At(ks, k, key)) + 1
<1> DEFINE I == At(ks, k, key)
<1>1. 1 .. k + 1 = (1 .. k) \cup {k + 1} /\ k + 1 \notin 1 .. k
  OBVIOUS
<1>2. IsFiniteSet(1 .. k) /\ I \in SUBSET (1 .. k)
  BY FS_Interval DEF At
<1>3. IsFiniteSet(I)
  BY <1>2, FS_Subset
<1>4. Cardinality(I) \in Nat
  BY <1>3, FS_CardinalityType
<1>5. key \in KeysUpTo(ks, k) <=> I # {}
  BY DEF KeysUpTo, At
<1>6. key \notin ks[k + 1] => At(ks, k + 1, key) = I
  BY <1>1 DEF At
<1>7. key \in ks[k + 1] => At(ks, k + 1, key) = I \cup {k + 1}
  BY <1>1 DEF At
<1>8. k + 1 \notin I
  BY <1>1 DEF At
<1> HIDE DEF I
<1>9. Cardinality(I \cup {k + 1}) = IF k + 1 \in I THEN Cardinality(I) ELSE Cardinality(I) + 1
  BY <1>3, FS_AddElement
<1>10. key \in ks[k + 1] => Cardinality(At(ks, k + 1, key)) = Cardinality(I) + 1
  BY <1>7, <1>8, <1>9
<1> QED BY <1>3, <1>4, <1>5, <1>6, <1>7, <1>10 DEF I

\* When something was first and last seen: in the oldest and in the newest file.
Seen(fs, seen, I) ==
  \E i, j \in I :
    /\ seen = [first |-> Stamp(fs[i]), last |-> Stamp(fs[j])]
    /\ \A m \in I : fs[i].mtime <= fs[m].mtime /\ fs[m].mtime <= fs[j].mtime

\* What one file alone has is dated by it.
LEMMA SeenOnce ==
  ASSUME NEW fs, NEW k, fs[k].mtime \in Nat
  PROVE  Seen(fs, Fresh(fs[k]), {k})
BY DEF Seen, Fresh

\* The dates of what one more file has.
LEMMA SeenMore ==
  ASSUME NEW fs, NEW I, NEW seen, Seen(fs, seen, I), NEW k, \A m \in I \cup {k} : fs[m].mtime \in Nat
  PROVE  Seen(fs, Sighted(seen, fs[k]), I \cup {k})
<1>1. PICK i \in I, j \in I :
        /\ seen = [first |-> Stamp(fs[i]), last |-> Stamp(fs[j])]
        /\ \A m \in I : fs[i].mtime <= fs[m].mtime /\ fs[m].mtime <= fs[j].mtime
  BY DEF Seen
<1> DEFINE a == IF fs[k].mtime < fs[i].mtime THEN k ELSE i
           b == IF fs[k].mtime > fs[j].mtime THEN k ELSE j
<1>2. a \in I \cup {k} /\ b \in I \cup {k}
  OBVIOUS
<1>3. seen.first.at = fs[i].mtime /\ seen.last.at = fs[j].mtime
  BY <1>1 DEF Stamp
<1>4. Sighted(seen, fs[k]) = [first |-> Stamp(fs[a]), last |-> Stamp(fs[b])]
  <2>1. (IF fs[k].mtime < seen.first.at THEN Stamp(fs[k]) ELSE seen.first) = Stamp(fs[a])
    BY <1>1, <1>3
  <2>2. (IF fs[k].mtime > seen.last.at THEN Stamp(fs[k]) ELSE seen.last) = Stamp(fs[b])
    BY <1>1, <1>3
  <2> HIDE DEF a, b
  <2> QED BY <2>1, <2>2 DEF Sighted
<1>5. ASSUME NEW m \in I \cup {k}
      PROVE  fs[a].mtime <= fs[m].mtime /\ fs[m].mtime <= fs[b].mtime
  <2>1. fs[m].mtime \in Nat /\ fs[k].mtime \in Nat /\ fs[i].mtime \in Nat /\ fs[j].mtime \in Nat
    OBVIOUS
  <2>2. m = k \/ (fs[i].mtime <= fs[m].mtime /\ fs[m].mtime <= fs[j].mtime)
    BY <1>1
  <2>3. fs[i].mtime <= fs[j].mtime
    BY <1>1
  <2>4. fs[a].mtime <= fs[m].mtime
    BY <2>1, <2>2
  <2>5. fs[m].mtime <= fs[b].mtime
    BY <2>1, <2>2
  <2> QED BY <2>4, <2>5
<1> HIDE DEF a, b
<1> QED BY <1>2, <1>4, <1>5 DEF Seen

\* The oldest and the newest of some times.
LEMMA LeastIs ==
  ASSUME NEW S \in SUBSET Nat, NEW m \in S
  PROVE  /\ (\A x \in S : m <= x) => Min(S) = m
         /\ (\A x \in S : x <= m) => Max(S) = m
<1>1. ASSUME \A x \in S : m <= x
      PROVE  Min(S) = m
  <2>1. Min(S) \in S /\ \A x \in S : Min(S) <= x
    BY <1>1 DEF Min
  <2>2. Min(S) <= m /\ m <= Min(S) /\ Min(S) \in Nat /\ m \in Nat
    BY <1>1, <2>1
  <2> QED BY <2>2
<1>2. ASSUME \A x \in S : x <= m
      PROVE  Max(S) = m
  <2>1. \A x \in S : m >= x
    BY <1>2
  <2>2. Max(S) \in S /\ \A x \in S : Max(S) >= x
    BY <2>1 DEF Max
  <2>3. Max(S) >= m /\ m >= Max(S) /\ Max(S) \in Nat /\ m \in Nat
    BY <2>1, <2>2
  <2> QED BY <2>3
<1> QED BY <1>1, <1>2

\* There is a least one.
LEMMA LeastOf ==
  ASSUME NEW S \in SUBSET Nat, S # {}
  PROVE  Min(S) \in S /\ \A x \in S : Min(S) <= x
<1>1. PICK m \in S : \A x \in S : ~(<<x, m>> \in OpToRel(<, Nat))
  BY WFMin, NatLessThanWellFounded
<1>2. ASSUME NEW x \in S
      PROVE  m <= x
  <2>1. x \in Nat /\ m \in Nat
    OBVIOUS
  <2> SUFFICES ASSUME x < m
               PROVE  FALSE
    BY <2>1
  <2>2. <<x, m>> \in OpToRel(<, Nat)
    BY <2>1 DEF OpToRel
  <2> QED BY <1>1, <2>2
<1> QED BY <1>2 DEF Min

-----------------------------------------------------------------------------
(* The roll-up *)

\* Reports are added one by one.
LEMMA RollSteps ==
  ASSUME NEW fs, NEW n \in Nat, n = Len(fs)
  PROVE  \E roll : /\ roll[0] = NoReports /\ roll[n] = AggregateReports(fs)
                   /\ \A k \in 1 .. n : roll[k] = AddReport(roll[k - 1], fs[k])
<1> DEFINE Eq(m, f) ==
      f = [i \in 0 .. m |-> IF i = 0 THEN NoReports ELSE AddReport(f[i - 1], fs[i])]
           G == {m \in 0 .. n : \E f : Eq(m, f)}
<1>1. 0 \in G
  <2> DEFINE f == [i \in 0 .. 0 |-> NoReports]
  <2>1. f = [i \in 0 .. 0 |-> IF i = 0 THEN NoReports ELSE AddReport(f[i - 1], fs[i])]
    OBVIOUS
  <2> HIDE DEF f
  <2>2. Eq(0, f)
    BY <2>1
  <2> QED BY <2>2
<1>2. ASSUME NEW m \in 0 .. n - 1, m \in G
      PROVE  m + 1 \in G
  <2>1. PICK f : Eq(m, f)
    BY <1>2
  <2> DEFINE new == [i \in 0 .. m + 1 |-> IF i = m + 1 THEN AddReport(f[m], fs[m + 1]) ELSE f[i]]
  <2>2. /\ m \in Nat /\ m + 1 \in 0 .. n /\ (m + 1) - 1 = m /\ m + 1 # 0
        /\ \A i \in 0 .. m + 1 : i = m + 1 \/ (i \in 0 .. m /\ i # m + 1)
        /\ \A i \in 0 .. m : i # 0 => i - 1 \in 0 .. m
        /\ \A i \in 0 .. m : i # m + 1 /\ i \in 0 .. m + 1
        /\ m \in 0 .. m /\ m + 1 \in 0 .. m + 1
    OBVIOUS
  <2>3. \A i \in 0 .. m : new[i] = f[i]
    BY <2>2
  <2>4. new[m + 1] = AddReport(f[m], fs[m + 1])
    BY <2>2
  <2>5. \A i \in 0 .. m : f[i] = IF i = 0 THEN NoReports ELSE AddReport(f[i - 1], fs[i])
    BY <2>1
  <2>6. new = [i \in 0 .. m + 1 |-> new[i]]
    OBVIOUS
  <2> HIDE DEF new
  <2>7. \A i \in 0 .. m + 1 : new[i] = IF i = 0 THEN NoReports ELSE AddReport(new[i - 1], fs[i])
    BY <2>2, <2>3, <2>4, <2>5
  <2>8. Eq(m + 1, new)
    BY <2>6, <2>7
  <2> HIDE DEF Eq
  <2> QED BY <2>2, <2>8
<1>3. n \in G
  <2> HIDE DEF G
  <2>1. \A k \in 0 .. n : k \in G
    BY <1>1, <1>2, AllUpTo
  <2> QED BY <2>1
<1>4. PICK f : Eq(n, f) /\ AggregateReports(fs) = f[n]
  BY <1>3 DEF AggregateReports
<1>5. f[0] = NoReports /\ \A k \in 1 .. n : f[k] = AddReport(f[k - 1], fs[k])
  <2>1. 0 \in 0 .. n /\ \A k \in 1 .. n : k \in 0 .. n /\ k # 0
    OBVIOUS
  <2>2. \A i \in 0 .. n : f[i] = IF i = 0 THEN NoReports ELSE AddReport(f[i - 1], fs[i])
    BY <1>4
  <2> HIDE DEF Eq
  <2> QED BY <2>1, <2>2
<1> QED BY <1>4, <1>5

AssetFields == {"seen", "reports", "macs", "ips", "roles", "vendors", "protos"}

KeysOf(fs) == [i \in 1 .. Len(fs) |-> AssetKeys(fs[i].report)]

\* The assets of the first k reports.
AssetsAre(fs, k, assets) ==
  /\ DOMAIN assets = KeysUpTo(KeysOf(fs), k)
  /\ \A key \in DOMAIN assets :
       /\ DOMAIN assets[key] = AssetFields
       /\ assets[key].reports = Cardinality(At(KeysOf(fs), k, key))
       /\ Seen(fs, assets[key].seen, At(KeysOf(fs), k, key))

\* An asset is added, or sighted once more.
LEMMA AssetAdded ==
  ASSUME NEW assets, NEW key, NEW file, key \in DOMAIN assets => DOMAIN assets[key] = AssetFields
  PROVE  LET new == AddAsset(assets, key, file)
         IN /\ DOMAIN new = AssetFields
            /\ new.reports = (IF key \in DOMAIN assets THEN assets[key].reports ELSE 0) + 1
            /\ new.seen = IF key \in DOMAIN assets THEN Sighted(assets[key].seen, file) ELSE Fresh(file)
<1> DEFINE old == IF key \in DOMAIN assets
                  THEN [assets[key] EXCEPT !.seen = Sighted(@, file)]
                  ELSE [seen |-> Fresh(file), reports |-> 0, macs |-> {}, ips |-> {}, roles |-> {},
                        vendors |-> {}, protos |-> {}]
<1>1. /\ DOMAIN old = AssetFields
      /\ old.reports = IF key \in DOMAIN assets THEN assets[key].reports ELSE 0
      /\ old.seen = IF key \in DOMAIN assets THEN Sighted(assets[key].seen, file) ELSE Fresh(file)
  BY DEF AssetFields
<1>2. \A a, b, c, d, e :
        LET new == [old EXCEPT !.reports = @ + 1, !.macs = a, !.ips = b, !.roles = c, !.vendors = d,
                               !.protos = e]
        IN DOMAIN new = AssetFields /\ new.reports = old.reports + 1 /\ new.seen = old.seen
  BY <1>1 DEF AssetFields
<1> HIDE DEF old
<1>3. \E a, b, c, d, e :
        AddAsset(assets, key, file)
          = [old EXCEPT !.reports = @ + 1, !.macs = a, !.ips = b, !.roles = c, !.vendors = d, !.protos = e]
  BY DEF AddAsset, old
<1> QED BY <1>1, <1>2, <1>3

\* The assets of one report more.
LEMMA AssetsMore ==
  ASSUME NEW fs, NEW k \in Nat, k + 1 \in 1 .. Len(fs), Len(fs) \in Nat,
         \A i \in 1 .. Len(fs) : fs[i].mtime \in Nat,
         NEW roll, AssetsAre(fs, k, roll.assets)
  PROVE  AssetsAre(fs, k + 1, AddReport(roll, fs[k + 1]).assets)
<1> DEFINE ks == KeysOf(fs)
           old == roll.assets
           new == AddReport(roll, fs[k + 1]).assets
           K == ks[k + 1]
<1>1. K = AssetKeys(fs[k + 1].report)
  BY DEF KeysOf
<1>2. /\ DOMAIN new = DOMAIN old \cup K
      /\ \A key \in DOMAIN new : new[key] = IF key \in K THEN AddAsset(old, key, fs[k + 1]) ELSE old[key]
  BY <1>1 DEF AddReport
<1>3. /\ DOMAIN old = KeysUpTo(ks, k)
      /\ \A key \in DOMAIN old : /\ DOMAIN old[key] = AssetFields
                                 /\ old[key].reports = Cardinality(At(ks, k, key))
                                 /\ Seen(fs, old[key].seen, At(ks, k, key))
  BY DEF AssetsAre
<1> HIDE DEF ks, old, new
<1>4. DOMAIN new = KeysUpTo(ks, k + 1)
  BY <1>2, <1>3, UpToMore
<1>5. ASSUME NEW key \in DOMAIN new
      PROVE  /\ DOMAIN new[key] = AssetFields
             /\ new[key].reports = Cardinality(At(ks, k + 1, key))
             /\ Seen(fs, new[key].seen, At(ks, k + 1, key))
  <2> DEFINE I == At(ks, k, key)
  <2>1. \A m \in I \cup {k + 1} : fs[m].mtime \in Nat
    BY DEF At
  <2>2. CASE key \notin K
    <3>1. key \in DOMAIN old /\ new[key] = old[key] /\ At(ks, k + 1, key) = I
      BY <1>2, <2>2, AtMore
    <3> QED BY <1>3, <3>1
  <2>3. CASE key \in K
    <3>1. At(ks, k + 1, key) = I \cup {k + 1} /\ Cardinality(At(ks, k + 1, key)) = Cardinality(I) + 1
      <4> HIDE DEF I
      <4>1. /\ At(ks, k + 1, key) = At(ks, k, key) \cup {k + 1}
            /\ Cardinality(At(ks, k + 1, key)) = Cardinality(At(ks, k, key)) + 1
        BY <2>3, AtMore
      <4> QED BY <4>1 DEF I
    <3>2. new[key] = AddAsset(old, key, fs[k + 1])
      BY <1>2, <2>3
    <3>3. /\ DOMAIN new[key] = AssetFields
          /\ new[key].reports = (IF key \in DOMAIN old THEN old[key].reports ELSE 0) + 1
          /\ new[key].seen = IF key \in DOMAIN old THEN Sighted(old[key].seen, fs[k + 1])
                             ELSE Fresh(fs[k + 1])
      BY <1>3, <3>2, AssetAdded
    <3>4. CASE key \in DOMAIN old
      <4>1. Seen(fs, Sighted(old[key].seen, fs[k + 1]), I \cup {k + 1})
        BY <1>3, <2>1, <3>4, SeenMore
      <4> QED BY <1>3, <3>1, <3>3, <3>4, <4>1
    <3>5. CASE key \notin DOMAIN old
      <4>1. I = {}
        BY <1>3, <3>5, AtMore
      <4>2. Cardinality(I) = 0
        BY <4>1, FS_EmptySet
      <4>3. Seen(fs, Fresh(fs[k + 1]), {k + 1})
        BY <2>1, SeenOnce
      <4> QED BY <3>1, <3>3, <3>5, <4>1, <4>2, <4>3
    <3> QED BY <3>4, <3>5
  <2> QED BY <2>2, <2>3
<1> QED BY <1>4, <1>5 DEF AssetsAre, ks, new

-----------------------------------------------------------------------------
(* The histories of assets                                                 *)

\* What the histories of the pages say of ps.
LEMMA Told ==
  ASSUME NEW ps
  PROVE  /\ DOMAIN PeerHistory(ps) = UNION {p.peers : p \in ToSet(ps)}
         /\ \A x \in DOMAIN PeerHistory(ps) :
              PeerHistory(ps)[x].first = Among(ps, {p \in ToSet(ps) : x \in p.peers})[1].name
         /\ DOMAIN FindingHistory(ps) = UNION {p.findings : p \in ToSet(ps)}
         /\ \A x \in DOMAIN FindingHistory(ps) :
              FindingHistory(ps)[x].first = Among(ps, {p \in ToSet(ps) : x \in p.findings})[1].name
         /\ DOMAIN ProtocolHistory(ps) = UNION {p.protos : p \in ToSet(ps)}
         /\ \A x \in DOMAIN ProtocolHistory(ps) :
              ProtocolHistory(ps)[x].isNew = (x \notin UNION {p.protos : p \in ToSet(Front(ps))})
<1>1. /\ DOMAIN PeerHistory(ps) = UNION {p.peers : p \in ToSet(ps)}
      /\ \A x \in DOMAIN PeerHistory(ps) :
           PeerHistory(ps)[x].first = Among(ps, {p \in ToSet(ps) : x \in p.peers})[1].name
  BY DEF PeerHistory, History, Peers
<1>2. /\ DOMAIN FindingHistory(ps) = UNION {p.findings : p \in ToSet(ps)}
      /\ \A x \in DOMAIN FindingHistory(ps) :
           FindingHistory(ps)[x].first = Among(ps, {p \in ToSet(ps) : x \in p.findings})[1].name
  BY DEF FindingHistory, History, Findings
<1>3. /\ DOMAIN ProtocolHistory(ps) = UNION {p.protos : p \in ToSet(ps)}
      /\ \A x \in DOMAIN ProtocolHistory(ps) :
           ProtocolHistory(ps)[x].isNew = (x \notin UNION {p.protos : p \in ToSet(Front(ps))})
  BY DEF ProtocolHistory, History, Protos, BaselineOf, Earlier
<1> QED BY <1>1, <1>2, <1>3

\* What the last report has and none before it had, and what it lacks of theirs.
LEMMA Changes ==
  ASSUME NEW ps
  PROVE  /\ Novelty(ps).newPeers = Last(ps).peers \ UNION {p.peers : p \in ToSet(Front(ps))}
         /\ Novelty(ps).newFindings = Last(ps).findings \ UNION {p.findings : p \in ToSet(Front(ps))}
         /\ Novelty(ps).newProtocols = Last(ps).protos \ UNION {p.protos : p \in ToSet(Front(ps))}
         /\ Novelty(ps).lostProtocols = (UNION {p.protos : p \in ToSet(Front(ps))}) \ Last(ps).protos
         /\ Novelty(ps).lostPeers = (UNION {p.peers : p \in ToSet(Front(ps))}) \ Last(ps).peers
         /\ \E before : /\ before = IF Len(ps) >= 2 THEN {ps[Len(ps) - 1]} ELSE {}
                        /\ Delta(ps).peers.added = Last(ps).peers \ UNION {p.peers : p \in before}
                        /\ Delta(ps).findings.added = Last(ps).findings \ UNION {p.findings : p \in before}
                        /\ Delta(ps).protocols.removed = (UNION {p.protos : p \in before}) \ Last(ps).protos
                        /\ Delta(ps).peers.removed = (UNION {p.peers : p \in before}) \ Last(ps).peers
<1>1. /\ Novelty(ps).newPeers = Last(ps).peers \ UNION {p.peers : p \in ToSet(Front(ps))}
      /\ Novelty(ps).newFindings = Last(ps).findings \ UNION {p.findings : p \in ToSet(Front(ps))}
      /\ Novelty(ps).newProtocols = Last(ps).protos \ UNION {p.protos : p \in ToSet(Front(ps))}
      /\ Novelty(ps).lostProtocols = (UNION {p.protos : p \in ToSet(Front(ps))}) \ Last(ps).protos
      /\ Novelty(ps).lostPeers = (UNION {p.peers : p \in ToSet(Front(ps))}) \ Last(ps).peers
  BY DEF Novelty, BaselineOf, Earlier, Peers, Findings, Protos
<1> DEFINE before == IF Len(ps) >= 2 THEN {ps[Len(ps) - 1]} ELSE {}
<1>2. /\ Delta(ps).peers.added = Last(ps).peers \ UNION {p.peers : p \in before}
      /\ Delta(ps).findings.added = Last(ps).findings \ UNION {p.findings : p \in before}
      /\ Delta(ps).protocols.removed = (UNION {p.protos : p \in before}) \ Last(ps).protos
      /\ Delta(ps).peers.removed = (UNION {p.peers : p \in before}) \ Last(ps).peers
  BY DEF Delta, Peers, Findings, Protos, Anomalies
<1> QED BY <1>1, <1>2

\* All but the last of a list.
LEMMA Fronts ==
  ASSUME NEW P, NEW ps \in Seq(P), ps # <<>>
  PROVE  /\ Len(ps) \in Nat \ {0} /\ Last(ps) = ps[Len(ps)]
         /\ ToSet(ps) = {ps[i] : i \in 1 .. Len(ps)}
         /\ ToSet(Front(ps)) = {ps[i] : i \in 1 .. Len(ps) - 1}
<1> DEFINE n == Len(ps)
           front == SubSeq(ps, 1, n - 1)
<1>1. n \in Nat \ {0} /\ DOMAIN ps = 1 .. n
  OBVIOUS
<1>2. DOMAIN front = 1 .. n - 1 /\ \A i \in 1 .. n - 1 : front[i] = ps[i]
  BY <1>1
<1>3. Front(ps) = front
  BY DEF Front
<1> HIDE DEF front
<1>4. ToSet(Front(ps)) = {ps[i] : i \in 1 .. n - 1}
  BY <1>2, <1>3 DEF ToSet
<1> QED BY <1>1, <1>4 DEF ToSet, Last

\* What was first seen in the last element is in no other.
LEMMA FirstSeen ==
  ASSUME NEW P, NEW ps \in Seq(P), ps # <<>>,
         \A i, j \in 1 .. Len(ps) : ps[i].name = ps[j].name => i = j,
         NEW C, \E i \in 1 .. Len(ps) : ps[i] \in C
  PROVE  (Among(ps, C)[1].name = Last(ps).name) <=>
           (ps[Len(ps)] \in C /\ \A i \in 1 .. Len(ps) - 1 : ps[i] \notin C)
<1> DEFINE n == Len(ps)
           a == Among(ps, C)
<1>1. n \in Nat \ {0} /\ Last(ps) = ps[n]
  BY Fronts
<1>2. PICK pos : Chosen(ps, C, n, a, pos)
  BY AmongPlaces
<1> HIDE DEF a, n
<1>3. PICK w \in 1 .. n : ps[w] \in C
  BY DEF n
<1>4. Len(a) \in Nat /\ \E i \in 1 .. Len(a) : pos[i] = w
  BY <1>2, <1>3 DEF Chosen
<1>5. 1 \in 1 .. Len(a)
  BY <1>4
<1>6. a[1] = ps[pos[1]] /\ pos[1] \in 1 .. n /\ ps[pos[1]] \in C
  BY <1>2, <1>5 DEF Chosen
<1>7. \A k \in 1 .. n : ps[k] \in C => pos[1] <= k
  <2> SUFFICES ASSUME NEW k \in 1 .. n, ps[k] \in C
               PROVE  pos[1] <= k
    OBVIOUS
  <2>1. PICK i \in 1 .. Len(a) : pos[i] = k
    BY <1>2 DEF Chosen
  <2>2. i = 1 \/ 1 < i
    BY <1>4
  <2>3. 1 < i => pos[1] < pos[i]
    BY <1>2, <1>5 DEF Chosen
  <2> QED BY <1>1, <1>6, <2>1, <2>2, <2>3
<1>8. n \in 1 .. n /\ (a[1].name = Last(ps).name <=> pos[1] = n)
  <2>1. n \in 1 .. n
    BY <1>1
  <2> QED BY <1>1, <1>6, <2>1 DEF n
<1>9. ASSUME pos[1] = n, NEW i \in 1 .. n - 1
      PROVE  ps[i] \notin C
  <2>1. i \in 1 .. n /\ i < n
    BY <1>1
  <2> QED BY <1>1, <1>7, <1>9, <2>1
<1>10. ASSUME \A i \in 1 .. n - 1 : ps[i] \notin C
       PROVE  pos[1] = n
  <2>1. pos[1] = n \/ pos[1] \in 1 .. n - 1
    BY <1>1, <1>6
  <2> QED BY <1>6, <1>10, <2>1
<1> QED BY <1>6, <1>8, <1>9, <1>10 DEF a, n

\* The node found is one that carries the address.
LEMMA FindsNode ==
  ASSUME NEW r, IsReport(r), NEW key
  PROVE  FindNode(r, key) # 0 <=> \E i \in 1 .. Len(r.nodes) : Carries(r.nodes[i], key)
<1> DEFINE I == {i \in 1 .. Len(r.nodes) : Carries(r.nodes[i], key)}
<1>1. FindNode(r, key) = IF I # {} THEN Min(I) ELSE 0
  BY DEF FindNode, SelectInSeq
<1>2. Len(r.nodes) \in Nat
  BY DEF IsReport
<1>3. I \in SUBSET Nat /\ 0 \notin I
  BY <1>2
<1>4. I # {} => Min(I) \in I
  <2> HIDE DEF I
  <2> QED BY <1>3, LeastOf
<1> QED BY <1>1, <1>3, <1>4

\* A MAC finds nodes in the reports that have it as an asset.
LEMMA MacsAreAssets ==
  ASSUME NEW r, IsReport(r), NEW key \in MACs
  PROVE  FindNode(r, key) # 0 <=> key \in AssetKeys(r)
<1>1. key # None /\ key \notin IPs
  BY AddressesDiffer DEF Addresses
<1>2. r.nodes \in Seq(NodeRecord)
  BY DEF IsReport
<1>3. \A i \in 1 .. Len(r.nodes) : r.nodes[i] \in NodeRecord
  BY <1>2
<1>4. \A n \in NodeRecord : n.mac = key <=> AssetKey(n) = key
  BY <1>1 DEF NodeRecord, AssetKey
<1>5. \A n : Carries(n, key) <=> n.mac = key
  BY DEF Carries
<1>6. ToSet(r.nodes) = {r.nodes[i] : i \in 1 .. Len(r.nodes)}
  BY <1>2 DEF ToSet
<1>7. key \in AssetKeys(r) <=> \E i \in 1 .. Len(r.nodes) : AssetKey(r.nodes[i]) = key
  BY <1>1, <1>6 DEF AssetKeys
<1> QED BY <1>3, <1>4, <1>5, <1>7, FindsNode

\* The assets of all reports.
LEMMA AssetsRolled ==
  ASSUME NEW S, NEW fs \in Seq(S), \A i \in 1 .. Len(fs) : fs[i].mtime \in Nat
  PROVE  AssetsAre(fs, Len(fs), AggregateReports(fs).assets)
<1> DEFINE n == Len(fs)
<1>1. n \in Nat
  OBVIOUS
<1>2. PICK roll : /\ roll[0] = NoReports /\ roll[n] = AggregateReports(fs)
                  /\ \A k \in 1 .. n : roll[k] = AddReport(roll[k - 1], fs[k])
  BY <1>1, RollSteps
<1> HIDE DEF n
<1> DEFINE G == {k \in 0 .. n : AssetsAre(fs, k, roll[k].assets)}
<1>3. 0 \in G
  <2>1. roll[0].assets = <<>> /\ DOMAIN <<>> = {}
    BY <1>2 DEF NoReports
  <2>2. KeysUpTo(KeysOf(fs), 0) = {}
    BY UpToMore
  <2>3. DOMAIN roll[0].assets = {}
    BY <2>1
  <2>4. AssetsAre(fs, 0, roll[0].assets)
    BY <2>2, <2>3 DEF AssetsAre
  <2> QED BY <1>1, <2>4
<1>4. ASSUME NEW k \in 0 .. n - 1, k \in G
      PROVE  k + 1 \in G
  <2>1. k + 1 \in 1 .. n /\ (k + 1) - 1 = k /\ k + 1 \in 0 .. n /\ k \in Nat
    BY <1>1
  <2>2. roll[k + 1] = AddReport(roll[k], fs[k + 1])
    BY <1>2, <2>1
  <2>3. AssetsAre(fs, k, roll[k].assets)
    BY <1>4
  <2>4. AssetsAre(fs, k + 1, AddReport(roll[k], fs[k + 1]).assets)
    BY <1>1, <2>1, <2>3, AssetsMore DEF n
  <2> QED BY <2>1, <2>2, <2>4
<1> HIDE DEF G
<1>5. \A k \in 0 .. n : k \in G
  BY <1>1, <1>3, <1>4, AllUpTo
<1>6. n \in G
  BY <1>1, <1>5
<1> QED BY <1>2, <1>6 DEF G, n

ShownIn(fs, key) == {k \in 1 .. Len(fs) : FindNode(fs[k].report, key) # 0}

\* The reports that show an asset, by the names of their files.
LEMMA Showing ==
  ASSUME NEW fs, Listed(base, fs), NEW key
  PROVE  /\ \E P : Presences(fs, key) \in Seq(P)
         /\ \A i, j \in 1 .. Len(Presences(fs, key)) :
              Presences(fs, key)[i].name = Presences(fs, key)[j].name => i = j
         /\ Len(Presences(fs, key)) = Cardinality(ShownIn(fs, key))
<1> DEFINE C == {f \in ToSet(fs) : FindNode(f.report, key) # 0}
           showing == Among(fs, C)
           m == Len(showing)
           shows == ShownIn(fs, key)
           ps == Presences(fs, key)
<1>1. PICK S : fs \in Seq(S)
  BY DEF Listed
<1>2. \A k \in 1 .. Len(fs) : fs[k] \in C <=> FindNode(fs[k].report, key) # 0
  BY <1>1 DEF ToSet
<1> HIDE DEF C
<1>3. m = Cardinality(shows)
  <2>1. shows = {k \in 1 .. Len(fs) : fs[k] \in C}
    BY <1>2 DEF ShownIn
  <2> QED BY <1>1, <2>1, AmongCounted
<1>4. showing \in Seq(S) /\ \E pos : Chosen(fs, C, Len(fs), showing, pos)
  BY <1>1, AmongPlaces
<1>5. PICK pos : Chosen(fs, C, Len(fs), showing, pos)
  BY <1>4
<1>6. ps = [i \in DOMAIN showing |-> Presence(showing[i], key)]
  BY DEF Presences, C
<1> HIDE DEF showing, shows, ps
<1>7. DOMAIN showing = 1 .. m /\ m \in Nat
  BY <1>4
<1> DEFINE P == {Presence(showing[i], key) : i \in 1 .. m}
<1>8. ps \in [1 .. m -> P] /\ \A i \in 1 .. m : ps[i] = Presence(showing[i], key)
  BY <1>6, <1>7
<1>9. ps \in Seq(P) /\ Len(ps) = m
  BY <1>7, <1>8
<1>10. \A i \in 1 .. m : ps[i].name = showing[i].name
  <2>1. \A f : Presence(f, key).name = f.name
    BY DEF Presence
  <2> HIDE DEF P
  <2> QED BY <1>8, <2>1
<1> HIDE DEF m, P
<1>11. \A i \in 1 .. m : /\ showing[i] = fs[pos[i]] /\ pos[i] \in 1 .. Len(fs)
                         /\ FindNode(fs[pos[i]].report, key) # 0
  BY <1>2, <1>5 DEF Chosen, m
<1>12. \A i, j \in 1 .. m : i < j => pos[i] # pos[j]
  <2> SUFFICES ASSUME NEW i \in 1 .. m, NEW j \in 1 .. m, i < j
               PROVE  pos[i] # pos[j]
    OBVIOUS
  <2>1. pos[i] < pos[j]
    BY <1>5 DEF Chosen, m
  <2>2. pos[i] \in Nat /\ pos[j] \in Nat
    BY <1>1, <1>11
  <2> QED BY <2>1, <2>2
<1>13. \A i, j \in 1 .. m : pos[i] = pos[j] => i = j
  <2> SUFFICES ASSUME NEW i \in 1 .. m, NEW j \in 1 .. m, pos[i] = pos[j], i # j
               PROVE  FALSE
    OBVIOUS
  <2>1. i < j \/ j < i
    BY <1>7
  <2> QED BY <1>12, <2>1
<1>14. \A k \in DOMAIN fs : FindNode(fs[k].report, key) # 0 => fs[k].report # Blank
  <2>1. FindNode(Blank, key) = 0
    <3>1. Blank.nodes = <<>> /\ Len(<<>>) = 0
      BY DEF Blank
    <3>2. ~(\E i \in 1 .. Len(Blank.nodes) : Carries(Blank.nodes[i], key))
      BY <3>1
    <3> QED BY <3>2, BlankIsReport, FindsNode
  <2> QED BY <2>1
<1>15. ASSUME NEW i \in 1 .. m, NEW j \in 1 .. m, ps[i].name = ps[j].name
       PROVE  i = j
  <2>1. pos[i] \in DOMAIN fs /\ pos[j] \in DOMAIN fs
    BY <1>1, <1>11
  <2>2. fs[pos[i]].name = fs[pos[j]].name /\ fs[pos[i]].report # Blank /\ fs[pos[j]].report # Blank
    BY <1>10, <1>11, <1>14, <1>15, <2>1
  <2>3. pos[i] = pos[j]
    BY <2>1, <2>2 DEF Listed
  <2> QED BY <1>13, <2>3
<1>16. \A i, j \in 1 .. Len(ps) : ps[i].name = ps[j].name => i = j
  BY <1>9, <1>15
<1>17. Len(ps) = Cardinality(shows)
  BY <1>3, <1>9
<1> QED BY <1>9, <1>16, <1>17 DEF ps, shows

\* A history of one asset is coherent.
LEMMA HistoryCoheres ==
  ASSUME NEW P, NEW ps \in Seq(P), ps # <<>>,
         \A i, j \in 1 .. Len(ps) : ps[i].name = ps[j].name => i = j
  PROVE  /\ \A x \in DOMAIN PeerHistory(ps) :
              (x \in Novelty(ps).newPeers) = (PeerHistory(ps)[x].first = Last(ps).name)
         /\ \A x \in DOMAIN FindingHistory(ps) :
              (x \in Novelty(ps).newFindings) = (FindingHistory(ps)[x].first = Last(ps).name)
         /\ \A x \in DOMAIN ProtocolHistory(ps) :
              ProtocolHistory(ps)[x].isNew = (x \in Novelty(ps).newProtocols)
         /\ Novelty(ps).newPeers \subseteq Delta(ps).peers.added
         /\ Novelty(ps).newFindings \subseteq Delta(ps).findings.added
         /\ Delta(ps).protocols.removed \subseteq Novelty(ps).lostProtocols
         /\ Delta(ps).peers.removed \subseteq Novelty(ps).lostPeers
<1> DEFINE n == Len(ps)
<1>1. /\ n \in Nat \ {0} /\ Last(ps) = ps[n]
      /\ ToSet(ps) = {ps[i] : i \in 1 .. n}
      /\ ToSet(Front(ps)) = {ps[i] : i \in 1 .. n - 1}
  BY Fronts
<1>2. \A i \in 1 .. n : i = n \/ i \in 1 .. n - 1
  BY <1>1
<1>3. ASSUME NEW C, \E i \in 1 .. n : ps[i] \in C
      PROVE  (Among(ps, C)[1].name = Last(ps).name) <=>
               (ps[n] \in C /\ \A i \in 1 .. n - 1 : ps[i] \notin C)
  BY <1>3, FirstSeen
<1> HIDE DEF n
<1>4. ASSUME NEW x \in DOMAIN PeerHistory(ps)
      PROVE  (x \in Novelty(ps).newPeers) = (PeerHistory(ps)[x].first = Last(ps).name)
  <2> DEFINE C == {p \in ToSet(ps) : x \in p.peers}
  <2>1. PeerHistory(ps)[x].first = Among(ps, C)[1].name
    BY Told
  <2>2. \E i \in 1 .. n : x \in ps[i].peers
    <3>1. x \in UNION {p.peers : p \in ToSet(ps)}
      BY Told
    <3>2. PICK p \in ToSet(ps) : x \in p.peers
      BY <3>1
    <3> QED BY <1>1, <3>2
  <2>3. \A i \in 1 .. n : ps[i] \in C <=> x \in ps[i].peers
    BY <1>1
  <2> HIDE DEF C
  <2>4. (Among(ps, C)[1].name = Last(ps).name) <=>
          (x \in ps[n].peers /\ \A i \in 1 .. n - 1 : x \notin ps[i].peers)
    <3>1. \A i \in 1 .. n - 1 : i \in 1 .. n
      BY <1>1
    <3>2. n \in 1 .. n
      BY <1>1
    <3>3. \E i \in 1 .. n : ps[i] \in C
      BY <2>2, <2>3
    <3>4. (Among(ps, C)[1].name = Last(ps).name) <=>
            (ps[n] \in C /\ \A i \in 1 .. n - 1 : ps[i] \notin C)
      BY <1>3, <3>3
    <3> QED BY <2>3, <3>1, <3>2, <3>4
  <2>5. x \in Novelty(ps).newPeers <=>
          (x \in ps[n].peers /\ \A i \in 1 .. n - 1 : x \notin ps[i].peers)
    BY <1>1, Changes
  <2> QED BY <2>1, <2>4, <2>5
<1>5. ASSUME NEW x \in DOMAIN FindingHistory(ps)
      PROVE  (x \in Novelty(ps).newFindings) = (FindingHistory(ps)[x].first = Last(ps).name)
  <2> DEFINE C == {p \in ToSet(ps) : x \in p.findings}
  <2>1. FindingHistory(ps)[x].first = Among(ps, C)[1].name
    BY Told
  <2>2. \E i \in 1 .. n : x \in ps[i].findings
    <3>1. x \in UNION {p.findings : p \in ToSet(ps)}
      BY Told
    <3>2. PICK p \in ToSet(ps) : x \in p.findings
      BY <3>1
    <3> QED BY <1>1, <3>2
  <2>3. \A i \in 1 .. n : ps[i] \in C <=> x \in ps[i].findings
    BY <1>1
  <2> HIDE DEF C
  <2>4. (Among(ps, C)[1].name = Last(ps).name) <=>
          (x \in ps[n].findings /\ \A i \in 1 .. n - 1 : x \notin ps[i].findings)
    <3>1. \A i \in 1 .. n - 1 : i \in 1 .. n
      BY <1>1
    <3>2. n \in 1 .. n
      BY <1>1
    <3>3. \E i \in 1 .. n : ps[i] \in C
      BY <2>2, <2>3
    <3>4. (Among(ps, C)[1].name = Last(ps).name) <=>
            (ps[n] \in C /\ \A i \in 1 .. n - 1 : ps[i] \notin C)
      BY <1>3, <3>3
    <3> QED BY <2>3, <3>1, <3>2, <3>4
  <2>5. x \in Novelty(ps).newFindings <=>
          (x \in ps[n].findings /\ \A i \in 1 .. n - 1 : x \notin ps[i].findings)
    BY <1>1, Changes
  <2> QED BY <2>1, <2>4, <2>5
<1>6. ASSUME NEW x \in DOMAIN ProtocolHistory(ps)
      PROVE  ProtocolHistory(ps)[x].isNew = (x \in Novelty(ps).newProtocols)
  <2>1. \E i \in 1 .. n : x \in ps[i].protos
    <3>1. x \in UNION {p.protos : p \in ToSet(ps)}
      BY Told
    <3>2. PICK p \in ToSet(ps) : x \in p.protos
      BY <3>1
    <3> QED BY <1>1, <3>2
  <2>2. x \notin UNION {p.protos : p \in ToSet(Front(ps))} => x \in ps[n].protos
    BY <1>1, <1>2, <2>1
  <2>3. ProtocolHistory(ps)[x].isNew = (x \notin UNION {p.protos : p \in ToSet(Front(ps))})
    BY Told
  <2>4. x \in Novelty(ps).newProtocols <=>
          (x \in ps[n].protos /\ x \notin UNION {p.protos : p \in ToSet(Front(ps))})
    BY <1>1, Changes
  <2> QED BY <2>2, <2>3, <2>4
<1>7. PICK before : /\ before = IF Len(ps) >= 2 THEN {ps[Len(ps) - 1]} ELSE {}
                    /\ Delta(ps).peers.added = Last(ps).peers \ UNION {p.peers : p \in before}
                    /\ Delta(ps).findings.added = Last(ps).findings \ UNION {p.findings : p \in before}
                    /\ Delta(ps).protocols.removed = (UNION {p.protos : p \in before}) \ Last(ps).protos
                    /\ Delta(ps).peers.removed = (UNION {p.peers : p \in before}) \ Last(ps).peers
  BY Changes
<1>8. before \subseteq ToSet(Front(ps))
  <2>1. n >= 2 => n - 1 \in 1 .. n - 1
    BY <1>1
  <2> QED BY <1>1, <1>7, <2>1 DEF n
<1>9. /\ Novelty(ps).newPeers \subseteq Delta(ps).peers.added
      /\ Novelty(ps).newFindings \subseteq Delta(ps).findings.added
      /\ Delta(ps).protocols.removed \subseteq Novelty(ps).lostProtocols
      /\ Delta(ps).peers.removed \subseteq Novelty(ps).lostPeers
  BY <1>7, <1>8, Changes
<1> QED BY <1>4, <1>5, <1>6, <1>9

\* So is the history of any asset in what a page has read, and the overview of the
\* same files counts as many reports.
LEMMA ListedCoheres ==
  ASSUME Listed(base, files)
  PROVE  NoveltyIsCoherent
<1> SUFFICES ASSUME NEW key \in Addresses
             PROVE  LET b == ComputeAssetBaseline(files, key)
                        roll == AggregateReports(files)
                    IN /\ b.reports > 0 =>
                            /\ \A x \in DOMAIN b.peers :
                                 (x \in b.novelty.newPeers) = (b.peers[x].first = b.last.name)
                            /\ \A x \in DOMAIN b.findings :
                                 (x \in b.novelty.newFindings) = (b.findings[x].first = b.last.name)
                            /\ \A x \in DOMAIN b.protocols :
                                 b.protocols[x].isNew = (x \in b.novelty.newProtocols)
                            /\ b.novelty.newPeers \subseteq b.delta.peers.added
                            /\ b.novelty.newFindings \subseteq b.delta.findings.added
                            /\ b.delta.protocols.removed \subseteq b.novelty.lostProtocols
                            /\ b.delta.peers.removed \subseteq b.novelty.lostPeers
                       /\ key \in MACs =>
                            b.reports = IF key \in DOMAIN roll.assets THEN roll.assets[key].reports
                                        ELSE 0
  BY DEF NoveltyIsCoherent
<1> DEFINE ps == Presences(files, key)
           b == ComputeAssetBaseline(files, key)
           assets == AggregateReports(files).assets
           shows == ShownIn(files, key)
<1>1. /\ \E P : ps \in Seq(P)
      /\ \A i, j \in 1 .. Len(ps) : ps[i].name = ps[j].name => i = j
      /\ Len(ps) = Cardinality(shows)
  BY Showing
<1>2. b = IF ps = <<>> THEN [reports |-> 0]
          ELSE [reports |-> Len(ps), first |-> Summary(ps[1]), last |-> Summary(Last(ps)),
                timeline |-> Timeline(ps), protocols |-> ProtocolHistory(ps), peers |-> PeerHistory(ps),
                findings |-> FindingHistory(ps), anomalies |-> AnomalyCadence(ps),
                stability |-> Stability(ps), novelty |-> Novelty(ps), delta |-> Delta(ps)]
  BY DEF ComputeAssetBaseline
<1> HIDE DEF ps, b, shows
<1>3. b.reports = Len(ps)
  BY <1>2
<1>4. ps # <<>> => /\ b.peers = PeerHistory(ps) /\ b.findings = FindingHistory(ps)
                   /\ b.protocols = ProtocolHistory(ps) /\ b.novelty = Novelty(ps)
                   /\ b.delta = Delta(ps) /\ b.last.name = Last(ps).name
  BY <1>2 DEF Summary
<1>5. ASSUME b.reports > 0
      PROVE  /\ \A x \in DOMAIN b.peers :
                  (x \in b.novelty.newPeers) = (b.peers[x].first = b.last.name)
             /\ \A x \in DOMAIN b.findings :
                  (x \in b.novelty.newFindings) = (b.findings[x].first = b.last.name)
             /\ \A x \in DOMAIN b.protocols :
                  b.protocols[x].isNew = (x \in b.novelty.newProtocols)
             /\ b.novelty.newPeers \subseteq b.delta.peers.added
             /\ b.novelty.newFindings \subseteq b.delta.findings.added
             /\ b.delta.protocols.removed \subseteq b.novelty.lostProtocols
             /\ b.delta.peers.removed \subseteq b.novelty.lostPeers
  <2>1. ps # <<>>
    BY <1>3, <1>5
  <2> QED BY <1>1, <1>4, <2>1, HistoryCoheres
<1>6. ASSUME key \in MACs
      PROVE  b.reports = IF key \in DOMAIN assets THEN assets[key].reports ELSE 0
  <2> DEFINE n == Len(files)
             I == At(KeysOf(files), n, key)
  <2>1. \E S : files \in Seq(S)
    BY DEF Listed
  <2>2. n \in Nat /\ DOMAIN files = 1 .. n
    BY <2>1
  <2>3. \A k \in 1 .. n : files[k].mtime \in Nat /\ IsReport(files[k].report)
    BY <2>2 DEF Listed
  <2>4. AssetsAre(files, n, assets)
    BY <2>1, <2>3, AssetsRolled
  <2>5. \A k \in 1 .. n : KeysOf(files)[k] = AssetKeys(files[k].report)
    BY DEF KeysOf
  <2>6. shows = I
    BY <1>6, <2>3, <2>5, MacsAreAssets DEF shows, ShownIn, At
  <2>7. key \in DOMAIN assets <=> I # {}
    BY <2>2, <2>4, AtMore DEF AssetsAre
  <2>8. key \in DOMAIN assets => assets[key].reports = Cardinality(I)
    BY <2>4 DEF AssetsAre
  <2>9. I = {} => Cardinality(I) = 0
    BY FS_EmptySet
  <2> HIDE DEF I, n, assets
  <2> QED BY <1>1, <1>3, <2>6, <2>7, <2>8, <2>9
<1> QED BY <1>5, <1>6 DEF b

\* What the history of an asset calls new was first seen in the last report and
\* added since the one before; what was removed is lost; and the overview of the same
\* files has as many reports for the host.
THEOREM NoveltyHolds == Spec => []NoveltyIsCoherent
<1>1. PageInv => NoveltyIsCoherent
  BY ListedCoheres DEF PageInv
<1> QED BY <1>1, MergeInvariant, PTL

-----------------------------------------------------------------------------
(* The overview: findings                                                  *)

FindingFields == {"seen", "text", "occurrences", "severity", "source", "attacks"}

RisksOf(fs) == [i \in 1 .. Len(fs) |-> FindingKeys(fs[i].report)]
Grades(r, key) == {g.severity : g \in ToSet(Under(r, key))}
GradesOf(fs, I, key) == UNION {Grades(fs[i].report, key) : i \in I}
Attacks(r, key) == UNION {g.attacks : g \in ToSet(Under(r, key))}
AttacksOf(fs, I, key) == UNION {Attacks(fs[i].report, key) : i \in I}

\* The findings of the first k reports.
FindingsAre(fs, k, found) ==
  /\ DOMAIN found = KeysUpTo(RisksOf(fs), k)
  /\ \A key \in DOMAIN found :
       LET I == At(RisksOf(fs), k, key)
       IN /\ DOMAIN found[key] = FindingFields
          /\ found[key].occurrences = Cardinality(I)
          /\ Seen(fs, found[key].seen, I) /\ found[key].text = found[key].seen.last.name
          /\ found[key].severity \in GradesOf(fs, I, key)
          /\ \A g \in GradesOf(fs, I, key) : found[key].severity <= g
          /\ found[key].attacks = AttacksOf(fs, I, key)

\* The findings of a report under one key.
LEMMA UnderAre ==
  ASSUME NEW r, IsReport(r), NEW key
  PROVE  /\ ToSet(Under(r, key)) = {g \in ToSet(r.findings) : FindingKey(g) = key}
         /\ Grades(r, key) \subseteq Severities
         /\ key \in FindingKeys(r) =>
              Under(r, key)[1] \in ToSet(Under(r, key)) /\ Under(r, key)[1].severity \in Grades(r, key)
<1> DEFINE C == {f \in ToSet(r.findings) : FindingKey(f) = key}
           u == Under(r, key)
<1>1. r.findings \in Seq(FindingRecord)
  BY DEF IsReport
<1>2. u = Among(r.findings, C)
  BY DEF Under
<1>3. u \in Seq(FindingRecord) /\ ToSet(u) = C
  <2>1. C \subseteq ToSet(r.findings)
    OBVIOUS
  <2> HIDE DEF C, u
  <2>2. u \in Seq(FindingRecord) /\ ToSet(u) = ToSet(r.findings) \cap C
    BY <1>1, <1>2, AmongPlaces, AmongAre
  <2> QED BY <2>1, <2>2
<1>4. ToSet(r.findings) \subseteq FindingRecord
  BY <1>1 DEF ToSet
<1>5. Grades(r, key) \subseteq Severities
  BY <1>3, <1>4 DEF Grades, FindingRecord
<1>6. ASSUME key \in FindingKeys(r)
      PROVE  u[1] \in ToSet(u) /\ u[1].severity \in Grades(r, key)
  <2>1. C # {}
    BY <1>6 DEF FindingKeys
  <2> HIDE DEF u, C
  <2>2. 1 \in DOMAIN u
    BY <1>3, <2>1 DEF ToSet
  <2>3. u[1] \in ToSet(u)
    BY <2>2 DEF ToSet
  <2> QED BY <2>3 DEF Grades, u
<1> QED BY <1>3, <1>5, <1>6

\* A finding is added, or comes once more.
FindingOf(found, key, file, it) ==
  /\ DOMAIN it = FindingFields
  /\ key \in DOMAIN found =>
       /\ it.occurrences = found[key].occurrences + 1
       /\ it.seen = Sighted(found[key].seen, file)
       /\ it.text = IF file.mtime > found[key].seen.last.at THEN file.name ELSE found[key].text
       /\ it.severity = Min({found[key].severity} \cup Grades(file.report, key))
       /\ it.attacks = found[key].attacks \cup Attacks(file.report, key)
  /\ key \notin DOMAIN found =>
       /\ it.occurrences = 0 + 1 /\ it.seen = Fresh(file) /\ it.text = file.name
       /\ it.severity = Min({Under(file.report, key)[1].severity} \cup Grades(file.report, key))
       /\ it.attacks = {} \cup Attacks(file.report, key)

\* One more report adds an occurrence to each of its findings.
LEMMA FindingAdded ==
  ASSUME NEW found, NEW key, NEW file, key \in DOMAIN found => DOMAIN found[key] = FindingFields
  PROVE  FindingOf(found, key, file, AddFinding(found, key, file))
<1> DEFINE u == Under(file.report, key)
           text == IF file.mtime > found[key].seen.last.at THEN file.name ELSE found[key].text
           seen == Sighted(found[key].seen, file)
           more == [found[key] EXCEPT !.text = text, !.seen = seen]
           new == [seen |-> Fresh(file), text |-> file.name, occurrences |-> 0,
                   severity |-> u[1].severity, source |-> u[1].source, attacks |-> {}]
           old == IF key \in DOMAIN found THEN more ELSE new
           grown == [old EXCEPT !.occurrences = @ + 1, !.severity = Min({@} \cup Grades(file.report, key)),
                                !.attacks = @ \cup Attacks(file.report, key)]
<1>1. AddFinding(found, key, file) = grown
  <2>1. old = IF key \in DOMAIN found
             THEN [found[key] EXCEPT
                     !.text = IF file.mtime > found[key].seen.last.at THEN file.name ELSE @,
                     !.seen = Sighted(@, file)]
             ELSE new
    OBVIOUS
  <2>2. Grades(file.report, key) = {f.severity : f \in ToSet(u)}
    BY DEF Grades
  <2>3. Attacks(file.report, key) = UNION {f.attacks : f \in ToSet(u)}
    BY DEF Attacks
  <2> QED BY <2>1, <2>2, <2>3 DEF AddFinding
<1>2. DOMAIN old = FindingFields
  BY DEF FindingFields
<1>3. CASE key \in DOMAIN found
  <2>1. /\ old.occurrences = found[key].occurrences /\ old.seen = seen /\ old.text = text
        /\ old.severity = found[key].severity /\ old.attacks = found[key].attacks
    BY <1>3 DEF FindingFields
  <2> HIDE DEF old, seen, text
  <2>2. /\ DOMAIN grown = FindingFields
        /\ grown.occurrences = old.occurrences + 1 /\ grown.seen = old.seen /\ grown.text = old.text
        /\ grown.severity = Min({old.severity} \cup Grades(file.report, key))
        /\ grown.attacks = old.attacks \cup Attacks(file.report, key)
    BY <1>2 DEF FindingFields
  <2> HIDE DEF grown
  <2>3. FindingOf(found, key, file, grown)
    BY <1>3, <2>1, <2>2 DEF FindingOf, seen, text
  <2> QED BY <1>1, <2>3
<1>4. CASE key \notin DOMAIN found
  <2>1. /\ old.occurrences = 0 /\ old.seen = Fresh(file) /\ old.text = file.name
        /\ old.severity = u[1].severity /\ old.attacks = {}
    BY <1>4
  <2> HIDE DEF old
  <2>2. /\ DOMAIN grown = FindingFields
        /\ grown.occurrences = old.occurrences + 1 /\ grown.seen = old.seen /\ grown.text = old.text
        /\ grown.severity = Min({old.severity} \cup Grades(file.report, key))
        /\ grown.attacks = old.attacks \cup Attacks(file.report, key)
    BY <1>2 DEF FindingFields
  <2> HIDE DEF grown
  <2>3. FindingOf(found, key, file, grown)
    BY <1>4, <2>1, <2>2 DEF FindingOf
  <2> QED BY <1>1, <2>3
<1> QED BY <1>3, <1>4

\* The findings of one report more.
LEMMA FindingsMore ==
  ASSUME NEW fs, NEW k \in Nat, k + 1 \in 1 .. Len(fs), Len(fs) \in Nat,
         \A i \in 1 .. Len(fs) : fs[i].mtime \in Nat /\ IsReport(fs[i].report),
         NEW roll, FindingsAre(fs, k, roll.findings)
  PROVE  FindingsAre(fs, k + 1, AddReport(roll, fs[k + 1]).findings)
<1> DEFINE ks == RisksOf(fs)
           old == roll.findings
           file == fs[k + 1]
           r == file.report
           new == AddReport(roll, file).findings
           K == ks[k + 1]
<1>1. K = FindingKeys(r) /\ IsReport(r)
  BY DEF RisksOf
<1>2. /\ DOMAIN new = DOMAIN old \cup K
      /\ \A key \in DOMAIN new : new[key] = IF key \in K THEN AddFinding(old, key, file) ELSE old[key]
  BY <1>1 DEF AddReport
<1>3. /\ DOMAIN old = KeysUpTo(ks, k)
      /\ \A key \in DOMAIN old :
           /\ DOMAIN old[key] = FindingFields
           /\ old[key].occurrences = Cardinality(At(ks, k, key))
           /\ Seen(fs, old[key].seen, At(ks, k, key)) /\ old[key].text = old[key].seen.last.name
           /\ old[key].severity \in GradesOf(fs, At(ks, k, key), key)
           /\ \A g \in GradesOf(fs, At(ks, k, key), key) : old[key].severity <= g
           /\ old[key].attacks = AttacksOf(fs, At(ks, k, key), key)
  BY DEF FindingsAre
<1> HIDE DEF ks, old, new
<1>4. DOMAIN new = KeysUpTo(ks, k + 1)
  BY <1>2, <1>3, UpToMore
<1>5. ASSUME NEW key \in DOMAIN new
      PROVE  /\ DOMAIN new[key] = FindingFields
             /\ new[key].occurrences = Cardinality(At(ks, k + 1, key))
             /\ Seen(fs, new[key].seen, At(ks, k + 1, key)) /\ new[key].text = new[key].seen.last.name
             /\ new[key].severity \in GradesOf(fs, At(ks, k + 1, key), key)
             /\ \A g \in GradesOf(fs, At(ks, k + 1, key), key) : new[key].severity <= g
             /\ new[key].attacks = AttacksOf(fs, At(ks, k + 1, key), key)
  <2> DEFINE I == At(ks, k, key)
             J == At(ks, k + 1, key)
             first == Under(r, key)[1].severity
  <2>1. \A m \in I \cup {k + 1} : fs[m].mtime \in Nat
    BY DEF At
  <2>2. CASE key \notin K
    <3>1. key \in DOMAIN old /\ new[key] = old[key] /\ J = I
      BY <1>2, <2>2, AtMore
    <3> QED BY <1>3, <3>1
  <2>3. CASE key \in K
    <3>1. J = I \cup {k + 1} /\ Cardinality(J) = Cardinality(I) + 1
      BY <2>3, AtMore
    <3>2. new[key] = AddFinding(old, key, file)
      BY <1>2, <2>3
    <3> DEFINE it == AddFinding(old, key, file)
    <3>a. key \in DOMAIN old => DOMAIN old[key] = FindingFields
      BY <1>3
    <3> HIDE DEF it
    <3>3. /\ DOMAIN it = FindingFields
          /\ key \in DOMAIN old =>
               /\ it.occurrences = old[key].occurrences + 1
               /\ it.seen = Sighted(old[key].seen, file)
               /\ it.text = IF file.mtime > old[key].seen.last.at THEN file.name ELSE old[key].text
               /\ it.severity = Min({old[key].severity} \cup Grades(r, key))
               /\ it.attacks = old[key].attacks \cup Attacks(r, key)
          /\ key \notin DOMAIN old =>
               /\ it.occurrences = 0 + 1 /\ it.seen = Fresh(file) /\ it.text = file.name
               /\ it.severity = Min({first} \cup Grades(r, key))
               /\ it.attacks = {} \cup Attacks(r, key)
      <4> HIDE DEF file
      <4>1. FindingOf(old, key, file, AddFinding(old, key, file))
        BY <3>a, FindingAdded
      <4>2. FindingOf(old, key, file, it)
        BY <4>1 DEF it
      <4> QED BY <4>2 DEF FindingOf
    <3>4. /\ GradesOf(fs, J, key) = GradesOf(fs, I, key) \cup Grades(r, key)
          /\ AttacksOf(fs, J, key) = AttacksOf(fs, I, key) \cup Attacks(r, key)
      <4> HIDE DEF I, J
      <4> QED BY <3>1 DEF GradesOf, AttacksOf
    <3>5. first \in Grades(r, key) /\ Grades(r, key) \subseteq Nat /\ GradesOf(fs, J, key) \subseteq Nat
      <4>1. \A m \in J : IsReport(fs[m].report)
        BY DEF At
      <4>2. Severities \subseteq Nat
        BY DEF Severities
      <4>3. \A m \in J : Grades(fs[m].report, key) \subseteq Severities
        BY <4>1, UnderAre
      <4>4. Grades(r, key) \subseteq Severities /\ first \in Grades(r, key)
        BY <1>1, <2>3, UnderAre
      <4> QED BY <4>2, <4>3, <4>4 DEF GradesOf
    <3> HIDE DEF it, I, J, first, file, r
    <3>6. CASE key \in DOMAIN old
      <4>1. Seen(fs, Sighted(old[key].seen, file), J)
        BY <1>3, <2>1, <3>1, <3>6, SeenMore DEF file, I
      <4>2. it.text = it.seen.last.name
        <5>1. it.seen.last = IF file.mtime > old[key].seen.last.at THEN Stamp(file) ELSE old[key].seen.last
          BY <3>3, <3>6 DEF Sighted
        <5> QED BY <1>3, <3>3, <3>6, <5>1 DEF Stamp
      <4> DEFINE M == {old[key].severity} \cup Grades(r, key)
      <4>3. old[key].severity \in GradesOf(fs, I, key) /\ \A g \in GradesOf(fs, I, key) : old[key].severity <= g
        BY <1>3, <3>6 DEF I
      <4>4. M \in SUBSET Nat /\ M # {} /\ M \subseteq GradesOf(fs, J, key)
        BY <3>4, <3>5, <4>3
      <4> HIDE DEF M
      <4>5. Min(M) \in M /\ \A x \in M : Min(M) <= x
        BY <4>4, LeastOf
      <4>6. \A g \in GradesOf(fs, J, key) : Min(M) <= g
        <5> SUFFICES ASSUME NEW g \in GradesOf(fs, J, key)
                     PROVE  Min(M) <= g
          OBVIOUS
        <5>1. g \in Nat /\ old[key].severity \in Nat /\ Min(M) \in Nat
          BY <3>4, <3>5, <4>3, <4>4, <4>5
        <5>2. Min(M) <= old[key].severity
          BY <4>5 DEF M
        <5>3. g \in Grades(r, key) => Min(M) <= g
          BY <4>5 DEF M
        <5>4. g \in GradesOf(fs, I, key) => old[key].severity <= g
          BY <4>3
        <5> QED BY <3>4, <5>1, <5>2, <5>3, <5>4
      <4>7. it.severity = Min(M)
        BY <3>3, <3>6 DEF M
      <4>8. it.attacks = AttacksOf(fs, J, key)
        BY <1>3, <3>3, <3>4, <3>6 DEF I
      <4>9. it.occurrences = Cardinality(J)
        BY <1>3, <3>1, <3>3, <3>6 DEF I
      <4>10. it.seen = Sighted(old[key].seen, file) /\ new[key] = it
        BY <3>2, <3>3, <3>6 DEF it
      <4> QED BY <3>3, <4>1, <4>2, <4>4, <4>5, <4>6, <4>7, <4>8, <4>9, <4>10 DEF J
    <3>7. CASE key \notin DOMAIN old
      <4>1. I = {}
        BY <1>3, <3>7, AtMore DEF I
      <4>2. Cardinality(I) = 0
        BY <4>1, FS_EmptySet
      <4>3. Seen(fs, Fresh(file), J)
        <5>1. Seen(fs, Fresh(fs[k + 1]), {k + 1})
          BY <2>1, SeenOnce
        <5> QED BY <3>1, <4>1, <5>1 DEF file
      <4>4. it.text = it.seen.last.name
        BY <3>3, <3>7 DEF Fresh, Stamp
      <4>5. GradesOf(fs, J, key) = Grades(r, key) /\ AttacksOf(fs, J, key) = Attacks(r, key)
        BY <3>4, <4>1 DEF GradesOf, AttacksOf
      <4>6. {first} \cup Grades(r, key) = Grades(r, key) /\ Grades(r, key) # {}
        BY <3>5
      <4>7. Min(Grades(r, key)) \in Grades(r, key) /\ \A x \in Grades(r, key) : Min(Grades(r, key)) <= x
        BY <3>5, <4>6, LeastOf
      <4>8. it.severity = Min(Grades(r, key)) /\ it.attacks = Attacks(r, key) /\ it.occurrences = Cardinality(J)
        BY <3>1, <3>3, <3>7, <4>2, <4>6
      <4>9. it.seen = Fresh(file) /\ new[key] = it
        BY <3>2, <3>3, <3>7 DEF it
      <4> QED BY <3>3, <4>3, <4>4, <4>5, <4>7, <4>8, <4>9 DEF J
    <3> QED BY <3>6, <3>7
  <2> QED BY <2>2, <2>3
<1> QED BY <1>4, <1>5 DEF FindingsAre, ks, new

-----------------------------------------------------------------------------
(* Counting *)

\* Sets whose elements match one another are of the same size.
LEMMA Matched ==
  ASSUME NEW S, NEW T, NEW f \in [S -> T],
         \A x, y \in S : f[x] = f[y] => x = y, \A t \in T : \E x \in S : f[x] = t
  PROVE  /\ ExistsBijection(S, T)
         /\ IsFiniteSet(S) => IsFiniteSet(T) /\ Cardinality(T) = Cardinality(S)
<1>1. f \in Bijection(S, T)
  BY DEF Bijection, Injection, Surjection, IsInjective
<1>2. ExistsBijection(S, T)
  BY <1>1 DEF ExistsBijection
<1> QED BY <1>2, FS_Bijection

\* A finite set has a finite image.
LEMMA ImageFinite ==
  ASSUME NEW f, IsFiniteSet(DOMAIN f)
  PROVE  IsFiniteSet({f[x] : x \in DOMAIN f})
<1> DEFINE S == DOMAIN f
           T == {f[x] : x \in S}
           g == [x \in S |-> f[x]]
<1>1. g \in Surjection(S, T)
  BY DEF Surjection
<1> HIDE DEF g, T
<1>2. IsFiniteSet(T)
  BY <1>1, FS_Surjection
<1> QED BY <1>2 DEF T

\* A set with each of its elements paired with one and the same.
LEMMA Paired ==
  ASSUME NEW S, IsFiniteSet(S), NEW a
  PROVE  /\ IsFiniteSet({a} \X S) /\ Cardinality({a} \X S) = Cardinality(S)
         /\ IsFiniteSet(S \X {a}) /\ Cardinality(S \X {a}) = Cardinality(S)
<1>1. IsFiniteSet({a} \X S) /\ Cardinality({a} \X S) = Cardinality(S)
  <2> DEFINE f == [x \in S |-> <<a, x>>]
  <2>1. /\ f \in [S -> {a} \X S] /\ \A x, y \in S : f[x] = f[y] => x = y
        /\ \A t \in {a} \X S : \E x \in S : f[x] = t
    OBVIOUS
  <2> HIDE DEF f
  <2> QED BY <2>1, Matched
<1>2. IsFiniteSet(S \X {a}) /\ Cardinality(S \X {a}) = Cardinality(S)
  <2> DEFINE f == [x \in S |-> <<x, a>>]
  <2>1. /\ f \in [S -> S \X {a}] /\ \A x, y \in S : f[x] = f[y] => x = y
        /\ \A t \in S \X {a} : \E x \in S : f[x] = t
    OBVIOUS
  <2> HIDE DEF f
  <2> QED BY <2>1, Matched
<1> QED BY <1>1, <1>2

Fibre(T, h, x) == {t \in T : h[t] = x}

\* Counts of how often each value is taken add up to the number of those that take one.
LEMMA CountsAddUp ==
  ASSUME NEW T, IsFiniteSet(T), NEW h, NEW f, \A t \in T : h[t] \in DOMAIN f,
         \A x \in DOMAIN f : f[x] = Cardinality(Fibre(T, h, x))
  PROVE  Tally(f) = Cardinality(T)
<1> DEFINE B == [x \in DOMAIN f |-> CHOOSE b : b \in Bijection(1 .. f[x], Fibre(T, h, x))]
           heap == UNION {{x} \X (1 .. f[x]) : x \in DOMAIN f}
           m == [p \in heap |-> B[p[1]][p[2]]]
<1>1. ASSUME NEW x \in DOMAIN f
      PROVE  f[x] \in Nat /\ B[x] \in Bijection(1 .. f[x], Fibre(T, h, x))
  <2>1. IsFiniteSet(Fibre(T, h, x))
    <3>1. Fibre(T, h, x) \in SUBSET T
      BY DEF Fibre
    <3> QED BY <3>1, FS_Subset
  <2>2. f[x] \in Nat /\ ExistsBijection(1 .. f[x], Fibre(T, h, x))
    BY <2>1, FS_CardinalityType
  <2>3. \E b : b \in Bijection(1 .. f[x], Fibre(T, h, x))
    BY <2>2 DEF ExistsBijection
  <2> QED BY <2>2, <2>3
<1> HIDE DEF B
<1>2. ASSUME NEW x \in DOMAIN f
      PROVE  /\ \A i \in 1 .. f[x] : B[x][i] \in T /\ h[B[x][i]] = x
             /\ \A i, j \in 1 .. f[x] : B[x][i] = B[x][j] => i = j
             /\ \A t \in T : h[t] = x => \E i \in 1 .. f[x] : B[x][i] = t
  <2>1. /\ B[x] \in [1 .. f[x] -> Fibre(T, h, x)]
        /\ \A i, j \in 1 .. f[x] : B[x][i] = B[x][j] => i = j
        /\ \A t \in Fibre(T, h, x) : \E i \in 1 .. f[x] : B[x][i] = t
    BY <1>1 DEF Bijection, Injection, Surjection, IsInjective
  <2> QED BY <2>1 DEF Fibre
<1>3. \A p \in heap : p[1] \in DOMAIN f /\ p[2] \in 1 .. f[p[1]] /\ p = <<p[1], p[2]>>
  OBVIOUS
<1>4. \A x \in DOMAIN f : \A i \in 1 .. f[x] : <<x, i>> \in heap
  OBVIOUS
<1> HIDE DEF heap
<1>5. m \in [heap -> T] /\ \A p \in heap : m[p] = B[p[1]][p[2]]
  BY <1>2, <1>3
<1> HIDE DEF m
<1>6. ASSUME NEW p \in heap, NEW q \in heap, m[p] = m[q]
      PROVE  p = q
  <2>1. p[1] = q[1]
    BY <1>2, <1>3, <1>5, <1>6
  <2>2. p[2] = q[2]
    BY <1>2, <1>3, <1>5, <1>6, <2>1
  <2> QED BY <1>3, <2>1, <2>2
<1>7. ASSUME NEW t \in T
      PROVE  \E p \in heap : m[p] = t
  <2>1. PICK i \in 1 .. f[h[t]] : B[h[t]][i] = t
    BY <1>2
  <2>2. <<h[t], i>> \in heap
    BY <1>4, <2>1
  <2>3. m[<<h[t], i>>] = t
    BY <1>5, <2>1, <2>2
  <2> QED BY <2>2, <2>3
<1>8. m \in Injection(heap, T) /\ m \in Surjection(heap, T)
  BY <1>5, <1>6, <1>7 DEF Injection, Surjection, IsInjective
<1>9. Cardinality(heap) = Cardinality(T)
  BY <1>8, FS_Injection
<1> QED BY <1>9 DEF Tally, heap

-----------------------------------------------------------------------------
(* The overview: protocols, dates and severities                           *)

TrafficOf(fs) == [i \in 1 .. Len(fs) |-> DOMAIN fs[i].report.traffic]

\* The protocols of the first k reports.
ProtocolsAre(fs, k, protocols) ==
  /\ DOMAIN protocols = KeysUpTo(TrafficOf(fs), k)
  /\ \A p \in DOMAIN protocols : protocols[p].reports = Cardinality(At(TrafficOf(fs), k, p))

\* One more report keeps the protocols counted,
LEMMA ProtocolsMore ==
  ASSUME NEW fs, NEW k \in Nat, k + 1 \in 1 .. Len(fs), Len(fs) \in Nat,
         NEW roll, ProtocolsAre(fs, k, roll.protocols)
  PROVE  ProtocolsAre(fs, k + 1, AddReport(roll, fs[k + 1]).protocols)
<1> DEFINE ks == TrafficOf(fs)
           old == roll.protocols
           traffic == fs[k + 1].report.traffic
           new == AddReport(roll, fs[k + 1]).protocols
           K == ks[k + 1]
<1>1. K = DOMAIN traffic
  BY DEF TrafficOf
<1>2. /\ DOMAIN new = DOMAIN old \cup K
      /\ \A p \in DOMAIN new : new[p] = IF p \in K THEN AddProtocol(old, p, traffic[p]) ELSE old[p]
  BY <1>1 DEF AddReport
<1>3. /\ DOMAIN old = KeysUpTo(ks, k)
      /\ \A p \in DOMAIN old : old[p].reports = Cardinality(At(ks, k, p))
  BY DEF ProtocolsAre
<1> HIDE DEF ks, old, new, traffic
<1>4. DOMAIN new = KeysUpTo(ks, k + 1)
  BY <1>2, <1>3, UpToMore
<1>5. ASSUME NEW p \in DOMAIN new
      PROVE  new[p].reports = Cardinality(At(ks, k + 1, p))
  <2>1. CASE p \notin K
    <3>1. p \in DOMAIN old /\ new[p] = old[p] /\ At(ks, k + 1, p) = At(ks, k, p)
      BY <1>2, <2>1, AtMore
    <3> QED BY <1>3, <3>1
  <2>2. CASE p \in K
    <3>1. Cardinality(At(ks, k + 1, p)) = Cardinality(At(ks, k, p)) + 1
      BY <2>2, AtMore
    <3>2. new[p].reports = (IF p \in DOMAIN old THEN old[p].reports ELSE 0) + 1
      <4>1. new[p] = AddProtocol(old, p, traffic[p])
        BY <1>2, <2>2
      <4>2. CASE p \in DOMAIN old
        BY <4>1, <4>2 DEF AddProtocol
      <4>3. CASE p \notin DOMAIN old
        BY <4>1, <4>3 DEF AddProtocol
      <4> QED BY <4>2, <4>3
    <3>3. p \notin DOMAIN old => At(ks, k, p) = {}
      BY <1>3, AtMore
    <3>4. p \notin DOMAIN old => Cardinality(At(ks, k, p)) = 0
      BY <3>3, FS_EmptySet
    <3> QED BY <1>3, <3>1, <3>2, <3>4
  <2> QED BY <2>1, <2>2
<1> QED BY <1>4, <1>5 DEF ProtocolsAre, ks, new

\* When the first k captures were started, and the last of these times.
StartsAre(fs, k, starts) ==
  /\ starts = {fs[i].report.start : i \in 1 .. k} \ {0}
  /\ starts = {} \/ \E late \in starts : \A x \in starts : x <= late

\* ... the window of the captures spanned,
LEMMA StartsMore ==
  ASSUME NEW fs, NEW k \in Nat, k + 1 \in 1 .. Len(fs), Len(fs) \in Nat,
         \A i \in 1 .. Len(fs) : fs[i].report.start \in Nat,
         NEW roll, StartsAre(fs, k, roll.starts)
  PROVE  StartsAre(fs, k + 1, AddReport(roll, fs[k + 1]).starts)
<1> DEFINE new == AddReport(roll, fs[k + 1]).starts
           t == fs[k + 1].report.start
<1>1. new = roll.starts \cup ({t} \ {0})
  BY DEF AddReport
<1>2. 1 .. k + 1 = (1 .. k) \cup {k + 1} /\ t \in Nat
  OBVIOUS
<1>3. roll.starts = {fs[i].report.start : i \in 1 .. k} \ {0}
  BY DEF StartsAre
<1> HIDE DEF new
<1>4. new = {fs[i].report.start : i \in 1 .. k + 1} \ {0}
  BY <1>1, <1>2, <1>3
<1>5. roll.starts \subseteq Nat
  BY <1>3
<1> HIDE DEF t
<1>6. new = {} \/ \E late \in new : \A x \in new : x <= late
  <2>1. CASE t = 0
    BY <1>1, <2>1 DEF StartsAre
  <2>2. CASE t # 0 /\ roll.starts = {}
    BY <1>1, <1>2, <2>2
  <2>3. CASE t # 0 /\ roll.starts # {}
    <3>1. PICK late \in roll.starts : \A x \in roll.starts : x <= late
      BY <2>3 DEF StartsAre
    <3>2. new = roll.starts \cup {t}
      BY <1>1, <2>3
    <3>3. CASE t <= late
      BY <3>1, <3>2, <3>3
    <3>4. CASE late <= t
      <4>1. \A x \in roll.starts : x <= t
        BY <1>2, <1>5, <3>1, <3>4
      <4>2. t \in new /\ t <= t
        BY <1>2, <3>2
      <4>3. \A x \in new : x <= t
        BY <3>2, <4>1, <4>2
      <4> QED BY <4>2, <4>3
    <3> QED BY <1>2, <1>5, <3>1, <3>3, <3>4
  <2> QED BY <2>1, <2>2, <2>3
<1> QED BY <1>4, <1>6 DEF StartsAre, new

\* The findings of the first k reports, each with the number of its report.
Pairs(ks, k) == UNION {{i} \X ks[i] : i \in 1 .. k}
GradeOf(fs, p) == Under(fs[p[1]].report, p[2])[1].severity
Graded(fs, k, s) == {p \in Pairs(RisksOf(fs), k) : GradeOf(fs, p) = s}
GradedIn(r, s) == {key \in FindingKeys(r) : Under(r, key)[1].severity = s}

SeveritiesAre(fs, k, severities) ==
  /\ DOMAIN severities = Severities
  /\ \A s \in Severities : severities[s] = Cardinality(Graded(fs, k, s))
  /\ IsFiniteSet(Pairs(RisksOf(fs), k))

\* A report has finitely many keys of findings.
LEMMA KeysAreFinite ==
  ASSUME NEW r, IsReport(r)
  PROVE  IsFiniteSet(FindingKeys(r))
<1> DEFINE n == Len(r.findings)
           f == [i \in 1 .. n |-> FindingKey(r.findings[i])]
<1>1. n \in Nat /\ DOMAIN r.findings = 1 .. n
  BY DEF IsReport
<1>2. FindingKeys(r) = {f[i] : i \in 1 .. n}
  BY <1>1 DEF FindingKeys, ToSet
<1>3. DOMAIN f = 1 .. n
  OBVIOUS
<1>4. IsFiniteSet(1 .. n)
  BY <1>1, FS_Interval
<1> HIDE DEF f, n
<1> QED BY <1>2, <1>3, <1>4, ImageFinite

\* ... and the severities counted.
LEMMA SeveritiesMore ==
  ASSUME NEW fs, NEW k \in Nat, k + 1 \in 1 .. Len(fs), Len(fs) \in Nat,
         \A i \in 1 .. Len(fs) : IsReport(fs[i].report),
         NEW roll, SeveritiesAre(fs, k, roll.severities)
  PROVE  SeveritiesAre(fs, k + 1, AddReport(roll, fs[k + 1]).severities)
<1> DEFINE ks == RisksOf(fs)
           r == fs[k + 1].report
           old == roll.severities
           new == AddReport(roll, fs[k + 1]).severities
<1>1. ks[k + 1] = FindingKeys(r) /\ IsReport(r)
  BY DEF RisksOf
<1>2. /\ DOMAIN new = Severities
      /\ \A s \in Severities : new[s] = old[s] + Cardinality(GradedIn(r, s))
  BY DEF AddReport, GradedIn
<1>3. 1 .. k + 1 = (1 .. k) \cup {k + 1} /\ k + 1 \notin 1 .. k
  OBVIOUS
<1>4. IsFiniteSet(FindingKeys(r))
  BY <1>1, KeysAreFinite
<1> HIDE DEF new, r, ks
<1>5. Pairs(ks, k + 1) = Pairs(ks, k) \cup ({k + 1} \X FindingKeys(r))
  BY <1>1, <1>3 DEF Pairs
<1>6. IsFiniteSet(Pairs(ks, k + 1))
  <2>1. IsFiniteSet({k + 1} \X FindingKeys(r))
    BY <1>4, Paired
  <2>2. IsFiniteSet(Pairs(ks, k))
    BY DEF SeveritiesAre, ks
  <2>3. IsFiniteSet(Pairs(ks, k) \cup ({k + 1} \X FindingKeys(r)))
    BY <2>1, <2>2, FS_Union
  <2> QED BY <1>5, <2>3
<1>7. ASSUME NEW s \in Severities
      PROVE  new[s] = Cardinality(Graded(fs, k + 1, s))
  <2> DEFINE A == Graded(fs, k, s)
             B == {k + 1} \X GradedIn(r, s)
  <2>1. \A key : GradeOf(fs, <<k + 1, key>>) = Under(r, key)[1].severity
    BY DEF GradeOf, r
  <2>2. Graded(fs, k + 1, s) = A \cup B
    <3>1. Graded(fs, k + 1, s) = A \cup {p \in {k + 1} \X FindingKeys(r) : GradeOf(fs, p) = s}
      BY <1>5 DEF Graded, ks
    <3>2. {p \in {k + 1} \X FindingKeys(r) : GradeOf(fs, p) = s} = B
      BY <2>1 DEF GradedIn
    <3> QED BY <3>1, <3>2
  <2>3. A \cap B = {}
    BY <1>3 DEF Graded, Pairs
  <2>4. IsFiniteSet(A) /\ IsFiniteSet(GradedIn(r, s))
    <3>1. A \in SUBSET Pairs(ks, k) /\ IsFiniteSet(Pairs(ks, k))
      BY DEF SeveritiesAre, Graded, ks
    <3>2. GradedIn(r, s) \in SUBSET FindingKeys(r)
      BY DEF GradedIn
    <3> QED BY <1>4, <3>1, <3>2, FS_Subset
  <2>5. IsFiniteSet(B) /\ Cardinality(B) = Cardinality(GradedIn(r, s))
    BY <2>4, Paired
  <2> HIDE DEF A, B
  <2>6. Cardinality(A \cup B) = Cardinality(A) + Cardinality(B) - Cardinality(A \cap B)
    BY <2>4, <2>5, FS_Union
  <2>7. Cardinality(A) \in Nat /\ Cardinality(B) \in Nat /\ Cardinality(A \cap B) = 0
    BY <2>3, <2>4, <2>5, FS_CardinalityType, FS_EmptySet
  <2>8. old[s] = Cardinality(A)
    BY DEF SeveritiesAre, A
  <2>9. new[s] = old[s] + Cardinality(GradedIn(r, s))
    BY <1>2
  <2>10. Cardinality(A \cup B) = Cardinality(A) + Cardinality(B)
    BY <2>6, <2>7
  <2> QED BY <2>2, <2>5, <2>8, <2>9, <2>10
<1> QED BY <1>2, <1>6, <1>7 DEF SeveritiesAre, new, ks

\* The overview of the first k reports.
RollIs(fs, k, roll) ==
  /\ AssetsAre(fs, k, roll.assets) /\ FindingsAre(fs, k, roll.findings)
  /\ SeveritiesAre(fs, k, roll.severities) /\ ProtocolsAre(fs, k, roll.protocols)
  /\ StartsAre(fs, k, roll.starts)

\* The overview of no reports.
LEMMA RollStarts ==
  ASSUME NEW fs
  PROVE  RollIs(fs, 0, NoReports)
<1> DEFINE roll == NoReports
           none == <<>>
<1>1. 1 .. 0 = {} /\ DOMAIN none = {}
  OBVIOUS
<1>2. /\ roll.assets = none /\ roll.findings = none /\ roll.protocols = none /\ roll.starts = {}
      /\ DOMAIN roll.severities = Severities /\ \A s \in Severities : roll.severities[s] = 0
  BY DEF NoReports
<1> HIDE DEF roll, none
<1>3. \A ks : KeysUpTo(ks, 0) = {}
  BY <1>1 DEF KeysUpTo
<1>4. AssetsAre(fs, 0, roll.assets)
  <2>1. DOMAIN roll.assets = {}
    BY <1>1, <1>2
  <2> QED BY <1>3, <2>1 DEF AssetsAre
<1>5. FindingsAre(fs, 0, roll.findings)
  <2>1. DOMAIN roll.findings = {}
    BY <1>1, <1>2
  <2> QED BY <1>3, <2>1 DEF FindingsAre
<1>6. ProtocolsAre(fs, 0, roll.protocols)
  <2>1. DOMAIN roll.protocols = {}
    BY <1>1, <1>2
  <2> QED BY <1>3, <2>1 DEF ProtocolsAre
<1>7. SeveritiesAre(fs, 0, roll.severities)
  <2>1. Pairs(RisksOf(fs), 0) = {}
    BY <1>1 DEF Pairs
  <2>2. \A s : Graded(fs, 0, s) = {}
    BY <2>1 DEF Graded
  <2> QED BY <1>2, <2>1, <2>2, FS_EmptySet DEF SeveritiesAre
<1>8. StartsAre(fs, 0, roll.starts)
  BY <1>1, <1>2 DEF StartsAre
<1> QED BY <1>4, <1>5, <1>6, <1>7, <1>8 DEF RollIs, roll

\* The roll-up of all reports is their overview.
LEMMA RollEnds ==
  ASSUME NEW S, NEW fs \in Seq(S),
         \A i \in 1 .. Len(fs) : fs[i].mtime \in Nat /\ IsReport(fs[i].report)
  PROVE  RollIs(fs, Len(fs), AggregateReports(fs))
<1> DEFINE n == Len(fs)
<1>1. n \in Nat /\ \A i \in 1 .. n : fs[i].mtime \in Nat /\ IsReport(fs[i].report)
  OBVIOUS
<1>2. PICK roll : /\ roll[0] = NoReports /\ roll[n] = AggregateReports(fs)
                  /\ \A k \in 1 .. n : roll[k] = AddReport(roll[k - 1], fs[k])
  BY <1>1, RollSteps
<1>3. \A i \in 1 .. n : fs[i].report.start \in Nat
  BY <1>1 DEF IsReport
<1> HIDE DEF n
<1> DEFINE G == {k \in 0 .. n : RollIs(fs, k, roll[k])}
<1>4. 0 \in G
  <2>1. RollIs(fs, 0, roll[0])
    BY <1>2, RollStarts
  <2> QED BY <1>1, <2>1
<1>5. ASSUME NEW k \in 0 .. n - 1, k \in G
      PROVE  k + 1 \in G
  <2>1. k + 1 \in 1 .. n /\ (k + 1) - 1 = k /\ k + 1 \in 0 .. n /\ k \in Nat
    BY <1>1
  <2>2. roll[k + 1] = AddReport(roll[k], fs[k + 1])
    BY <1>2, <2>1
  <2>3. RollIs(fs, k, roll[k])
    BY <1>5
  <2>4. AssetsAre(fs, k + 1, AddReport(roll[k], fs[k + 1]).assets)
    BY <1>1, <2>1, <2>3, AssetsMore DEF n, RollIs
  <2>5. FindingsAre(fs, k + 1, AddReport(roll[k], fs[k + 1]).findings)
    BY <1>1, <2>1, <2>3, FindingsMore DEF n, RollIs
  <2>6. SeveritiesAre(fs, k + 1, AddReport(roll[k], fs[k + 1]).severities)
    BY <1>1, <2>1, <2>3, SeveritiesMore DEF n, RollIs
  <2>7. ProtocolsAre(fs, k + 1, AddReport(roll[k], fs[k + 1]).protocols)
    BY <1>1, <2>1, <2>3, ProtocolsMore DEF n, RollIs
  <2>8. StartsAre(fs, k + 1, AddReport(roll[k], fs[k + 1]).starts)
    BY <1>1, <1>3, <2>1, <2>3, StartsMore DEF n, RollIs
  <2>9. RollIs(fs, k + 1, roll[k + 1])
    BY <2>2, <2>4, <2>5, <2>6, <2>7, <2>8 DEF RollIs
  <2> QED BY <2>1, <2>9
<1> HIDE DEF G
<1>6. \A k \in 0 .. n : k \in G
  BY <1>1, <1>4, <1>5, AllUpTo
<1>7. n \in G
  BY <1>1, <1>6
<1> QED BY <1>2, <1>7 DEF G, n

\* Some of the files, by their places in the list.
Picked(fs, I) == {fs[i] : i \in I}

\* Files that are told apart are counted one by one.
LEMMA FilesCounted ==
  ASSUME NEW fs, NEW I, IsFiniteSet(I), \A i, j \in I : fs[i] = fs[j] => i = j
  PROVE  Cardinality(Picked(fs, I)) = Cardinality(I)
<1> DEFINE g == [i \in I |-> fs[i]]
<1>1. /\ g \in [I -> Picked(fs, I)] /\ \A x, y \in I : g[x] = g[y] => x = y
      /\ \A t \in Picked(fs, I) : \E x \in I : g[x] = t
  BY DEF Picked
<1> HIDE DEF g
<1> QED BY <1>1, Matched

\* The dates of what was seen are those of the oldest and of the newest file.
DatedIn(seen, among) ==
  /\ seen.first.at = Min({f.mtime : f \in among})
  /\ seen.last.at = Max({f.mtime : f \in among})
  /\ {seen.first, seen.last} \subseteq {Stamp(f) : f \in among}

\* What was first and last seen has the dates of the files that show it.
LEMMA SeenDated ==
  ASSUME NEW fs, NEW I, \A m \in I : fs[m].mtime \in Nat, NEW seen, Seen(fs, seen, I)
  PROVE  DatedIn(seen, Picked(fs, I))
<1> DEFINE among == Picked(fs, I)
           times == {f.mtime : f \in among}
<1>1. PICK i \in I, j \in I :
        /\ seen = [first |-> Stamp(fs[i]), last |-> Stamp(fs[j])]
        /\ \A m \in I : fs[i].mtime <= fs[m].mtime /\ fs[m].mtime <= fs[j].mtime
  BY DEF Seen
<1>2. times \in SUBSET Nat /\ fs[i].mtime \in times /\ fs[j].mtime \in times
  BY DEF Picked
<1>3. \A x \in times : fs[i].mtime <= x /\ x <= fs[j].mtime
  BY <1>1 DEF Picked
<1>4. seen.first.at = fs[i].mtime /\ seen.last.at = fs[j].mtime
  BY <1>1 DEF Stamp
<1>5. {seen.first, seen.last} \subseteq {Stamp(f) : f \in among}
  BY <1>1 DEF Picked
<1> HIDE DEF times
<1>6. Min(times) = fs[i].mtime /\ Max(times) = fs[j].mtime
  BY <1>2, <1>3, LeastIs
<1> QED BY <1>4, <1>5, <1>6 DEF DatedIn, times

\* Occurrences and severities count the findings of all reports alike.
LEMMA CountsAgree ==
  ASSUME NEW fs, NEW n \in Nat, \A i \in 1 .. n : IsReport(fs[i].report), n = Len(fs),
         NEW roll, FindingsAre(fs, n, roll.findings), SeveritiesAre(fs, n, roll.severities)
  PROVE  Tally([k \in DOMAIN roll.findings |-> roll.findings[k].occurrences])
           = Tally(roll.severities)
<1> DEFINE ks == RisksOf(fs)
           T == Pairs(ks, n)
           occ == [k \in DOMAIN roll.findings |-> roll.findings[k].occurrences]
           keys == [t \in T |-> t[2]]
           grades == [t \in T |-> GradeOf(fs, t)]
<1>1. IsFiniteSet(T)
  BY DEF SeveritiesAre
<1>2. DOMAIN occ = KeysUpTo(ks, n) /\ \A k \in DOMAIN occ : occ[k] = Cardinality(At(ks, n, k))
  BY DEF FindingsAre
<1>3. \A t \in T : t[1] \in 1 .. n /\ t[2] \in ks[t[1]] /\ t = <<t[1], t[2]>>
  BY DEF Pairs
<1>4. \A i \in 1 .. n : ks[i] = FindingKeys(fs[i].report)
  BY DEF RisksOf
<1>5. Tally(occ) = Cardinality(T)
  <2>1. \A t \in T : keys[t] \in DOMAIN occ
    BY <1>2, <1>3 DEF KeysUpTo
  <2>2. ASSUME NEW k \in DOMAIN occ
        PROVE  occ[k] = Cardinality(Fibre(T, keys, k))
    <3>1. Fibre(T, keys, k) = At(ks, n, k) \X {k}
      <4>1. \A t \in Fibre(T, keys, k) : t \in At(ks, n, k) \X {k}
        BY <1>3 DEF Fibre, At
      <4>2. \A i \in At(ks, n, k) : <<i, k>> \in T
        BY DEF At, Pairs
      <4>3. \A t \in At(ks, n, k) \X {k} : t \in Fibre(T, keys, k)
        BY <4>2 DEF Fibre
      <4> QED BY <4>1, <4>3
    <3>2. IsFiniteSet(At(ks, n, k))
      BY AtMore
    <3>3. Cardinality(At(ks, n, k) \X {k}) = Cardinality(At(ks, n, k))
      BY <3>2, Paired
    <3> QED BY <1>2, <3>1, <3>3
  <2> HIDE DEF T, occ, keys
  <2> QED BY <1>1, <2>1, <2>2, CountsAddUp
<1>6. Tally(roll.severities) = Cardinality(T)
  <2>1. ASSUME NEW t \in T
        PROVE  grades[t] \in Severities
    <3>1. IsReport(fs[t[1]].report) /\ t[2] \in FindingKeys(fs[t[1]].report)
      BY <1>3, <1>4
    <3>2. Under(fs[t[1]].report, t[2])[1].severity \in Severities
      BY <3>1, UnderAre
    <3> QED BY <3>2 DEF GradeOf
  <2>2. DOMAIN roll.severities = Severities
    BY DEF SeveritiesAre
  <2>3. ASSUME NEW s \in DOMAIN roll.severities
        PROVE  roll.severities[s] = Cardinality(Fibre(T, grades, s))
    <3>1. Fibre(T, grades, s) = Graded(fs, n, s)
      BY DEF Fibre, Graded
    <3> QED BY <2>2, <3>1 DEF SeveritiesAre
  <2> HIDE DEF T, grades
  <2> QED BY <1>1, <2>1, <2>2, <2>3, CountsAddUp
<1> QED BY <1>5, <1>6

\* The techniques of the overview are those of the findings of all reports.
LEMMA AttacksCovered ==
  ASSUME NEW fs, NEW n \in Nat, n = Len(fs), DOMAIN fs = 1 .. n,
         \A i \in 1 .. n : IsReport(fs[i].report),
         NEW roll, FindingsAre(fs, n, roll.findings)
  PROVE  DOMAIN AttackCoverage(roll)
           = UNION {UNION {g.attacks : g \in ToSet(f.report.findings)} : f \in ToSet(fs)}
<1> DEFINE ks == RisksOf(fs)
           found == roll.findings
           all == UNION {UNION {g.attacks : g \in ToSet(f.report.findings)} : f \in ToSet(fs)}
<1>1. DOMAIN AttackCoverage(roll) = UNION {found[k].attacks : k \in DOMAIN found}
  BY DEF AttackCoverage
<1>2. /\ DOMAIN found = KeysUpTo(ks, n)
      /\ \A k \in DOMAIN found : found[k].attacks = AttacksOf(fs, At(ks, n, k), k)
  BY DEF FindingsAre
<1>3. \A i \in 1 .. n : ks[i] = FindingKeys(fs[i].report)
  BY DEF RisksOf
<1>4. ToSet(fs) = {fs[i] : i \in 1 .. n}
  BY DEF ToSet
<1> HIDE DEF ks, found
<1>5. ASSUME NEW a, NEW k \in DOMAIN found, a \in found[k].attacks
      PROVE  a \in all
  <2>1. PICK i \in At(ks, n, k) : a \in Attacks(fs[i].report, k)
    BY <1>2, <1>5 DEF AttacksOf
  <2>2. i \in 1 .. n /\ IsReport(fs[i].report)
    BY <2>1 DEF At
  <2>3. ToSet(Under(fs[i].report, k)) \subseteq ToSet(fs[i].report.findings)
    BY <2>2, UnderAre
  <2>4. PICK g \in ToSet(fs[i].report.findings) : a \in g.attacks
    BY <2>1, <2>3 DEF Attacks
  <2>5. fs[i] \in ToSet(fs)
    BY <1>4, <2>2
  <2> QED BY <2>4, <2>5
<1>6. ASSUME NEW a, NEW i \in 1 .. n, NEW g \in ToSet(fs[i].report.findings), a \in g.attacks
      PROVE  \E k \in DOMAIN found : a \in found[k].attacks
  <2> DEFINE k == FindingKey(g)
  <2>1. k \in ks[i]
    BY <1>3 DEF FindingKeys
  <2>2. k \in KeysUpTo(ks, n) /\ i \in At(ks, n, k)
    BY <2>1 DEF KeysUpTo, At
  <2>3. ToSet(Under(fs[i].report, k)) = {h \in ToSet(fs[i].report.findings) : FindingKey(h) = k}
    BY UnderAre
  <2>4. g \in ToSet(Under(fs[i].report, k))
    BY <2>3
  <2> HIDE DEF k
  <2>5. a \in AttacksOf(fs, At(ks, n, k), k)
    BY <1>6, <2>2, <2>4 DEF AttacksOf, Attacks
  <2> QED BY <1>2, <2>2, <2>5
<1>7. ASSUME NEW a \in all
      PROVE  \E k \in DOMAIN found : a \in found[k].attacks
  <2>1. PICK f \in ToSet(fs) : a \in UNION {g.attacks : g \in ToSet(f.report.findings)}
    OBVIOUS
  <2>2. PICK i \in 1 .. n : f = fs[i]
    BY <1>4, <2>1
  <2>3. PICK g \in ToSet(f.report.findings) : a \in g.attacks
    BY <2>1
  <2> QED BY <1>6, <2>2, <2>3
<1> HIDE DEF all
<1>8. UNION {found[k].attacks : k \in DOMAIN found} = all
  BY <1>5, <1>7
<1> QED BY <1>1, <1>8 DEF all

\* The window spans the times of all captures that have one.
LEMMA WindowSpans ==
  ASSUME NEW fs, NEW n \in Nat, NEW roll, StartsAre(fs, n, roll.starts),
         \A i \in 1 .. n : fs[i].report.start \in Nat,
         NEW i \in 1 .. n, fs[i].report.start > 0
  PROVE  Window(roll)[1] <= fs[i].report.start /\ fs[i].report.start <= Window(roll)[2]
<1> DEFINE s == roll.starts
           t == fs[i].report.start
<1>1. s = {fs[j].report.start : j \in 1 .. n} \ {0}
  BY DEF StartsAre
<1>2. s \in SUBSET Nat /\ t \in s /\ s # {}
  <2>1. \A x \in s : x \in Nat
    BY <1>1
  <2>2. t # 0 /\ t \in {fs[j].report.start : j \in 1 .. n}
    OBVIOUS
  <2> QED BY <1>1, <2>1, <2>2
<1>3. PICK late \in s : \A x \in s : x <= late
  BY <1>2 DEF StartsAre
<1>4. Window(roll) = <<Min(s), Max(s)>>
  BY <1>2 DEF Window
<1> HIDE DEF s, t
<1>5. \A x \in s : Min(s) <= x
  BY <1>2, LeastOf
<1>6. Max(s) = late
  BY <1>2, <1>3, LeastIs
<1>7. Window(roll)[1] = Min(s) /\ Window(roll)[2] = Max(s)
  BY <1>4
<1> QED BY <1>2, <1>3, <1>5, <1>6, <1>7 DEF t

-----------------------------------------------------------------------------
(* The overview as it is shown                                             *)

\* An overview of the files a page has read is exact.
LEMMA ListedRolled ==
  ASSUME Listed(base, files)
  PROVE  OverviewIsExact
<1> DEFINE n == Len(files)
           roll == AggregateReports(files)
<1>1. PICK S : files \in Seq(S)
  BY DEF Listed
<1>2. n \in Nat /\ DOMAIN files = 1 .. n /\ ToSet(files) = {files[i] : i \in 1 .. n}
  BY <1>1 DEF ToSet
<1>3. \A i \in 1 .. n : files[i].mtime \in Nat /\ IsReport(files[i].report)
  BY <1>2 DEF Listed
<1>4. \A i, j \in 1 .. n :
        files[i] = files[j] /\ files[i].report # Blank /\ files[j].report # Blank => i = j
  BY <1>2 DEF Listed
<1>5. RollIs(files, n, roll)
  BY <1>1, <1>3, RollEnds
<1> HIDE DEF n, roll
<1>6. ASSUME NEW I \in SUBSET (1 .. n), \A i \in I : files[i].report # Blank
      PROVE  Cardinality(Picked(files, I)) = Cardinality(I)
  <2>1. IsFiniteSet(I)
    <3>1. IsFiniteSet(1 .. n)
      BY <1>2, FS_Interval
    <3> QED BY <3>1, FS_Subset
  <2>2. \A i, j \in I : files[i] = files[j] => i = j
    BY <1>4, <1>6
  <2> QED BY <2>1, <2>2, FilesCounted
<1>7. AssetKeys(Blank) = {} /\ FindingKeys(Blank) = {} /\ DOMAIN Blank.traffic = {}
  <2>1. ToSet(Blank.nodes) = {} /\ ToSet(Blank.findings) = {}
    BY DEF Blank, ToSet
  <2>2. DOMAIN Blank.traffic = {}
    BY DEF Blank
  <2> QED BY <2>1, <2>2 DEF AssetKeys, FindingKeys
<1>8. DOMAIN roll.assets = UNION {AssetKeys(f.report) : f \in ToSet(files)}
  <2>1. DOMAIN roll.assets = UNION {KeysOf(files)[i] : i \in 1 .. n}
    BY <1>5 DEF RollIs, AssetsAre, KeysUpTo
  <2>2. \A i \in 1 .. n : KeysOf(files)[i] = AssetKeys(files[i].report)
    BY DEF KeysOf, n
  <2> QED BY <1>2, <2>1, <2>2
<1>9. ASSUME NEW k \in DOMAIN roll.assets
      PROVE  LET among == {f \in ToSet(files) : k \in AssetKeys(f.report)}
             IN roll.assets[k].reports = Cardinality(among) /\ DatedIn(roll.assets[k].seen, among)
  <2> DEFINE I == At(KeysOf(files), n, k)
             among == {f \in ToSet(files) : k \in AssetKeys(f.report)}
  <2>1. I = {i \in 1 .. n : k \in AssetKeys(files[i].report)}
    BY DEF At, KeysOf, n
  <2>2. among = Picked(files, I)
    BY <1>2, <2>1 DEF Picked
  <2>3. I \in SUBSET (1 .. n) /\ \A i \in I : files[i].report # Blank
    BY <1>7, <2>1
  <2>4. roll.assets[k].reports = Cardinality(I) /\ Seen(files, roll.assets[k].seen, I)
    BY <1>5 DEF RollIs, AssetsAre
  <2> HIDE DEF I, among
  <2>5. Cardinality(Picked(files, I)) = Cardinality(I)
    BY <1>6, <2>3
  <2>6. DatedIn(roll.assets[k].seen, Picked(files, I))
    BY <1>3, <2>3, <2>4, SeenDated
  <2> QED BY <2>2, <2>4, <2>5, <2>6 DEF among
<1>10. ASSUME NEW k \in DOMAIN roll.findings
       PROVE  LET among == {f \in ToSet(files) : k \in FindingKeys(f.report)}
                  found == roll.findings[k]
              IN /\ found.occurrences = Cardinality(among) /\ DatedIn(found.seen, among)
                 /\ found.severity
                      = Min(UNION {{g.severity : g \in ToSet(Under(f.report, k))} : f \in among})
                 /\ \E f \in among : f.name = found.text /\ f.mtime = found.seen.last.at
  <2> DEFINE I == At(RisksOf(files), n, k)
             among == {f \in ToSet(files) : k \in FindingKeys(f.report)}
             found == roll.findings[k]
             grades == UNION {{g.severity : g \in ToSet(Under(f.report, k))} : f \in among}
  <2>1. I = {i \in 1 .. n : k \in FindingKeys(files[i].report)}
    BY DEF At, RisksOf, n
  <2>2. among = Picked(files, I)
    BY <1>2, <2>1 DEF Picked
  <2>3. I \in SUBSET (1 .. n) /\ \A i \in I : files[i].report # Blank
    BY <1>7, <2>1
  <2>4. /\ found.occurrences = Cardinality(I) /\ Seen(files, found.seen, I)
        /\ found.text = found.seen.last.name
        /\ found.severity \in GradesOf(files, I, k)
        /\ \A g \in GradesOf(files, I, k) : found.severity <= g
    BY <1>5 DEF RollIs, FindingsAre
  <2> HIDE DEF I, found
  <2>5. Cardinality(Picked(files, I)) = Cardinality(I)
    BY <1>6, <2>3
  <2>6. DatedIn(found.seen, Picked(files, I))
    BY <1>3, <2>3, <2>4, SeenDated
  <2>7. grades = GradesOf(files, I, k)
    BY <2>2 DEF GradesOf, Grades, Picked
  <2>8. GradesOf(files, I, k) \in SUBSET Nat
    <3>1. \A i \in I : Grades(files[i].report, k) \subseteq Severities
      BY <1>3, <2>3, UnderAre
    <3> QED BY <3>1 DEF GradesOf, Severities
  <2>9. found.severity = Min(GradesOf(files, I, k))
    BY <2>4, <2>8, LeastIs
  <2>10. \E f \in among : f.name = found.text /\ f.mtime = found.seen.last.at
    <3>1. PICK j \in I : found.seen.last = Stamp(files[j])
      BY <2>4 DEF Seen
    <3> QED BY <2>2, <2>4, <3>1 DEF Picked, Stamp
  <2> HIDE DEF among, grades
  <2> QED BY <2>2, <2>4, <2>5, <2>6, <2>7, <2>9, <2>10 DEF among, grades, found
<1>11. ASSUME NEW p \in DOMAIN roll.protocols
       PROVE  roll.protocols[p].reports
                = Cardinality({f \in ToSet(files) : p \in DOMAIN f.report.traffic})
  <2> DEFINE I == At(TrafficOf(files), n, p)
             among == {f \in ToSet(files) : p \in DOMAIN f.report.traffic}
  <2>1. I = {i \in 1 .. n : p \in DOMAIN files[i].report.traffic}
    BY DEF At, TrafficOf, n
  <2>2. among = Picked(files, I)
    BY <1>2, <2>1 DEF Picked
  <2>3. I \in SUBSET (1 .. n) /\ \A i \in I : files[i].report # Blank
    BY <1>7, <2>1
  <2>4. roll.protocols[p].reports = Cardinality(I)
    BY <1>5 DEF RollIs, ProtocolsAre
  <2> HIDE DEF I, among
  <2>5. Cardinality(Picked(files, I)) = Cardinality(I)
    BY <1>6, <2>3
  <2> QED BY <2>2, <2>4, <2>5 DEF among
<1>12. Tally([k \in DOMAIN roll.findings |-> roll.findings[k].occurrences]) = Tally(roll.severities)
  BY <1>2, <1>3, <1>5, CountsAgree DEF RollIs, n
<1>13. DOMAIN AttackCoverage(roll)
         = UNION {UNION {g.attacks : g \in ToSet(f.report.findings)} : f \in ToSet(files)}
  BY <1>2, <1>3, <1>5, AttacksCovered DEF RollIs, n
<1>14. ASSUME NEW f \in ToSet(files), f.report.start > 0
       PROVE  Window(roll)[1] <= f.report.start /\ f.report.start <= Window(roll)[2]
  <2>1. PICK i \in 1 .. n : f = files[i]
    BY <1>2
  <2>2. \A j \in 1 .. n : files[j].report.start \in Nat
    BY <1>3 DEF IsReport
  <2> QED BY <1>2, <1>5, <1>14, <2>1, <2>2, WindowSpans DEF RollIs
<1> QED BY <1>8, <1>9, <1>10, <1>11, <1>12, <1>13, <1>14 DEF OverviewIsExact, DatedIn, roll

\* An overview counts, dates and grades assets and findings alike in whatever order
\* the directory lists the reports, however many there are.
THEOREM OverviewHolds == Spec => []OverviewIsExact
<1>1. PageInv => OverviewIsExact
  BY ListedRolled DEF PageInv
<1> QED BY <1>1, MergeInvariant, PTL

-----------------------------------------------------------------------------
(* Places of indicators *)

Filled(ss, k) == {i \in 1 .. k : ss[i] # <<>>}

\* Lists are joined one by one.
LEMMA FlattenSteps ==
  ASSUME NEW T, NEW ss \in Seq(Seq(T))
  PROVE  \E h : /\ h \in [0 .. Len(ss) -> Seq(T)] /\ h[0] = <<>> /\ h[Len(ss)] = FlattenSeq(ss)
                /\ \A k \in 1 .. Len(ss) : h[k] = h[k - 1] \o ss[k]
<1> DEFINE n == Len(ss)
           A == Seq(T)
           none == <<>>
           g == [k \in 1 .. n |-> [l \in A |-> l \o ss[k]]]
<1>0. n \in Nat /\ \A k \in 1 .. n : ss[k] \in A
  OBVIOUS
<1>1. g \in [1 .. n -> [A -> A]] /\ none \in A
  BY <1>0
<1>2. PICK h \in [0 .. n -> A] : h[0] = none /\ \A k \in 1 .. n : h[k] = g[k][h[k - 1]]
  <2> HIDE DEF A, g, n, none
  <2>1. \E h \in [0 .. n -> A] : IsWalk(h, n, none, g)
    BY <1>0, <1>1, StepsExist
  <2> QED BY <2>1 DEF IsWalk
<1>3. \A k \in 1 .. n : h[k] = h[k - 1] \o ss[k]
  <2>1. \A k \in 1 .. n : k - 1 \in 0 .. n
    BY <1>0
  <2> QED BY <1>2, <2>1
<1>4. CASE n = 0
  <2>1. FlattenSeq(ss) = ss /\ ss = none
    BY <1>4 DEF FlattenSeq
  <2> QED BY <1>2, <1>3, <1>4, <2>1
<1>5. CASE n # 0
  <2> DEFINE Eq(f) == f = [i \in 1 .. n |-> IF i = 1 THEN ss[i] ELSE f[i - 1] \o ss[i]]
             flat == [i \in 1 .. n |-> h[i]]
  <2>1. h[1] = ss[1]
    <3>1. 1 \in 1 .. n /\ 1 - 1 = 0
      BY <1>0, <1>5
    <3>2. h[1] = none \o ss[1] /\ ss[1] \in A
      BY <1>0, <1>2, <1>3, <3>1
    <3> QED BY <3>2
  <2>2. \A i \in 1 .. n : flat[i] = IF i = 1 THEN ss[i] ELSE flat[i - 1] \o ss[i]
    <3>1. \A i \in 1 .. n : i # 1 => i - 1 \in 1 .. n
      BY <1>0
    <3> HIDE DEF n
    <3> QED BY <1>3, <2>1, <3>1
  <2>3. Eq(flat)
    <3>1. flat = [i \in 1 .. n |-> flat[i]]
      OBVIOUS
    <3> HIDE DEF flat
    <3> QED BY <2>2, <3>1
  <2>4. PICK f : Eq(f) /\ FlattenSeq(ss) = f[n]
    <3>1. FlattenSeq(ss) = LET flatten[i \in 1 .. Len(ss)] == IF i = 1 THEN ss[i] ELSE flatten[i - 1] \o ss[i]
                           IN flatten[Len(ss)]
      BY <1>5 DEF FlattenSeq
    <3> QED BY <2>3, <3>1
  <2>5. f[1] = ss[1] /\ \A k \in 1 .. n : k # 1 => f[k] = f[k - 1] \o ss[k]
    <3>1. 1 \in 1 .. n
      BY <1>0, <1>5
    <3> QED BY <2>4, <3>1
  <2> DEFINE G == {k \in 0 .. n - 1 : f[k + 1] = h[k + 1]}
  <2>6. 0 \in G
    BY <1>0, <1>5, <2>1, <2>5
  <2>7. ASSUME NEW k \in 0 .. (n - 1) - 1, k \in G
        PROVE  k + 1 \in G
    <3> DEFINE m == (k + 1) + 1
    <3>1. m \in 1 .. n /\ m # 1 /\ m - 1 = k + 1 /\ k + 1 \in 0 .. n - 1
      BY <1>0
    <3>2. f[k + 1] = h[k + 1]
      BY <2>7
    <3> HIDE DEF n, m
    <3>3. f[m] = h[m]
      BY <1>3, <2>5, <3>1, <3>2
    <3> QED BY <3>1, <3>3 DEF m
  <2>8. n - 1 \in Nat
    BY <1>0, <1>5
  <2>9. n - 1 \in G
    <3> HIDE DEF G
    <3>1. \A k \in 0 .. n - 1 : k \in G
      BY <2>6, <2>7, <2>8, AllUpTo
    <3> QED BY <2>8, <3>1
  <2>10. f[n] = h[n]
    BY <1>0, <2>9
  <2> QED BY <1>2, <1>3, <2>4, <2>10
<1> QED BY <1>4, <1>5

\* The joined list has an element at least for each list that has one.
LEMMA Flattened ==
  ASSUME NEW T, NEW ss \in Seq(Seq(T))
  PROVE  /\ FlattenSeq(ss) \in Seq(T)
         /\ Cardinality(Filled(ss, Len(ss))) <= Len(FlattenSeq(ss))
<1> DEFINE n == Len(ss)
<1>0. n \in Nat /\ \A k \in 1 .. n : ss[k] \in Seq(T)
  OBVIOUS
<1>1. PICK h : /\ h \in [0 .. n -> Seq(T)] /\ h[0] = <<>> /\ h[n] = FlattenSeq(ss)
               /\ \A k \in 1 .. n : h[k] = h[k - 1] \o ss[k]
  BY FlattenSteps
<1> HIDE DEF n
<1> DEFINE G == {k \in 0 .. n : Cardinality(Filled(ss, k)) <= Len(h[k])}
<1>2. 0 \in G
  <2>1. Filled(ss, 0) = {}
    BY DEF Filled
  <2>2. Cardinality(Filled(ss, 0)) = 0
    BY <2>1, FS_EmptySet
  <2>3. Len(h[0]) = 0
    BY <1>1
  <2> QED BY <1>0, <2>2, <2>3
<1>3. ASSUME NEW k \in 0 .. n - 1, k \in G
      PROVE  k + 1 \in G
  <2>1. /\ k + 1 \in 1 .. n /\ (k + 1) - 1 = k /\ k + 1 \in 0 .. n /\ k \in 0 .. n /\ k \in Nat
        /\ 1 .. k + 1 = (1 .. k) \cup {k + 1}
    BY <1>0
  <2>2. h[k + 1] = h[k] \o ss[k + 1] /\ h[k] \in Seq(T) /\ ss[k + 1] \in Seq(T)
    BY <1>0, <1>1, <2>1
  <2>3. Len(h[k + 1]) = Len(h[k]) + Len(ss[k + 1]) /\ Len(h[k]) \in Nat /\ Len(ss[k + 1]) \in Nat
    BY <2>2
  <2>4. Cardinality(Filled(ss, k)) <= Len(h[k])
    BY <1>3
  <2>5. IsFiniteSet(Filled(ss, k))
    <3>1. IsFiniteSet(1 .. k) /\ Filled(ss, k) \in SUBSET (1 .. k)
      BY <2>1, FS_Interval DEF Filled
    <3> QED BY <3>1, FS_Subset
  <2>6. Cardinality(Filled(ss, k)) \in Nat
    BY <2>5, FS_CardinalityType
  <2>7. CASE ss[k + 1] = <<>>
    <3>1. Filled(ss, k + 1) = Filled(ss, k)
      BY <2>1, <2>7 DEF Filled
    <3> DEFINE c == Cardinality(Filled(ss, k))
               d == Cardinality(Filled(ss, k + 1))
               a == Len(h[k])
               b == Len(h[k + 1])
               e == Len(ss[k + 1])
    <3>2. d = c /\ c <= a /\ b = a + e /\ c \in Nat /\ a \in Nat /\ e \in Nat
      BY <2>3, <2>4, <2>6, <3>1
    <3> HIDE DEF a, b, c, d, e
    <3>3. d <= b
      BY <3>2
    <3> QED BY <2>1, <3>3 DEF b, d
  <2>8. CASE ss[k + 1] # <<>>
    <3>1. Filled(ss, k + 1) = Filled(ss, k) \cup {k + 1} /\ k + 1 \notin Filled(ss, k)
      BY <2>1, <2>8 DEF Filled
    <3>2. Cardinality(Filled(ss, k) \cup {k + 1})
            = IF k + 1 \in Filled(ss, k) THEN Cardinality(Filled(ss, k)) ELSE Cardinality(Filled(ss, k)) + 1
      BY <2>5, FS_AddElement
    <3>3. Len(ss[k + 1]) >= 1
      BY <2>2, <2>3, <2>8
    <3> DEFINE c == Cardinality(Filled(ss, k))
               d == Cardinality(Filled(ss, k + 1))
               a == Len(h[k])
               b == Len(h[k + 1])
               e == Len(ss[k + 1])
    <3>4. d = c + 1
      BY <3>1, <3>2
    <3>5. c <= a /\ b = a + e /\ c \in Nat /\ a \in Nat /\ e \in Nat /\ e >= 1
      BY <2>3, <2>4, <2>6, <3>3
    <3> HIDE DEF a, b, c, d, e
    <3>6. d <= b
      BY <3>4, <3>5
    <3> QED BY <2>1, <3>6 DEF b, d
  <2> QED BY <2>7, <2>8
<1> HIDE DEF G
<1>4. \A k \in 0 .. n : k \in G
  BY <1>0, <1>2, <1>3, AllUpTo
<1>5. n \in 0 .. n
  BY <1>0
<1> QED BY <1>1, <1>4, <1>5 DEF G, n

-----------------------------------------------------------------------------
(* The places of an indicator in a report                                  *)

Lists == {"node", "conversation", "c2_indicator", "risk_finding"}
Fields == {"ip", "sip", "dip", "dst", "src", "nodes", "mac", "smac", "dmac"}
Place == (Lists \X Fields) \cup ({"dns_queries"} \X STRING) \cup {"malware_finding"}

Holding(seq, fields, values) == {i \in 1 .. Len(seq) : \E f \in ToSet(fields) : seq[i][f] \in values}

\* Every element that holds one of the values is a place.
LEMMA AlongIs ==
  ASSUME NEW where \in Lists, NEW S, NEW seq \in Seq(S), NEW fields \in Seq(Fields), NEW values
  PROVE  /\ Along(where, seq, fields, values) \in Seq(Place)
         /\ Cardinality(Holding(seq, fields, values)) <= Len(Along(where, seq, fields, values))
<1> DEFINE C(i) == {f \in ToSet(fields) : seq[i][f] \in values}
           at(i) == Among(fields, C(i))
           part(i) == [k \in DOMAIN at(i) |-> <<where, at(i)[k]>>]
           ss == [i \in DOMAIN seq |-> part(i)]
           n == Len(seq)
<1>1. n \in Nat /\ DOMAIN seq = 1 .. n
  OBVIOUS
<1>2. Along(where, seq, fields, values) = FlattenSeq(ss)
  BY DEF Along
<1>3. ASSUME NEW i \in 1 .. n
      PROVE  /\ part(i) \in Seq(Place)
             /\ (\E f \in ToSet(fields) : seq[i][f] \in values) => part(i) # <<>>
  <2> DEFINE c == C(i)
             a == at(i)
  <2>1. c \subseteq ToSet(fields)
    OBVIOUS
  <2>2. (\E f \in ToSet(fields) : seq[i][f] \in values) => c # {}
    OBVIOUS
  <2>3. a = Among(fields, c)
    OBVIOUS
  <2> HIDE DEF c, a
  <2>4. a \in Seq(Fields) /\ ToSet(a) = ToSet(fields) \cap c
    BY <2>3, AmongPlaces, AmongAre
  <2>5. Len(a) \in Nat /\ DOMAIN a = 1 .. Len(a) /\ \A k \in DOMAIN a : a[k] \in Fields
    BY <2>4
  <2>6. part(i) = [k \in 1 .. Len(a) |-> <<where, a[k]>>]
    BY <2>5 DEF a
  <2> HIDE DEF part
  <2>7. part(i) \in Seq(Place)
    <3>1. \A k \in 1 .. Len(a) : <<where, a[k]>> \in Place
      BY <2>5 DEF Place
    <3> DEFINE m == Len(a)
               b == [k \in 1 .. m |-> <<where, a[k]>>]
    <3>2. m \in Nat /\ part(i) = b /\ \A k \in 1 .. m : b[k] \in Place
      BY <2>5, <2>6, <3>1
    <3>3. b = [k \in 1 .. m |-> b[k]]
      OBVIOUS
    <3> HIDE DEF b, m, Place
    <3>4. b \in [1 .. m -> Place]
      BY <3>2, <3>3
    <3>5. b \in Seq(Place)
      BY <3>2, <3>4
    <3> QED BY <3>2, <3>5
  <2>8. c # {} => part(i) # <<>>
    <3>1. c # {} => ToSet(a) # {}
      BY <2>1, <2>4
    <3>2. c # {} => DOMAIN a # {}
      BY <3>1 DEF ToSet
    <3>3. DOMAIN part(i) = DOMAIN a
      BY <2>5, <2>6
    <3>4. part(i) = <<>> => DOMAIN part(i) = {}
      OBVIOUS
    <3> QED BY <3>2, <3>3, <3>4
  <2> QED BY <2>2, <2>7, <2>8
<1> HIDE DEF part
<1>4. ss \in Seq(Seq(Place)) /\ Len(ss) = n /\ \A i \in 1 .. n : ss[i] = part(i)
  BY <1>1, <1>3
<1> HIDE DEF ss
<1>5. FlattenSeq(ss) \in Seq(Place) /\ Cardinality(Filled(ss, n)) <= Len(FlattenSeq(ss))
  BY <1>4, Flattened
<1> DEFINE H == Holding(seq, fields, values)
           F == Filled(ss, n)
<1>6. H \in SUBSET F
  BY <1>3, <1>4 DEF Holding, Filled
<1>7. IsFiniteSet(F)
  <2>1. IsFiniteSet(1 .. n) /\ F \in SUBSET (1 .. n)
    BY <1>1, FS_Interval DEF Filled
  <2> QED BY <2>1, FS_Subset
<1> HIDE DEF H, F
<1>8. Cardinality(H) <= Cardinality(F) /\ Cardinality(H) \in Nat /\ Cardinality(F) \in Nat
  BY <1>6, <1>7, FS_Subset, FS_CardinalityType
<1> DEFINE c == Cardinality(H)
           d == Cardinality(F)
           m == Len(FlattenSeq(ss))
<1>9. c <= d /\ d <= m /\ c \in Nat /\ d \in Nat /\ m \in Nat
  BY <1>5, <1>8 DEF F
<1> HIDE DEF c, d, m
<1>10. c <= m
  BY <1>9
<1> QED BY <1>2, <1>5, <1>10 DEF c, m, H

\* Queries of a conversation, one after the other.
LEMMA QueriesListed ==
  ASSUME NEW Q, IsFiniteSet(Q)
  PROVE  SetToSeq(Q) \in Seq(Q)
<1>1. \E f \in [1 .. Cardinality(Q) -> Q] : IsInjective(f)
  <2>1. ExistsBijection(1 .. Cardinality(Q), Q)
    BY FS_CardinalityType
  <2> QED BY <2>1 DEF ExistsBijection, Bijection, Injection
<1>2. SetToSeq(Q) \in [1 .. Cardinality(Q) -> Q]
  BY <1>1 DEF SetToSeq
<1>3. Cardinality(Q) \in Nat
  BY FS_CardinalityType
<1> QED BY <1>2, <1>3

\* The places of a domain are queries.
LEMMA DomainPlaces ==
  ASSUME NEW r, IsReport(r), NEW domain
  PROVE  PlacesOfDomain(r, domain) \in Seq(Place)
<1> DEFINE n == Len(r.convs)
           qs(i) == {q \in r.convs[i].queries : <<domain, q>> \in Covers}
           Q(i) == {<<"dns_queries", q>> : q \in qs(i)}
           ss == [i \in DOMAIN r.convs |-> SetToSeq(Q(i))]
<1>1. r.convs \in Seq(ConvRecord) /\ n \in Nat /\ DOMAIN r.convs = 1 .. n
  BY DEF IsReport
<1>2. ASSUME NEW i \in 1 .. n
      PROVE  SetToSeq(Q(i)) \in Seq(Place)
  <2>1. r.convs[i].queries \subseteq STRING
    <3> DEFINE c == r.convs[i]
    <3>1. c \in ConvRecord
      BY <1>1
    <3> HIDE DEF c
    <3>2. c.queries \in SUBSET STRING
      BY <3>1 DEF ConvRecord
    <3> QED BY <3>2 DEF c
  <2>2. IsFiniteSet(r.convs[i].queries)
    BY <1>1 DEF IsReport, ToSet
  <2>3. IsFiniteSet(qs(i))
    BY <2>2, FS_Subset
  <2>4. IsFiniteSet(Q(i))
    <3> DEFINE f == [q \in qs(i) |-> <<"dns_queries", q>>]
    <3>1. DOMAIN f = qs(i) /\ Q(i) = {f[x] : x \in DOMAIN f}
      OBVIOUS
    <3> HIDE DEF f
    <3> QED BY <2>3, <3>1, ImageFinite
  <2>5. Q(i) \subseteq Place
    <3>1. ASSUME NEW q \in qs(i)
          PROVE  <<"dns_queries", q>> \in {"dns_queries"} \X STRING
      <4>1. q \in r.convs[i].queries
        OBVIOUS
      <4> QED BY <2>1, <4>1
    <3> HIDE DEF qs
    <3> QED BY <3>1 DEF Place
  <2> DEFINE q == Q(i)
  <2> HIDE DEF q
  <2>6. SetToSeq(q) \in Seq(q) /\ q \subseteq Place
    BY <2>4, <2>5, QueriesListed DEF q
  <2>7. SetToSeq(q) \in Seq(Place)
    BY <2>6
  <2> QED BY <2>7 DEF q
<1>3. PlacesOfDomain(r, domain) = FlattenSeq(ss)
  BY DEF PlacesOfDomain
<1>4. ss \in Seq(Seq(Place))
  <2> HIDE DEF Q
  <2> QED BY <1>1, <1>2
<1> HIDE DEF ss
<1> QED BY <1>3, <1>4, Flattened
\* The places of an entry that the hosts of a report have.
LEMMA PlacesTyped ==
  ASSUME NEW r, IsReport(r), NEW e
  PROVE  /\ PlacesOfIp(r, e) \in Seq(Place) /\ PlacesOfDomain(r, e) \in Seq(Place)
         /\ PlacesOfMacs(r, e) \in Seq(Place)
         /\ Cardinality(Holding(r.nodes, <<"ip">>, {e})) <= Len(PlacesOfIp(r, e))
         /\ Cardinality(Holding(r.nodes, <<"mac">>, e)) <= Len(PlacesOfMacs(r, e))
<1>1. /\ r.nodes \in Seq(NodeRecord) /\ r.convs \in Seq(ConvRecord)
      /\ r.findings \in Seq(FindingRecord) /\ r.channels \in Seq(Channel)
  BY DEF IsReport
<1>2. /\ <<"ip">> \in Seq(Fields) /\ <<"mac">> \in Seq(Fields) /\ <<"nodes">> \in Seq(Fields)
      /\ <<"sip", "dip">> \in Seq(Fields) /\ <<"dst", "src">> \in Seq(Fields)
      /\ <<"smac", "dmac">> \in Seq(Fields)
  BY DEF Fields
<1>3. {"node", "conversation", "c2_indicator", "risk_finding"} \subseteq Lists
  BY DEF Lists
<1> DEFINE ips == Along("node", r.nodes, <<"ip">>, {e})
           convs == Along("conversation", r.convs, <<"sip", "dip">>, {e})
           chans == Along("c2_indicator", r.channels, <<"dst", "src">>, {e})
           risks == Along("risk_finding", r.findings, <<"nodes">>, {ns \in SUBSET Addresses : e \in ns})
           macs == Along("node", r.nodes, <<"mac">>, e)
           frames == Along("conversation", r.convs, <<"smac", "dmac">>, e)
<1>4. ips \in Seq(Place) /\ Cardinality(Holding(r.nodes, <<"ip">>, {e})) <= Len(ips)
  BY <1>1, <1>2, <1>3, AlongIs
<1>5. convs \in Seq(Place)
  BY <1>1, <1>2, <1>3, AlongIs
<1>6. chans \in Seq(Place)
  BY <1>1, <1>2, <1>3, AlongIs
<1>7. risks \in Seq(Place)
  BY <1>1, <1>2, <1>3, AlongIs
<1>8. macs \in Seq(Place) /\ Cardinality(Holding(r.nodes, <<"mac">>, e)) <= Len(macs)
  BY <1>1, <1>2, <1>3, AlongIs
<1>9. frames \in Seq(Place)
  BY <1>1, <1>2, <1>3, AlongIs
<1>10. PlacesOfIp(r, e) = ips \o convs \o chans \o risks /\ PlacesOfMacs(r, e) = macs \o frames
  BY DEF PlacesOfIp, PlacesOfMacs
<1> HIDE DEF ips, convs, chans, risks, macs, frames
<1> DEFINE a == Cardinality(Holding(r.nodes, <<"ip">>, {e}))
           b == Cardinality(Holding(r.nodes, <<"mac">>, e))
<1>11. \A seq \in Seq(NodeRecord) : \A fields, values : Cardinality(Holding(seq, fields, values)) \in Nat
  <2> SUFFICES ASSUME NEW seq \in Seq(NodeRecord), NEW fields, NEW values
               PROVE  Cardinality(Holding(seq, fields, values)) \in Nat
    OBVIOUS
  <2>1. Holding(seq, fields, values) \in SUBSET (1 .. Len(seq)) /\ IsFiniteSet(1 .. Len(seq))
    BY FS_Interval DEF Holding
  <2> HIDE DEF a, b
  <2>2. IsFiniteSet(Holding(seq, fields, values))
    BY <2>1, FS_Subset
  <2> QED BY <2>2, FS_CardinalityType
<1>12. a \in Nat /\ b \in Nat /\ a <= Len(ips) /\ b <= Len(macs)
  BY <1>1, <1>4, <1>8, <1>11
<1> HIDE DEF a, b, Place
<1>13. /\ PlacesOfIp(r, e) \in Seq(Place) /\ a <= Len(PlacesOfIp(r, e))
  <2> DEFINE two == ips \o convs
             three == two \o chans
  <2>1. two \in Seq(Place) /\ Len(ips) <= Len(two)
    BY <1>4, <1>5
  <2> HIDE DEF two
  <2>2. three \in Seq(Place) /\ Len(two) <= Len(three)
    BY <1>6, <2>1
  <2>3. PlacesOfIp(r, e) = three \o risks
    BY <1>10 DEF two
  <2> HIDE DEF three
  <2>4. three \o risks \in Seq(Place) /\ Len(three) <= Len(three \o risks)
    BY <1>7, <2>2
  <2> DEFINE l1 == Len(ips)
             l2 == Len(two)
             l3 == Len(three)
             l4 == Len(three \o risks)
  <2>5. l1 \in Nat /\ l2 \in Nat /\ l3 \in Nat /\ l4 \in Nat
    BY <1>4, <2>1, <2>2, <2>4
  <2>6. a <= l1 /\ l1 <= l2 /\ l2 <= l3 /\ l3 <= l4
    BY <1>12, <2>1, <2>2, <2>4
  <2> HIDE DEF l1, l2, l3, l4
  <2>7. a <= l4
    BY <1>12, <2>5, <2>6
  <2> QED BY <2>3, <2>4, <2>7 DEF l4
<1>14. /\ PlacesOfMacs(r, e) \in Seq(Place) /\ b <= Len(PlacesOfMacs(r, e))
  <2>1. Len(macs \o frames) = Len(macs) + Len(frames) /\ Len(frames) \in Nat /\ Len(macs) \in Nat
    BY <1>8, <1>9
  <2> QED BY <1>8, <1>9, <1>10, <1>12, <2>1
<1> QED BY <1>13, <1>14, DomainPlaces DEF a, b

Shows(node, e) ==
  \/ e.kind = "ip" /\ node.ip = e.value
  \/ e.kind = "mac" /\ node.mac = e.value
  \/ e.kind = "oui" /\ node.mac \in MACs /\ OuiOf[node.mac] = e.value
Hosts(r, e) == {i \in DOMAIN r.nodes : Shows(r.nodes[i], e)}

\* Every host that shows an indicator is one of its places.
LEMMA HostsArePlaces ==
  ASSUME NEW r, IsReport(r), NEW e \in Entry
  PROVE  /\ Places(r, e) \in Seq(Place)
         /\ Cardinality(Hosts(r, e)) <= Len(Places(r, e))
         /\ Hosts(r, e) # {} => Places(r, e) # <<>>
<1>1. r.nodes \in Seq(NodeRecord) /\ DOMAIN r.nodes = 1 .. Len(r.nodes) /\ Len(r.nodes) \in Nat
  BY DEF IsReport
<1>2. e.kind \in {"ip", "mac", "oui", "domain", "hash"} /\ Norm(e) = e.value
  BY DEF Entry, Norm
<1> DEFINE v == e.value
           H == Hosts(r, e)
           ps == Places(r, e)
<1>3. ps \in Seq(Place) /\ Cardinality(H) <= Len(ps)
  <2>1. CASE e.kind = "ip"
    <3>1. ps = PlacesOfIp(r, v)
      BY <1>2, <2>1 DEF Places
    <3>2. H = Holding(r.nodes, <<"ip">>, {v})
      <4>1. \A i \in DOMAIN r.nodes : i \in H <=> r.nodes[i].ip = v
        BY <2>1 DEF Hosts, Shows
      <4>2. \A i \in DOMAIN r.nodes : i \in Holding(r.nodes, <<"ip">>, {v}) <=> r.nodes[i].ip = v
        <5>1. ToSet(<<"ip">>) = {"ip"}
          BY DEF ToSet
        <5> QED BY <1>1, <5>1 DEF Holding
      <4>3. H \subseteq DOMAIN r.nodes /\ Holding(r.nodes, <<"ip">>, {v}) \subseteq DOMAIN r.nodes
        BY <1>1 DEF Hosts, Holding
      <4> QED BY <4>1, <4>2, <4>3
    <3> QED BY <3>1, <3>2, PlacesTyped
  <2> DEFINE macs == IF e.kind = "mac" THEN {v} ELSE {m \in MACs : OuiOf[m] = v}
  <2>2. CASE e.kind \in {"mac", "oui"}
    <3>1. ps = PlacesOfMacs(r, macs)
      BY <1>2, <2>2 DEF Places, PlacesOfMac, PlacesOfOui
    <3>2. H = Holding(r.nodes, <<"mac">>, macs)
      <4>1. \A i \in DOMAIN r.nodes : i \in H <=> r.nodes[i].mac \in macs
        BY <2>2 DEF Hosts, Shows
      <4>2. \A i \in DOMAIN r.nodes : i \in Holding(r.nodes, <<"mac">>, macs) <=> r.nodes[i].mac \in macs
        <5> HIDE DEF macs
        <5>1. ToSet(<<"mac">>) = {"mac"}
          BY DEF ToSet
        <5> QED BY <1>1, <5>1 DEF Holding
      <4>3. H \subseteq DOMAIN r.nodes /\ Holding(r.nodes, <<"mac">>, macs) \subseteq DOMAIN r.nodes
        BY <1>1 DEF Hosts, Holding
      <4> HIDE DEF macs
      <4> QED BY <4>1, <4>2, <4>3
    <3> HIDE DEF macs
    <3> QED BY <3>1, <3>2, PlacesTyped
  <2>3. CASE e.kind \in {"domain", "hash"}
    <3>1. ps \in Seq(Place)
      <4>1. CASE e.kind = "domain"
        <5>1. ps = PlacesOfDomain(r, v)
          BY <1>2, <4>1 DEF Places
        <5> QED BY <5>1, PlacesTyped
      <4>2. CASE e.kind = "hash"
        <5>1. ps = IF v \in r.hashes THEN <<"malware_finding">> ELSE <<>>
          BY <1>2, <4>2 DEF Places
        <5>2. "malware_finding" \in Place
          BY DEF Place
        <5> HIDE DEF Place
        <5> QED BY <5>1, <5>2
      <4> QED BY <2>3, <4>1, <4>2
    <3>2. H = {}
      BY <2>3 DEF Hosts, Shows
    <3>3. Cardinality(H) = 0
      BY <3>2, FS_EmptySet
    <3> HIDE DEF ps, H
    <3>4. Len(ps) \in Nat
      BY <3>1
    <3> QED BY <3>1, <3>3, <3>4
  <2> QED BY <1>2, <2>1, <2>2, <2>3
<1>4. IsFiniteSet(H)
  <2>1. IsFiniteSet(1 .. Len(r.nodes)) /\ H \in SUBSET (1 .. Len(r.nodes))
    BY <1>1, FS_Interval DEF Hosts
  <2> QED BY <2>1, FS_Subset
<1>5. ASSUME H # {}, ps = <<>>
      PROVE  FALSE
  <2>1. Cardinality(H) \in Nat /\ Cardinality(H) # 0
    BY <1>4, <1>5, FS_CardinalityType, FS_EmptySet
  <2>2. Len(ps) = 0
    BY <1>5
  <2> HIDE DEF H, ps
  <2> QED BY <1>3, <2>1, <2>2
<1> QED BY <1>3, <1>5

-----------------------------------------------------------------------------
(* Sums *)

\* t is the sum of the numbers of a list.
Sums(l, t) ==
  \E f \in [0 .. Len(l) -> Nat] :
    f[0] = 0 /\ f[Len(l)] = t /\ \A k \in 1 .. Len(l) : f[k] = f[k - 1] + l[k]

\* No numbers sum up to zero.
LEMMA SumsNone == Sums(<<>>, 0)
<1> DEFINE none == <<>>
           f == [k \in 0 .. 0 |-> 0]
<1>1. Len(none) = 0 /\ f \in [0 .. 0 -> Nat] /\ f[0] = 0 /\ 1 .. 0 = {}
  OBVIOUS
<1> HIDE DEF none, f
<1>2. Sums(none, 0)
  BY <1>1 DEF Sums
<1> QED BY <1>2 DEF none

\* The sum of two lists is the sum of their sums.
LEMMA SumsConcat ==
  ASSUME NEW a \in Seq(Nat), NEW b \in Seq(Nat), NEW t \in Nat, NEW u \in Nat, Sums(a, t), Sums(b, u)
  PROVE  Sums(a \o b, t + u)
<1> DEFINE m == Len(a)
           n == Len(b)
           c == a \o b
<1>1. PICK f \in [0 .. m -> Nat] :
        f[0] = 0 /\ f[m] = t /\ \A k \in 1 .. m : f[k] = f[k - 1] + a[k]
  BY DEF Sums
<1>2. PICK g \in [0 .. n -> Nat] :
        g[0] = 0 /\ g[n] = u /\ \A k \in 1 .. n : g[k] = g[k - 1] + b[k]
  BY DEF Sums
<1>3. /\ m \in Nat /\ n \in Nat /\ Len(c) = m + n
      /\ \A k \in 1 .. m : c[k] = a[k] /\ a[k] \in Nat
      /\ \A k \in m + 1 .. m + n : c[k] = b[k - m] /\ b[k - m] \in Nat
  OBVIOUS
<1> HIDE DEF m, n, c
<1> DEFINE h == [k \in 0 .. m + n |-> IF k <= m THEN f[k] ELSE t + g[k - m]]
<1>4. \A k \in 0 .. m + n : (k <= m => k \in 0 .. m) /\ (~(k <= m) => k - m \in 1 .. n /\ k - m \in 0 .. n)
  BY <1>3
<1>5. h \in [0 .. m + n -> Nat]
  <2>1. ASSUME NEW k \in 0 .. m + n
        PROVE  (IF k <= m THEN f[k] ELSE t + g[k - m]) \in Nat
    <3>1. CASE k <= m
      <4>1. f[k] \in Nat
        BY <1>1, <1>4, <3>1
      <4> QED BY <3>1, <4>1
    <3>2. CASE ~(k <= m)
      <4>1. g[k - m] \in Nat
        BY <1>2, <1>4, <3>2
      <4>2. t + g[k - m] \in Nat
        BY <4>1
      <4> QED BY <3>2, <4>2
    <3> QED BY <3>1, <3>2
  <2> QED BY <2>1
<1>6. h[0] = 0
  BY <1>1, <1>3
<1>7. h[m + n] = t + u
  <2>1. CASE n = 0
    BY <1>1, <1>2, <1>3, <2>1
  <2>2. CASE n # 0
    <3>1. m + n \in 0 .. m + n /\ ~(m + n <= m) /\ (m + n) - m = n
      BY <1>3, <2>2
    <3> QED BY <1>2, <3>1
  <2> QED BY <2>1, <2>2
<1>8. ASSUME NEW k \in 1 .. m + n
      PROVE  h[k] = h[k - 1] + c[k]
  <2>1. k \in 0 .. m + n /\ k - 1 \in 0 .. m + n /\ k \in Nat /\ k - 1 \in Nat
    BY <1>3
  <2>2. CASE k <= m
    <3>1. k \in 1 .. m /\ k - 1 <= m
      BY <1>3, <2>2
    <3>2. h[k] = f[k] /\ h[k - 1] = f[k - 1]
      BY <2>1, <2>2, <3>1
    <3> QED BY <1>1, <1>3, <3>1, <3>2
  <2>3. CASE ~(k <= m)
    <3>1. /\ k \in m + 1 .. m + n /\ k - m \in 1 .. n /\ (k - m) - 1 = (k - 1) - m
          /\ (k - m) - 1 \in 0 .. n /\ k - m \in 0 .. n
      BY <1>3, <2>1, <2>3
    <3>2. h[k] = t + g[k - m]
      BY <2>1, <2>3
    <3>3. g[k - m] = g[(k - m) - 1] + b[k - m] /\ c[k] = b[k - m]
      BY <1>2, <1>3, <3>1
    <3>4. h[k - 1] = t + g[(k - m) - 1]
      <4>1. CASE k - 1 <= m
        <5>1. k - 1 = m /\ (k - m) - 1 = 0
          BY <1>3, <2>1, <2>3, <4>1
        <5>2. h[k - 1] = f[k - 1]
          BY <2>1, <4>1
        <5> QED BY <1>1, <1>2, <5>1, <5>2
      <4>2. CASE ~(k - 1 <= m)
        BY <2>1, <3>1, <4>2
      <4> QED BY <4>1, <4>2
    <3>5. g[(k - m) - 1] \in Nat /\ b[k - m] \in Nat
      BY <1>2, <1>3, <3>1
    <3> HIDE DEF h
    <3> QED BY <3>2, <3>3, <3>4, <3>5
  <2> QED BY <2>2, <2>3
<1> HIDE DEF h
<1>9. Sums(c, t + u)
  BY <1>3, <1>5, <1>6, <1>7, <1>8 DEF Sums
<1> QED BY <1>9 DEF c

\* A prefix sums up to no more.
LEMMA SumsPrefix ==
  ASSUME NEW a \in Seq(Nat), NEW t \in Nat, Sums(a, t), NEW m \in 0 .. Len(a)
  PROVE  \E u \in Nat : u <= t /\ Sums(SubSeq(a, 1, m), u)
<1> DEFINE n == Len(a)
           p == SubSeq(a, 1, m)
<1>1. PICK f \in [0 .. n -> Nat] :
        f[0] = 0 /\ f[n] = t /\ \A k \in 1 .. n : f[k] = f[k - 1] + a[k]
  BY DEF Sums
<1>2. /\ n \in Nat /\ m \in Nat /\ m <= n /\ Len(p) = m
      /\ \A k \in 1 .. m : p[k] = a[k]
      /\ \A k \in 1 .. n : a[k] \in Nat
  OBVIOUS
<1> HIDE DEF n, p
<1> DEFINE g == [k \in 0 .. m |-> f[k]]
<1>3. g \in [0 .. m -> Nat] /\ g[0] = 0 /\ g[m] = f[m]
  BY <1>1, <1>2
<1>4. \A k \in 1 .. m : g[k] = g[k - 1] + p[k]
  <2>1. \A k \in 1 .. m : k \in 1 .. n /\ k - 1 \in 0 .. m /\ k \in 0 .. m
    BY <1>2
  <2> QED BY <1>1, <1>2, <2>1
<1> HIDE DEF g
<1>5. Sums(p, f[m])
  BY <1>2, <1>3, <1>4 DEF Sums
<1> DEFINE G == {k \in 0 .. n - m : f[m] <= f[m + k]}
<1>6. 0 \in G
  BY <1>1, <1>2
<1>7. ASSUME NEW k \in 0 .. (n - m) - 1, k \in G
      PROVE  k + 1 \in G
  <2>1. /\ m + (k + 1) \in 1 .. n /\ (m + (k + 1)) - 1 = m + k /\ k + 1 \in 0 .. n - m
        /\ m \in 0 .. n /\ m + k \in 0 .. n /\ m + (k + 1) \in 0 .. n
    BY <1>2
  <2>2. f[m + (k + 1)] = f[m + k] + a[m + (k + 1)]
    BY <1>1, <2>1
  <2>3. f[m] <= f[m + k]
    BY <1>7
  <2>4. f[m] \in Nat /\ f[m + k] \in Nat /\ a[m + (k + 1)] \in Nat
    BY <1>1, <1>2, <2>1
  <2>5. f[m] <= f[m + (k + 1)]
    BY <2>2, <2>3, <2>4
  <2> QED BY <2>1, <2>5
<1>8. n - m \in Nat
  BY <1>2
<1> HIDE DEF G
<1>9. \A k \in 0 .. n - m : k \in G
  BY <1>6, <1>7, <1>8, AllUpTo
<1>10. f[m] <= f[n] /\ f[m] \in Nat
  <2>1. n - m \in G /\ m + (n - m) = n
    BY <1>2, <1>8, <1>9
  <2> QED BY <1>1, <1>2, <2>1 DEF G
<1> QED BY <1>1, <1>5, <1>10 DEF p

Adds(f, l, n) == \A k \in 1 .. n : f[k] = f[k - 1] + l[k]

\* There is one sum, and only one.
LEMMA SumsOnce ==
  ASSUME NEW n \in Nat, NEW f, NEW g, NEW l, f[0] = g[0], Adds(f, l, n), Adds(g, l, n)
  PROVE  f[n] = g[n]
<1> DEFINE G == {k \in 0 .. n : f[k] = g[k]}
<1>1. 0 \in G
  OBVIOUS
<1>2. ASSUME NEW k \in 0 .. n - 1, k \in G
      PROVE  k + 1 \in G
  <2>1. k + 1 \in 1 .. n /\ (k + 1) - 1 = k /\ k + 1 \in 0 .. n
    OBVIOUS
  <2>2. f[k + 1] = f[k] + l[k + 1] /\ g[k + 1] = g[k] + l[k + 1]
    BY <2>1 DEF Adds
  <2>3. f[k] = g[k]
    BY <1>2
  <2>4. f[k + 1] = g[k + 1]
    BY <2>2, <2>3
  <2> QED BY <2>1, <2>4
<1> HIDE DEF G
<1>3. \A k \in 0 .. n : k \in G
  BY <1>1, <1>2, AllUpTo
<1> QED BY <1>3 DEF G

\* The first elements of a list.
LEMMA UpToIs ==
  ASSUME NEW S, NEW seq \in Seq(S), NEW n \in Nat
  PROVE  /\ UpTo(n, seq) \in Seq(S) /\ Len(UpTo(n, seq)) <= n
         /\ Len(seq) <= n => UpTo(n, seq) = seq
         /\ Len(seq) > n => Len(UpTo(n, seq)) = n
         /\ \E m \in 0 .. Len(seq) : UpTo(n, seq) = SubSeq(seq, 1, m)
<1> DEFINE l == Len(seq)
           m == Min({n, l})
<1>1. l \in Nat
  OBVIOUS
<1> HIDE DEF l
<1>2. m = IF l <= n THEN l ELSE n
  <2>1. CASE l <= n
    <3>1. {n, l} \in SUBSET Nat /\ l \in {n, l} /\ \A x \in {n, l} : l <= x
      BY <1>1, <2>1
    <3>2. Min({n, l}) = l
      BY <3>1, LeastIs
    <3> QED BY <2>1, <3>2
  <2>2. CASE ~(l <= n)
    <3>1. {n, l} \in SUBSET Nat /\ n \in {n, l} /\ \A x \in {n, l} : n <= x
      BY <1>1, <2>2
    <3>2. Min({n, l}) = n
      BY <3>1, LeastIs
    <3> QED BY <2>2, <3>2
  <2> QED BY <2>1, <2>2
<1>3. UpTo(n, seq) = SubSeq(seq, 1, m)
  BY DEF UpTo, l
<1> HIDE DEF m
<1>4. m \in 0 .. l /\ m <= n
  BY <1>1, <1>2
<1>5. SubSeq(seq, 1, m) \in Seq(S) /\ Len(SubSeq(seq, 1, m)) = m
  BY <1>4 DEF l
<1>6. l <= n => SubSeq(seq, 1, m) = seq
  <2> SUFFICES ASSUME l <= n
               PROVE  SubSeq(seq, 1, m) = seq
    OBVIOUS
  <2>1. m = Len(seq)
    BY <1>2 DEF l
  <2> QED BY <2>1
<1>7. l > n => m = n
  BY <1>1, <1>2
<1> QED BY <1>1, <1>3, <1>4, <1>5, <1>6, <1>7 DEF l

\* The numbers of places of some hits.
Lens(hits) == [i \in 1 .. Len(hits) |-> Len(hits[i].matches)]

AreHits(hits) == \A i \in 1 .. Len(hits) : hits[i].matches \in Seq(Place)

\* The numbers of places of a prefix are a prefix of the numbers of places.
LEMMA LensAre ==
  ASSUME NEW S, NEW a \in Seq(S), AreHits(a)
  PROVE  /\ Lens(a) \in Seq(Nat) /\ Len(Lens(a)) = Len(a)
         /\ \A m \in 0 .. Len(a) :
              AreHits(SubSeq(a, 1, m)) /\ Lens(SubSeq(a, 1, m)) = SubSeq(Lens(a), 1, m)
<1> HIDE DEF Place
<1>1. \A i \in 1 .. Len(a) : Len(a[i].matches) \in Nat
  BY DEF AreHits
<1>2. Len(a) \in Nat /\ Lens(a) \in [1 .. Len(a) -> Nat]
  BY <1>1 DEF Lens
<1>3. Lens(a) \in Seq(Nat) /\ Len(Lens(a)) = Len(a)
  BY <1>2
<1>4. ASSUME NEW m \in 0 .. Len(a)
      PROVE  AreHits(SubSeq(a, 1, m)) /\ Lens(SubSeq(a, 1, m)) = SubSeq(Lens(a), 1, m)
  <2> DEFINE p == SubSeq(a, 1, m)
             q == SubSeq(Lens(a), 1, m)
  <2>1. m \in Nat /\ Len(p) = m /\ \A i \in 1 .. m : p[i] = a[i] /\ i \in 1 .. Len(a)
    BY <1>2
  <2>2. q = [i \in 1 .. m |-> Lens(a)[i]]
    BY <1>3
  <2>3. \A i \in 1 .. m : Lens(a)[i] = Len(a[i].matches)
    BY <2>1 DEF Lens
  <2> HIDE DEF p, q
  <2>4. Lens(p) = [i \in 1 .. m |-> Len(a[i].matches)]
    BY <2>1 DEF Lens
  <2>5. q = Lens(p)
    BY <2>2, <2>3, <2>4
  <2>6. AreHits(p)
    BY <2>1 DEF AreHits
  <2> QED BY <2>5, <2>6 DEF p, q
<1> QED BY <1>3, <1>4

\* The numbers of places of joined hits are joined.
LEMMA LensJoin ==
  ASSUME NEW S, NEW a \in Seq(S), NEW b \in Seq(S), AreHits(a), AreHits(b)
  PROVE  AreHits(a \o b) /\ Lens(a \o b) = Lens(a) \o Lens(b)
<1> DEFINE c == a \o b
           m == Len(a)
           n == Len(b)
<1> HIDE DEF Place
<1>1. /\ m \in Nat /\ n \in Nat /\ Len(c) = m + n
      /\ \A i \in 1 .. m : c[i] = a[i]
      /\ \A i \in m + 1 .. m + n : c[i] = b[i - m] /\ i - m \in 1 .. n
      /\ \A i \in 1 .. m + n : i \in 1 .. m \/ i \in m + 1 .. m + n
  OBVIOUS
<1> HIDE DEF c
<1>2. AreHits(c)
  BY <1>1 DEF AreHits
<1>3. /\ Lens(a) \in Seq(Nat) /\ Len(Lens(a)) = m /\ Lens(b) \in Seq(Nat) /\ Len(Lens(b)) = n
  BY LensAre
<1>4. /\ \A i \in 1 .. m : Lens(a)[i] = Len(a[i].matches)
      /\ \A i \in 1 .. n : Lens(b)[i] = Len(b[i].matches)
      /\ \A i \in 1 .. m + n : Lens(c)[i] = Len(c[i].matches)
      /\ Lens(c) = [i \in 1 .. m + n |-> Lens(c)[i]]
  BY <1>1 DEF Lens
<1> HIDE DEF m, n
<1> DEFINE p == Lens(a)
           q == Lens(b)
           d == p \o q
<1> HIDE DEF p, q
<1>5. p \in Seq(Nat) /\ Len(p) = m /\ q \in Seq(Nat) /\ Len(q) = n
  BY <1>3 DEF p, q
<1>6. /\ d = [i \in 1 .. m + n |-> d[i]]
      /\ \A i \in 1 .. m : d[i] = p[i]
      /\ \A i \in m + 1 .. m + n : d[i] = q[i - m]
  <2>1. d \in Seq(Nat) /\ Len(d) = m + n
    BY <1>5
  <2>2. d = [i \in 1 .. m + n |-> d[i]]
    <3> HIDE DEF d
    <3>1. d = [i \in 1 .. Len(d) |-> d[i]]
      BY <2>1
    <3> QED BY <2>1, <3>1
  <2>3. \A i \in 1 .. m : d[i] = p[i]
    BY <1>1, <1>5
  <2>4. \A i \in m + 1 .. m + n : d[i] = q[i - m]
    <3>1. \A i \in Len(p) + 1 .. Len(p) + Len(q) : d[i] = q[i - Len(p)]
      BY <1>5
    <3> QED BY <1>5, <3>1
  <2> QED BY <2>2, <2>3, <2>4
<1> HIDE DEF d
<1>8. ASSUME NEW i \in 1 .. m + n
      PROVE  Lens(c)[i] = d[i]
  <2>1. CASE i \in 1 .. m
    <3>1. d[i] = Len(a[i].matches)
      BY <1>4, <1>6, <2>1 DEF p
    <3> QED BY <1>1, <1>4, <2>1, <3>1
  <2>2. CASE i \in m + 1 .. m + n
    <3>1. i - m \in 1 .. n /\ c[i] = b[i - m]
      BY <1>1, <2>2
    <3>2. d[i] = Len(b[i - m].matches)
      BY <1>4, <1>6, <2>2, <3>1 DEF q
    <3> QED BY <1>4, <3>1, <3>2
  <2> QED BY <1>1, <2>1, <2>2
<1>7. Lens(c) = d
  BY <1>4, <1>6, <1>8
<1> QED BY <1>2, <1>7 DEF c, d, p, q

-----------------------------------------------------------------------------
(* One report *)

Found == [entry : Entry, matches : Seq(Place)]
Taken == [left : Nat, hits : Seq(Found)]
Take(acc, r, e) == TakeHit(acc, e, UpTo(acc.left, Places(r, e)))

\* Looking up an entry takes its places from what is left to the report.
LEMMA TakeTyped ==
  ASSUME NEW acc \in Taken, NEW r, IsReport(r), NEW e \in Entry
  PROVE  /\ Take(acc, r, e) \in Taken
         /\ UpTo(acc.left, Places(r, e)) \in Seq(Place)
         /\ Take(acc, r, e).left = acc.left - Len(UpTo(acc.left, Places(r, e)))
         /\ UpTo(acc.left, Places(r, e)) = <<>> => Take(acc, r, e).hits = acc.hits
         /\ UpTo(acc.left, Places(r, e)) # <<>> =>
              Take(acc, r, e).hits
                = Append(acc.hits, [entry |-> e, matches |-> UpTo(acc.left, Places(r, e))])
<1> DEFINE ps == Places(r, e)
           some == UpTo(acc.left, ps)
           hit == [entry |-> e, matches |-> some]
           more == [left |-> acc.left - Len(some), hits |-> Append(acc.hits, hit)]
<1>1. acc.left \in Nat /\ acc.hits \in Seq(Found)
  BY DEF Taken
<1>2. ps \in Seq(Place)
  BY HostsArePlaces
<1> HIDE DEF ps, Place
<1>3. some \in Seq(Place) /\ Len(some) <= acc.left /\ Len(some) \in Nat
  <2>1. UpTo(acc.left, ps) \in Seq(Place) /\ Len(UpTo(acc.left, ps)) <= acc.left
    BY <1>1, <1>2, UpToIs
  <2>2. some \in Seq(Place) /\ Len(some) <= acc.left
    BY <2>1
  <2> HIDE DEF some
  <2> QED BY <2>2
<1>4. Take(acc, r, e) = IF some = <<>> THEN acc ELSE more
  BY DEF Take, TakeHit, ps
<1> HIDE DEF some
<1>5. hit \in Found
  BY <1>3 DEF Found
<1>6. more \in Taken
  <2>1. acc.left - Len(some) \in Nat
    BY <1>1, <1>3
  <2>2. Append(acc.hits, hit) \in Seq(Found)
    BY <1>1, <1>5
  <2> QED BY <2>1, <2>2 DEF Taken
<1>7. CASE some = <<>>
  <2>1. Len(some) = 0
    BY <1>7
  <2>2. acc.left = acc.left - Len(some)
    BY <1>1, <2>1
  <2> QED BY <1>3, <1>4, <1>7, <2>2 DEF some, ps
<1>8. CASE some # <<>>
  BY <1>3, <1>4, <1>6, <1>8 DEF some, ps
<1> QED BY <1>7, <1>8

\* The entries are looked up one by one.
LEMMA ScanSteps ==
  ASSUME NEW r, IsReport(r), NEW es \in Seq(Entry)
  PROVE  \E h \in [0 .. Len(es) -> Taken] :
           /\ h[0] = [left |-> PlacesCap, hits |-> <<>>] /\ h[Len(es)].hits = ScanReport(r, es)
           /\ \A k \in 1 .. Len(es) : h[k] = Take(h[k - 1], r, es[k])
<1> DEFINE n == Len(es)
           A == Taken
           a == [left |-> PlacesCap, hits |-> <<>>]
           g == [k \in 1 .. n |-> [acc \in A |-> Take(acc, r, es[k])]]
<1>0. n \in Nat /\ \A k \in 1 .. n : es[k] \in Entry
  OBVIOUS
<1>1. g \in [1 .. n -> [A -> A]] /\ a \in A
  <2>1. \A k \in 1 .. n : \A acc \in A : Take(acc, r, es[k]) \in A
    BY <1>0, TakeTyped
  <2>2. a \in A
    BY CapsAreBounds DEF Taken
  <2> HIDE DEF A, n, a
  <2> QED BY <2>1, <2>2
<1> HIDE DEF a
<1>2. PICK h \in [0 .. n -> A] : h[0] = a /\ \A k \in 1 .. n : h[k] = g[k][h[k - 1]]
  <2> HIDE DEF A, g, n
  <2>1. \E h \in [0 .. n -> A] : IsWalk(h, n, a, g)
    BY <1>0, <1>1, StepsExist
  <2> QED BY <2>1 DEF IsWalk
<1>3. \A k \in 1 .. n : h[k] = Take(h[k - 1], r, es[k])
  <2>1. \A k \in 1 .. n : k - 1 \in 0 .. n
    BY <1>0
  <2> QED BY <1>2, <2>1
<1> DEFINE Eq(f) == f = [i \in 0 .. n |-> IF i = 0 THEN a ELSE Take(f[i - 1], r, es[i])]
<1>4. Eq(h)
  <2>1. \A i \in 0 .. n : i = 0 \/ i \in 1 .. n
    BY <1>0
  <2>2. \A i \in 0 .. n : h[i] = IF i = 0 THEN a ELSE Take(h[i - 1], r, es[i])
    BY <1>2, <1>3, <2>1
  <2> HIDE DEF n, A
  <2> QED BY <1>2, <2>2
<1>5. PICK f : Eq(f) /\ ScanReport(r, es) = f[n].hits
  BY <1>4 DEF ScanReport, Take, a
<1>6. f[0] = a /\ \A k \in 1 .. n : f[k] = Take(f[k - 1], r, es[k])
  <2>1. 0 \in 0 .. n /\ \A k \in 1 .. n : k \in 0 .. n /\ k # 0
    BY <1>0
  <2> HIDE DEF n
  <2> QED BY <1>5, <2>1
<1> DEFINE G == {k \in 0 .. n : f[k] = h[k]}
<1>7. 0 \in G
  BY <1>0, <1>2, <1>6
<1>8. ASSUME NEW k \in 0 .. n - 1, k \in G
      PROVE  k + 1 \in G
  <2>1. k + 1 \in 1 .. n /\ (k + 1) - 1 = k /\ k + 1 \in 0 .. n
    BY <1>0
  <2>2. f[k] = h[k]
    BY <1>8
  <2> HIDE DEF n
  <2>3. f[k + 1] = h[k + 1]
    BY <1>3, <1>6, <2>1, <2>2
  <2> QED BY <2>1, <2>3
<1> HIDE DEF G
<1>9. \A k \in 0 .. n : k \in G
  BY <1>0, <1>7, <1>8, AllUpTo
<1>10. n \in 0 .. n
  BY <1>0
<1>11. f[n] = h[n]
  BY <1>9, <1>10 DEF G
<1> QED BY <1>2, <1>3, <1>5, <1>11 DEF a

\* So are the places that the entries of the list need.
LEMMA NeededSteps ==
  ASSUME NEW r, IsReport(r), list \in Seq(Entry)
  PROVE  \E d \in [0 .. Len(list) -> Nat] :
           /\ d[0] = 0 /\ \A k \in 1 .. Len(list) : d[k] = d[k - 1] + Len(Places(r, list[k]))
           /\ \A k \in 0 .. Len(list) : Needed(r, k) = d[k]
<1> DEFINE n == Len(list)
           A == Nat
           g == [k \in 1 .. n |-> [x \in A |-> x + Len(Places(r, list[k]))]]
<1>0. n \in Nat /\ \A k \in 1 .. n : Len(Places(r, list[k])) \in Nat
  <2>1. \A k \in 1 .. n : list[k] \in Entry
    OBVIOUS
  <2>2. \A k \in 1 .. n : Places(r, list[k]) \in Seq(Place)
    BY <2>1, HostsArePlaces
  <2> HIDE DEF Place
  <2> QED BY <2>2
<1>1. g \in [1 .. n -> [A -> A]]
  BY <1>0
<1>2. PICK h \in [0 .. n -> A] : h[0] = 0 /\ \A k \in 1 .. n : h[k] = g[k][h[k - 1]]
  <2> DEFINE zero == 0
  <2>1. zero \in A
    OBVIOUS
  <2> HIDE DEF A, g, n, zero
  <2>2. \E h \in [0 .. n -> A] : IsWalk(h, n, zero, g)
    BY <1>0, <1>1, <2>1, StepsExist
  <2> QED BY <2>2 DEF IsWalk, zero
<1>3. \A k \in 1 .. n : h[k] = h[k - 1] + Len(Places(r, list[k]))
  <2>1. \A k \in 1 .. n : k - 1 \in 0 .. n
    BY <1>0
  <2> QED BY <1>2, <2>1
<1> DEFINE Eq(f) == f = [i \in 0 .. n |-> IF i = 0 THEN 0 ELSE f[i - 1] + Len(Places(r, list[i]))]
<1>4. Eq(h)
  <2>1. \A i \in 0 .. n : i = 0 \/ i \in 1 .. n
    BY <1>0
  <2>2. \A i \in 0 .. n : h[i] = IF i = 0 THEN 0 ELSE h[i - 1] + Len(Places(r, list[i]))
    BY <1>2, <1>3, <2>1
  <2> HIDE DEF n
  <2> QED BY <1>2, <2>2
<1>5. PICK f : Eq(f) /\ \A k : Needed(r, k) = f[k]
  BY <1>4 DEF Needed
<1>6. f[0] = 0 /\ \A k \in 1 .. n : f[k] = f[k - 1] + Len(Places(r, list[k]))
  <2>1. 0 \in 0 .. n /\ \A k \in 1 .. n : k \in 0 .. n /\ k # 0
    BY <1>0
  <2> HIDE DEF n
  <2> QED BY <1>5, <2>1
<1> DEFINE G == {k \in 0 .. n : f[k] = h[k]}
<1>7. 0 \in G
  BY <1>0, <1>2, <1>6
<1>8. ASSUME NEW k \in 0 .. n - 1, k \in G
      PROVE  k + 1 \in G
  <2>1. k + 1 \in 1 .. n /\ (k + 1) - 1 = k /\ k + 1 \in 0 .. n
    BY <1>0
  <2>2. f[k] = h[k]
    BY <1>8
  <2> HIDE DEF n
  <2>3. f[k + 1] = h[k + 1]
    BY <1>3, <1>6, <2>1, <2>2
  <2> QED BY <2>1, <2>3
<1> HIDE DEF G
<1>9. \A k \in 0 .. n : k \in G
  BY <1>0, <1>7, <1>8, AllUpTo
<1>10. \A k \in 0 .. n : Needed(r, k) = h[k]
  BY <1>5, <1>9 DEF G
<1> QED BY <1>2, <1>3, <1>10

\* There is a hit for an entry of the list, with all its places.
HitAll(hits, r, e) == \E j \in 1 .. Len(hits) : hits[j].entry = e /\ hits[j].matches = Places(r, e)

\* After k entries, that need d[k] places.
TakenIs(r, d, k, acc) ==
  /\ d[k] <= PlacesCap => acc.left = PlacesCap - d[k]
  /\ \A m \in 1 .. k : d[m] <= PlacesCap /\ Places(r, list[m]) # <<>> => HitAll(acc.hits, r, list[m])
  /\ \E t \in Nat : t + acc.left = PlacesCap /\ Sums(Lens(acc.hits), t)

\* What is found in a report has places.
LEMMA FoundAreHits ==
  ASSUME NEW a \in Seq(Found)
  PROVE  AreHits(a)
<1>1. \A i \in 1 .. Len(a) : a[i] \in Found
  OBVIOUS
<1>2. \A x \in Found : x.matches \in Seq(Place)
  BY DEF Found
<1> QED BY <1>1, <1>2 DEF AreHits

\* One more entry is looked up.
LEMMA TakenMore ==
  ASSUME NEW r, IsReport(r), list \in Seq(Entry), NEW d \in [0 .. Len(list) -> Nat],
         NEW k \in Nat, k + 1 \in 1 .. Len(list), d[k + 1] = d[k] + Len(Places(r, list[k + 1])),
         NEW acc \in Taken, TakenIs(r, d, k, acc)
  PROVE  TakenIs(r, d, k + 1, Take(acc, r, list[k + 1]))
<1> DEFINE e == list[k + 1]
           ps == Places(r, e)
           some == UpTo(acc.left, ps)
           hit == [entry |-> e, matches |-> some]
           new == Take(acc, r, e)
<1>1. e \in Entry /\ k \in 0 .. Len(list) /\ k + 1 \in 0 .. Len(list)
  OBVIOUS
<1>2. /\ acc.left \in Nat /\ acc.hits \in Seq(Found) /\ ps \in Seq(Place) /\ new \in Taken
      /\ d[k] \in Nat /\ d[k + 1] \in Nat
  BY <1>1, HostsArePlaces, TakeTyped DEF Taken
<1>3. /\ some \in Seq(Place) /\ new.left = acc.left - Len(some)
      /\ some = <<>> => new.hits = acc.hits
      /\ some # <<>> => new.hits = Append(acc.hits, hit)
  BY <1>1, TakeTyped
<1> HIDE DEF Place
<1>4. Len(ps) <= acc.left => some = ps
  BY <1>2, UpToIs
<1>5. Len(some) <= acc.left
  BY <1>2, UpToIs
<1> HIDE DEF e, ps, some, new
<1>6. Len(ps) \in Nat /\ Len(some) \in Nat /\ d[k + 1] = d[k] + Len(ps)
  BY <1>2, <1>3 DEF ps, e
<1>7. d[k + 1] <= PlacesCap => d[k] <= PlacesCap /\ acc.left = PlacesCap - d[k] /\ some = ps
  <2> SUFFICES ASSUME d[k + 1] <= PlacesCap
               PROVE  d[k] <= PlacesCap /\ acc.left = PlacesCap - d[k] /\ some = ps
    OBVIOUS
  <2>1. d[k] <= PlacesCap
    BY <1>2, <1>6, CapsAreBounds
  <2>2. acc.left = PlacesCap - d[k]
    BY <2>1 DEF TakenIs
  <2>3. Len(ps) <= acc.left
    BY <1>2, <1>6, <2>2, CapsAreBounds
  <2> QED BY <1>4, <2>1, <2>2, <2>3
<1>8. d[k + 1] <= PlacesCap => new.left = PlacesCap - d[k + 1]
  BY <1>2, <1>3, <1>6, <1>7, CapsAreBounds
<1>9. ASSUME NEW m \in 1 .. k + 1, d[m] <= PlacesCap, Places(r, list[m]) # <<>>
      PROVE  HitAll(new.hits, r, list[m])
  <2>1. \A j \in 1 .. Len(acc.hits) : j \in 1 .. Len(new.hits) /\ new.hits[j] = acc.hits[j]
    <3> DEFINE hits == acc.hits
    <3> HIDE DEF hit, hits
    <3>1. hits \in Seq(Found)
      BY <1>2 DEF hits
    <3>2. LET more == Append(hits, hit)
          IN \A j \in 1 .. Len(hits) : j \in 1 .. Len(more) /\ more[j] = hits[j]
      BY <3>1
    <3>3. new.hits = hits \/ new.hits = Append(hits, hit)
      BY <1>3 DEF hits
    <3>4. \A j \in 1 .. Len(hits) : j \in 1 .. Len(new.hits) /\ new.hits[j] = hits[j]
      BY <3>2, <3>3
    <3> QED BY <3>4 DEF hits
  <2>2. CASE m = k + 1
    <3>1. some = ps /\ ps # <<>> /\ list[m] = e
      BY <1>7, <1>9, <2>2 DEF ps, e
    <3>2. new.hits = Append(acc.hits, hit)
      BY <1>3, <3>1
    <3> DEFINE l == Len(new.hits)
    <3>3. l \in 1 .. l /\ new.hits[l] = hit
      BY <1>2, <3>2
    <3> HIDE DEF l
    <3>4. new.hits[l].entry = list[m] /\ new.hits[l].matches = Places(r, list[m])
      BY <3>1, <3>3 DEF ps
    <3> QED BY <3>3, <3>4 DEF HitAll, l
  <2>3. CASE m # k + 1
    <3>1. m \in 1 .. k
      BY <2>3
    <3>2. HitAll(acc.hits, r, list[m])
      BY <1>9, <3>1 DEF TakenIs
    <3> QED BY <2>1, <3>2 DEF HitAll
  <2> QED BY <2>2, <2>3
<1>10. \E t \in Nat : t + new.left = PlacesCap /\ Sums(Lens(new.hits), t)
  <2>1. PICK t \in Nat : t + acc.left = PlacesCap /\ Sums(Lens(acc.hits), t)
    BY DEF TakenIs
  <2>2. CASE some = <<>>
    <3>1. Len(some) = 0
      BY <2>2
    <3>2. new.left = acc.left /\ new.hits = acc.hits
      BY <1>2, <1>3, <2>2, <3>1
    <3> QED BY <2>1, <3>2
  <2>3. CASE some # <<>>
    <3> DEFINE one == <<hit>>
               u == Len(some)
    <3>1. hit \in Found
      BY <1>1, <1>3 DEF Found, e
    <3>2. one \in Seq(Found) /\ Len(one) = 1 /\ one[1] = hit
      BY <3>1
    <3>3. new.hits = acc.hits \o one
      <4> DEFINE hits == acc.hits
      <4> HIDE DEF hit, hits
      <4>1. hits \in Seq(Found) /\ new.hits = Append(hits, hit)
        BY <1>2, <1>3, <2>3 DEF hits
      <4>2. Append(hits, hit) = hits \o <<hit>>
        BY <3>1, <4>1
      <4> QED BY <4>1, <4>2 DEF hits
    <3>4. hit.matches = some
      OBVIOUS
    <3> HIDE DEF hit, one, u
    <3>5. u \in Nat /\ u <= acc.left /\ new.left = acc.left - u
      BY <1>3, <1>5, <1>6 DEF u
    <3>6. AreHits(acc.hits) /\ AreHits(one)
      BY <1>2, <3>2, FoundAreHits
    <3>7. Lens(new.hits) = Lens(acc.hits) \o Lens(one)
      BY <1>2, <3>2, <3>3, <3>6, LensJoin
    <3>8. Lens(acc.hits) \in Seq(Nat) /\ Lens(one) \in Seq(Nat)
      BY <1>2, <3>2, <3>6, LensAre
    <3>9. Sums(Lens(one), u)
      <4> DEFINE f == [i \in 0 .. 1 |-> IF i = 0 THEN 0 ELSE u]
                 l == Lens(one)
      <4>1. l[1] = u /\ Len(l) = 1
        BY <3>2, <3>4 DEF Lens, u
      <4> HIDE DEF l
      <4>2. f \in [0 .. 1 -> Nat] /\ f[0] = 0 /\ f[1] = u /\ \A i \in 1 .. 1 : f[i] = f[i - 1] + l[i]
        BY <3>5, <4>1
      <4> HIDE DEF f
      <4>3. Sums(l, u)
        BY <4>1, <4>2 DEF Sums
      <4> QED BY <4>3 DEF l
    <3>10. Sums(Lens(new.hits), t + u)
      BY <2>1, <3>5, <3>7, <3>8, <3>9, SumsConcat
    <3>11. t + u \in Nat /\ (t + u) + new.left = PlacesCap
      BY <1>2, <2>1, <3>5, CapsAreBounds
    <3> QED BY <3>10, <3>11
  <2> QED BY <2>2, <2>3
<1>11. TakenIs(r, d, k + 1, new)
  BY <1>8, <1>9, <1>10 DEF TakenIs
<1> QED BY <1>11 DEF new, e

\* A report yields at most so many places, and all those of each entry that fits.
LEMMA ReportScanned ==
  ASSUME NEW r, IsReport(r), list \in Seq(Entry)
  PROVE  /\ ScanReport(r, list) \in Seq(Found)
         /\ \E t \in Nat : t <= PlacesCap /\ Sums(Lens(ScanReport(r, list)), t)
         /\ \A m \in 1 .. Len(list) :
              Needed(r, m) <= PlacesCap /\ Places(r, list[m]) # <<>> =>
                HitAll(ScanReport(r, list), r, list[m])
<1> DEFINE n == Len(list)
<1>1. n \in Nat
  OBVIOUS
<1>2. PICK h \in [0 .. n -> Taken] :
        /\ h[0] = [left |-> PlacesCap, hits |-> <<>>] /\ h[n].hits = ScanReport(r, list)
        /\ \A k \in 1 .. n : h[k] = Take(h[k - 1], r, list[k])
  BY ScanSteps
<1>3. PICK d \in [0 .. n -> Nat] :
        /\ d[0] = 0 /\ \A k \in 1 .. n : d[k] = d[k - 1] + Len(Places(r, list[k]))
        /\ \A k \in 0 .. n : Needed(r, k) = d[k]
  BY NeededSteps
<1> HIDE DEF n
<1> DEFINE G == {k \in 0 .. n : TakenIs(r, d, k, h[k])}
<1>4. 0 \in G
  <2> DEFINE none == <<>>
  <2>1. h[0].left = PlacesCap /\ h[0].hits = none
    BY <1>2
  <2>2. Lens(none) = none
    BY DEF Lens
  <2>3. Sums(none, 0)
    BY SumsNone
  <2> HIDE DEF none
  <2>4. PlacesCap = PlacesCap - d[0] /\ 0 + PlacesCap = PlacesCap /\ 0 \in Nat
    BY <1>3, CapsAreBounds
  <2>5. Sums(Lens(h[0].hits), 0) /\ 0 + h[0].left = PlacesCap
    BY <2>1, <2>2, <2>3, <2>4
  <2>6. \A m \in 1 .. 0 : HitAll(h[0].hits, r, list[m])
    OBVIOUS
  <2>7. TakenIs(r, d, 0, h[0])
    BY <2>1, <2>4, <2>5, <2>6 DEF TakenIs
  <2> QED BY <1>1, <2>7
<1>5. ASSUME NEW k \in 0 .. n - 1, k \in G
      PROVE  k + 1 \in G
  <2>1. k + 1 \in 1 .. n /\ (k + 1) - 1 = k /\ k + 1 \in 0 .. n /\ k \in Nat /\ k \in 0 .. n
    BY <1>1
  <2>2. h[k + 1] = Take(h[k], r, list[k + 1]) /\ h[k] \in Taken
    BY <1>2, <2>1
  <2>3. d[k + 1] = d[k] + Len(Places(r, list[k + 1]))
    BY <1>3, <2>1
  <2>4. TakenIs(r, d, k, h[k])
    BY <1>5
  <2>5. TakenIs(r, d, k + 1, Take(h[k], r, list[k + 1]))
    BY <2>1, <2>2, <2>3, <2>4, TakenMore DEF n
  <2> QED BY <2>1, <2>2, <2>5
<1> HIDE DEF G
<1>6. \A k \in 0 .. n : k \in G
  BY <1>1, <1>4, <1>5, AllUpTo
<1>7. TakenIs(r, d, n, h[n]) /\ h[n] \in Taken
  <2>1. n \in G /\ n \in 0 .. n
    BY <1>1, <1>6
  <2> QED BY <1>2, <2>1 DEF G
<1>8. h[n].hits \in Seq(Found) /\ h[n].left \in Nat
  BY <1>7 DEF Taken
<1>9. \E t \in Nat : t <= PlacesCap /\ Sums(Lens(h[n].hits), t)
  <2>1. PICK t \in Nat : t + h[n].left = PlacesCap /\ Sums(Lens(h[n].hits), t)
    BY <1>7 DEF TakenIs
  <2>2. t <= PlacesCap
    BY <1>8, <2>1, CapsAreBounds
  <2> QED BY <2>1, <2>2
<1>10. \A m \in 1 .. n : d[m] <= PlacesCap /\ Places(r, list[m]) # <<>> => HitAll(h[n].hits, r, list[m])
  BY <1>7 DEF TakenIs
<1>11. \A m \in 1 .. n : Needed(r, m) = d[m]
  <2>1. \A m \in 1 .. n : m \in 0 .. n
    BY <1>1
  <2> QED BY <1>3, <2>1
<1> QED BY <1>2, <1>8, <1>9, <1>10, <1>11 DEF n

-----------------------------------------------------------------------------
(* All reports *)

Hit(N) == [name : N, entry : Entry, matches : Seq(Place)]
Scanned(N) == [hits : Seq(Hit(N)), scanned : Nat, truncated : BOOLEAN]
Named(name, fresh) ==
  [i \in DOMAIN fresh |-> [name |-> name, entry |-> fresh[i].entry, matches |-> fresh[i].matches]]

Same(hits, name, fresh) ==
  \A j \in 1 .. Len(fresh) :
    hits[j].name = name /\ hits[j].entry = fresh[j].entry /\ hits[j].matches = fresh[j].matches

\* So has a hit.
LEMMA HitsAreHits ==
  ASSUME NEW N, NEW a \in Seq(Hit(N))
  PROVE  AreHits(a)
<1>1. \A i \in 1 .. Len(a) : a[i] \in Hit(N)
  OBVIOUS
<1>2. \A x \in Hit(N) : x.matches \in Seq(Place)
  BY DEF Hit
<1> QED BY <1>1, <1>2 DEF AreHits

\* Naming the report changes nothing else of what was found in it.
LEMMA NamedAre ==
  ASSUME NEW N, NEW name \in N, NEW fresh \in Seq(Found)
  PROVE  /\ Named(name, fresh) \in Seq(Hit(N)) /\ Len(Named(name, fresh)) = Len(fresh)
         /\ Lens(Named(name, fresh)) = Lens(fresh)
         /\ Same(Named(name, fresh), name, fresh)
<1> DEFINE a == Named(name, fresh)
           n == Len(fresh)
<1>1. n \in Nat /\ DOMAIN fresh = 1 .. n /\ \A i \in 1 .. n : fresh[i] \in Found
  OBVIOUS
<1>2. /\ a = [i \in 1 .. n |-> a[i]]
      /\ \A i \in 1 .. n :
           a[i] = [name |-> name, entry |-> fresh[i].entry, matches |-> fresh[i].matches]
  BY <1>1 DEF Named
<1>3. \A i \in 1 .. n : a[i] \in Hit(N)
  <2>1. \A x \in Found : x.entry \in Entry /\ x.matches \in Seq(Place)
    BY DEF Found
  <2> HIDE DEF a, n
  <2> QED BY <1>1, <1>2, <2>1 DEF Hit
<1> HIDE DEF a, n
<1>4. a \in Seq(Hit(N)) /\ Len(a) = n
  <2>1. a \in [1 .. n -> Hit(N)]
    BY <1>2, <1>3
  <2> QED BY <1>1, <2>1
<1>5. \A j \in 1 .. n : a[j].name = name /\ a[j].entry = fresh[j].entry /\ a[j].matches = fresh[j].matches
  BY <1>2
<1>6. Lens(a) = Lens(fresh)
  BY <1>4, <1>5 DEF Lens, n
<1>7. Same(a, name, fresh)
  BY <1>5 DEF Same, n
<1> QED BY <1>4, <1>6, <1>7 DEF a, n

Sees(hits, file) ==
  \A j \in 1 .. Len(ScanReport(file.report, list)) : \E i \in 1 .. Len(hits) :
    /\ hits[i].name = file.name /\ hits[i].entry = ScanReport(file.report, list)[j].entry
    /\ hits[i].matches = ScanReport(file.report, list)[j].matches

\* After k reports.
ScannedIs(fs, k, acc) ==
  /\ Len(acc.hits) <= HitsCap
  /\ acc.truncated => Len(acc.hits) >= HitsCap
  /\ ~acc.truncated => \A i \in 1 .. k : Sees(acc.hits, fs[i])
  /\ \E t \in Nat : t <= PlacesCap * acc.scanned /\ Sums(Lens(acc.hits), t)

\* A product with one more.
LEMMA Products ==
  ASSUME NEW a \in Nat, NEW b \in Nat
  PROVE  a * b \in Nat /\ a * (b + 1) = a * b + a
OBVIOUS

\* One more report is searched.
LEMMA ScannedMore ==
  ASSUME list \in Seq(Entry), NEW N, NEW fs, NEW k \in Nat, NEW acc \in Scanned(N),
         fs[k + 1].name \in N, IsReport(fs[k + 1].report), ScannedIs(fs, k, acc)
  PROVE  /\ ScanFile(acc, fs[k + 1], list) \in Scanned(N)
         /\ ScannedIs(fs, k + 1, ScanFile(acc, fs[k + 1], list))
<1> DEFINE file == fs[k + 1]
           fresh == ScanReport(file.report, list)
           named == Named(file.name, fresh)
           hits == acc.hits
           all == hits \o named
           some == UpTo(HitsCap, all)
           cut == [acc EXCEPT !.truncated = TRUE]
           more == [hits |-> some, scanned |-> acc.scanned + 1,
                    truncated |-> Len(hits) + Len(fresh) > HitsCap]
           new == ScanFile(acc, file, list)
<1>1. hits \in Seq(Hit(N)) /\ acc.scanned \in Nat /\ acc.truncated \in BOOLEAN
  BY DEF Scanned
<1>2. new = IF Len(hits) >= HitsCap THEN cut ELSE more
  BY DEF ScanFile, TakeReport, Named
<1> HIDE DEF new
<1>3. PICK u \in Nat : u <= PlacesCap /\ Sums(Lens(fresh), u)
  BY ReportScanned
<1>4. fresh \in Seq(Found)
  BY ReportScanned
<1> HIDE DEF fresh
<1>5. /\ named \in Seq(Hit(N)) /\ Len(named) = Len(fresh) /\ Lens(named) = Lens(fresh)
      /\ \A j \in 1 .. Len(fresh) : /\ named[j].name = file.name /\ named[j].entry = fresh[j].entry
                                    /\ named[j].matches = fresh[j].matches
  <2>1. file.name \in N
    OBVIOUS
  <2> HIDE DEF file
  <2>2. /\ named \in Seq(Hit(N)) /\ Len(named) = Len(fresh) /\ Lens(named) = Lens(fresh)
        /\ Same(named, file.name, fresh)
    BY <1>4, <2>1, NamedAre
  <2> HIDE DEF named
  <2> QED BY <2>2 DEF Same
<1>6. PICK t \in Nat : t <= PlacesCap * acc.scanned /\ Sums(Lens(hits), t)
  BY DEF ScannedIs
<1>7. Len(hits) \in Nat /\ Len(hits) <= HitsCap /\ (acc.truncated => Len(hits) >= HitsCap)
  BY <1>1 DEF ScannedIs
<1>8. CASE Len(hits) >= HitsCap
  <2>1. new = cut
    BY <1>2, <1>8
  <2>2. /\ cut \in Scanned(N) /\ cut.hits = hits /\ cut.truncated = TRUE
        /\ cut.scanned = acc.scanned
    BY <1>1 DEF Scanned
  <2> HIDE DEF cut, hits
  <2>3. ScannedIs(fs, k + 1, cut)
    BY <1>6, <1>7, <1>8, <2>2 DEF ScannedIs
  <2> QED BY <2>1, <2>2, <2>3 DEF new
<1>9. CASE ~(Len(hits) >= HitsCap)
  <2>1. new = more
    BY <1>2, <1>9
  <2> HIDE DEF named, hits
  <2>2. all \in Seq(Hit(N)) /\ Len(all) = Len(hits) + Len(fresh) /\ Len(fresh) \in Nat
    <3>1. Len(fresh) \in Nat
      BY <1>4
    <3> DEFINE T == Hit(N)
    <3>2. hits \in Seq(T) /\ named \in Seq(T)
      BY <1>1, <1>5
    <3> HIDE DEF T
    <3>3. all \in Seq(T) /\ Len(all) = Len(hits) + Len(named)
      BY <3>2
    <3> HIDE DEF all
    <3> QED BY <1>5, <3>1, <3>3 DEF T
  <2>3. /\ \A i \in 1 .. Len(hits) : i \in 1 .. Len(all) /\ all[i] = hits[i]
        /\ \A j \in 1 .. Len(fresh) : Len(hits) + j \in 1 .. Len(all) /\ all[Len(hits) + j] = named[j]
    BY <1>1, <1>4, <1>5
  <2>4. /\ AreHits(hits) /\ AreHits(named) /\ AreHits(all)
    BY <1>1, <1>5, <2>2, HitsAreHits
  <2>5. Lens(all) = Lens(hits) \o Lens(named)
    BY <1>1, <1>5, <2>4, LensJoin
  <2>6. Lens(hits) \in Seq(Nat) /\ Lens(named) \in Seq(Nat)
    BY <1>1, <1>5, <2>4, LensAre
  <2>7. Sums(Lens(all), t + u)
    BY <1>3, <1>5, <1>6, <2>5, <2>6, SumsConcat
  <2> HIDE DEF all
  <2>8. /\ some \in Seq(Hit(N)) /\ Len(some) <= HitsCap
        /\ Len(all) <= HitsCap => some = all
        /\ Len(all) > HitsCap => Len(some) = HitsCap
        /\ \E m \in 0 .. Len(all) : some = SubSeq(all, 1, m)
    BY <2>2, UpToIs, CapsAreBounds
  <2> HIDE DEF some
  <2>9. /\ more \in Scanned(N) /\ more.hits = some /\ more.scanned = acc.scanned + 1
        /\ more.truncated <=> Len(all) > HitsCap
    <3>1. acc.scanned + 1 \in Nat /\ (Len(hits) + Len(fresh) > HitsCap) \in BOOLEAN
      BY <1>1
    <3>2. more \in Scanned(N)
      BY <2>8, <3>1 DEF Scanned
    <3> QED BY <2>2, <3>2
  <2>10. \E v \in Nat : v <= PlacesCap * more.scanned /\ Sums(Lens(more.hits), v)
    <3>1. PICK m \in 0 .. Len(all) : some = SubSeq(all, 1, m)
      BY <2>8
    <3>2. /\ Lens(all) \in Seq(Nat) /\ Len(Lens(all)) = Len(all)
          /\ Lens(SubSeq(all, 1, m)) = SubSeq(Lens(all), 1, m)
      BY <2>2, <2>4, LensAre
    <3>3. t + u \in Nat
      OBVIOUS
    <3>4. PICK v \in Nat : v <= t + u /\ Sums(SubSeq(Lens(all), 1, m), v)
      BY <2>7, <3>2, <3>3, SumsPrefix
    <3>5. PlacesCap * acc.scanned \in Nat /\ PlacesCap * more.scanned = PlacesCap * acc.scanned + PlacesCap
      <4>1. PlacesCap * acc.scanned \in Nat /\ PlacesCap * (acc.scanned + 1) = PlacesCap * acc.scanned + PlacesCap
        BY <1>1, CapsAreBounds, Products
      <4> HIDE DEF more
      <4> QED BY <2>9, <4>1
    <3> HIDE DEF more
    <3> DEFINE x == PlacesCap * acc.scanned
               y == PlacesCap * more.scanned
    <3>6. x \in Nat /\ y = x + PlacesCap /\ t <= x
      BY <1>6, <3>5
    <3> HIDE DEF x, y
    <3>7. v <= y
      BY <1>3, <3>4, <3>6, CapsAreBounds
    <3> QED BY <2>9, <3>1, <3>2, <3>4, <3>7 DEF y
  <2>11. more.truncated => Len(more.hits) >= HitsCap
    BY <2>8, <2>9, CapsAreBounds
  <2>12. ASSUME ~more.truncated, NEW i \in 1 .. k + 1
         PROVE  Sees(more.hits, fs[i])
    <3>1. Len(all) <= HitsCap
      BY <2>2, <2>9, <2>12, <1>7, CapsAreBounds
    <3>2. more.hits = all
      BY <2>8, <2>9, <3>1
    <3>3. CASE i = k + 1
      <4>1. \A j \in 1 .. Len(fresh) :
              /\ Len(hits) + j \in 1 .. Len(all) /\ all[Len(hits) + j].name = file.name
              /\ all[Len(hits) + j].entry = fresh[j].entry /\ all[Len(hits) + j].matches = fresh[j].matches
        BY <1>5, <2>3
      <4>2. \A j \in 1 .. Len(fresh) : \E l \in 1 .. Len(all) :
              all[l].name = file.name /\ all[l].entry = fresh[j].entry /\ all[l].matches = fresh[j].matches
        BY <4>1
      <4>3. Sees(all, file)
        BY <4>2 DEF Sees, fresh
      <4> QED BY <3>2, <3>3, <4>3
    <3>4. CASE i # k + 1
      <4>1. i \in 1 .. k
        BY <3>4
      <4>2. ~acc.truncated
        BY <1>7, <1>9
      <4>3. Sees(hits, fs[i])
        BY <4>1, <4>2 DEF ScannedIs, hits
      <4>4. Sees(all, fs[i])
        <5> DEFINE it == fs[i]
                   found == ScanReport(it.report, list)
        <5>1. \A j \in 1 .. Len(found) : \E l \in 1 .. Len(hits) :
                hits[l].name = it.name /\ hits[l].entry = found[j].entry /\ hits[l].matches = found[j].matches
          BY <4>3 DEF Sees
        <5> HIDE DEF it, found
        <5>2. \A j \in 1 .. Len(found) : \E l \in 1 .. Len(all) :
                all[l].name = it.name /\ all[l].entry = found[j].entry /\ all[l].matches = found[j].matches
          <6>1. \A l \in 1 .. Len(hits) : l \in 1 .. Len(all) /\ all[l] = hits[l]
            BY <2>3
          <6> QED BY <5>1, <6>1
        <5> QED BY <5>2 DEF Sees, it, found
      <4> QED BY <3>2, <4>4
    <3> QED BY <3>3, <3>4
  <2>13. ScannedIs(fs, k + 1, more)
    <3> HIDE DEF more
    <3> QED BY <2>8, <2>9, <2>10, <2>11, <2>12 DEF ScannedIs
  <2> QED BY <2>1, <2>9, <2>13 DEF new
<1> QED BY <1>8, <1>9

-----------------------------------------------------------------------------
(* A hunt through the files a page has read                                *)

\* Searching one more report makes an answer of the same form.
LEMMA ScanTyped ==
  ASSUME list \in Seq(Entry), NEW N, NEW file, file.name \in N, IsReport(file.report),
         NEW acc \in Scanned(N)
  PROVE  ScanFile(acc, file, list) \in Scanned(N)
<1> DEFINE fresh == ScanReport(file.report, list)
           named == Named(file.name, fresh)
           all == acc.hits \o named
           cut == [acc EXCEPT !.truncated = TRUE]
           over == Len(acc.hits) + Len(fresh) > HitsCap
           more == [hits |-> UpTo(HitsCap, all), scanned |-> acc.scanned + 1, truncated |-> over]
<1>1. acc.hits \in Seq(Hit(N)) /\ acc.scanned + 1 \in Nat /\ acc.truncated \in BOOLEAN
  BY DEF Scanned
<1>2. ScanFile(acc, file, list) = IF Len(acc.hits) >= HitsCap THEN cut ELSE more
  BY DEF ScanFile, TakeReport, Named
<1>3. cut \in Scanned(N)
  BY <1>1 DEF Scanned
<1>4. fresh \in Seq(Found)
  BY ReportScanned
<1> HIDE DEF fresh, cut
<1>5. named \in Seq(Hit(N))
  BY <1>4, NamedAre
<1> DEFINE T == Hit(N)
           hits == acc.hits
<1>6. all \in Seq(T)
  <2>1. hits \in Seq(T) /\ named \in Seq(T)
    BY <1>1, <1>5
  <2> HIDE DEF T, hits, named
  <2>2. hits \o named \in Seq(T)
    BY <2>1
  <2> QED BY <2>2 DEF hits
<1> HIDE DEF all
<1>7. UpTo(HitsCap, all) \in Seq(Hit(N))
  BY <1>6, UpToIs, CapsAreBounds
<1>8. over \in BOOLEAN
  OBVIOUS
<1> HIDE DEF over
<1>9. more \in Scanned(N)
  BY <1>1, <1>7, <1>8 DEF Scanned
<1> HIDE DEF more
<1> QED BY <1>2, <1>3, <1>9

\* The reports are searched one by one.
LEMMA FileSteps ==
  ASSUME list \in Seq(Entry), NEW S, NEW fs \in Seq(S), NEW N,
         \A i \in 1 .. Len(fs) : fs[i].name \in N /\ IsReport(fs[i].report)
  PROVE  \E h \in [0 .. Len(fs) -> Scanned(N)] :
           /\ h[0] = [hits |-> <<>>, scanned |-> 0, truncated |-> FALSE]
           /\ h[Len(fs)] = ScanList(fs, list)
           /\ \A k \in 1 .. Len(fs) : h[k] = ScanFile(h[k - 1], fs[k], list)
<1> DEFINE n == Len(fs)
           A == Scanned(N)
           a == [hits |-> <<>>, scanned |-> 0, truncated |-> FALSE]
           g == [k \in 1 .. n |-> [acc \in A |-> ScanFile(acc, fs[k], list)]]
<1>0. n \in Nat /\ \A k \in 1 .. n : fs[k].name \in N /\ IsReport(fs[k].report)
  OBVIOUS
<1>1. g \in [1 .. n -> [A -> A]] /\ a \in A
  <2>1. \A k \in 1 .. n : \A acc \in A : ScanFile(acc, fs[k], list) \in A
    BY <1>0, ScanTyped
  <2>2. a \in A
    BY DEF Scanned
  <2> HIDE DEF A, n, a
  <2> QED BY <2>1, <2>2
<1> HIDE DEF a
<1>2. PICK h \in [0 .. n -> A] : h[0] = a /\ \A k \in 1 .. n : h[k] = g[k][h[k - 1]]
  <2> HIDE DEF A, g, n
  <2>1. \E h \in [0 .. n -> A] : IsWalk(h, n, a, g)
    BY <1>0, <1>1, StepsExist
  <2> QED BY <2>1 DEF IsWalk
<1>3. \A k \in 1 .. n : h[k] = ScanFile(h[k - 1], fs[k], list)
  <2>1. \A k \in 1 .. n : k - 1 \in 0 .. n
    BY <1>0
  <2> QED BY <1>2, <2>1
<1> DEFINE Eq(f) == f = [i \in 0 .. n |-> IF i = 0 THEN a ELSE ScanFile(f[i - 1], fs[i], list)]
<1>4. Eq(h)
  <2>1. \A i \in 0 .. n : i = 0 \/ i \in 1 .. n
    BY <1>0
  <2>2. \A i \in 0 .. n : h[i] = IF i = 0 THEN a ELSE ScanFile(h[i - 1], fs[i], list)
    BY <1>2, <1>3, <2>1
  <2> HIDE DEF n, A
  <2> QED BY <1>2, <2>2
<1>5. PICK f : Eq(f) /\ ScanList(fs, list) = f[n]
  BY <1>4 DEF ScanList, a
<1>6. f[0] = a /\ \A k \in 1 .. n : f[k] = ScanFile(f[k - 1], fs[k], list)
  <2>1. 0 \in 0 .. n /\ \A k \in 1 .. n : k \in 0 .. n /\ k # 0
    BY <1>0
  <2> HIDE DEF n
  <2> QED BY <1>5, <2>1
<1> DEFINE G == {k \in 0 .. n : f[k] = h[k]}
<1>7. 0 \in G
  BY <1>0, <1>2, <1>6
<1>8. ASSUME NEW k \in 0 .. n - 1, k \in G
      PROVE  k + 1 \in G
  <2>1. k + 1 \in 1 .. n /\ (k + 1) - 1 = k /\ k + 1 \in 0 .. n
    BY <1>0
  <2>2. f[k] = h[k]
    BY <1>8
  <2> HIDE DEF n
  <2>3. f[k + 1] = h[k + 1]
    BY <1>3, <1>6, <2>1, <2>2
  <2> QED BY <2>1, <2>3
<1> HIDE DEF G
<1>9. \A k \in 0 .. n : k \in G
  BY <1>0, <1>7, <1>8, AllUpTo
<1>10. n \in 0 .. n
  BY <1>0
<1>11. f[n] = h[n]
  BY <1>9, <1>10 DEF G
<1> QED BY <1>2, <1>3, <1>5, <1>11 DEF a

\* Once all are searched the answer is that of ScannedIs.
LEMMA ListScanned ==
  ASSUME list \in Seq(Entry), NEW S, NEW fs \in Seq(S), NEW N,
         \A i \in 1 .. Len(fs) : fs[i].name \in N /\ IsReport(fs[i].report)
  PROVE  ScanList(fs, list) \in Scanned(N) /\ ScannedIs(fs, Len(fs), ScanList(fs, list))
<1> DEFINE n == Len(fs)
<1>1. n \in Nat /\ \A k \in 1 .. n : fs[k].name \in N /\ IsReport(fs[k].report)
  OBVIOUS
<1>2. PICK h \in [0 .. n -> Scanned(N)] :
        /\ h[0] = [hits |-> <<>>, scanned |-> 0, truncated |-> FALSE]
        /\ h[n] = ScanList(fs, list)
        /\ \A k \in 1 .. n : h[k] = ScanFile(h[k - 1], fs[k], list)
  BY FileSteps
<1> HIDE DEF n
<1> DEFINE G == {k \in 0 .. n : ScannedIs(fs, k, h[k])}
<1>3. 0 \in G
  <2> DEFINE none == <<>>
  <2>1. h[0].hits = none /\ h[0].scanned = 0 /\ h[0].truncated = FALSE /\ Len(none) = 0
    BY <1>2
  <2>2. Lens(none) = none
    BY DEF Lens
  <2>3. Sums(none, 0)
    BY SumsNone
  <2> HIDE DEF none
  <2>4. 0 <= PlacesCap * 0 /\ 0 <= HitsCap /\ 0 \in Nat
    BY CapsAreBounds
  <2>5. \E t \in Nat : t <= PlacesCap * h[0].scanned /\ Sums(Lens(h[0].hits), t)
    BY <2>1, <2>2, <2>3, <2>4
  <2>6. \A i \in 1 .. 0 : Sees(h[0].hits, fs[i])
    OBVIOUS
  <2>7. ScannedIs(fs, 0, h[0])
    BY <2>1, <2>4, <2>5, <2>6 DEF ScannedIs
  <2> QED BY <1>1, <2>7
<1>4. ASSUME NEW k \in 0 .. n - 1, k \in G
      PROVE  k + 1 \in G
  <2>1. k + 1 \in 1 .. n /\ (k + 1) - 1 = k /\ k + 1 \in 0 .. n /\ k \in Nat /\ k \in 0 .. n
    BY <1>1
  <2>2. h[k + 1] = ScanFile(h[k], fs[k + 1], list) /\ h[k] \in Scanned(N)
    BY <1>2, <2>1
  <2>3. ScannedIs(fs, k, h[k])
    BY <1>4
  <2>4. ScannedIs(fs, k + 1, ScanFile(h[k], fs[k + 1], list))
    BY <1>1, <2>1, <2>2, <2>3, ScannedMore
  <2> QED BY <2>1, <2>2, <2>4
<1> HIDE DEF G
<1>5. \A k \in 0 .. n : k \in G
  BY <1>1, <1>3, <1>4, AllUpTo
<1>6. n \in 0 .. n
  BY <1>1
<1> QED BY <1>2, <1>5, <1>6 DEF G, n

\* The total of an answer is the sum of its numbers of places.
LEMMA TotalIs ==
  ASSUME NEW result, NEW S, result.hits \in Seq(S), NEW t \in Nat, Sums(Lens(result.hits), t)
  PROVE  TotalHits(result) = t
<1> DEFINE n == Len(result.hits)
           l == Lens(result.hits)
<1>1. n \in Nat
  OBVIOUS
<1>2. Len(l) = n /\ \A i \in 1 .. n : l[i] = Len(result.hits[i].matches)
  BY <1>1 DEF Lens
<1>3. PICK f \in [0 .. n -> Nat] :
        f[0] = 0 /\ f[n] = t /\ \A k \in 1 .. n : f[k] = f[k - 1] + l[k]
  BY <1>2 DEF Sums
<1> HIDE DEF l
<1> DEFINE Eq(g) == g = [i \in 0 .. n |->
                           IF i = 0 THEN 0 ELSE g[i - 1] + Len(result.hits[i].matches)]
<1>4. Eq(f)
  <2>1. \A i \in 0 .. n : i = 0 \/ i \in 1 .. n
    BY <1>1
  <2>2. \A i \in 0 .. n : f[i] = IF i = 0 THEN 0 ELSE f[i - 1] + Len(result.hits[i].matches)
    BY <1>2, <1>3, <2>1
  <2> HIDE DEF n
  <2> QED BY <1>3, <2>2
<1>5. PICK g : Eq(g) /\ TotalHits(result) = g[n]
  BY <1>4 DEF TotalHits
<1>6. g[0] = 0 /\ \A k \in 1 .. n : g[k] = g[k - 1] + l[k]
  <2>1. 0 \in 0 .. n /\ \A k \in 1 .. n : k \in 0 .. n /\ k # 0
    BY <1>1
  <2> HIDE DEF n
  <2> QED BY <1>2, <1>5, <2>1
<1> HIDE DEF n, Eq
<1>7. g[n] = f[n]
  <2>1. g[0] = f[0]
    BY <1>3, <1>6
  <2>2. Adds(g, l, n) /\ Adds(f, l, n)
    BY <1>3, <1>6 DEF Adds
  <2> QED BY <1>1, <2>1, <2>2, SumsOnce
<1> QED BY <1>3, <1>5, <1>7

\* What is hunted for is one of the lists of indicators.
HuntInv == page = "hunt" => list \in Hunts

\* No step changes what is hunted for.
LEMMA HuntInvariant == Spec => []HuntInv
<1>1. Init => HuntInv
  BY DEF Init, HuntInv
<1>2. HuntInv /\ [Next]_vars => HuntInv'
  <2> SUFFICES ASSUME HuntInv, [Next]_vars
               PROVE  page' = page /\ list' = list
    BY DEF HuntInv
  <2>1. CASE PageNext
    BY <2>1 DEF PageNext, OpenViewer, EnsureMitre, OpenMitre, WriteMitre, MitreFails, ReadSidecar,
       ShowReport, ListReports, LoadReport, ShowProject
  <2>2. CASE EnrichmentNext /\ UNCHANGED pageVars
    BY <2>2 DEF pageVars
  <2>3. CASE UNCHANGED vars
    BY <2>3 DEF vars, pageVars
  <2> QED BY <2>1, <2>2, <2>3 DEF Next
<1> QED BY <1>1, <1>2, PTL DEF Spec

\* A hunt in the files a page has read finds what they show.
LEMMA HuntFinds ==
  ASSUME Listed(base, files), HuntInv
  PROVE  HuntIsComplete
<1> SUFFICES ASSUME Shown, page = "hunt"
             PROVE  HuntIsComplete
  BY DEF HuntIsComplete
<1> DEFINE n == Len(files)
           result == ScanList(files, list)
           N == {f.name : f \in ToSet(files)}
<1>1. list \in Seq(Entry)
  BY HuntsAreLists DEF HuntInv
<1>2. PICK S : files \in Seq(S)
  BY DEF Listed
<1>3. n \in Nat /\ DOMAIN files = 1 .. n /\ ToSet(files) = {files[i] : i \in 1 .. n}
  BY <1>2 DEF ToSet
<1>4. \A i \in 1 .. n : files[i].name \in N /\ IsReport(files[i].report)
  BY <1>3 DEF Listed
<1> HIDE DEF N
<1>5. result \in Scanned(N) /\ ScannedIs(files, n, result)
  BY <1>1, <1>2, <1>4, ListScanned
<1> HIDE DEF result
<1>6. result.hits \in Seq(Hit(N)) /\ result.truncated \in BOOLEAN
  BY <1>5 DEF Scanned
<1>7. Len(result.hits) <= HitsCap
  BY <1>5 DEF ScannedIs
<1>8. TotalHits(result) <= PlacesCap * result.scanned
  <2>1. PICK t \in Nat : t <= PlacesCap * result.scanned /\ Sums(Lens(result.hits), t)
    BY <1>5 DEF ScannedIs
  <2>2. TotalHits(result) = t
    BY <1>6, <2>1, TotalIs
  <2> QED BY <2>1, <2>2
<1>9. ASSUME NEW f \in ToSet(files), NEW m \in DOMAIN list, Hosts(f.report, list[m]) # {},
             ~result.truncated, Needed(f.report, m) <= PlacesCap
      PROVE  \E h \in ToSet(result.hits) :
               h.name = f.name /\ h.entry = list[m] /\ Len(h.matches) >= Cardinality(Hosts(f.report, list[m]))
  <2> DEFINE e == list[m]
             r == f.report
             fresh == ScanReport(r, list)
             hits == result.hits
  <2>1. PICK i \in 1 .. n : f = files[i]
    BY <1>3
  <2>2. IsReport(r)
    BY <1>4, <2>1
  <2>3. m \in 1 .. Len(list) /\ e \in Entry
    BY <1>1
  <2>4. Cardinality(Hosts(r, e)) <= Len(Places(r, e)) /\ Places(r, e) # <<>>
    BY <1>9, <2>2, <2>3, HostsArePlaces
  <2>5. HitAll(fresh, r, e)
    BY <1>1, <1>9, <2>2, <2>3, <2>4, ReportScanned
  <2>6. PICK j \in 1 .. Len(fresh) : fresh[j].entry = e /\ fresh[j].matches = Places(r, e)
    BY <2>5 DEF HitAll
  <2>7. Sees(hits, f)
    BY <1>5, <1>9, <2>1 DEF ScannedIs
  <2>8. PICK l \in 1 .. Len(hits) :
          hits[l].name = f.name /\ hits[l].entry = fresh[j].entry /\ hits[l].matches = fresh[j].matches
    BY <2>6, <2>7 DEF Sees
  <2>9. hits[l] \in ToSet(hits)
    BY <1>6, <2>8 DEF ToSet
  <2> DEFINE c == Cardinality(Hosts(r, e))
             p == Len(Places(r, e))
  <2>10. c \in Nat /\ p \in Nat
    <3>1. Places(r, e) \in Seq(Place)
      BY <2>2, <2>3, HostsArePlaces
    <3>2. p \in Nat
      <4> HIDE DEF e, r
      <4>1. \A q \in Seq(Place) : Len(q) \in Nat
        OBVIOUS
      <4> QED BY <3>1, <4>1
    <3>3. r.nodes \in Seq(NodeRecord) /\ DOMAIN r.nodes = 1 .. Len(r.nodes) /\ Len(r.nodes) \in Nat
      BY <2>2 DEF IsReport
    <3>4. IsFiniteSet(1 .. Len(r.nodes)) /\ Hosts(r, e) \in SUBSET (1 .. Len(r.nodes))
      BY <3>3, FS_Interval DEF Hosts
    <3>5. IsFiniteSet(Hosts(r, e))
      BY <3>4, FS_Subset
    <3> QED BY <3>2, <3>5, FS_CardinalityType
  <2>11. p >= c
    <3>1. c <= p
      BY <2>4
    <3> HIDE DEF c, p
    <3> QED BY <2>10, <3>1
  <2>12. hits[l].matches = Places(r, e) /\ hits[l].entry = e /\ hits[l].name = f.name
    BY <2>6, <2>8
  <2> HIDE DEF e, r, hits, fresh
  <2>13. Len(hits[l].matches) >= Cardinality(Hosts(r, e))
    BY <2>11, <2>12
  <2> QED BY <2>9, <2>12, <2>13 DEF e, r, hits
<1> QED BY <1>7, <1>8, <1>9 DEF HuntIsComplete, Hosts, Shows, result

\* A hunt misses no host that shows an indicator, for any lists, reports and bounds,
\* unless it says that it was cut or the report's share of places was used up.
THEOREM HuntHolds == Spec => []HuntIsComplete
<1>1. PageInv /\ HuntInv => HuntIsComplete
  BY HuntFinds DEF PageInv
<1> QED BY <1>1, MergeInvariant, HuntInvariant, PTL
=============================================================================
