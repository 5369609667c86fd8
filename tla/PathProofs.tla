------------------------------ MODULE PathProofs ------------------------------
(***************************************************************************)
(* Lemmas about paths, links and confinement, for every well formed tree.  *)
(***************************************************************************)
EXTENDS PathPolicy, SequenceTheorems, WellFoundedInduction, TLAPS

Path == Seq(STRING)

(***************************************************************************)
(* Prefixes.                                                               *)
(***************************************************************************)
LEMMA Prefix ==
  ASSUME NEW p \in Path, NEW n \in 0..Len(p)
  PROVE  /\ SubSeq(p, 1, n) \in Path /\ Len(SubSeq(p, 1, n)) = n
         /\ \A i \in 1..n : SubSeq(p, 1, n)[i] = p[i]
<1>1. \A i \in 1..n : p[i] \in STRING
  BY ElementOfSeq DEF Path
<1> QED BY <1>1, SubSeqProperties DEF Path

\* What is left after a prefix.
LEMMA Suffix ==
  ASSUME NEW p \in Path, NEW n \in 0..Len(p)
  PROVE  /\ SubSeq(p, n + 1, Len(p)) \in Path /\ Len(SubSeq(p, n + 1, Len(p))) = Len(p) - n
         /\ \A i \in 1..Len(p) - n : SubSeq(p, n + 1, Len(p))[i] = p[n + i]
<1>1. Len(p) \in Nat
  BY LenProperties DEF Path
<1>2. \A i \in n + 1..Len(p) : p[i] \in STRING
  BY <1>1, ElementOfSeq DEF Path
<1> QED BY <1>1, <1>2, SubSeqProperties DEF Path

LEMMA PrefixOfPrefix ==
  ASSUME NEW p \in Path, NEW n \in 0..Len(p), NEW m \in 0..n
  PROVE  SubSeq(SubSeq(p, 1, n), 1, m) = SubSeq(p, 1, m)
<1>1. Len(p) \in Nat /\ m \in 0..Len(p)
  BY LenProperties DEF Path
<1>2. m \in 0..Len(SubSeq(p, 1, n)) /\ SubSeq(p, 1, n) \in Path
  BY Prefix
<1>3. /\ SubSeq(SubSeq(p, 1, n), 1, m) \in Path /\ Len(SubSeq(SubSeq(p, 1, n), 1, m)) = m
      /\ \A i \in 1..m : SubSeq(SubSeq(p, 1, n), 1, m)[i] = SubSeq(p, 1, n)[i]
  BY <1>2, Prefix
<1>4. /\ SubSeq(p, 1, m) \in Path /\ Len(SubSeq(p, 1, m)) = m
      /\ \A i \in 1..m : SubSeq(p, 1, m)[i] = p[i]
  BY <1>1, Prefix
<1>5. \A i \in 1..m : SubSeq(SubSeq(p, 1, n), 1, m)[i] = SubSeq(p, 1, m)[i]
  BY <1>3, <1>4, Prefix
<1> QED BY <1>3, <1>4, <1>5, SeqEqual DEF Path

\* A prefix of a prefix, in the words of IsPrefix.
LEMMA IsPrefixIff ==
  ASSUME NEW s \in Path, NEW t \in Path
  PROVE  IsPrefix(s, t) <=> Len(s) <= Len(t) /\ SubSeq(t, 1, Len(s)) = s
  BY SubSeqFull DEF IsPrefix, Path

LEMMA PrefixIsPrefix ==
  ASSUME NEW p \in Path, NEW n \in 0..Len(p)
  PROVE  IsPrefix(SubSeq(p, 1, n), p)
<1>1. SubSeq(p, 1, n) \in Path /\ Len(SubSeq(p, 1, n)) = n
  BY Prefix
<1>2. Len(SubSeq(p, 1, n)) <= Len(p)
  BY <1>1, LenProperties DEF Path
<1>3. SubSeq(p, 1, Len(SubSeq(p, 1, n))) = SubSeq(p, 1, n)
  BY <1>1
<1> HIDE DEF Path
<1> QED BY <1>1, <1>2, <1>3, IsPrefixIff

LEMMA Concat ==
  ASSUME NEW s \in Path, NEW t \in Path
  PROVE  /\ s \o t \in Path /\ Len(s \o t) = Len(s) + Len(t)
         /\ \A i \in 1..Len(s) : (s \o t)[i] = s[i]
         /\ \A n \in 0..Len(s) : SubSeq(s \o t, 1, n) = SubSeq(s, 1, n)
         /\ IsPrefix(s, s \o t)
<1>1. /\ s \o t \in Path /\ Len(s \o t) = Len(s) + Len(t)
      /\ \A i \in 1 .. Len(s) + Len(t) : (s \o t)[i] = IF i <= Len(s) THEN s[i] ELSE t[i - Len(s)]
  BY ConcatProperties DEF Path
<1>2. Len(s) \in Nat /\ Len(t) \in Nat
  BY LenProperties DEF Path
<1>3. \A i \in 1..Len(s) : (s \o t)[i] = s[i]
  BY <1>1, <1>2
<1>4. ASSUME NEW n \in 0..Len(s)
      PROVE  SubSeq(s \o t, 1, n) = SubSeq(s, 1, n)
  <2>1. n \in 0..Len(s \o t)
    BY <1>1, <1>2
  <2>2. /\ SubSeq(s \o t, 1, n) \in Path /\ Len(SubSeq(s \o t, 1, n)) = n
        /\ \A i \in 1..n : SubSeq(s \o t, 1, n)[i] = (s \o t)[i]
    BY <1>1, <2>1, Prefix
  <2>3. /\ SubSeq(s, 1, n) \in Path /\ Len(SubSeq(s, 1, n)) = n
        /\ \A i \in 1..n : SubSeq(s, 1, n)[i] = s[i]
    BY Prefix
  <2>4. \A i \in 1..n : SubSeq(s \o t, 1, n)[i] = SubSeq(s, 1, n)[i]
    BY <1>2, <1>3, <2>2, <2>3
  <2> QED BY <2>2, <2>3, <2>4, SeqEqual DEF Path
<1>5. SubSeq(s \o t, 1, Len(s)) = s
  BY <1>2, <1>4, SubSeqFull DEF Path
<1>6. IsPrefix(s, s \o t)
  <2>1. Len(s) <= Len(s \o t)
    BY <1>1, <1>2
  <2> QED BY <1>1, <1>5, <2>1, IsPrefixIff
<1> QED BY <1>1, <1>3, <1>4, <1>6

LEMMA PathsAssociate ==
  ASSUME NEW r \in Path, NEW s \in Path, NEW t \in Path
  PROVE  (r \o s) \o t = r \o (s \o t)
<1> DEFINE a == (r \o s) \o t
           b == r \o (s \o t)
<1>1. r \o s \in Path /\ s \o t \in Path
  BY Concat
<1>2. Len(r) \in Nat /\ Len(s) \in Nat /\ Len(t) \in Nat
  BY LenProperties DEF Path
<1>3. /\ a \in Path /\ Len(a) = Len(r) + Len(s) + Len(t)
      /\ b \in Path /\ Len(b) = Len(r) + Len(s) + Len(t)
  BY <1>1, <1>2, Concat
<1>4. \A i \in 1..Len(a) : a[i] = b[i]
  BY <1>1, <1>2, <1>3, ConcatProperties DEF Path
<1> QED BY <1>3, <1>4, SeqEqual DEF Path

LEMMA PrefixTransitive ==
  ASSUME NEW r \in Path, NEW s \in Path, NEW t \in Path, IsPrefix(r, s), IsPrefix(s, t)
  PROVE  IsPrefix(r, t)
<1>1. Len(r) \in Nat /\ Len(s) \in Nat /\ Len(t) \in Nat
  BY LenProperties DEF Path
<1>2. Len(r) <= Len(s) /\ Len(s) <= Len(t) /\ SubSeq(s, 1, Len(r)) = r /\ SubSeq(t, 1, Len(s)) = s
  BY IsPrefixIff
<1>3. SubSeq(SubSeq(t, 1, Len(s)), 1, Len(r)) = SubSeq(t, 1, Len(r))
  BY <1>1, <1>2, PrefixOfPrefix
<1> QED BY <1>1, <1>2, <1>3, IsPrefixIff

\* Two prefixes of one path: the shorter is a prefix of the longer.
LEMMA PrefixesNest ==
  ASSUME NEW r \in Path, NEW s \in Path, NEW t \in Path, IsPrefix(r, t), IsPrefix(s, t),
         Len(r) <= Len(s)
  PROVE  IsPrefix(r, s)
<1>1. Len(r) \in Nat /\ Len(s) \in Nat /\ Len(t) \in Nat
  BY LenProperties DEF Path
<1>2. Len(s) <= Len(t) /\ SubSeq(t, 1, Len(r)) = r /\ SubSeq(t, 1, Len(s)) = s
  BY IsPrefixIff
<1>3. SubSeq(SubSeq(t, 1, Len(s)), 1, Len(r)) = SubSeq(t, 1, Len(r))
  BY <1>1, <1>2, PrefixOfPrefix
<1> QED BY <1>1, <1>2, <1>3, IsPrefixIff

\* The directories on the way to a path are its proper prefixes.
LEMMA ParentsArePrefixes ==
  ASSUME NEW p \in Path, NEW d
  PROVE  d \in Parents(p) <=> d \in Path /\ d # NoPath /\ Len(d) < Len(p) /\ IsPrefix(d, p)
<1>1. Len(p) \in Nat
  BY LenProperties DEF Path
<1>2. ASSUME d \in Parents(p)
      PROVE  d \in Path /\ d # NoPath /\ Len(d) < Len(p) /\ IsPrefix(d, p)
  <2>1. PICK n \in 1..Len(p) - 1 : d = SubSeq(p, 1, n)
    BY <1>2 DEF Parents
  <2>2. n \in 0..Len(p)
    BY <1>1
  <2>3. d \in Path /\ Len(d) = n /\ IsPrefix(d, p)
    BY <2>1, <2>2, Prefix, PrefixIsPrefix
  <2>4. Len(NoPath) = 0
    BY EmptySeq DEF NoPath
  <2> QED BY <1>1, <2>3, <2>4
<1>3. ASSUME d \in Path, d # NoPath, Len(d) < Len(p), IsPrefix(d, p)
      PROVE  d \in Parents(p)
  <2>1. Len(d) \in Nat \ {0}
    BY <1>3, EmptySeq DEF Path, NoPath
  <2>2. d = SubSeq(p, 1, Len(d))
    BY <1>3, IsPrefixIff
  <2>3. Len(d) \in 1..Len(p) - 1
    BY <1>1, <1>3, <2>1
  <2> QED BY <2>2, <2>3 DEF Parents
<1> QED BY <1>2, <1>3

(***************************************************************************)
(* Links.                                                                  *)
(***************************************************************************)
LinkFree(t, p) == \A n \in 1..Len(p) : SubSeq(p, 1, n) \notin Links(t)

LEMMA CanonicalPlain ==
  ASSUME NEW t, NEW p, LinkFree(t, p)
  PROVE  Canonical(t, p) = p
  BY DEF LinkFree, Canonical, Links

LEMMA CanonicalLink ==
  ASSUME NEW t, NEW p, ~LinkFree(t, p)
  PROVE  \E n \in 1..Len(p) :
           /\ SubSeq(p, 1, n) \in Links(t)
           /\ Canonical(t, p) = t[SubSeq(p, 1, n)].target \o SubSeq(p, n + 1, Len(p))
<1> DEFINE isLink(n) == SubSeq(p, 1, n) \in DOMAIN t /\ t[SubSeq(p, 1, n)].kind = "link"
           links     == {n \in 1..Len(p) : isLink(n)}
           n         == CHOOSE n \in links : TRUE
<1>1. links # {}
  BY DEF LinkFree, Links
<1>2. n \in links
  <2> HIDE DEF links
  <2> QED BY <1>1
<1>3. Canonical(t, p) = t[SubSeq(p, 1, n)].target \o SubSeq(p, n + 1, Len(p))
  BY <1>1 DEF Canonical
<1>4. SubSeq(p, 1, n) \in Links(t) /\ n \in 1..Len(p)
  <2> HIDE DEF n
  <2> QED BY <1>2 DEF Links
<1> HIDE DEF n
<1> QED BY <1>3, <1>4

\* Behind a link there is no other.
LEMMA BehindLink ==
  ASSUME NEW t, IsTree(t), NEW q \in Links(t), NEW rest \in Path
  PROVE  LinkFree(t, t[q].target \o rest)
<1> DEFINE T == t[q].target
<1>1. T \in Path
  BY DEF IsTree, Path
<1>2. SUFFICES ASSUME NEW n \in 1..Len(T \o rest), SubSeq(T \o rest, 1, n) \in Links(t)
               PROVE  FALSE
  BY DEF LinkFree
<1> DEFINE r == SubSeq(T \o rest, 1, n)
<1> HIDE DEF T
<1>3. T \o rest \in Path /\ IsPrefix(T, T \o rest)
  BY <1>1, Concat
<1>4. n \in 0..Len(T \o rest)
  BY <1>3, LenProperties DEF Path
<1>5. r \in Path /\ IsPrefix(r, T \o rest)
  BY <1>3, <1>4, Prefix, PrefixIsPrefix
<1> HIDE DEF r
<1>6. Len(r) \in Nat /\ Len(T) \in Nat
  BY <1>1, <1>5, LenProperties DEF Path
<1>7. IsPrefix(r, T) \/ IsPrefix(T, r)
  <2>1. CASE Len(r) <= Len(T)
    BY <1>1, <1>3, <1>5, <2>1, PrefixesNest
  <2>2. CASE Len(T) <= Len(r)
    BY <1>1, <1>3, <1>5, <2>2, PrefixesNest
  <2> QED BY <1>6, <2>1, <2>2
<1> QED BY <1>2, <1>7 DEF IsTree, r, T

\* A canonical path runs through no link.
LEMMA CanonicalIsLinkFree ==
  ASSUME NEW t, IsTree(t), NEW p \in Path
  PROVE  Canonical(t, p) \in Path /\ LinkFree(t, Canonical(t, p))
<1>1. CASE LinkFree(t, p)
  BY <1>1, CanonicalPlain
<1>2. CASE ~LinkFree(t, p)
  <2>1. PICK n \in 1..Len(p) :
           /\ SubSeq(p, 1, n) \in Links(t)
           /\ Canonical(t, p) = t[SubSeq(p, 1, n)].target \o SubSeq(p, n + 1, Len(p))
    BY <1>2, CanonicalLink
  <2>2. n \in 0..Len(p)
    BY LenProperties DEF Path
  <2>3. SubSeq(p, n + 1, Len(p)) \in Path
    BY <2>2, Suffix
  <2>4. t[SubSeq(p, 1, n)].target \in Path
    BY <2>1 DEF IsTree, Path
  <2> QED BY <2>1, <2>3, <2>4, BehindLink, Concat
<1> QED BY <1>1, <1>2

(***************************************************************************)
(* Confinement.                                                            *)
(***************************************************************************)
\* The nearest ancestor that exists: the longest prefix that does.
LEMMA AncestorIs ==
  ASSUME NEW t, NEW p \in Path
  PROVE  \E k \in 0..Len(p) :
           /\ Ancestor(t, p) = SubSeq(p, 1, k)
           /\ k = 0 \/ Exists(t, SubSeq(p, 1, k))
           /\ \A m \in k + 1..Len(p) : ~Exists(t, SubSeq(p, 1, m))
<1> DEFINE Is(k) == /\ k = 0 \/ Exists(t, SubSeq(p, 1, k))
                    /\ \A m \in k + 1..Len(p) : ~Exists(t, SubSeq(p, 1, m))
           S == {k \in 0..Len(p) : k = 0 \/ Exists(t, SubSeq(p, 1, k))}
           D == {d \in Nat : d <= Len(p) /\ Len(p) - d \in S}
           R == {x \in Nat \X Nat : x[1] < x[2]}
<1>1. Len(p) \in Nat
  BY LenProperties DEF Path
<1>2. IsWellFoundedOn(R, Nat)
  BY NatLessThanWellFounded DEF OpToRel
<1>3. Len(p) \in D /\ D \subseteq Nat
  BY <1>1
<1>4. PICK d \in D : \A e \in D : << e, d >> \notin R
  <2> HIDE DEF R, D
  <2> QED BY <1>2, <1>3, WFMin
<1> DEFINE k == Len(p) - d
<1>5. k \in S /\ d \in Nat /\ d <= Len(p)
  BY <1>4
<1>6. ASSUME NEW m \in k + 1..Len(p) PROVE m \notin S
  <2>1. SUFFICES ASSUME m \in S PROVE FALSE
    OBVIOUS
  <2>2. m \in Nat /\ Len(p) - m \in Nat /\ Len(p) - m < d
    BY <1>1, <1>5, <1>6
  <2>3. Len(p) - m \in D
    <3>1. Len(p) - (Len(p) - m) = m /\ Len(p) - m <= Len(p)
      BY <1>1, <2>2
    <3> HIDE DEF S
    <3> QED BY <2>1, <2>2, <3>1
  <2> HIDE DEF D
  <2> QED BY <1>4, <1>5, <2>2, <2>3
<1>7. k \in 0..Len(p) /\ Is(k)
  <2>1. k \in 0..Len(p) /\ (k = 0 \/ Exists(t, SubSeq(p, 1, k)))
    BY <1>5
  <2>2. ASSUME NEW m \in k + 1..Len(p) PROVE ~Exists(t, SubSeq(p, 1, m))
    <3>1. m \in 0..Len(p)
      BY <1>1, <2>1, <2>2
    <3> QED BY <1>6, <3>1
  <2> QED BY <2>1, <2>2
<1> HIDE DEF k
<1>8. \E n \in 0..Len(p) : Is(n)
  BY <1>7
<1> DEFINE c == CHOOSE n \in 0..Len(p) : Is(n)
<1>9. c \in 0..Len(p) /\ Is(c)
  <2> HIDE DEF Is
  <2> QED BY <1>8
<1>10. Ancestor(t, p) = SubSeq(p, 1, c)
  BY DEF Ancestor
<1> HIDE DEF c
<1> QED BY <1>9, <1>10

\* What resolve_without_escape accepts lies in the worktree, and is the path it was given or
\* lies behind a link.  Where the directories on the way exist, none of them is a link.
LEMMA ResolveConfines ==
  ASSUME NEW t, IsTree(t), Root \in Path, Root # NoPath, NEW p \in Path,
         NEW at, at = Resolve(t, p), at # NoPath
  PROVE  /\ at \in Path /\ IsInside(at)
         /\ at = p \/ \E q \in Links(t) : IsPrefix(t[q].target, at)
         /\ (\A d \in Parents(at) \cap DOMAIN t : Exists(t, d)) =>
              \A d \in Parents(at) : d \notin Links(t)
<1>1. PICK k \in 0..Len(p) :
           /\ Ancestor(t, p) = SubSeq(p, 1, k)
           /\ k = 0 \/ Exists(t, SubSeq(p, 1, k))
           /\ \A m \in k + 1..Len(p) : ~Exists(t, SubSeq(p, 1, m))
  BY AncestorIs
<1> DEFINE known == SubSeq(p, 1, k)
           resolved == Canonical(t, known)
           rest == SubSeq(p, k + 1, Len(p))
<1>2. known \in Path /\ Len(known) = k
  BY Prefix
<1>3. rest \in Path
  BY Suffix
<1>4. resolved \in Path /\ LinkFree(t, resolved)
  BY <1>2, CanonicalIsLinkFree
<1>5. IsInside(resolved) /\ at = resolved \o rest
  BY <1>1, <1>2 DEF Resolve
<1> HIDE DEF rest, resolved
<1>6. at \in Path /\ IsPrefix(resolved, at)
  BY <1>3, <1>4, <1>5, Concat
<1>7. IsInside(at)
  BY <1>4, <1>5, <1>6, PrefixTransitive DEF IsInside
<1>8. known \o rest = p
  <2>1. Len(p) \in Nat
    BY LenProperties DEF Path
  <2>2. k \in 1 - 1..Len(p) /\ 1 \in 1..Len(p) + 1 /\ Len(p) \in k..Len(p)
    BY <2>1
  <2>3. SubSeq(p, 1, k) \o SubSeq(p, k + 1, Len(p)) = SubSeq(p, 1, Len(p))
    BY <2>2, ConcatAdjacentSubSeq DEF Path
  <2> QED BY <2>3, SubSeqFull DEF Path, rest
<1>9. CASE LinkFree(t, known)
  <2>1. at = p
    BY <1>5, <1>8, <1>9, CanonicalPlain DEF resolved
  <2>2. ASSUME \A d \in Parents(at) \cap DOMAIN t : Exists(t, d),
               NEW d \in Parents(at), d \in Links(t)
        PROVE  FALSE
    <3>1. PICK n \in 1..Len(p) - 1 : d = SubSeq(p, 1, n)
      BY <2>1, <2>2 DEF Parents
    <3>2. d \in DOMAIN t /\ Exists(t, d)
      BY <2>2 DEF Links
    <3>3. Len(p) \in Nat
      BY LenProperties DEF Path
    <3>4. n \in 1..k
      BY <1>1, <3>1, <3>2, <3>3
    <3>5. SubSeq(known, 1, n) = d
      BY <3>1, <3>4, PrefixOfPrefix
    <3> QED BY <1>2, <1>9, <2>2, <3>4, <3>5 DEF LinkFree
  <2> QED BY <1>6, <1>7, <2>1, <2>2
<1>10. CASE ~LinkFree(t, known)
  <2>1. PICK n \in 1..Len(known) :
           /\ SubSeq(known, 1, n) \in Links(t)
           /\ resolved = t[SubSeq(known, 1, n)].target \o SubSeq(known, n + 1, Len(known))
    BY <1>10, CanonicalLink DEF resolved
  <2> DEFINE q == SubSeq(known, 1, n)
             T == t[q].target
             mid == SubSeq(known, n + 1, Len(known))
  <2>2. n \in 0..Len(known)
    BY <1>2
  <2>3. T \in Path /\ mid \in Path /\ q \in Links(t)
    BY <1>2, <2>1, <2>2, Suffix DEF IsTree, Path
  <2>4. resolved = T \o mid
    BY <2>1
  <2> HIDE DEF T, mid, q
  <2>5. at = T \o (mid \o rest)
    <3>1. (T \o mid) \o rest = T \o (mid \o rest)
      BY <1>3, <2>3, PathsAssociate
    <3> QED BY <1>5, <2>4, <3>1
  <2>6. mid \o rest \in Path
    BY <1>3, <2>3, Concat
  <2>7. LinkFree(t, at)
    BY <2>3, <2>5, <2>6, BehindLink DEF T
  <2>8. IsPrefix(T, at)
    BY <2>3, <2>5, <2>6, Concat
  <2>9. ASSUME NEW d \in Parents(at) PROVE d \notin Links(t)
    <3>1. Len(at) \in Nat
      BY <1>6, LenProperties DEF Path
    <3>2. PICK m \in 1..Len(at) - 1 : d = SubSeq(at, 1, m)
      BY <2>9 DEF Parents
    <3> QED BY <2>7, <3>1, <3>2 DEF LinkFree
  <2> QED BY <1>6, <1>7, <2>3, <2>8, <2>9 DEF T
<1> QED BY <1>9, <1>10

\* The directories on the way to a path of the worktree are there or in it.
LEMMA ParentsInside ==
  ASSUME NEW p \in Path, Root \in Path, IsInside(p), NEW d \in Parents(p)
  PROVE  IsInside(d) \/ d \in Parents(Root)
<1>1. d \in Path /\ d # NoPath /\ IsPrefix(d, p)
  BY ParentsArePrefixes
<1>2. Len(d) \in Nat /\ Len(Root) \in Nat
  BY <1>1, LenProperties DEF Path
<1>3. CASE Len(Root) <= Len(d)
  BY <1>1, <1>3, PrefixesNest DEF IsInside
<1>4. CASE Len(d) < Len(Root)
  <2>1. IsPrefix(d, Root)
    BY <1>1, <1>2, <1>4, PrefixesNest DEF IsInside
  <2> QED BY <1>1, <1>4, <2>1, ParentsArePrefixes
<1> QED BY <1>2, <1>3, <1>4

\* Directories of directories.
LEMMA ParentsTransitive ==
  ASSUME NEW p \in Path, NEW d \in Parents(p), NEW e \in Parents(d)
  PROVE  e \in Parents(p)
<1>1. d \in Path /\ Len(d) < Len(p) /\ IsPrefix(d, p)
  BY ParentsArePrefixes
<1>2. e \in Path /\ e # NoPath /\ Len(e) < Len(d) /\ IsPrefix(e, d)
  BY <1>1, ParentsArePrefixes
<1>3. IsPrefix(e, p)
  BY <1>1, <1>2, PrefixTransitive
<1>4. Len(e) < Len(p)
  BY <1>1, <1>2, LenProperties DEF Path
<1> QED BY <1>2, <1>3, <1>4, ParentsArePrefixes

LEMMA RestoresPath ==
  ASSUME NEW p \in Path, p # NoPath
  PROVE  /\ Front(p) \in Path /\ Append(Front(p), Last(p)) = p
         /\ Len(Front(p)) = Len(p) - 1
         /\ \A n \in 1..Len(p) - 1 : SubSeq(Front(p), 1, n) = SubSeq(p, 1, n)
<1>1. Len(p) \in Nat \ {0}
  BY EmptySeq DEF Path, NoPath
<1>2. Len(p) - 1 \in 0..Len(p)
  BY <1>1
<1>3. /\ Front(p) \in Path /\ Len(Front(p)) = Len(p) - 1
      /\ \A i \in 1..Len(p) - 1 : Front(p)[i] = p[i]
  BY <1>2, Prefix DEF Front
<1>4. \A n \in 1..Len(p) - 1 : SubSeq(Front(p), 1, n) = SubSeq(p, 1, n)
  <2>1. ASSUME NEW n \in 1..Len(p) - 1 PROVE n \in 0..Len(p) - 1
    BY <1>1
  <2> QED BY <1>2, <2>1, PrefixOfPrefix DEF Front
<1>5. Last(p) \in STRING
  BY <1>1, ElementOfSeq DEF Last, Path
<1>6. /\ Append(Front(p), Last(p)) \in Path /\ Len(Append(Front(p), Last(p))) = Len(p)
      /\ \A i \in 1..Len(p) - 1 : Append(Front(p), Last(p))[i] = Front(p)[i]
      /\ Append(Front(p), Last(p))[Len(p)] = Last(p)
  <2>1. /\ Append(Front(p), Last(p)) \in Path
        /\ Len(Append(Front(p), Last(p))) = Len(Front(p)) + 1
        /\ \A i \in 1..Len(Front(p)) : Append(Front(p), Last(p))[i] = Front(p)[i]
        /\ Append(Front(p), Last(p))[Len(Front(p)) + 1] = Last(p)
    BY <1>3, <1>5, AppendProperties DEF Path
  <2>2. Len(Front(p)) + 1 = Len(p)
    BY <1>1, <1>3
  <2> QED BY <1>3, <2>1, <2>2
<1>7. \A i \in 1..Len(p) : Append(Front(p), Last(p))[i] = p[i]
  <2>1. ASSUME NEW i \in 1..Len(p) PROVE i \in 1..Len(p) - 1 \/ i = Len(p)
    BY <1>1
  <2> QED BY <1>3, <1>6, <2>1 DEF Last
<1> QED BY <1>3, <1>4, <1>6, <1>7, SeqEqual DEF Path
=============================================================================
