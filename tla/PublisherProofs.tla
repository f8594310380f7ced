-------------------------- MODULE PublisherProofs --------------------------
(***************************************************************************)
(* For any jobs, version names and bound on what overlaps, wherever jobs    *)
(* fail and whenever the lock expires: the types of Publisher, that versions *)
(* are listed in order, that what a client was told is published is listed, *)
(* and that memcache serves what the list says.                             *)
(***************************************************************************)
EXTENDS Publisher, TLAPS, WellFoundedInduction, FiniteSetTheorems

Entity == [name : Names, version_int : Nat]

JobState == [step : {"none", "checked", "refused", "started", "rendering", "stored",
                     "cached", "listed", "answered", "done"},
             name : Names \cup {None}, published : Seq(Jobs)]

(* First layer: types. The copies of the list are lists, a job that was     *)
(* asked for has a name, a version that is being deleted is there, and only *)
(* finitely many jobs and deletes are under way.                            *)
Working == {j \in Jobs : job[j].step \in {"checked", "started", "rendering", "stored",
                                          "cached", "listed", "answered"}}
Deleting == {j \in Jobs : deleting[j] # "no"}

Typed ==
  /\ job \in [Jobs -> JobState]
  /\ pub \in [Jobs -> Entity \cup {None}]
  /\ published \in Seq(Jobs)
  /\ cache \in [Names \cup {Latest} -> Jobs \cup {None}]
  /\ lock \in BOOLEAN /\ overlapped \in BOOLEAN
  /\ status \in [Jobs -> {"none", "published", "500"}]
  /\ reading \in [name : Names \cup {Latest, None}, published : Seq(Jobs)]
  /\ deleting \in [Jobs -> {"no", "read", "unlisted", "uncached"}]
  /\ held \in [Jobs -> Seq(Jobs)]
  /\ \A j \in Jobs : job[j].step # "none" => job[j].name \in Names
  /\ \A j \in Jobs : deleting[j] # "no" => pub[j] # None
  /\ IsFiniteSet(Working) /\ IsFiniteSet(Deleting)

(* Second layer: order. InOrder says of a list and the entities stored what *)
(* VersionsInOrder says of published; Free, that a name is new to the list; *)
(* Before, that an entity may follow it.                                    *)
InOrder(list, p) ==
  \A i, k \in DOMAIN list : i < k /\ p[list[i]] # None /\ p[list[k]] # None =>
    p[list[i]].name # p[list[k]].name /\ p[list[i]].version_int < p[list[k]].version_int

Free(list, p, name) ==
  \A i \in DOMAIN list : p[list[i]] # None => p[list[i]].name # name

Before(list, p, e) ==
  \A i \in DOMAIN list : p[list[i]] # None =>
    p[list[i]].name # e.name /\ p[list[i]].version_int < e.version_int

\* What is on a list was stored before, and never is again.
Settled(list, b) == \A i \in DOMAIN list : b[list[i]].step \in {"listed", "answered", "done"}

(* A job's copy of the list is in order, and the job may append to it.      *)
JobOrderly(j) ==
  /\ InOrder(job[j].published, pub) /\ Settled(job[j].published, job)
  /\ job[j].step \in {"checked", "started", "rendering"} =>
       Free(job[j].published, pub, job[j].name)
  /\ job[j].step \in {"stored", "cached"} /\ pub[j] # None =>
       Before(job[j].published, pub, pub[j])

Orderly ==
  /\ InOrder(published, pub) /\ Settled(published, job)
  /\ \A j \in Jobs : JobOrderly(j)
  /\ \A j \in Jobs : InOrder(held[j], pub) /\ Settled(held[j], job)

(* Third layer: one job, delete or read at a time, which has the list as it *)
(* is.                                                                      *)
OneAtATime ==
  /\ \A j, k \in Working : j = k
  /\ \A j, k \in Deleting : j = k
  /\ Working = {} \/ Deleting = {}
  /\ reading # NoRead => Working = {} /\ Deleting = {} /\ reading.published = published
  /\ \A j \in Jobs : job[j].step \in {"checked", "started", "rendering", "stored", "cached"} =>
       job[j].published = published
  /\ \A j \in Jobs : job[j].step \in {"stored", "cached"} =>
       pub[j] # None /\ pub[j].name = job[j].name
  /\ \A j \in Jobs : job[j].step = "listed" => j \in ToSet(published)
  /\ \A j \in Jobs : status[j] = "published" /\ pub[j] # None /\ deleting[j] = "no" =>
       j \in ToSet(published)
  /\ \A j \in Jobs : deleting[j] = "read" => held[j] = published

\* j is the last of the list that still exists.
LastOf(list, p, j) ==
  \E i \in DOMAIN list : /\ list[i] = j /\ p[j] # None
                         /\ \A k \in DOMAIN list : p[list[k]] # None => k <= i

(* What memcache has of a version is right, or the version is on its way to *)
(* or from the list, or its job failed.                                     *)
CacheFits(name) ==
  LET c == cache[name] IN
  /\ pub[c] # None /\ (name # Latest => pub[c].name = name)
  /\ job[c].step \in {"cached", "listed", "answered", "done"} /\ deleting[c] # "uncached"
  /\ \/ job[c].step = "cached" \/ status[c] = "500" \/ deleting[c] = "unlisted"
     \/ c \in ToSet(published) /\ (name = Latest => LastOf(published, pub, c))

CacheRight ==
  /\ \A name \in Names \cup {Latest} : cache[name] # None => CacheFits(name)
  /\ \A j \in Jobs : job[j].step = "cached" => cache[Latest] \in {None, j}

AnsweredOnce == \A j \in Jobs : status[j] # "none" => job[j].step \in {"answered", "done"}

Quiet == AnsweredOnce /\ (~overlapped => OneAtATime /\ CacheRight)

-----------------------------------------------------------------------------
(* Numbers.                                                                 *)

(* Every nonempty set of natural numbers has a least element.               *)
LEMMA Least ==
  ASSUME NEW S, S \subseteq Nat, S # {}
  PROVE  Min(S) \in S /\ \A n \in S : Min(S) <= n
<1> DEFINE R == OpToRel(<, Nat)
<1>1. IsWellFoundedOn(R, Nat)
  BY NatLessThanWellFounded
<1>2. \A m, n \in Nat : m < n => <<m, n>> \in R
  BY DEF OpToRel
<1> HIDE DEF R
<1>3. PICK n \in S : \A m \in S : ~(<<m, n>> \in R)
  BY <1>1, WFMin
<1>4. ASSUME NEW m \in S PROVE n <= m
  <2>1. m \in Nat /\ n \in Nat
    OBVIOUS
  <2>2. ~(m < n)
    BY <1>2, <1>3, <2>1, Zenon
  <2>3. QED
    BY <2>1, <2>2
<1>5. QED
  BY <1>3, <1>4 DEF Min

(* One with a bound has a greatest.                                         *)
LEMMA Greatest ==
  ASSUME NEW S, S \subseteq Nat, S # {}, NEW b \in Nat, \A n \in S : n <= b
  PROVE  Max(S) \in S /\ \A n \in S : n <= Max(S)
<1> DEFINE above == {n \in Nat : \A m \in S : m <= n}
<1>1. above \subseteq Nat /\ above # {}
  <2>1. b \in above
    OBVIOUS
  <2>2. QED
    BY <2>1
<1>2. PICK n \in Nat : n = Min(above) /\ n \in above /\ \A m \in above : n <= m
  BY <1>1, Least
<1>3. n \in S
  <2> SUFFICES ASSUME n \notin S PROVE FALSE
    OBVIOUS
  <2>1. \A m \in S : m < n /\ m \in Nat
    BY <1>2
  <2>0. PICK x \in S : x < n /\ x \in Nat
    BY <2>1
  <2>2. n - 1 \in Nat /\ \A m \in S : m <= n - 1
    BY <2>0, <2>1
  <2>3. n - 1 \in above
    BY <2>2
  <2>4. n <= n - 1
    BY <1>2, <2>3
  <2>5. QED
    BY <2>4
<1>4. \A m \in S : m <= n /\ m \in Nat
  BY <1>2
<1>5. QED
  <2>1. \E x \in S : \A y \in S : x >= y
    BY <1>3, <1>4
  <2>2. Max(S) \in S /\ \A y \in S : Max(S) >= y
    BY <2>1 DEF Max
  <2>3. QED
    BY <1>4, <2>2

(* What holds of 0, and of the next number whenever it holds of one, holds  *)
(* of every number.                                                         *)
LEMMA Counting ==
  ASSUME NEW Q, 0 \in Q, \A n \in Nat : n \in Q => n + 1 \in Q
  PROVE  Nat \subseteq Q
<1> SUFFICES ASSUME Nat \ Q # {} PROVE FALSE
  OBVIOUS
<1>1. PICK n \in Nat \ Q : \A m \in Nat \ Q : n <= m
  BY Least
<1>2. n # 0 /\ n - 1 \in Nat
  BY <1>1
<1>3. n - 1 \in Q
  BY <1>1, <1>2
<1>4. n \in Q
  BY <1>2, <1>3
<1>5. QED
  BY <1>4

(* The numbers of the versions on a list are bounded.                       *)
LEMMA NumbersBounded ==
  ASSUME Typed, NEW list \in Seq(Jobs)
  PROVE  /\ Numbers(list) \subseteq Nat
         /\ \E b \in Nat : \A n \in Numbers(list) : n <= b
<1>1. \A i \in Existing(list) : pub[list[i]].version_int \in Nat /\ i \in 1 .. Len(list)
  BY DEF Typed, Entity, Existing
<1> DEFINE Q == {n \in Nat : \E b \in Nat : \A i \in Existing(list) :
                               i <= n => pub[list[i]].version_int <= b}
<1>2. 0 \in Q
  BY <1>1
<1>3. ASSUME NEW n \in Nat, n \in Q PROVE n + 1 \in Q
  <2>1. PICK b \in Nat : \A i \in Existing(list) : i <= n => pub[list[i]].version_int <= b
    BY <1>3
  <2>2. CASE n + 1 \in Existing(list)
    <3>1. PICK v \in Nat : v = pub[list[n + 1]].version_int
      BY <1>1, <2>2
    <3>2. \A i \in Existing(list) : i <= n + 1 => pub[list[i]].version_int <= b + v
      <4> SUFFICES ASSUME NEW i \in Existing(list), i <= n + 1
                   PROVE  pub[list[i]].version_int <= b + v
        OBVIOUS
      <4>1. i \in Nat /\ (i = n + 1 \/ i <= n)
        BY <1>1
      <4>2. CASE i = n + 1
        BY <3>1, <4>2
      <4>3. CASE i <= n
        BY <1>1, <2>1, <4>3
      <4>4. QED
        BY <4>1, <4>2, <4>3
    <3>3. QED
      BY <3>2
  <2>3. CASE n + 1 \notin Existing(list)
    <3>1. \A i \in Existing(list) : i <= n + 1 => pub[list[i]].version_int <= b
      BY <1>1, <2>1, <2>3
    <3>2. QED
      BY <3>1
  <2>4. QED
    BY <2>2, <2>3
<1> HIDE DEF Q
<1>4. Len(list) \in Q
  BY <1>2, <1>3, Counting
<1>5. PICK b \in Nat : \A i \in Existing(list) :
                         i <= Len(list) => pub[list[i]].version_int <= b
  BY <1>4 DEF Q
<1>6. \A n \in Numbers(list) : n \in Nat /\ n <= b
  BY <1>1, <1>5 DEF Numbers
<1>7. QED
  BY <1>6

(* The next version has a larger number than those of the list.             *)
LEMMA NextVersionLarger ==
  ASSUME Typed, NEW list \in Seq(Jobs)
  PROVE  /\ NextVersion(list) \in Nat
         /\ \A i \in Existing(list) : /\ pub[list[i]].version_int \in Nat
                                      /\ pub[list[i]].version_int < NextVersion(list)
<1> DEFINE S == Numbers(list) \cup {0}
<1>1. PICK b \in Nat : \A n \in Numbers(list) : n <= b
  BY NumbersBounded
<1>2. S \subseteq Nat /\ \A n \in S : n <= b
  BY <1>1, NumbersBounded
<1>3. Max(S) \in S /\ \A n \in S : n <= Max(S)
  BY <1>2, Greatest
<1>4. \A i \in Existing(list) : pub[list[i]].version_int \in S
  BY DEF Numbers
<1>5. PICK m \in Nat : m = Max(S)
  BY <1>2, <1>3
<1>6. NextVersion(list) = m + 1
  BY <1>5 DEF NextVersion
<1>7. ASSUME NEW i \in Existing(list)
      PROVE  pub[list[i]].version_int \in Nat /\ pub[list[i]].version_int < m + 1
  <2>1. PICK v \in S : v = pub[list[i]].version_int
    BY <1>4
  <2>2. v \in Nat /\ v <= m
    BY <1>2, <1>3, <1>5
  <2>3. v < m + 1
    BY <2>2
  <2>4. QED
    BY <2>1, <2>2, <2>3
<1>8. QED
  BY <1>6, <1>7

-----------------------------------------------------------------------------
(* Lists.                                                                   *)

\* r is list without its m-th entry.
Without(list, m, r) ==
  /\ Len(r) = Len(list) - 1
  /\ \A i \in 1 .. Len(list) - 1 : r[i] = list[IF i < m THEN i ELSE i + 1]

LEMMA RemoveFirstIs ==
  ASSUME NEW list \in Seq(Jobs), NEW x, NEW r, r = RemoveFirst(list, x)
  PROVE  /\ r \in Seq(Jobs)
         /\ r = list \/ \E m \in 1 .. Len(list) : list[m] = x /\ Without(list, m, r)
<1>1. CASE ~ \E i \in 1 .. Len(list) : list[i] = x
  BY <1>1 DEF RemoveFirst
<1>2. CASE \E i \in 1 .. Len(list) : list[i] = x
  <2> DEFINE I == {i \in 1 .. Len(list) : list[i] = x}
  <2>1. I \subseteq Nat /\ I # {}
    BY <1>2
  <2>2. SelectInSeq(list, LAMBDA v : v = x) = Min(I)
    BY <2>1 DEF SelectInSeq
  <2>3. PICK m \in 1 .. Len(list) : m = Min(I) /\ list[m] = x
    BY <2>1, Least
  <2>4. r = RemoveAt(list, m)
    BY <1>2, <2>2, <2>3 DEF RemoveFirst
  <2>5. r = SubSeq(list, 1, m - 1) \o SubSeq(list, m + 1, Len(list))
    BY <2>4 DEF RemoveAt
  <2>6. PICK a, b : a = SubSeq(list, 1, m - 1) /\ b = SubSeq(list, m + 1, Len(list))
    OBVIOUS
  <2>7. /\ a \in Seq(Jobs) /\ Len(a) = m - 1 /\ \A i \in 1 .. m - 1 : a[i] = list[i]
        /\ b \in Seq(Jobs) /\ Len(b) = Len(list) - m
        /\ \A i \in 1 .. Len(list) - m : b[i] = list[i + m]
    BY <2>6
  <2>8. r = a \o b /\ r \in Seq(Jobs)
    BY <2>5, <2>6, <2>7
  <2>9. PICK n \in Nat : n = Len(list)
    OBVIOUS
  <2>10. Len(r) = Len(a) + Len(b)
         /\ \A i \in 1 .. Len(a) + Len(b) : r[i] = IF i <= Len(a) THEN a[i] ELSE b[i - Len(a)]
    <3>1. a \in Seq(Jobs) /\ b \in Seq(Jobs)
      BY <2>7
    <3>2. QED
      BY <2>8, <3>1
  <2>11. Len(r) = n - 1
    BY <2>7, <2>9, <2>10
  <2>12. ASSUME NEW i \in 1 .. n - 1 PROVE r[i] = list[IF i < m THEN i ELSE i + 1]
    <3>1. r[i] = IF i <= m - 1 THEN a[i] ELSE b[i - (m - 1)]
      BY <2>7, <2>9, <2>10
    <3>2. CASE i < m
      BY <2>7, <3>1, <3>2
    <3>3. CASE ~(i < m)
      <4>1. PICK c \in 1 .. n - m : c = i - (m - 1) /\ c + m = i + 1
        BY <2>9, <3>3
      <4>2. r[i] = b[c] /\ b[c] = list[c + m]
        BY <2>7, <2>9, <3>1, <3>3, <4>1
      <4>3. QED
        BY <3>3, <4>1, <4>2
    <3>4. QED
      BY <3>2, <3>3
  <2>13. Without(list, m, r)
    BY <2>9, <2>11, <2>12 DEF Without
  <2>14. QED
    BY <2>3, <2>8, <2>13
<1>3. QED
  BY <1>1, <1>2

(* Every pair of entries that is left stands in list in the same order.     *)
LEMMA RemovePairs ==
  ASSUME NEW list \in Seq(Jobs), NEW x, NEW r, r = RemoveFirst(list, x)
  PROVE  /\ r \in Seq(Jobs)
         /\ \A i \in DOMAIN r : \E a \in DOMAIN list : r[i] = list[a]
         /\ \A i, k \in DOMAIN r : i < k =>
              \E a, b \in DOMAIN list : a < b /\ r[i] = list[a] /\ r[k] = list[b]
<1>1. r \in Seq(Jobs)
  BY RemoveFirstIs
<1>2. CASE r = list
  BY <1>1, <1>2
<1>3. ASSUME NEW m \in 1 .. Len(list), Without(list, m, r)
      PROVE  /\ \A i \in DOMAIN r : \E a \in DOMAIN list : r[i] = list[a]
             /\ \A i, k \in DOMAIN r : i < k =>
                  \E a, b \in DOMAIN list : a < b /\ r[i] = list[a] /\ r[k] = list[b]
  <2> DEFINE at(i) == IF i < m THEN i ELSE i + 1
  <2>1. DOMAIN r = 1 .. Len(list) - 1 /\ \A i \in DOMAIN r : r[i] = list[at(i)]
    BY <1>1, <1>3 DEF Without
  <2>2. \A i \in DOMAIN r : at(i) \in DOMAIN list
    BY <2>1
  <2>3. \A i, k \in DOMAIN r : i < k => at(i) < at(k)
    BY <2>1
  <2> HIDE DEF at
  <2>4. QED
    BY <2>1, <2>2, <2>3
<1>4. QED
  BY <1>1, <1>2, <1>3, RemoveFirstIs

(* Every other entry is left.                                               *)
LEMMA RemoveKeeps ==
  ASSUME NEW list \in Seq(Jobs), NEW x, NEW r, r = RemoveFirst(list, x),
         NEW y \in ToSet(list), y # x
  PROVE  y \in ToSet(r)
<1>1. r \in Seq(Jobs)
  BY RemoveFirstIs
<1>2. PICK a \in DOMAIN list : list[a] = y
  BY DEF ToSet
<1>3. ASSUME NEW m \in 1 .. Len(list), list[m] = x, Without(list, m, r) PROVE y \in ToSet(r)
  <2>1. a \in Nat /\ a \in 1 .. Len(list) /\ a # m
    BY <1>2, <1>3
  <2>2. PICK i \in 1 .. Len(list) - 1 : a = IF i < m THEN i ELSE i + 1
    <3>1. CASE a < m
      BY <2>1, <3>1
    <3>2. CASE a > m
      <4>1. a - 1 \in 1 .. Len(list) - 1 /\ ~(a - 1 < m) /\ a = a - 1 + 1
        BY <2>1, <3>2
      <4>2. QED
        BY <4>1
    <3>3. QED
      BY <2>1, <3>1, <3>2
  <2>3. r[i] = y /\ i \in DOMAIN r
    BY <1>1, <1>2, <1>3, <2>2 DEF Without
  <2>4. QED
    BY <2>3 DEF ToSet
<1>4. QED
  BY <1>2, <1>3, RemoveFirstIs

(* Removing keeps a list in order, and which version is the last of it.     *)
LEMMA RemoveInOrder ==
  ASSUME NEW list \in Seq(Jobs), NEW x, NEW r, r = RemoveFirst(list, x), NEW p
  PROVE  /\ r \in Seq(Jobs)
         /\ InOrder(list, p) => InOrder(r, p)
         /\ \A b : Settled(list, b) => Settled(r, b)
<1>1. r \in Seq(Jobs)
  BY RemovePairs
<1>2. ASSUME InOrder(list, p), NEW i \in DOMAIN r, NEW k \in DOMAIN r, i < k,
             p[r[i]] # None, p[r[k]] # None
      PROVE  p[r[i]].name # p[r[k]].name /\ p[r[i]].version_int < p[r[k]].version_int
  <2>1. PICK a, b \in DOMAIN list : a < b /\ r[i] = list[a] /\ r[k] = list[b]
    BY <1>2, RemovePairs
  <2>2. QED
    BY <1>2, <2>1 DEF InOrder
<1>3. ASSUME NEW b, Settled(list, b) PROVE Settled(r, b)
  BY <1>3, RemovePairs DEF Settled
<1>4. QED
  BY <1>1, <1>2, <1>3 DEF InOrder

LEMMA RemoveLastOf ==
  ASSUME NEW list \in Seq(Jobs), NEW x, NEW r, r = RemoveFirst(list, x), NEW p,
         NEW y, y # x, LastOf(list, p, y)
  PROVE  LastOf(r, p, y)
<1>1. r \in Seq(Jobs)
  BY RemoveFirstIs
<1>2. CASE r = list
  BY <1>2
<1>3. ASSUME NEW m \in 1 .. Len(list), list[m] = x, Without(list, m, r) PROVE LastOf(r, p, y)
  <2>1. PICK a \in DOMAIN list : /\ list[a] = y /\ p[y] # None
                                 /\ \A k \in DOMAIN list : p[list[k]] # None => k <= a
    BY DEF LastOf
  <2>2. a \in Nat /\ a \in 1 .. Len(list) /\ a # m
    BY <1>3, <2>1
  <2>3. DOMAIN r = 1 .. Len(list) - 1
        /\ \A i \in 1 .. Len(list) - 1 : r[i] = list[IF i < m THEN i ELSE i + 1]
    BY <1>1, <1>3 DEF Without
  <2>4. PICK j \in 1 .. Len(list) - 1 : j = IF a < m THEN a ELSE a - 1
    BY <2>2
  <2>5. r[j] = y
    BY <2>1, <2>2, <2>3, <2>4
  <2>6. ASSUME NEW k \in DOMAIN r, p[r[k]] # None PROVE k <= j
    <3>1. PICK c \in DOMAIN list : c = IF k < m THEN k ELSE k + 1
      BY <2>3
    <3>2. r[k] = list[c] /\ c <= a
      BY <2>1, <2>3, <2>6, <3>1
    <3>3. QED
      BY <2>2, <2>3, <2>4, <3>1, <3>2
  <2>7. QED
    BY <2>1, <2>3, <2>5, <2>6 DEF LastOf
<1>4. QED
  BY <1>2, <1>3, RemoveFirstIs

(* A list stays in order and settled while versions are stored by jobs that *)
(* are not on it, or erased.                                                *)
Fades(p, q, b) ==
  \A k \in Jobs : b[k].step \in {"listed", "answered", "done"} => q[k] \in {p[k], None}

LEMMA FadingOrder ==
  ASSUME NEW list \in Seq(Jobs), NEW p, NEW q, NEW b, Settled(list, b), Fades(p, q, b)
  PROVE  /\ InOrder(list, p) => InOrder(list, q)
         /\ \A name : Free(list, p, name) => Free(list, q, name)
         /\ \A e : Before(list, p, e) => Before(list, q, e)
<1>1. \A i \in DOMAIN list : q[list[i]] # None => q[list[i]] = p[list[i]]
  BY DEF Settled, Fades
<1>2. InOrder(list, p) => InOrder(list, q)
  BY <1>1 DEF InOrder
<1>3. \A name : Free(list, p, name) => Free(list, q, name)
  BY <1>1 DEF Free
<1>4. \A e : Before(list, p, e) => Before(list, q, e)
  BY <1>1 DEF Before
<1>5. QED
  BY <1>2, <1>3, <1>4

(* Appending what may follow.                                               *)
LEMMA AppendInOrder ==
  ASSUME NEW list \in Seq(Jobs), NEW j \in Jobs, NEW p, NEW b, InOrder(list, p),
         p[j] # None => Before(list, p, p[j]), Settled(list, b),
         b[j].step \in {"listed", "answered", "done"}
  PROVE  /\ Append(list, j) \in Seq(Jobs)
         /\ InOrder(Append(list, j), p) /\ Settled(Append(list, j), b)
<1>1. PICK r : r = Append(list, j)
  OBVIOUS
<1>2. /\ r \in Seq(Jobs) /\ DOMAIN r = 1 .. Len(list) + 1 /\ DOMAIN list = 1 .. Len(list)
      /\ r[Len(list) + 1] = j /\ \A i \in 1 .. Len(list) : r[i] = list[i]
  BY <1>1
<1>3. InOrder(r, p)
  <2> SUFFICES ASSUME NEW i \in DOMAIN r, NEW k \in DOMAIN r, i < k,
                      p[r[i]] # None, p[r[k]] # None
               PROVE  p[r[i]].name # p[r[k]].name /\ p[r[i]].version_int < p[r[k]].version_int
    BY DEF InOrder
  <2>1. i \in DOMAIN list /\ r[i] = list[i]
    BY <1>2
  <2>2. CASE k \in DOMAIN list
    <3>1. r[k] = list[k]
      BY <1>2, <2>2
    <3>2. QED
      BY <2>1, <2>2, <3>1 DEF InOrder
  <2>3. CASE k = Len(list) + 1
    <3>1. r[k] = j
      BY <1>2, <2>3
    <3>2. QED
      BY <2>1, <3>1 DEF Before
  <2>4. QED
    BY <1>2, <2>2, <2>3
<1>4. Settled(r, b)
  BY <1>2 DEF Settled
<1>5. QED
  BY <1>1, <1>2, <1>3, <1>4

-----------------------------------------------------------------------------
(* First layer.                                                             *)

LEMMA Grows ==
  ASSUME NEW S, IsFiniteSet(S), NEW T, NEW x, T \subseteq S \cup {x}
  PROVE  IsFiniteSet(T)
<1>1. IsFiniteSet(S \cup {x})
  BY FS_AddElement
<1>2. QED
  BY <1>1, FS_Subset

Steps == {"none", "checked", "refused", "started", "rendering", "stored",
          "cached", "listed", "answered", "done"}

(* A step of a job changes that, and nothing else of any job.               *)
LEMMA StepFacts ==
  ASSUME Typed, NEW j \in Jobs, NEW to \in Steps, job' = [job EXCEPT ![j].step = to]
  PROVE  /\ job' \in [Jobs -> JobState]
         /\ job'[j].step = to /\ job'[j].name = job[j].name
         /\ job'[j].published = job[j].published
         /\ \A k \in Jobs : k # j => job'[k] = job[k]
         /\ \A k \in Jobs : job'[k].name = job[k].name /\ job'[k].published = job[k].published
         /\ Working' \subseteq Working \cup {j}
<1>1. job \in [Jobs -> JobState]
  BY DEF Typed
<1>2. job' = [job EXCEPT ![j] = [job[j] EXCEPT !.step = to]]
  BY <1>1
<1>3. [job[j] EXCEPT !.step = to] \in JobState
  BY <1>1 DEF JobState, Steps
<1>4. job' \in [Jobs -> JobState]
  BY <1>1, <1>2, <1>3
<1>5. job'[j].step = to /\ job'[j].name = job[j].name /\ job'[j].published = job[j].published
  BY <1>1, <1>2 DEF JobState
<1>6. \A k \in Jobs : k # j => job'[k] = job[k]
  BY <1>1, <1>2
<1>7. \A k \in Jobs : job'[k].name = job[k].name /\ job'[k].published = job[k].published
  BY <1>5, <1>6
<1>8. Working' \subseteq Working \cup {j}
  BY <1>6 DEF Working
<1>9. QED
  BY <1>4, <1>5, <1>6, <1>7, <1>8

LEMMA TypedJob ==
  ASSUME Typed, NEW j \in Jobs, NEW to \in Steps, job[j].step # "none",
         job' = [job EXCEPT ![j].step = to],
         pub' \in [Jobs -> Entity \cup {None}], \A k \in Jobs : pub[k] # None => pub'[k] # None,
         published' \in Seq(Jobs), cache' \in [Names \cup {Latest} -> Jobs \cup {None}],
         lock' \in BOOLEAN, status' \in [Jobs -> {"none", "published", "500"}],
         overlapped' = overlapped, reading' = reading, deleting' = deleting,
         held' = held
  PROVE  Typed'
<1>1. /\ job' \in [Jobs -> JobState]
      /\ job'[j].name = job[j].name /\ \A k \in Jobs : k # j => job'[k] = job[k]
      /\ Working' \subseteq Working \cup {j}
  BY StepFacts
<1>2. IsFiniteSet(Working') /\ IsFiniteSet(Deleting')
  <2>1. IsFiniteSet(Working) /\ IsFiniteSet(Deleting)
    BY DEF Typed
  <2>2. IsFiniteSet(Working')
    BY <1>1, <2>1, Grows
  <2>3. Deleting' = Deleting
    BY DEF Deleting
  <2>4. QED
    BY <2>1, <2>2, <2>3
<1>3. \A k \in Jobs : job'[k].step # "none" => job'[k].name \in Names
  BY <1>1 DEF Typed
<1>4. \A k \in Jobs : deleting'[k] # "no" => pub'[k] # None
  BY DEF Typed
<1>5. overlapped' \in BOOLEAN
      /\ reading' \in [name : Names \cup {Latest, None}, published : Seq(Jobs)]
      /\ deleting' \in [Jobs -> {"no", "read", "unlisted", "uncached"}]
  BY DEF Typed
<1>6. QED
  BY <1>1, <1>2, <1>3, <1>4, <1>5 DEF Typed

LEMMA TypedCheck ==
  ASSUME NEW j \in Jobs, NEW name \in Names \cup {None}
  PROVE  Typed /\ Check(j, name) => Typed'
<1> SUFFICES ASSUME Typed, Check(j, name) PROVE Typed'
  OBVIOUS
<1> DEFINE chosen == IF name = None THEN NextVersion(published) ELSE name
           taken == {pub[published[i]].name : i \in Existing(published)}
           t == [name |-> chosen, published |-> published,
                 step |-> IF chosen \in taken THEN "refused" ELSE "checked"]
<1>1. job' = [job EXCEPT ![j] = t] /\ t.name \in Names /\ t.step \in {"refused", "checked"}
  BY DEF Check
<1>2. /\ overlapped' \in BOOLEAN /\ pub' = pub /\ published' = published /\ cache' = cache
      /\ lock' = lock /\ status' = status /\ reading' = reading /\ deleting' = deleting
      /\ held' = held
  BY DEF Check, Typed
<1>3. t \in JobState
  BY <1>1 DEF Typed, JobState
<1> HIDE DEF t
<1>4. job' \in [Jobs -> JobState]
  BY <1>1, <1>3 DEF Typed
<1>5. \A k \in Jobs : job'[k].step # "none" => job'[k].name \in Names
  BY <1>1 DEF Typed
<1>6. IsFiniteSet(Working')
  <2>1. Working' \subseteq Working \cup {j}
    BY <1>1 DEF Typed, Working
  <2>2. IsFiniteSet(Working)
    BY DEF Typed
  <2>3. QED
    BY <2>1, <2>2, Grows
<1>7. Deleting' = Deleting
  BY <1>2 DEF Deleting
<1>8. QED
  BY <1>2, <1>4, <1>5, <1>6, <1>7 DEF Typed

LEMMA TypedStart == ASSUME NEW j \in Jobs PROVE Typed /\ Start(j) => Typed'
<1> SUFFICES ASSUME Typed, Start(j) PROVE Typed'
  OBVIOUS
<1>1. PICK to \in {"refused", "started"} : job' = [job EXCEPT ![j].step = to]
  BY DEF Start, Step
<1>2. to \in Steps /\ job[j].step # "none"
  BY DEF Steps, Start, Step
<1>3. /\ pub' = pub /\ published' = published /\ cache' = cache /\ lock' = lock
      /\ status' = status /\ reading' = reading /\ deleting' = deleting /\ held' = held
      /\ overlapped' = overlapped
  BY DEF Start
<1>4. QED
  BY <1>1, <1>2, <1>3, TypedJob DEF Typed

LEMMA TypedSetLock == ASSUME NEW j \in Jobs PROVE Typed /\ SetLock(j) => Typed'
<1> SUFFICES ASSUME Typed, SetLock(j) PROVE Typed'
  OBVIOUS
<1>1. job' = [job EXCEPT ![j].step = "rendering"] /\ job[j].step # "none"
      /\ "rendering" \in Steps
  BY DEF SetLock, Step, Steps
<1>2. /\ pub' = pub /\ published' = published /\ cache' = cache /\ lock' = TRUE
      /\ status' = status /\ reading' = reading /\ deleting' = deleting /\ held' = held
      /\ overlapped' = overlapped
  BY DEF SetLock
<1>3. QED
  BY <1>1, <1>2, TypedJob DEF Typed

LEMMA TypedStore == ASSUME NEW j \in Jobs PROVE Typed /\ Store(j) => Typed'
<1> SUFFICES ASSUME Typed, Store(j) PROVE Typed'
  OBVIOUS
<1>1. job' = [job EXCEPT ![j].step = "stored"] /\ job[j].step = "rendering"
      /\ "stored" \in Steps
  BY DEF Store, Step, Steps
<1>2. /\ published' = published /\ cache' = cache /\ lock' = lock
      /\ status' = status /\ reading' = reading /\ deleting' = deleting /\ held' = held
      /\ overlapped' = overlapped
  BY DEF Store
<1>3. job[j].published \in Seq(Jobs) /\ job[j].name \in Names
  BY <1>1 DEF Typed, JobState
<1>4. PICK v \in Nat : v = NextVersion(job[j].published)
  BY <1>3, NextVersionLarger
<1>5. PICK e \in Entity : pub' = [pub EXCEPT ![j] = e]
  BY <1>3, <1>4 DEF Store, Entity
<1>6. e # None
  BY PublisherAssumption DEF Entity
<1>7. pub' \in [Jobs -> Entity \cup {None}] /\ \A k \in Jobs : pub[k] # None => pub'[k] # None
  BY <1>5, <1>6 DEF Typed
<1>8. QED
  BY <1>1, <1>2, <1>7, TypedJob DEF Typed

LEMMA TypedCache == ASSUME NEW j \in Jobs PROVE Typed /\ Cache(j) => Typed'
<1> SUFFICES ASSUME Typed, Cache(j) PROVE Typed'
  OBVIOUS
<1>1. job' = [job EXCEPT ![j].step = "cached"] /\ job[j].step # "none" /\ "cached" \in Steps
  BY DEF Cache, Step, Steps
<1>2. /\ pub' = pub /\ published' = published /\ lock' = lock
      /\ status' = status /\ reading' = reading /\ deleting' = deleting /\ held' = held
      /\ overlapped' = overlapped
  BY DEF Cache
<1>3. cache' \in [Names \cup {Latest} -> Jobs \cup {None}]
  BY DEF Cache, Typed
<1>4. QED
  BY <1>1, <1>2, <1>3, TypedJob DEF Typed

LEMMA TypedList == ASSUME NEW j \in Jobs PROVE Typed /\ List(j) => Typed'
<1> SUFFICES ASSUME Typed, List(j) PROVE Typed'
  OBVIOUS
<1>1. job' = [job EXCEPT ![j].step = "listed"] /\ job[j].step # "none" /\ "listed" \in Steps
  BY DEF List, Step, Steps
<1>2. /\ pub' = pub /\ cache' = cache /\ lock' = lock
      /\ status' = status /\ reading' = reading /\ deleting' = deleting /\ held' = held
      /\ overlapped' = overlapped
  BY DEF List
<1>3. published' \in Seq(Jobs)
  <2>1. job[j].published \in Seq(Jobs)
    BY DEF Typed, JobState
  <2>2. QED
    BY <2>1 DEF List
<1>4. QED
  BY <1>1, <1>2, <1>3, TypedJob DEF Typed

LEMMA TypedAnswer == ASSUME NEW j \in Jobs PROVE Typed /\ (Answer(j) \/ Fail(j)) => Typed'
<1> SUFFICES ASSUME Typed, Answer(j) \/ Fail(j) PROVE Typed'
  OBVIOUS
<1>1. job' = [job EXCEPT ![j].step = "answered"] /\ job[j].step # "none"
      /\ "answered" \in Steps
  BY PublisherAssumption DEF Answer, Fail, Step, Steps
<1>2. /\ pub' = pub /\ published' = published /\ cache' = cache /\ lock' = lock
      /\ reading' = reading /\ deleting' = deleting /\ held' = held /\ overlapped' = overlapped
  BY DEF Answer, Fail
<1>3. status' \in [Jobs -> {"none", "published", "500"}]
  BY DEF Answer, Fail, Typed
<1>4. QED
  BY <1>1, <1>2, <1>3, TypedJob DEF Typed

LEMMA TypedRelease == ASSUME NEW j \in Jobs PROVE Typed /\ Release(j) => Typed'
<1> SUFFICES ASSUME Typed, Release(j) PROVE Typed'
  OBVIOUS
<1>1. job' = [job EXCEPT ![j].step = "done"] /\ job[j].step # "none" /\ "done" \in Steps
  BY DEF Release, Step, Steps
<1>2. /\ pub' = pub /\ published' = published /\ cache' = cache /\ lock' = FALSE
      /\ status' = status /\ reading' = reading /\ deleting' = deleting /\ held' = held
      /\ overlapped' = overlapped
  BY DEF Release
<1>3. QED
  BY <1>1, <1>2, TypedJob DEF Typed

(* What leaves the jobs alone.                                              *)
LEMMA TypedRest ==
  ASSUME Typed, job' = job, status' = status,
         pub' \in [Jobs -> Entity \cup {None}],
         \A k \in Jobs : deleting'[k] # "no" => pub'[k] # None,
         published' \in Seq(Jobs), cache' \in [Names \cup {Latest} -> Jobs \cup {None}],
         lock' \in BOOLEAN, overlapped' \in BOOLEAN,
         reading' \in [name : Names \cup {Latest, None}, published : Seq(Jobs)],
         deleting' \in [Jobs -> {"no", "read", "unlisted", "uncached"}],
         held' \in [Jobs -> Seq(Jobs)],
         deleting' = deleting \/ \E j \in Jobs : Deleting' \subseteq Deleting \cup {j}
  PROVE  Typed'
<1>1. IsFiniteSet(Working) /\ IsFiniteSet(Deleting)
  BY DEF Typed
<1>2. Working' = Working
  BY DEF Working
<1>3. IsFiniteSet(Deleting')
  <2>1. CASE \E j \in Jobs : Deleting' \subseteq Deleting \cup {j}
    <3>1. PICK j \in Jobs : Deleting' \subseteq Deleting \cup {j}
      BY <2>1
    <3>2. QED
      BY <1>1, <3>1, Grows
  <2>2. CASE deleting' = deleting
    <3>1. Deleting' = Deleting
      BY <2>2 DEF Deleting
    <3>2. QED
      BY <1>1, <3>1
  <2>3. QED
    BY <2>1, <2>2
<1>4. QED
  BY <1>1, <1>2, <1>3 DEF Typed

LEMMA TypedExpire == Typed /\ Expire => Typed'
<1> SUFFICES ASSUME Typed, Expire PROVE Typed'
  OBVIOUS
<1>1. /\ job' = job /\ pub' = pub /\ published' = published /\ cache' = cache /\ lock' = FALSE
      /\ status' = status /\ reading' = reading /\ deleting' = deleting /\ held' = held
      /\ overlapped' = overlapped
  BY DEF Expire
<1>2. QED
  BY <1>1, TypedRest DEF Typed

LEMMA TypedEvict ==
  ASSUME NEW name \in Names \cup {Latest} PROVE Typed /\ Evict(name) => Typed'
<1> SUFFICES ASSUME Typed, Evict(name) PROVE Typed'
  OBVIOUS
<1>1. /\ job' = job /\ pub' = pub /\ published' = published /\ lock' = lock
      /\ status' = status /\ reading' = reading /\ deleting' = deleting /\ held' = held
      /\ overlapped' = overlapped
  BY DEF Evict
<1>2. cache' \in [Names \cup {Latest} -> Jobs \cup {None}]
  BY DEF Evict, Typed
<1>3. QED
  BY <1>1, <1>2, TypedRest DEF Typed

LEMMA TypedMiss ==
  ASSUME NEW name \in Names \cup {Latest} PROVE Typed /\ Miss(name) => Typed'
<1> SUFFICES ASSUME Typed, Miss(name) PROVE Typed'
  OBVIOUS
<1>1. /\ job' = job /\ pub' = pub /\ published' = published /\ lock' = lock
      /\ status' = status /\ cache' = cache /\ deleting' = deleting /\ held' = held
      /\ overlapped' \in BOOLEAN /\ reading' = [name |-> name, published |-> published]
  BY DEF Miss, Typed
<1>2. reading' \in [name : Names \cup {Latest, None}, published : Seq(Jobs)]
  BY <1>1 DEF Typed
<1>3. QED
  BY <1>1, <1>2, TypedRest DEF Typed

(* What a reader finds is on its copy of the list, exists and has the name  *)
(* it asks for, or else the largest number there is.                        *)
LEMMA FoundIsThere ==
  ASSUME Typed, NEW name, NEW list \in Seq(Jobs), Found(name, list) # None
  PROVE  \E i \in Existing(list) :
           /\ list[i] = Found(name, list) /\ list[i] \in Jobs
           /\ name # Latest => pub[list[i]].name = name
           /\ name = Latest => pub[list[i]].version_int + 1 = NextVersion(list)
<1> DEFINE fits == {i \in Existing(list) :
                 IF name = Latest THEN pub[list[i]].version_int + 1 = NextVersion(list)
                 ELSE pub[list[i]].name = name}
<1>1. fits # {} /\ Found(name, list) = list[Min(fits)]
  BY DEF Found
<1>2. fits \subseteq Nat
  BY DEF Existing
<1>3. Min(fits) \in fits
  BY <1>1, <1>2, Least
<1>4. PICK i \in Existing(list) : i = Min(fits)
        /\ IF name = Latest THEN pub[list[i]].version_int + 1 = NextVersion(list)
           ELSE pub[list[i]].name = name
  BY <1>3
<1>5. list[i] \in Jobs
  BY DEF Existing
<1>6. QED
  BY <1>1, <1>4, <1>5

LEMMA TypedFill == Typed /\ Fill => Typed'
<1> SUFFICES ASSUME Typed, Fill PROVE Typed'
  OBVIOUS
<1>1. PICK j : j = Found(reading.name, reading.published)
  OBVIOUS
<1>2. /\ job' = job /\ pub' = pub /\ published' = published /\ lock' = lock
      /\ status' = status /\ deleting' = deleting /\ held' = held
      /\ overlapped' = overlapped /\ reading' = NoRead
      /\ cache' = IF j = None THEN cache
                  ELSE [cache EXCEPT ![reading.name] = j, ![pub[j].name] = j]
  BY <1>1 DEF Fill
<1>3. reading.published \in Seq(Jobs)
  BY DEF Typed
<1>4. j # None => j \in Jobs
  BY <1>1, <1>3, FoundIsThere
<1>5. cache' \in [Names \cup {Latest} -> Jobs \cup {None}]
  BY <1>2, <1>4 DEF Typed
<1>6. reading' \in [name : Names \cup {Latest, None}, published : Seq(Jobs)]
  BY <1>2 DEF NoRead
<1>7. QED
  BY <1>2, <1>5, <1>6, TypedRest DEF Typed

LEMMA TypedDelete == ASSUME NEW j \in Jobs PROVE Typed /\ Delete(j) => Typed'
<1> SUFFICES ASSUME Typed, Delete(j) PROVE Typed'
  OBVIOUS
<1>1. /\ job' = job /\ pub' = pub /\ published' = published /\ cache' = cache /\ lock' = lock
      /\ status' = status /\ reading' = reading
      /\ overlapped' \in BOOLEAN /\ pub[j] # None
      /\ deleting' = [deleting EXCEPT ![j] = "read"]
      /\ held' = [held EXCEPT ![j] = published]
  BY DEF Delete, Typed
<1>2. deleting' \in [Jobs -> {"no", "read", "unlisted", "uncached"}]
      /\ Deleting' \subseteq Deleting \cup {j}
  BY <1>1 DEF Typed, Deleting
<1>3. \A k \in Jobs : deleting'[k] # "no" => pub'[k] # None
  BY <1>1 DEF Typed
<1>4. held' \in [Jobs -> Seq(Jobs)]
  BY <1>1 DEF Typed
<1>5. QED
  BY <1>1, <1>2, <1>3, <1>4, TypedRest DEF Typed

LEMMA TypedUnlist == ASSUME NEW j \in Jobs PROVE Typed /\ Unlist(j) => Typed'
<1> SUFFICES ASSUME Typed, Unlist(j) PROVE Typed'
  OBVIOUS
<1>1. deleting' = [deleting EXCEPT ![j] = "unlisted"]
  BY DEF Unlist
<1>2. /\ job' = job /\ pub' = pub /\ cache' = cache /\ lock' = lock
      /\ status' = status /\ reading' = reading /\ overlapped' = overlapped
      /\ deleting[j] # "no" /\ held' = [held EXCEPT ![j] = <<>>]
  BY DEF Unlist
<1>3. PICK list \in Seq(Jobs) : list = held[j]
  BY DEF Typed
<1>4. published' \in {published, RemoveFirst(list, j)}
  BY <1>3 DEF Unlist
<1>5. published' \in Seq(Jobs)
  BY <1>4, RemoveFirstIs DEF Typed
<1>6. deleting' \in [Jobs -> {"no", "read", "unlisted", "uncached"}]
      /\ Deleting' \subseteq Deleting \cup {j}
  BY <1>1 DEF Typed, Deleting
<1>7. \A k \in Jobs : deleting'[k] # "no" => pub'[k] # None
  BY <1>1, <1>2 DEF Typed
<1>8. held' \in [Jobs -> Seq(Jobs)]
  BY <1>2 DEF Typed
<1>9. QED
  BY <1>2, <1>5, <1>6, <1>7, <1>8, TypedRest DEF Typed

LEMMA TypedUncache == ASSUME NEW j \in Jobs PROVE Typed /\ Uncache(j) => Typed'
<1> SUFFICES ASSUME Typed, Uncache(j) PROVE Typed'
  OBVIOUS
<1>1. /\ job' = job /\ pub' = pub /\ published' = published /\ lock' = lock
      /\ status' = status /\ reading' = reading /\ overlapped' = overlapped
      /\ held' = held
      /\ deleting' = [deleting EXCEPT ![j] = "uncached"] /\ deleting[j] = "unlisted"
  BY DEF Uncache
<1>2. deleting' \in [Jobs -> {"no", "read", "unlisted", "uncached"}]
      /\ Deleting' \subseteq Deleting \cup {j}
  BY <1>1 DEF Typed, Deleting
<1>3. \A k \in Jobs : deleting'[k] # "no" => pub'[k] # None
  BY <1>1 DEF Typed
<1>4. cache' \in [Names \cup {Latest} -> Jobs \cup {None}]
  BY DEF Uncache, Typed
<1>5. QED
  BY <1>1, <1>2, <1>3, <1>4, TypedRest DEF Typed

LEMMA TypedErase == ASSUME NEW j \in Jobs PROVE Typed /\ Erase(j) => Typed'
<1> SUFFICES ASSUME Typed, Erase(j) PROVE Typed'
  OBVIOUS
<1>1. /\ job' = job /\ lock' = lock /\ published' = published /\ cache' = cache
      /\ status' = status /\ reading' = reading /\ overlapped' = overlapped
      /\ held' = held
      /\ deleting' = [deleting EXCEPT ![j] = "no"]
      /\ pub' = [pub EXCEPT ![j] = None]
  BY DEF Erase
<1>2. deleting' \in [Jobs -> {"no", "read", "unlisted", "uncached"}]
      /\ Deleting' \subseteq Deleting \cup {j}
  BY <1>1 DEF Typed, Deleting
<1>3. pub' \in [Jobs -> Entity \cup {None}]
  BY <1>1 DEF Typed
<1>4. \A k \in Jobs : deleting'[k] # "no" => pub'[k] # None
  BY <1>1 DEF Typed
<1>5. QED
  BY <1>1, <1>2, <1>3, <1>4, TypedRest DEF Typed

LEMMA TypedStep == Typed /\ [Next]_pubVars => Typed'
<1> SUFFICES ASSUME Typed, [Next]_pubVars PROVE Typed'
  OBVIOUS
<1>1. ASSUME NEW j \in Jobs, NEW name \in Names \cup {None}, Check(j, name) PROVE Typed'
  BY <1>1, TypedCheck
<1>2. ASSUME NEW j \in Jobs,
             Start(j) \/ Thread(j) \/ Delete(j) \/ Unlist(j) \/ Uncache(j) \/ Erase(j)
      PROVE  Typed'
  BY <1>2, TypedStart, TypedSetLock, TypedStore, TypedCache, TypedList, TypedAnswer,
     TypedRelease, TypedDelete, TypedUnlist, TypedUncache, TypedErase, Zenon DEF Thread
<1>3. ASSUME NEW name \in Names \cup {Latest}, Miss(name) \/ Evict(name) PROVE Typed'
  BY <1>3, TypedMiss, TypedEvict
<1>4. ASSUME UNCHANGED pubVars PROVE Typed'
  <2>1. /\ job' = job /\ pub' = pub /\ published' = published /\ cache' = cache /\ lock' = lock
        /\ status' = status /\ reading' = reading /\ deleting' = deleting /\ held' = held
        /\ overlapped' = overlapped
    BY <1>4 DEF pubVars
  <2>2. QED
    BY <2>1, TypedRest DEF Typed
<1>5. QED
  BY <1>1, <1>2, <1>3, <1>4, TypedFill, TypedExpire, Zenon DEF Next

LEMMA InitTyped == Init => Typed
<1> SUFFICES ASSUME Init PROVE Typed
  OBVIOUS
<1>1. \A j \in Jobs : job[j] = NoJob /\ deleting[j] = "no"
  BY DEF Init
<1>2. NoJob \in JobState
  BY DEF NoJob, JobState
<1>3. Working = {} /\ Deleting = {}
  BY <1>1 DEF Working, Deleting, NoJob
<1>4. IsFiniteSet(Working) /\ IsFiniteSet(Deleting)
  BY <1>3, FS_EmptySet
<1>5. NoRead \in [name : Names \cup {Latest, None}, published : Seq(Jobs)]
  BY DEF NoRead
<1>6. published \in Seq(Jobs) /\ held \in [Jobs -> Seq(Jobs)]
  BY DEF Init
<1>7. \A j \in Jobs : job[j].step = "none"
  BY <1>1 DEF NoJob
<1>8. job \in [Jobs -> JobState]
  BY <1>2 DEF Init
<1>9. QED
  BY <1>1, <1>4, <1>5, <1>6, <1>7, <1>8 DEF Init, Typed

(* Every variable keeps its type: whatever fails or overlaps, a client is   *)
(* told "published" or "500", and memcache has versions under their names.  *)
THEOREM PublisherTyped == Spec => []TypeOK
<1>1. Typed => TypeOK
  <2> SUFFICES ASSUME Typed PROVE TypeOK
    OBVIOUS
  <2>1. ASSUME NEW list \in Seq(Jobs) PROVE ToSet(list) \subseteq Jobs
    BY DEF ToSet
  <2>2. ASSUME NEW j \in Jobs
        PROVE  /\ job[j].step \in {"none", "checked", "refused", "started", "rendering",
                           "stored", "cached", "listed", "answered", "done"}
               /\ ToSet(job[j].published) \subseteq Jobs
               /\ pub[j] = None \/ pub[j] \in [name : Names, version_int : Nat]
               /\ status[j] \in {"none", "published", "500"}
               /\ deleting[j] \in {"no", "read", "unlisted", "uncached"}
               /\ ToSet(held[j]) \subseteq Jobs
    <3>1. job[j].published \in Seq(Jobs) /\ job[j] \in JobState /\ held[j] \in Seq(Jobs)
      BY DEF Typed, JobState
    <3>2. ToSet(job[j].published) \subseteq Jobs /\ ToSet(held[j]) \subseteq Jobs
      BY <2>1, <3>1
    <3>3. pub[j] = None \/ pub[j] \in [name : Names, version_int : Nat]
      BY DEF Typed, Entity
    <3>4. QED
      BY <3>1, <3>2, <3>3 DEF Typed, JobState
  <2>3. ToSet(published) \subseteq Jobs
    BY <2>1 DEF Typed
  <2>4. reading.name \in Names \cup {Latest, None}
    BY DEF Typed
  <2>5. QED
    BY <2>2, <2>3, <2>4 DEF Typed, TypeOK
<1>2. QED
  BY <1>1, InitTyped, TypedStep, PTL DEF Spec

-----------------------------------------------------------------------------
(* Second layer.                                                            *)

\* Jobs that came to append to the list stay there.
StaySettled ==
  \A k \in Jobs : job[k].step \in {"listed", "answered", "done"} =>
                  job'[k].step \in {"listed", "answered", "done"}

LEMMA SettledStays ==
  ASSUME StaySettled, NEW list \in Seq(Jobs), Settled(list, job)
  PROVE  Settled(list, job')
<1>1. \A i \in DOMAIN list : list[i] \in Jobs
  OBVIOUS
<1>2. QED
  BY <1>1 DEF Settled, StaySettled

(* A job's copy stays as it is, and so does what it may do, while it is in  *)
(* the same phase.                                                          *)
LEMMA PhaseOrderly ==
  ASSUME Typed, NEW k \in Jobs, JobOrderly(k), StaySettled, Fades(pub, pub', job),
         job'[k].published = job[k].published, job'[k].name = job[k].name,
         job'[k].step \in {"checked", "started", "rendering"} =>
           job[k].step \in {"checked", "started", "rendering"},
         job'[k].step \in {"stored", "cached"} =>
           job[k].step \in {"stored", "cached"} /\ pub'[k] \in {pub[k], None}
  PROVE  JobOrderly(k)'
<1>1. PICK list \in Seq(Jobs) : list = job[k].published
  BY DEF Typed, JobState
<1>2. InOrder(list, pub) /\ Settled(list, job)
  BY <1>1 DEF JobOrderly
<1>3. InOrder(list, pub') /\ Settled(list, job')
  BY <1>2, FadingOrder, SettledStays
<1>4. job'[k].step \in {"checked", "started", "rendering"} => Free(list, pub', job[k].name)
  <2> SUFFICES ASSUME job'[k].step \in {"checked", "started", "rendering"}
               PROVE  Free(list, pub', job[k].name)
    OBVIOUS
  <2>1. Free(list, pub, job[k].name)
    BY <1>1 DEF JobOrderly
  <2>2. QED
    BY <1>2, <2>1, FadingOrder
<1>5. job'[k].step \in {"stored", "cached"} /\ pub'[k] # None => Before(list, pub', pub'[k])
  <2> SUFFICES ASSUME job'[k].step \in {"stored", "cached"}, pub'[k] # None
               PROVE  Before(list, pub', pub'[k])
    OBVIOUS
  <2>1. pub'[k] = pub[k] /\ Before(list, pub, pub[k])
    BY <1>1 DEF JobOrderly
  <2>2. Before(list, pub', pub[k])
    BY <1>2, <2>1, FadingOrder
  <2>3. QED
    BY <2>1, <2>2
<1>6. job'[k].published = list /\ job'[k].name = job[k].name
  BY <1>1
<1>7. QED
  BY <1>3, <1>4, <1>5, <1>6 DEF JobOrderly

(* A step of one job that stores nothing.                                   *)
LEMMA OrderlyJob ==
  ASSUME Typed, Orderly, NEW j \in Jobs, NEW to \in Steps, job' = [job EXCEPT ![j].step = to],
         job[j].step \in {"listed", "answered", "done"} => to \in {"listed", "answered", "done"},
         to \in {"checked", "started", "rendering"} =>
           job[j].step \in {"checked", "started", "rendering"},
         to \in {"stored", "cached"} => job[j].step \in {"stored", "cached"},
         pub' = pub
  PROVE  StaySettled /\ Fades(pub, pub', job) /\ \A k \in Jobs : JobOrderly(k)'
<1>1. /\ job'[j].step = to /\ job'[j].name = job[j].name
      /\ job'[j].published = job[j].published
      /\ \A k \in Jobs : k # j => job'[k] = job[k]
  BY StepFacts
<1>2. StaySettled
  BY <1>1 DEF StaySettled
<1>3. Fades(pub, pub', job)
  BY DEF Fades
<1>4. ASSUME NEW k \in Jobs PROVE JobOrderly(k)'
  <2>1. JobOrderly(k)
    BY DEF Orderly
  <2>2. /\ job'[k].published = job[k].published /\ job'[k].name = job[k].name
        /\ job'[k].step \in {"checked", "started", "rendering"} =>
             job[k].step \in {"checked", "started", "rendering"}
        /\ job'[k].step \in {"stored", "cached"} =>
             job[k].step \in {"stored", "cached"} /\ pub'[k] \in {pub[k], None}
    BY <1>1
  <2>3. QED
    BY <1>2, <1>3, <2>1, <2>2, PhaseOrderly
<1>5. QED
  BY <1>2, <1>3, <1>4

(* The copies with which deletes will put the document, each of which is    *)
(* left, taken anew or dropped.                                             *)
LEMMA OrderlyHeld ==
  ASSUME Typed, Orderly, StaySettled, Fades(pub, pub', job),
         \A k \in Jobs : held'[k] \in {held[k], published, <<>>}
  PROVE  \A k \in Jobs : InOrder(held'[k], pub') /\ Settled(held'[k], job')
<1> SUFFICES ASSUME NEW k \in Jobs
             PROVE  InOrder(held'[k], pub') /\ Settled(held'[k], job')
  OBVIOUS
<1>1. PICK list \in Seq(Jobs) : list = held'[k]
  <2>1. held[k] \in Seq(Jobs) /\ published \in Seq(Jobs) /\ <<>> \in Seq(Jobs)
    BY DEF Typed
  <2>2. held'[k] \in {held[k], published, <<>>}
    OBVIOUS
  <2>3. QED
    BY <2>1, <2>2
<1>2. CASE list = <<>>
  BY <1>1, <1>2 DEF InOrder, Settled
<1>3. CASE list = held[k] \/ list = published
  <2>1. InOrder(list, pub) /\ Settled(list, job)
    BY <1>3 DEF Orderly
  <2>2. QED
    BY <1>1, <2>1, FadingOrder, SettledStays
<1>4. QED
  BY <1>1, <1>2, <1>3

(* The list itself, while it is left alone.                                 *)
LEMMA OrderlySame ==
  ASSUME Typed, Orderly, StaySettled, Fades(pub, pub', job), published' = published,
         \A k \in Jobs : held'[k] \in {held[k], published, <<>>},
         \A k \in Jobs : JobOrderly(k)'
  PROVE  Orderly'
<1>1. PICK list \in Seq(Jobs) : list = published
  BY DEF Typed
<1>2. InOrder(list, pub') /\ Settled(list, job')
  BY <1>1, FadingOrder, SettledStays DEF Orderly
<1>3. QED
  BY <1>1, <1>2, OrderlyHeld DEF Orderly

LEMMA OrderlyQuietJob ==
  ASSUME NEW j \in Jobs
  PROVE  Typed /\ Orderly
         /\ (Start(j) \/ SetLock(j) \/ Cache(j) \/ Answer(j) \/ Fail(j) \/ Release(j)) => Orderly'
<1> SUFFICES ASSUME Typed, Orderly,
                    Start(j) \/ SetLock(j) \/ Cache(j) \/ Answer(j) \/ Fail(j) \/ Release(j)
             PROVE  Orderly'
  OBVIOUS
<1>1. PICK to \in Steps :
        /\ job' = [job EXCEPT ![j].step = to]
        /\ job[j].step \in {"listed", "answered", "done"} => to \in {"listed", "answered", "done"}
        /\ to \in {"checked", "started", "rendering"} =>
             job[j].step \in {"checked", "started", "rendering"}
        /\ to \in {"stored", "cached"} => job[j].step \in {"stored", "cached"}
  <2>1. CASE Start(j)
    <3>1. PICK to \in {"refused", "started"} : job' = [job EXCEPT ![j].step = to]
      BY <2>1 DEF Start, Step
    <3>2. QED
      BY <2>1, <3>1 DEF Start, Step, Steps
  <2>2. CASE SetLock(j) \/ Cache(j)
    BY <2>2 DEF SetLock, Cache, Step, Steps
  <2>3. CASE Answer(j) \/ Release(j)
    BY <2>3 DEF Answer, Release, Step, Steps
  <2>4. CASE Fail(j)
    BY <2>4 DEF Fail, Steps
  <2>5. QED
    BY <2>1, <2>2, <2>3, <2>4
<1>2. pub' = pub /\ published' = published /\ held' = held
  BY DEF Start, SetLock, Cache, Answer, Fail, Release
<1>3. StaySettled /\ Fades(pub, pub', job) /\ \A k \in Jobs : JobOrderly(k)'
  BY <1>1, <1>2, OrderlyJob
<1>4. QED
  BY <1>2, <1>3, OrderlySame

LEMMA OrderlyCheck ==
  ASSUME NEW j \in Jobs, NEW name \in Names \cup {None}
  PROVE  Typed /\ Orderly /\ Check(j, name) => Orderly'
<1> SUFFICES ASSUME Typed, Orderly, Check(j, name) PROVE Orderly'
  OBVIOUS
<1> DEFINE chosen == IF name = None THEN NextVersion(published) ELSE name
           taken == {pub[published[i]].name : i \in Existing(published)}
           t == [name |-> chosen, published |-> published,
                 step |-> IF chosen \in taken THEN "refused" ELSE "checked"]
<1>1. /\ job' = [job EXCEPT ![j] = t] /\ t.published = published /\ t.name = chosen
      /\ t.step = IF chosen \in taken THEN "refused" ELSE "checked"
      /\ job[j] = NoJob /\ pub' = pub /\ published' = published /\ held' = held
  BY DEF Check
<1> HIDE DEF t, chosen
<1>2. job'[j] = t /\ \A k \in Jobs : k # j => job'[k] = job[k]
  BY <1>1 DEF Typed
<1>3. StaySettled
  BY <1>1, <1>2 DEF StaySettled, NoJob
<1>4. Fades(pub, pub', job)
  BY <1>1 DEF Fades
<1>5. PICK list \in Seq(Jobs) : list = published
  BY DEF Typed
<1>6. InOrder(list, pub') /\ Settled(list, job')
  BY <1>1, <1>3, <1>5, SettledStays DEF Orderly
<1>7. ASSUME t.step = "checked" PROVE Free(list, pub', chosen)
  <2>1. chosen \notin taken
    BY <1>1, <1>7
  <2>2. \A i \in DOMAIN list : pub[list[i]] # None => pub[list[i]].name \in taken
    BY <1>5 DEF Existing
  <2>3. QED
    BY <1>1, <2>1, <2>2 DEF Free
<1>8. t.step \in {"checked", "refused"}
  BY <1>1
<1>9. ASSUME NEW k \in Jobs PROVE JobOrderly(k)'
  <2>1. CASE k = j
    <3>1. job'[k].published = list /\ job'[k].step \in {"checked", "refused"}
          /\ job'[k].name = chosen /\ job'[k].step = t.step
      BY <1>1, <1>2, <1>5, <1>8, <2>1
    <3>2. QED
      BY <1>6, <1>7, <3>1 DEF JobOrderly
  <2>2. CASE k # j
    <3>1. job'[k] = job[k] /\ JobOrderly(k) /\ pub'[k] \in {pub[k], None}
      BY <1>1, <1>2, <2>2 DEF Orderly
    <3>2. QED
      BY <1>3, <1>4, <3>1, PhaseOrderly
  <2>3. QED
    BY <2>1, <2>2
<1>10. QED
  BY <1>1, <1>3, <1>4, <1>9, OrderlySame

(* What a job stores may follow its copy: the name is new to it since the   *)
(* request, the number larger since now.                                    *)
LEMMA OrderlyStore == ASSUME NEW j \in Jobs PROVE Typed /\ Orderly /\ Store(j) => Orderly'
<1> SUFFICES ASSUME Typed, Orderly, Store(j) PROVE Orderly'
  OBVIOUS
<1>1. /\ job' = [job EXCEPT ![j].step = "stored"] /\ job[j].step = "rendering"
      /\ "stored" \in Steps /\ published' = published /\ held' = held
  BY DEF Store, Step, Steps
<1>2. /\ job'[j].step = "stored" /\ job'[j].name = job[j].name
      /\ job'[j].published = job[j].published
      /\ \A k \in Jobs : k # j => job'[k] = job[k]
  BY <1>1, StepFacts
<1>3. PICK list \in Seq(Jobs) : list = job[j].published
  BY DEF Typed, JobState
<1>4. PICK e : e = [name |-> job[j].name, version_int |-> NextVersion(list)]
  OBVIOUS
<1>5. pub' = [pub EXCEPT ![j] = e]
  BY <1>3, <1>4 DEF Store
<1>6. pub'[j] = e /\ \A k \in Jobs : k # j => pub'[k] = pub[k]
  BY <1>5 DEF Typed
<1>7. StaySettled
  BY <1>1, <1>2 DEF StaySettled
<1>8. Fades(pub, pub', job)
  BY <1>1, <1>6 DEF Fades
<1>9. InOrder(list, pub) /\ Settled(list, job) /\ Free(list, pub, job[j].name)
  BY <1>1, <1>3 DEF Orderly, JobOrderly
<1>10. Before(list, pub, e)
  <2>1. \A i \in DOMAIN list : pub[list[i]] # None => pub[list[i]].name # e.name
    BY <1>4, <1>9 DEF Free
  <2>2. \A i \in DOMAIN list : pub[list[i]] # None => pub[list[i]].version_int < e.version_int
    BY <1>4, NextVersionLarger DEF Existing
  <2>3. QED
    BY <2>1, <2>2 DEF Before
<1>11. InOrder(list, pub') /\ Settled(list, job') /\ Before(list, pub', e)
  BY <1>7, <1>8, <1>9, <1>10, FadingOrder, SettledStays
<1>12. ASSUME NEW k \in Jobs PROVE JobOrderly(k)'
  <2>1. CASE k = j
    <3>1. job'[k].published = list /\ job'[k].step = "stored" /\ pub'[k] = e
      BY <1>2, <1>3, <1>6, <2>1
    <3>2. QED
      BY <1>11, <3>1 DEF JobOrderly
  <2>2. CASE k # j
    <3>1. job'[k] = job[k] /\ JobOrderly(k) /\ pub'[k] \in {pub[k], None}
      BY <1>2, <1>6, <2>2 DEF Orderly
    <3>2. QED
      BY <1>7, <1>8, <3>1, PhaseOrderly
  <2>3. QED
    BY <2>1, <2>2
<1>13. QED
  BY <1>1, <1>7, <1>8, <1>12, OrderlySame

LEMMA OrderlyList == ASSUME NEW j \in Jobs PROVE Typed /\ Orderly /\ List(j) => Orderly'
<1> SUFFICES ASSUME Typed, Orderly, List(j) PROVE Orderly'
  OBVIOUS
<1>1. /\ job' = [job EXCEPT ![j].step = "listed"] /\ job[j].step = "cached"
      /\ "listed" \in Steps /\ pub' = pub /\ published' = Append(job[j].published, j)
      /\ held' = held
  BY DEF List, Step, Steps
<1>2. StaySettled /\ Fades(pub, pub', job) /\ \A k \in Jobs : JobOrderly(k)'
  BY <1>1, OrderlyJob
<1>3. PICK list \in Seq(Jobs) : list = job[j].published
  BY DEF Typed, JobState
<1>4. InOrder(list, pub) /\ Settled(list, job) /\ (pub[j] # None => Before(list, pub, pub[j]))
  BY <1>1, <1>3 DEF Orderly, JobOrderly
<1>5. Settled(list, job') /\ job'[j].step = "listed"
  BY <1>1, <1>2, <1>4, SettledStays, StepFacts
<1>6. InOrder(Append(list, j), pub) /\ Settled(Append(list, j), job')
  BY <1>4, <1>5, AppendInOrder
<1>7. InOrder(published', pub') /\ Settled(published', job')
  BY <1>1, <1>3, <1>6
<1>8. \A k \in Jobs : InOrder(held'[k], pub') /\ Settled(held'[k], job')
  BY <1>1, <1>2, OrderlyHeld
<1>9. QED
  BY <1>2, <1>7, <1>8 DEF Orderly

(* A delete puts back an older list, without the version: also in order.    *)
LEMMA OrderlyUnlist ==
  ASSUME NEW j \in Jobs PROVE Typed /\ Orderly /\ Unlist(j) => Orderly'
<1> SUFFICES ASSUME Typed, Orderly, Unlist(j) PROVE Orderly'
  OBVIOUS
<1>1. PICK list \in Seq(Jobs) : list = held[j]
  BY DEF Typed
<1>2. PICK r : r = RemoveFirst(list, j)
  OBVIOUS
<1>3. job' = job /\ pub' = pub /\ published' \in {published, r}
  BY <1>1, <1>2 DEF Unlist
<1>4. \A k \in Jobs : held'[k] \in {held[k], published, <<>>}
  BY DEF Unlist, Typed
<1>5. StaySettled /\ Fades(pub, pub', job)
  BY <1>3 DEF StaySettled, Fades
<1>6. \A k \in Jobs : JobOrderly(k)'
  BY <1>3 DEF Orderly, JobOrderly
<1>7. InOrder(list, pub) /\ Settled(list, job)
  BY <1>1 DEF Orderly
<1>8. InOrder(r, pub) /\ Settled(r, job)
  BY <1>2, <1>7, RemoveInOrder
<1>9. InOrder(published', pub') /\ Settled(published', job')
  BY <1>3, <1>8 DEF Orderly
<1>10. QED
  BY <1>4, <1>5, <1>6, <1>9, OrderlyHeld DEF Orderly

LEMMA OrderlyRest ==
  ASSUME Typed, Orderly, job' = job, published' = published,
         \A k \in Jobs : pub'[k] \in {pub[k], None},
         \A k \in Jobs : held'[k] \in {held[k], published, <<>>}
  PROVE  Orderly'
<1>1. StaySettled /\ Fades(pub, pub', job)
  BY DEF StaySettled, Fades
<1>2. ASSUME NEW k \in Jobs PROVE JobOrderly(k)'
  <2>1. JobOrderly(k)
    BY DEF Orderly
  <2>2. QED
    BY <1>1, <2>1, PhaseOrderly
<1>3. QED
  BY <1>1, <1>2, OrderlySame

LEMMA OrderlyDelete ==
  ASSUME NEW j \in Jobs PROVE Typed /\ Orderly /\ (Delete(j) \/ Uncache(j)) => Orderly'
<1> SUFFICES ASSUME Typed, Orderly, Delete(j) \/ Uncache(j) PROVE Orderly'
  OBVIOUS
<1>1. job' = job /\ published' = published /\ pub' = pub
      /\ (held' = held \/ held' = [held EXCEPT ![j] = published])
  BY DEF Delete, Uncache
<1>2. \A k \in Jobs : held'[k] \in {held[k], published, <<>>}
  BY <1>1 DEF Typed
<1>3. QED
  BY <1>1, <1>2, OrderlyRest

LEMMA OrderlyErase == ASSUME NEW j \in Jobs PROVE Typed /\ Orderly /\ Erase(j) => Orderly'
<1> SUFFICES ASSUME Typed, Orderly, Erase(j) PROVE Orderly'
  OBVIOUS
<1>1. job' = job /\ published' = published /\ pub' = [pub EXCEPT ![j] = None]
      /\ held' = held
  BY DEF Erase
<1>2. \A k \in Jobs : pub'[k] \in {pub[k], None}
  BY <1>1 DEF Typed
<1>3. QED
  BY <1>1, <1>2, OrderlyRest

LEMMA OrderlyStep == Typed /\ Orderly /\ [Next]_pubVars => Orderly'
<1> SUFFICES ASSUME Typed, Orderly, [Next]_pubVars PROVE Orderly'
  OBVIOUS
<1>1. ASSUME NEW j \in Jobs, NEW name \in Names \cup {None}, Check(j, name) PROVE Orderly'
  BY <1>1, OrderlyCheck
<1>2. ASSUME NEW j \in Jobs,
             Start(j) \/ Thread(j) \/ Delete(j) \/ Unlist(j) \/ Uncache(j) \/ Erase(j)
      PROVE  Orderly'
  BY <1>2, OrderlyQuietJob, OrderlyStore, OrderlyList, OrderlyDelete, OrderlyUnlist,
     OrderlyErase, Zenon
     DEF Thread
<1>3. ASSUME NEW name \in Names \cup {Latest}, Miss(name) \/ Evict(name) PROVE Orderly'
  <2>1. job' = job /\ published' = published /\ pub' = pub /\ held' = held
    BY <1>3 DEF Miss, Evict
  <2>2. QED
    BY <2>1, OrderlyRest
<1>4. ASSUME Fill \/ Expire \/ UNCHANGED pubVars PROVE Orderly'
  <2>1. job' = job /\ published' = published /\ pub' = pub /\ held' = held
    BY <1>4 DEF Fill, Expire, pubVars
  <2>2. QED
    BY <2>1, OrderlyRest
<1>5. QED
  BY <1>1, <1>2, <1>3, <1>4, Zenon DEF Next

LEMMA InitOrderly == Init => Orderly
<1> SUFFICES ASSUME Init PROVE Orderly
  OBVIOUS
<1>1. published = <<>>
      /\ \A j \in Jobs : job[j].published = <<>> /\ job[j].step = "none" /\ held[j] = <<>>
  BY DEF Init, NoJob
<1>2. \A p, b : InOrder(<<>>, p) /\ Settled(<<>>, b)
  BY DEF InOrder, Settled
<1>3. QED
  BY <1>1, <1>2 DEF Orderly, JobOrderly

(* Listed versions have different names and increasing numbers, however     *)
(* jobs for the same name overlap, wherever they fail and whatever is       *)
(* deleted meanwhile.                                                       *)
THEOREM ListedInOrder == Spec => []VersionsInOrder
<1>1. Typed /\ Orderly => VersionsInOrder
  BY DEF Orderly, InOrder, VersionsInOrder, Existing
<1>2. QED
  BY <1>1, InitTyped, TypedStep, InitOrderly, OrderlyStep, PTL DEF Spec

-----------------------------------------------------------------------------
(* Third layer.                                                             *)

Calm == OneAtATime /\ CacheRight

Idle == Working = {} /\ Deleting = {} /\ reading = NoRead

Late == {"cached", "listed", "answered", "done"}

(* Running counts what is under way.                                        *)
LEMMA NothingRuns ==
  ASSUME Typed PROVE Running \in Nat /\ (Running = 0 => Idle)
<1> DEFINE asked == {j \in Jobs : job[j].step = "checked"}
           r == IF reading = NoRead THEN 0 ELSE 1
<1>1. Threads \cup asked = Working /\ Threads \subseteq Working /\ asked \subseteq Working
  BY DEF Threads, Working
<1>2. IsFiniteSet(Threads) /\ IsFiniteSet(asked) /\ IsFiniteSet(Deleting)
  BY <1>1, FS_Subset DEF Typed
<1>3. /\ Cardinality(Threads) \in Nat /\ (Cardinality(Threads) = 0 => Threads = {})
      /\ Cardinality(asked) \in Nat /\ (Cardinality(asked) = 0 => asked = {})
      /\ Cardinality(Deleting) \in Nat /\ (Cardinality(Deleting) = 0 => Deleting = {})
  BY <1>2, FS_CardinalityType, FS_EmptySet
<1>4. r \in Nat /\ (r = 0 => reading = NoRead)
  OBVIOUS
<1>5. Running = Cardinality(Threads) + Cardinality(asked) + Cardinality(Deleting) + r
  BY DEF Running, Deleting
<1> HIDE DEF asked, r
<1>6. Running \in Nat
  BY <1>3, <1>4, <1>5
<1>7. ASSUME Running = 0 PROVE Idle
  <2>1. \A a, b, c, d \in Nat : a + b + c + d = 0 => a = 0 /\ b = 0 /\ c = 0 /\ d = 0
    OBVIOUS
  <2>2. Cardinality(Threads) = 0 /\ Cardinality(asked) = 0 /\ Cardinality(Deleting) = 0 /\ r = 0
    BY <1>3, <1>4, <1>5, <1>7, <2>1
  <2>3. QED
    BY <1>1, <1>3, <1>4, <2>2 DEF Idle
<1>8. QED
  BY <1>6, <1>7

(* A job that runs is alone.                                                *)
LEMMA Alone ==
  ASSUME Typed, OneAtATime, NEW j \in Working
  PROVE  /\ Deleting = {} /\ reading = NoRead /\ \A k \in Jobs : k # j => k \notin Working
         /\ \A k \in Jobs : deleting[k] = "no"
<1>1. Deleting = {} /\ reading = NoRead /\ \A k \in Working : k = j
  BY DEF OneAtATime
<1>2. QED
  BY <1>1 DEF Deleting

(* What a step of the job that runs has to leave, for the list and its copy. *)
LEMMA OneStays ==
  ASSUME Typed, OneAtATime, NEW j \in Working, NEW to \in Steps,
         job' = [job EXCEPT ![j].step = to], deleting' = deleting, reading' = reading,
         to \in {"checked", "started", "rendering", "stored", "cached"} =>
           job[j].published = published',
         to \in {"stored", "cached"} => pub'[j] # None /\ pub'[j].name = job[j].name,
         to = "listed" => j \in ToSet(published'),
         \A k \in Jobs : status'[k] = "published" /\ pub'[k] # None => k \in ToSet(published')
  PROVE  OneAtATime'
<1>1. Deleting = {} /\ reading = NoRead /\ \A k \in Jobs : k # j => k \notin Working
  BY Alone
<1>2. /\ job'[j].step = to /\ job'[j].name = job[j].name
      /\ job'[j].published = job[j].published
      /\ \A k \in Jobs : k # j => job'[k] = job[k]
      /\ Working' \subseteq Working \cup {j}
  BY StepFacts DEF Working
<1>3. \A k \in Working' : k = j
  BY <1>1, <1>2 DEF Working
<1>4. Deleting' = {} /\ reading' = NoRead
  BY <1>1 DEF Deleting
<1>5. \A k \in Jobs : job'[k].step \in {"checked", "started", "rendering", "stored", "cached",
                                        "listed"} => k = j
  BY <1>3 DEF Working
<1>6. \A k \in Jobs : deleting'[k] = "no"
  BY Alone
<1>7. QED
  BY <1>2, <1>3, <1>4, <1>5, <1>6 DEF OneAtATime

(* Which version is the last does not change when others are erased.        *)
LEMMA LastOfFades ==
  ASSUME NEW list, NEW p, NEW q, NEW c, LastOf(list, p, c), q[c] = p[c],
         \A i \in DOMAIN list : q[list[i]] # None => p[list[i]] # None
  PROVE  LastOf(list, q, c)
BY DEF LastOf

(* An entry of memcache stays right.                                        *)
LEMMA FitsKept ==
  ASSUME NEW name \in Names \cup {Latest}, NEW c \in Jobs, CacheFits(name),
         cache[name] = c, cache'[name] = c, pub'[c] = pub[c],
         job'[c].step \in Late, deleting'[c] # "uncached",
         job[c].step = "cached" => job'[c].step = "cached" \/ status'[c] = "500",
         status[c] = "500" => status'[c] = "500",
         deleting[c] = "unlisted" => deleting'[c] = "unlisted",
         c \in ToSet(published) => c \in ToSet(published') \/ deleting'[c] = "unlisted",
         name = Latest /\ LastOf(published, pub, c) =>
           LastOf(published', pub', c) \/ deleting'[c] = "unlisted"
  PROVE  CacheFits(name)'
BY DEF CacheFits, Late

LEMMA CacheSame ==
  ASSUME Typed, Orderly, CacheRight, published' = published, deleting' = deleting,
         \A n \in Names \cup {Latest} : cache'[n] \in {cache[n], None},
         \A k \in Jobs : job[k].step \in Late =>
           /\ job'[k].step \in Late /\ pub'[k] = pub[k]
           /\ job[k].step = "cached" => job'[k].step = "cached" \/ status'[k] = "500"
           /\ status[k] = "500" => status'[k] = "500",
         \A k \in Jobs : job'[k].step = "cached" => job[k].step = "cached"
  PROVE  CacheRight'
<1>1. ASSUME NEW name \in Names \cup {Latest}, cache'[name] # None PROVE CacheFits(name)'
  <2>1. PICK c \in Jobs : c = cache[name] /\ c = cache'[name]
    BY <1>1 DEF Typed
  <2>2. CacheFits(name)
    BY <1>1, <2>1 DEF CacheRight
  <2>3. job[c].step \in Late /\ deleting[c] # "uncached"
    BY <2>1, <2>2 DEF CacheFits, Late
  <2>4. LastOf(published, pub, c) => LastOf(published, pub', c)
    <3>1. PICK list \in Seq(Jobs) : list = published
      BY DEF Typed
    <3>2. \A i \in DOMAIN list : list[i] \in Jobs /\ job[list[i]].step \in Late
      BY <3>1 DEF Orderly, Settled, Late
    <3>3. \A i \in DOMAIN list : pub'[list[i]] = pub[list[i]]
      BY <3>2
    <3>4. QED
      BY <2>3, <3>1, <3>3, LastOfFades
  <2>5. QED
    BY <2>1, <2>2, <2>3, <2>4, FitsKept
<1>2. ASSUME NEW k \in Jobs, job'[k].step = "cached" PROVE cache'[Latest] \in {None, k}
  BY <1>2 DEF CacheRight
<1>3. QED
  BY <1>1, <1>2 DEF CacheRight

(* Steps of the job that runs.                                              *)
LEMMA CalmStart == ASSUME NEW j \in Jobs PROVE Typed /\ Orderly /\ Calm /\ Start(j) => Calm'
<1> SUFFICES ASSUME Typed, Orderly, OneAtATime, CacheRight, Start(j) PROVE Calm'
  BY DEF Calm
<1>1. PICK to \in {"refused", "started"} : job' = [job EXCEPT ![j].step = to]
  BY DEF Start, Step
<1>2. /\ job[j].step = "checked" /\ pub' = pub /\ published' = published /\ cache' = cache
      /\ status' = status /\ reading' = reading /\ deleting' = deleting /\ to \in Steps
  BY DEF Start, Step, Steps
<1>3. /\ j \in Working /\ job[j].published = published
      /\ \A k \in Jobs : status[k] = "published" /\ pub[k] # None => k \in ToSet(published)
  BY <1>2, Alone DEF Working, OneAtATime
<1>4. OneAtATime'
  BY <1>1, <1>2, <1>3, OneStays
<1>5. /\ job'[j].step = to /\ \A k \in Jobs : k # j => job'[k] = job[k]
  BY <1>1, <1>2, StepFacts
<1>6. CacheRight'
  BY <1>2, <1>5, CacheSame DEF Late
<1>7. QED
  BY <1>4, <1>6 DEF Calm

LEMMA CalmSetLock == ASSUME NEW j \in Jobs PROVE Typed /\ Orderly /\ Calm /\ SetLock(j) => Calm'
<1> SUFFICES ASSUME Typed, Orderly, OneAtATime, CacheRight, SetLock(j) PROVE Calm'
  BY DEF Calm
<1>1. /\ job' = [job EXCEPT ![j].step = "rendering"] /\ job[j].step = "started"
      /\ pub' = pub /\ published' = published /\ cache' = cache /\ status' = status
      /\ reading' = reading /\ deleting' = deleting /\ "rendering" \in Steps
  BY DEF SetLock, Step, Steps
<1>2. /\ j \in Working /\ job[j].published = published
      /\ \A k \in Jobs : status[k] = "published" /\ pub[k] # None => k \in ToSet(published)
  BY <1>1, Alone DEF Working, OneAtATime
<1>3. OneAtATime'
  BY <1>1, <1>2, OneStays
<1>4. job'[j].step = "rendering" /\ \A k \in Jobs : k # j => job'[k] = job[k]
  BY <1>1, StepFacts
<1>5. CacheRight'
  BY <1>1, <1>4, CacheSame DEF Late
<1>6. QED
  BY <1>3, <1>5 DEF Calm

LEMMA CalmStore ==
  ASSUME NEW j \in Jobs
  PROVE  Typed /\ Orderly /\ AnsweredOnce /\ Calm /\ Store(j) => Calm'
<1> SUFFICES ASSUME Typed, Orderly, AnsweredOnce, OneAtATime, CacheRight, Store(j) PROVE Calm'
  BY DEF Calm
<1>1. /\ job' = [job EXCEPT ![j].step = "stored"] /\ job[j].step = "rendering"
      /\ published' = published /\ cache' = cache /\ status' = status
      /\ reading' = reading /\ deleting' = deleting /\ "stored" \in Steps
  BY DEF Store, Step, Steps
<1>2. /\ j \in Working /\ job[j].published = published
      /\ \A k \in Jobs : status[k] = "published" /\ pub[k] # None => k \in ToSet(published)
  BY <1>1, Alone DEF Working, OneAtATime
<1>3. PICK v \in Nat : v = NextVersion(job[j].published)
  BY <1>2, NextVersionLarger DEF Typed
<1>4. PICK e \in Entity : e.name = job[j].name /\ pub' = [pub EXCEPT ![j] = e]
  <2>1. job[j].name \in Names
    BY <1>1 DEF Typed
  <2>2. QED
    BY <1>3, <2>1 DEF Store, Entity
<1>5. e # None
  BY PublisherAssumption DEF Entity
<1>6. pub'[j] = e /\ \A k \in Jobs : k # j => pub'[k] = pub[k]
  BY <1>4 DEF Typed
<1>7. status[j] # "published"
  BY <1>1 DEF AnsweredOnce
<1>8. \A k \in Jobs : status'[k] = "published" /\ pub'[k] # None => k \in ToSet(published')
  BY <1>1, <1>2, <1>6, <1>7
<1>9. OneAtATime'
  BY <1>1, <1>2, <1>4, <1>5, <1>6, <1>8, OneStays
<1>10. job'[j].step = "stored" /\ \A k \in Jobs : k # j => job'[k] = job[k]
  BY <1>1, StepFacts
<1>11. \A k \in Jobs : job[k].step \in Late => k # j
  BY <1>1 DEF Late
<1>12. CacheRight'
  BY <1>1, <1>6, <1>10, <1>11, CacheSame
<1>13. QED
  BY <1>9, <1>12 DEF Calm

LEMMA CalmCache == ASSUME NEW j \in Jobs PROVE Typed /\ Orderly /\ Calm /\ Cache(j) => Calm'
<1> SUFFICES ASSUME Typed, Orderly, OneAtATime, CacheRight, Cache(j) PROVE Calm'
  BY DEF Calm
<1>1. /\ job' = [job EXCEPT ![j].step = "cached"] /\ job[j].step = "stored"
      /\ pub' = pub /\ published' = published /\ status' = status
      /\ reading' = reading /\ deleting' = deleting /\ "cached" \in Steps
      /\ cache' = [cache EXCEPT ![job[j].name] = j, ![Latest] = j]
  BY DEF Cache, Step, Steps
<1>2. /\ j \in Working /\ job[j].published = published /\ pub[j] # None
      /\ pub[j].name = job[j].name /\ job[j].name \in Names
      /\ \A k \in Jobs : status[k] = "published" /\ pub[k] # None => k \in ToSet(published)
      /\ \A k \in Jobs : k # j => job[k].step # "cached"
  BY <1>1, Alone DEF Working, OneAtATime, Typed
<1>3. OneAtATime'
  BY <1>1, <1>2, OneStays
<1>4. job'[j].step = "cached" /\ \A k \in Jobs : k # j => job'[k] = job[k]
  BY <1>1, StepFacts
<1>5. \A n \in Names \cup {Latest} :
        cache'[n] = IF n \in {job[j].name, Latest} THEN j ELSE cache[n]
  BY <1>1 DEF Typed
<1>6. ASSUME NEW n \in Names \cup {Latest}, cache'[n] # None PROVE CacheFits(n)'
  <2>1. CASE n \in {job[j].name, Latest}
    <3>1. cache'[n] = j /\ (n # Latest => n = job[j].name) /\ deleting'[j] = "no"
      BY <1>1, <1>2, <1>5, <2>1, Alone
    <3>2. pub'[j] # None /\ pub'[j].name = job[j].name
      BY <1>1, <1>2
    <3>3. QED
      BY <1>4, <3>1, <3>2 DEF CacheFits
  <2>2. CASE n \notin {job[j].name, Latest}
    <3>1. PICK c \in Jobs : c = cache[n] /\ c = cache'[n]
      BY <1>5, <1>6, <2>2 DEF Typed
    <3>2. CacheFits(n)
      BY <1>6, <3>1 DEF CacheRight
    <3>3. job[c].step \in Late /\ c # j /\ deleting[c] # "uncached"
      BY <1>1, <3>1, <3>2 DEF CacheFits, Late
    <3>4. QED
      BY <1>1, <1>4, <2>2, <3>1, <3>2, <3>3, FitsKept
  <2>3. QED
    BY <2>1, <2>2
<1>7. ASSUME NEW k \in Jobs, job'[k].step = "cached" PROVE cache'[Latest] \in {None, k}
  BY <1>2, <1>4, <1>5, <1>7
<1>8. CacheRight'
  BY <1>6, <1>7 DEF CacheRight
<1>9. QED
  BY <1>3, <1>8 DEF Calm

(* The new key ends the list, whose other entries stay.                     *)
LEMMA AppendLast ==
  ASSUME NEW list \in Seq(Jobs), NEW j \in Jobs, NEW r, r = Append(list, j)
  PROVE  /\ j \in ToSet(r) /\ ToSet(list) \subseteq ToSet(r)
         /\ \A p : p[j] # None => LastOf(r, p, j)
<1>1. /\ r \in Seq(Jobs) /\ DOMAIN r = 1 .. Len(list) + 1 /\ DOMAIN list = 1 .. Len(list)
      /\ r[Len(list) + 1] = j /\ \A i \in 1 .. Len(list) : r[i] = list[i]
  OBVIOUS
<1>2. \A i \in DOMAIN r : i <= Len(list) + 1
  BY <1>1
<1>3. Len(list) + 1 \in DOMAIN r /\ \A i \in DOMAIN list : i \in DOMAIN r /\ r[i] = list[i]
  BY <1>1
<1>4. j \in ToSet(r) /\ ToSet(list) \subseteq ToSet(r)
  BY <1>1, <1>3 DEF ToSet
<1>5. \A p : p[j] # None => LastOf(r, p, j)
  BY <1>1, <1>2, <1>3 DEF LastOf
<1>6. QED
  BY <1>4, <1>5

LEMMA CalmList == ASSUME NEW j \in Jobs PROVE Typed /\ Orderly /\ Calm /\ List(j) => Calm'
<1> SUFFICES ASSUME Typed, Orderly, OneAtATime, CacheRight, List(j) PROVE Calm'
  BY DEF Calm
<1>1. /\ job' = [job EXCEPT ![j].step = "listed"] /\ job[j].step = "cached"
      /\ pub' = pub /\ cache' = cache /\ status' = status
      /\ reading' = reading /\ deleting' = deleting /\ "listed" \in Steps
      /\ published' = Append(job[j].published, j)
  BY DEF List, Step, Steps
<1>2. /\ j \in Working /\ job[j].published = published /\ pub[j] # None
      /\ \A k \in Jobs : status[k] = "published" /\ pub[k] # None => k \in ToSet(published)
      /\ \A k \in Jobs : k # j => job[k].step # "cached"
  BY <1>1, Alone DEF Working, OneAtATime
<1>3. /\ j \in ToSet(published') /\ ToSet(published) \subseteq ToSet(published')
      /\ LastOf(published', pub, j)
  <2>1. published \in Seq(Jobs) /\ published' = Append(published, j)
    BY <1>1, <1>2 DEF Typed
  <2>2. QED
    BY <1>2, <2>1, AppendLast
<1>4. OneAtATime'
  BY <1>1, <1>2, <1>3, OneStays
<1>5. job'[j].step = "listed" /\ \A k \in Jobs : k # j => job'[k] = job[k]
  BY <1>1, StepFacts
<1>6. ASSUME NEW n \in Names \cup {Latest}, cache'[n] # None PROVE CacheFits(n)'
  <2>1. PICK c \in Jobs : c = cache[n] /\ c = cache'[n]
    BY <1>1, <1>6 DEF Typed
  <2>2. CacheFits(n)
    BY <1>1, <1>6 DEF CacheRight
  <2>3. job[c].step \in Late /\ deleting[c] # "uncached"
    BY <2>1, <2>2 DEF CacheFits, Late
  <2>4. CASE c = j
    <3>1. pub'[c] # None /\ (n # Latest => pub'[c].name = n)
      BY <1>1, <2>1, <2>2 DEF CacheFits
    <3>2. c \in ToSet(published') /\ LastOf(published', pub', c) /\ job'[c].step = "listed"
      BY <1>1, <1>3, <1>5, <2>4
    <3>3. QED
      BY <1>1, <2>1, <2>3, <3>1, <3>2 DEF CacheFits
  <2>5. CASE c # j
    <3>1. n # Latest
      BY <1>1, <1>6, <2>1, <2>5 DEF CacheRight
    <3>2. QED
      BY <1>1, <1>3, <1>5, <2>1, <2>2, <2>3, <2>5, <3>1, FitsKept
  <2>6. QED
    BY <2>4, <2>5
<1>7. \A k \in Jobs : job'[k].step # "cached"
  BY <1>2, <1>5
<1>8. CacheRight'
  BY <1>6, <1>7 DEF CacheRight
<1>9. QED
  BY <1>4, <1>8 DEF Calm

LEMMA CalmAnswer ==
  ASSUME NEW j \in Jobs
  PROVE  Typed /\ Orderly /\ AnsweredOnce /\ Calm /\ (Answer(j) \/ Fail(j)) => Calm'
<1> SUFFICES ASSUME Typed, Orderly, AnsweredOnce, OneAtATime, CacheRight, Answer(j) \/ Fail(j)
             PROVE  Calm'
  BY DEF Calm
<1>1. /\ job' = [job EXCEPT ![j].step = "answered"]
      /\ job[j].step \in {"rendering", "stored", "cached", "listed"}
      /\ pub' = pub /\ published' = published /\ cache' = cache
      /\ reading' = reading /\ deleting' = deleting /\ "answered" \in Steps
  BY PublisherAssumption DEF Answer, Fail, Step, Steps
<1>2. \/ job[j].step = "listed" /\ status' = [status EXCEPT ![j] = "published"]
      \/ status' = [status EXCEPT ![j] = "500"]
  BY DEF Answer, Fail, Step
<1>3. /\ j \in Working
      /\ \A k \in Jobs : status[k] = "published" /\ pub[k] # None => k \in ToSet(published)
      /\ job[j].step = "listed" => j \in ToSet(published)
  BY <1>1, Alone DEF Working, OneAtATime
<1>4. /\ \A k \in Jobs : k # j => status'[k] = status[k]
      /\ job[j].step # "listed" => status'[j] = "500"
      /\ status'[j] = "published" => job[j].step = "listed"
  BY <1>2 DEF Typed
<1>5. \A k \in Jobs : status'[k] = "published" /\ pub'[k] # None => k \in ToSet(published')
  BY <1>1, <1>3, <1>4
<1>6. OneAtATime'
  BY <1>1, <1>3, <1>5, OneStays
<1>7. job'[j].step = "answered" /\ \A k \in Jobs : k # j => job'[k] = job[k]
  BY <1>1, StepFacts
<1>8. status[j] # "500"
  BY <1>1 DEF AnsweredOnce
<1>9. CacheRight'
  BY <1>1, <1>4, <1>7, <1>8, CacheSame DEF Late
<1>10. QED
  BY <1>6, <1>9 DEF Calm

LEMMA CalmRelease ==
  ASSUME NEW j \in Jobs PROVE Typed /\ Orderly /\ Calm /\ Release(j) => Calm'
<1> SUFFICES ASSUME Typed, Orderly, OneAtATime, CacheRight, Release(j) PROVE Calm'
  BY DEF Calm
<1>1. /\ job' = [job EXCEPT ![j].step = "done"] /\ job[j].step = "answered"
      /\ pub' = pub /\ published' = published /\ cache' = cache /\ status' = status
      /\ reading' = reading /\ deleting' = deleting /\ "done" \in Steps
  BY DEF Release, Step, Steps
<1>2. /\ j \in Working
      /\ \A k \in Jobs : status[k] = "published" /\ pub[k] # None => k \in ToSet(published)
  BY <1>1, Alone DEF Working, OneAtATime
<1>3. OneAtATime'
  BY <1>1, <1>2, OneStays
<1>4. job'[j].step = "done" /\ \A k \in Jobs : k # j => job'[k] = job[k]
  BY <1>1, StepFacts
<1>5. CacheRight'
  BY <1>1, <1>4, CacheSame DEF Late
<1>6. QED
  BY <1>3, <1>5 DEF Calm

(* What starts while nothing runs has the list as it is.                    *)
LEMMA CalmCheck ==
  ASSUME NEW j \in Jobs, NEW name \in Names \cup {None}
  PROVE  Typed /\ Orderly /\ Calm /\ Idle /\ Check(j, name) => Calm'
<1> SUFFICES ASSUME Typed, Orderly, OneAtATime, CacheRight, Idle, Check(j, name) PROVE Calm'
  BY DEF Calm
<1> DEFINE chosen == IF name = None THEN NextVersion(published) ELSE name
           taken == {pub[published[i]].name : i \in Existing(published)}
           t == [name |-> chosen, published |-> published,
                 step |-> IF chosen \in taken THEN "refused" ELSE "checked"]
<1>1. /\ job' = [job EXCEPT ![j] = t] /\ t.published = published
      /\ t.step \in {"refused", "checked"} /\ job[j].step = "none"
      /\ pub' = pub /\ published' = published /\ cache' = cache /\ status' = status
      /\ reading' = reading /\ deleting' = deleting
  BY DEF Check, NoJob
<1> HIDE DEF t
<1>2. job'[j] = t /\ \A k \in Jobs : k # j => job'[k] = job[k]
  BY <1>1 DEF Typed
<1>3. \A k \in Jobs : k # j => job'[k].step \notin {"checked", "started", "rendering", "stored",
                                                   "cached", "listed", "answered"}
  BY <1>2 DEF Idle, Working
<1>4. OneAtATime'
  <2>1. \A k \in Working' : k = j
    BY <1>3 DEF Working
  <2>2. Deleting' = {} /\ reading' = NoRead /\ \A k \in Jobs : deleting'[k] = "no"
    BY <1>1 DEF Idle, Deleting
  <2>3. QED
    BY <1>1, <1>2, <1>3, <2>1, <2>2 DEF OneAtATime
<1>5. CacheRight'
  BY <1>1, <1>2, CacheSame DEF Late
<1>6. QED
  BY <1>4, <1>5 DEF Calm

LEMMA CalmMiss ==
  ASSUME NEW name \in Names \cup {Latest}
  PROVE  Typed /\ Orderly /\ Calm /\ Idle /\ Miss(name) => Calm'
<1> SUFFICES ASSUME Typed, Orderly, OneAtATime, CacheRight, Idle, Miss(name) PROVE Calm'
  BY DEF Calm
<1>1. /\ job' = job /\ pub' = pub /\ published' = published /\ cache' = cache
      /\ status' = status /\ deleting' = deleting /\ reading'.published = published
  BY DEF Miss
<1>2. Working' = {} /\ Deleting' = {} /\ \A k \in Jobs : deleting'[k] = "no"
  BY <1>1 DEF Idle, Working, Deleting
<1>3. OneAtATime'
  BY <1>1, <1>2 DEF OneAtATime
<1>4. CacheRight'
  BY <1>1, CacheSame
<1>5. QED
  BY <1>3, <1>4 DEF Calm

(* A delete reads the document while nothing runs, and has the list as it   *)
(* is.                                                                      *)
LEMMA CalmDelete ==
  ASSUME NEW j \in Jobs PROVE Typed /\ Orderly /\ Calm /\ Idle /\ Delete(j) => Calm'
<1> SUFFICES ASSUME Typed, Orderly, OneAtATime, CacheRight, Idle, Delete(j) PROVE Calm'
  BY DEF Calm
<1>1. /\ job' = job /\ pub' = pub /\ published' = published /\ cache' = cache
      /\ status' = status /\ reading' = reading
      /\ deleting' = [deleting EXCEPT ![j] = "read"]
      /\ held' = [held EXCEPT ![j] = published]
  BY DEF Delete
<1>2. /\ deleting'[j] = "read" /\ held'[j] = published
      /\ \A k \in Jobs : k # j => deleting'[k] = deleting[k]
  BY <1>1 DEF Typed
<1>3. \A k \in Jobs : deleting[k] = "no"
  BY DEF Idle, Deleting
<1>4. Working' = {} /\ (\A k \in Deleting' : k = j) /\ reading' = NoRead
  BY <1>1, <1>2, <1>3 DEF Idle, Working, Deleting
<1>5. OneAtATime'
  <2>1. \A k \in Jobs : job'[k].step \notin {"checked", "started", "rendering", "stored", "cached",
                                             "listed"}
    BY <1>4 DEF Working
  <2>2. \A k \in Jobs : status'[k] = "published" /\ pub'[k] # None => k \in ToSet(published')
    BY <1>1, <1>3 DEF OneAtATime
  <2>3. \A k \in Jobs : deleting'[k] = "read" => held'[k] = published'
    BY <1>1, <1>2, <1>3
  <2>4. QED
    BY <1>4, <2>1, <2>2, <2>3 DEF OneAtATime
<1>6. ASSUME NEW n \in Names \cup {Latest}, cache'[n] # None PROVE CacheFits(n)'
  <2>1. PICK c \in Jobs : c = cache[n] /\ c = cache'[n]
    BY <1>1, <1>6 DEF Typed
  <2>2. CacheFits(n)
    BY <1>1, <1>6 DEF CacheRight
  <2>3. job[c].step \in Late
    BY <2>1, <2>2 DEF CacheFits, Late
  <2>4. deleting[c] = "no" /\ deleting'[c] \in {"no", "read"}
    BY <1>2, <1>3
  <2>5. QED
    BY <1>1, <2>1, <2>2, <2>3, <2>4, FitsKept
<1>7. \A k \in Jobs : job'[k].step # "cached"
  BY <1>4 DEF Working
<1>8. CacheRight'
  BY <1>6, <1>7 DEF CacheRight
<1>9. QED
  BY <1>5, <1>8 DEF Calm

LEMMA RemoveAbsent ==
  ASSUME NEW list \in Seq(Jobs), NEW x, x \notin ToSet(list)
  PROVE  RemoveFirst(list, x) = list
BY DEF RemoveFirst, ToSet

(* Then it takes the version off the list.                                  *)
LEMMA CalmUnlist ==
  ASSUME NEW j \in Jobs PROVE Typed /\ Orderly /\ Calm /\ Unlist(j) => Calm'
<1> SUFFICES ASSUME Typed, Orderly, OneAtATime, CacheRight, Unlist(j) PROVE Calm'
  BY DEF Calm
<1>1. PICK list \in Seq(Jobs) : list = published
  BY DEF Typed
<1>2. deleting[j] = "read" /\ held[j] = list
  BY <1>1 DEF Unlist, OneAtATime
<1>3. PICK r : r = RemoveFirst(list, j)
  OBVIOUS
<1>4. /\ job' = job /\ pub' = pub /\ cache' = cache /\ status' = status /\ reading' = reading
      /\ deleting' = [deleting EXCEPT ![j] = "unlisted"]
  BY DEF Unlist
<1>5. published' = r
  <2>1. published' = IF j \in ToSet(list) THEN r ELSE list
    BY <1>1, <1>2, <1>3 DEF Unlist
  <2>2. QED
    BY <1>3, <2>1, RemoveAbsent
<1>6. deleting'[j] = "unlisted" /\ \A k \in Jobs : k # j => deleting'[k] = deleting[k]
  BY <1>4 DEF Typed
<1>7. /\ j \in Deleting /\ Working = {} /\ reading = NoRead
      /\ \A k \in Jobs : k # j => deleting[k] = "no"
  BY <1>2 DEF Deleting, OneAtATime
<1>8. Working' = {} /\ (\A k \in Deleting' : k = j) /\ reading' = NoRead
  BY <1>4, <1>6, <1>7 DEF Working, Deleting
<1>9. \A k \in ToSet(list) : k # j => k \in ToSet(r)
  BY <1>3, RemoveKeeps
<1>10. OneAtATime'
  <2>1. \A k \in Jobs : job'[k].step \notin {"checked", "started", "rendering", "stored", "cached",
                                             "listed"}
    BY <1>8 DEF Working
  <2>2. \A k \in Jobs : status'[k] = "published" /\ pub'[k] # None /\ deleting'[k] = "no" =>
                          k \in ToSet(r)
    <3>1. \A k \in Jobs : status[k] = "published" /\ pub[k] # None /\ k # j => k \in ToSet(list)
      BY <1>1, <1>7 DEF OneAtATime
    <3>2. QED
      BY <1>4, <1>6, <1>9, <3>1
  <2>3. \A k \in Jobs : deleting'[k] # "read"
    BY <1>6, <1>7
  <2>4. QED
    BY <1>5, <1>8, <2>1, <2>2, <2>3 DEF OneAtATime
<1>11. ASSUME NEW n \in Names \cup {Latest}, cache'[n] # None PROVE CacheFits(n)'
  <2>1. PICK c \in Jobs : c = cache[n] /\ c = cache'[n]
    BY <1>4, <1>11 DEF Typed
  <2>2. CacheFits(n)
    BY <1>4, <1>11 DEF CacheRight
  <2>3. job[c].step \in Late /\ deleting[c] # "uncached"
    BY <2>1, <2>2 DEF CacheFits, Late
  <2>4. c = j => deleting'[c] = "unlisted"
    BY <1>2, <1>6, <2>3
  <2>5. c \in ToSet(published) => c \in ToSet(published') \/ deleting'[c] = "unlisted"
    BY <1>1, <1>5, <1>9, <2>4
  <2>6. LastOf(published, pub, c) => LastOf(published', pub', c) \/ deleting'[c] = "unlisted"
    <3>1. c # j /\ LastOf(list, pub, c) => LastOf(r, pub, c)
      BY <1>3, RemoveLastOf
    <3>2. QED
      BY <1>1, <1>4, <1>5, <2>4, <3>1
  <2>7. deleting'[c] # "uncached"
    BY <1>6, <2>3, <2>4
  <2>8. deleting[c] = "unlisted" => deleting'[c] = "unlisted"
    BY <1>2, <1>6
  <2>9. QED
    BY <1>4, <2>1, <2>2, <2>3, <2>5, <2>6, <2>7, <2>8, FitsKept
<1>12. \A k \in Jobs : job'[k].step # "cached"
  BY <1>8 DEF Working
<1>13. CacheRight'
  BY <1>11, <1>12 DEF CacheRight
<1>14. QED
  BY <1>10, <1>13 DEF Calm

(* The hook of the model drops the version from memcache under both names,  *)
(* before it leaves the datastore.                                          *)
LEMMA CalmUncache ==
  ASSUME NEW j \in Jobs PROVE Typed /\ Orderly /\ Calm /\ Uncache(j) => Calm'
<1> SUFFICES ASSUME Typed, Orderly, OneAtATime, CacheRight, Uncache(j) PROVE Calm'
  BY DEF Calm
<1>1. /\ job' = job /\ pub' = pub /\ published' = published
      /\ status' = status /\ reading' = reading /\ deleting[j] = "unlisted"
      /\ deleting' = [deleting EXCEPT ![j] = "uncached"]
      /\ cache' = [cache EXCEPT ![pub[j].name] = None, ![Latest] = None]
  BY DEF Uncache
<1>2. deleting'[j] = "uncached" /\ \A k \in Jobs : k # j => deleting'[k] = deleting[k]
  BY <1>1 DEF Typed
<1>3. /\ j \in Deleting /\ Working = {} /\ reading = NoRead
      /\ \A k \in Jobs : k # j => deleting[k] = "no"
  BY <1>1 DEF Deleting, OneAtATime
<1>4. Working' = {} /\ (\A k \in Deleting' : k = j) /\ reading' = NoRead
  BY <1>1, <1>2, <1>3 DEF Working, Deleting
<1>5. OneAtATime'
  <2>1. \A k \in Jobs : job'[k].step \notin {"checked", "started", "rendering", "stored", "cached",
                                             "listed"}
    BY <1>4 DEF Working
  <2>2. \A k \in Jobs : status'[k] = "published" /\ pub'[k] # None /\ deleting'[k] = "no" =>
                          k \in ToSet(published')
    BY <1>1, <1>2, <1>3 DEF OneAtATime
  <2>3. \A k \in Jobs : deleting'[k] = "read" => held'[k] = published'
    BY <1>1, <1>2, <1>3
  <2>4. QED
    BY <1>4, <2>1, <2>2, <2>3 DEF OneAtATime
<1>6. \A n \in Names \cup {Latest} :
         cache'[n] = IF n \in {pub[j].name, Latest} THEN None ELSE cache[n]
  BY <1>1 DEF Typed
<1>7. ASSUME NEW n \in Names \cup {Latest}, cache'[n] # None PROVE CacheFits(n)'
  <2>1. PICK c \in Jobs : c = cache[n] /\ c = cache'[n] /\ n # Latest /\ n # pub[j].name
    BY <1>6, <1>7 DEF Typed
  <2>2. CacheFits(n)
    BY <1>6, <1>7, <2>1 DEF CacheRight
  <2>3. job[c].step \in Late /\ c # j
    BY <2>1, <2>2 DEF CacheFits, Late
  <2>4. deleting'[c] = "no" /\ deleting[c] = "no"
    BY <1>2, <1>3, <2>3
  <2>5. QED
    BY <1>1, <2>1, <2>2, <2>3, <2>4, FitsKept
<1>8. \A k \in Jobs : job'[k].step # "cached"
  BY <1>4 DEF Working
<1>9. CacheRight'
  BY <1>7, <1>8 DEF CacheRight
<1>10. QED
  BY <1>5, <1>9 DEF Calm

LEMMA CalmErase ==
  ASSUME NEW j \in Jobs PROVE Typed /\ Orderly /\ Calm /\ Erase(j) => Calm'
<1> SUFFICES ASSUME Typed, Orderly, OneAtATime, CacheRight, Erase(j) PROVE Calm'
  BY DEF Calm
<1>1. /\ job' = job /\ pub' = [pub EXCEPT ![j] = None] /\ published' = published
      /\ status' = status /\ reading' = reading /\ deleting[j] = "uncached" /\ cache' = cache
      /\ deleting' = [deleting EXCEPT ![j] = "no"]
  BY DEF Erase
<1>2. /\ deleting'[j] = "no" /\ \A k \in Jobs : k # j => deleting'[k] = deleting[k]
      /\ pub'[j] = None /\ \A k \in Jobs : k # j => pub'[k] = pub[k]
  BY <1>1 DEF Typed
<1>3. /\ j \in Deleting /\ Working = {} /\ reading = NoRead
      /\ \A k \in Jobs : k # j => deleting[k] = "no"
  BY <1>1 DEF Deleting, OneAtATime
<1>4. Working' = {} /\ Deleting' = {} /\ reading' = NoRead
      /\ \A k \in Jobs : deleting'[k] = "no"
  BY <1>1, <1>2, <1>3 DEF Working, Deleting
<1>5. OneAtATime'
  <2>1. \A k \in Jobs : job'[k].step \notin {"checked", "started", "rendering", "stored", "cached",
                                             "listed"}
    BY <1>4 DEF Working
  <2>2. \A k \in Jobs : status'[k] = "published" /\ pub'[k] # None => k \in ToSet(published')
    BY <1>1, <1>2, <1>3 DEF OneAtATime
  <2>3. QED
    BY <1>4, <2>1, <2>2 DEF OneAtATime
<1>6. ASSUME NEW n \in Names \cup {Latest}, cache'[n] # None PROVE CacheFits(n)'
  <2>1. PICK c \in Jobs : c = cache[n] /\ c = cache'[n]
    BY <1>1, <1>6 DEF Typed
  <2>2. CacheFits(n)
    BY <1>1, <1>6 DEF CacheRight
  <2>3. job[c].step \in Late /\ c # j
    BY <1>1, <2>1, <2>2 DEF CacheFits, Late
  <2>4. LastOf(published, pub, c) => LastOf(published, pub', c)
    <3>1. \A i \in DOMAIN published : pub'[published[i]] # None => pub[published[i]] # None
      BY <1>2 DEF Typed
    <3>2. QED
      BY <1>2, <2>3, <3>1, LastOfFades
  <2>5. QED
    BY <1>1, <1>2, <1>3, <2>1, <2>2, <2>3, <2>4, FitsKept
<1>7. \A k \in Jobs : job'[k].step # "cached"
  BY <1>4 DEF Working
<1>8. CacheRight'
  BY <1>6, <1>7 DEF CacheRight
<1>9. QED
  BY <1>5, <1>8 DEF Calm

(* The version with the largest number is the last of the list, since the   *)
(* list is in order.                                                        *)
LEMMA LargestIsLast ==
  ASSUME Typed, NEW list \in Seq(Jobs), InOrder(list, pub), NEW i \in Existing(list),
         pub[list[i]].version_int + 1 = NextVersion(list)
  PROVE  LastOf(list, pub, list[i])
<1>1. ASSUME NEW k \in DOMAIN list, pub[list[k]] # None, k > i PROVE FALSE
  <2>1. k \in Existing(list) /\ i \in DOMAIN list /\ pub[list[i]] # None
    BY <1>1 DEF Existing
  <2>2. pub[list[i]].version_int < pub[list[k]].version_int
    BY <1>1, <2>1 DEF InOrder
  <2>3. PICK v, w, n \in Nat : v = pub[list[i]].version_int /\ w = pub[list[k]].version_int
                               /\ n = NextVersion(list) /\ w < n
    BY <2>1, NextVersionLarger
  <2>4. v + 1 = n /\ v < w
    BY <2>2, <2>3
  <2>5. QED
    BY <2>3, <2>4
<1>2. \A k \in DOMAIN list : pub[list[k]] # None => k <= i
  BY <1>1 DEF Existing
<1>3. QED
  BY <1>2 DEF Existing, LastOf

(* A reader that has the list as it is puts in memcache what it says.       *)
LEMMA CalmFill == Typed /\ Orderly /\ Calm /\ Fill => Calm'
<1> SUFFICES ASSUME Typed, Orderly, OneAtATime, CacheRight, Fill PROVE Calm'
  BY DEF Calm
<1>1. PICK list \in Seq(Jobs) : list = published
  BY DEF Typed
<1>2. /\ Working = {} /\ Deleting = {} /\ reading.published = list
      /\ \A k \in Jobs : deleting[k] = "no"
  BY <1>1 DEF Fill, OneAtATime, Deleting
<1>3. PICK j : j = Found(reading.name, list)
  OBVIOUS
<1>4. /\ job' = job /\ pub' = pub /\ published' = published
      /\ status' = status /\ deleting' = deleting /\ reading' = NoRead
      /\ cache' = IF j = None THEN cache
                  ELSE [cache EXCEPT ![reading.name] = j, ![pub[j].name] = j]
  BY <1>2, <1>3 DEF Fill
<1>5. Working' = {} /\ Deleting' = {} /\ \A k \in Jobs : deleting'[k] = "no"
  BY <1>2, <1>4 DEF Working, Deleting
<1>6. OneAtATime'
  BY <1>4, <1>5 DEF OneAtATime
<1>7. CASE j = None
  BY <1>4, <1>6, <1>7, CacheSame DEF Calm
<1>8. CASE j # None
  <2>1. PICK i \in Existing(list) :
           /\ list[i] = j /\ j \in Jobs
           /\ reading.name # Latest => pub[j].name = reading.name
           /\ reading.name = Latest => pub[j].version_int + 1 = NextVersion(list)
    BY <1>3, <1>8, FoundIsThere
  <2>2. pub[j] # None /\ j \in ToSet(list) /\ pub[j].name # Latest
    BY <2>1, PublisherAssumption DEF Existing, ToSet, Typed, Entity
  <2>3. job[j].step \in {"listed", "answered", "done"}
    BY <1>1, <2>1 DEF Orderly, Settled, Existing
  <2>4. reading.name = Latest => LastOf(list, pub, j)
    BY <1>1, <2>1, LargestIsLast DEF Orderly
  <2>5. \A n \in Names \cup {Latest} :
          cache'[n] = IF n \in {pub[j].name, reading.name} THEN j ELSE cache[n]
    BY <1>4, <1>8 DEF Typed
  <2>6. ASSUME NEW n \in Names \cup {Latest}, cache'[n] # None PROVE CacheFits(n)'
    <3>1. CASE n \in {pub[j].name, reading.name}
      <4>1. cache'[n] = j /\ (n # Latest => pub[j].name = n)
            /\ (n = Latest => reading.name = Latest)
        BY <2>1, <2>2, <2>5, <3>1
      <4>2. QED
        BY <1>1, <1>2, <1>4, <2>1, <2>2, <2>3, <2>4, <4>1 DEF CacheFits
    <3>2. CASE n \notin {pub[j].name, reading.name}
      <4>1. PICK c \in Jobs : c = cache[n] /\ c = cache'[n]
        BY <2>5, <2>6, <3>2 DEF Typed
      <4>2. CacheFits(n)
        BY <2>6, <4>1 DEF CacheRight
      <4>3. job[c].step \in Late
        BY <4>1, <4>2 DEF CacheFits, Late
      <4>4. QED
        BY <1>2, <1>4, <4>1, <4>2, <4>3, FitsKept
    <3>3. QED
      BY <3>1, <3>2
  <2>7. \A k \in Jobs : job'[k].step # "cached"
    BY <1>5 DEF Working
  <2>8. QED
    BY <1>6, <2>6, <2>7 DEF CacheRight, Calm
<1>9. QED
  BY <1>7, <1>8

LEMMA CalmRest ==
  ASSUME Typed, Orderly, Calm, job' = job, pub' = pub, published' = published,
         status' = status, reading' = reading, deleting' = deleting, held' = held,
         \A n \in Names \cup {Latest} : cache'[n] \in {cache[n], None}
  PROVE  Calm'
<1>1. OneAtATime'
  <2>1. Working' = Working /\ Deleting' = Deleting
    BY DEF Working, Deleting
  <2>2. QED
    BY <2>1 DEF Calm, OneAtATime
<1>2. CacheRight'
  BY CacheSame DEF Calm
<1>3. QED
  BY <1>1, <1>2 DEF Calm

(* Only a job that has answered, or failed, has a status.                   *)
LEMMA AnsweredStep == Typed /\ AnsweredOnce /\ [Next]_pubVars => AnsweredOnce'
<1> SUFFICES ASSUME Typed, AnsweredOnce, [Next]_pubVars PROVE AnsweredOnce'
  OBVIOUS
<1>1. ASSUME NEW j \in Jobs, NEW name \in Names \cup {None}, Check(j, name) PROVE AnsweredOnce'
  <2>1. status' = status /\ job[j].step = "none"
        /\ \A k \in Jobs : k # j => job'[k] = job[k]
    BY <1>1 DEF Check, NoJob, Typed
  <2>2. QED
    BY <2>1 DEF AnsweredOnce
<1>2. ASSUME NEW j \in Jobs,
             Start(j) \/ SetLock(j) \/ Store(j) \/ Cache(j) \/ List(j) \/ Release(j)
      PROVE  AnsweredOnce'
  <2>1. /\ status' = status /\ \A k \in Jobs : k # j => job'[k] = job[k]
        /\ job[j].step \in {"answered", "done"} => job'[j].step = "done"
    BY <1>2 DEF Start, SetLock, Store, Cache, List, Release, Step, Typed, JobState
  <2>2. QED
    BY <2>1 DEF AnsweredOnce
<1>3. ASSUME NEW j \in Jobs, Answer(j) \/ Fail(j) PROVE AnsweredOnce'
  <2>1. /\ job'[j].step = "answered" /\ \A k \in Jobs : k # j => job'[k] = job[k]
        /\ \A k \in Jobs : k # j => status'[k] = status[k]
    BY <1>3 DEF Answer, Fail, Step, Typed, JobState
  <2>2. QED
    BY <2>1 DEF AnsweredOnce
<1>4. ASSUME NEW j \in Jobs, Delete(j) \/ Unlist(j) \/ Uncache(j) \/ Erase(j)
      PROVE  AnsweredOnce'
  <2>1. job' = job /\ status' = status
    BY <1>4 DEF Delete, Unlist, Uncache, Erase
  <2>2. QED
    BY <2>1 DEF AnsweredOnce
<1>5. ASSUME NEW name \in Names \cup {Latest}, Miss(name) \/ Evict(name) PROVE AnsweredOnce'
  <2>1. job' = job /\ status' = status
    BY <1>5 DEF Miss, Evict
  <2>2. QED
    BY <2>1 DEF AnsweredOnce
<1>6. ASSUME Fill \/ Expire \/ UNCHANGED pubVars PROVE AnsweredOnce'
  <2>1. job' = job /\ status' = status
    BY <1>6 DEF Fill, Expire, pubVars
  <2>2. QED
    BY <2>1 DEF AnsweredOnce
<1>7. QED
  BY <1>1, <1>2, <1>3, <1>4, <1>5, <1>6, Zenon DEF Next, Thread

LEMMA QuietStep == Typed /\ Orderly /\ Quiet /\ [Next]_pubVars => Quiet'
<1> SUFFICES ASSUME Typed, Orderly, Quiet, [Next]_pubVars, ~overlapped' PROVE Calm'
  BY AnsweredStep DEF Quiet, Calm
<1>1. AnsweredOnce /\ (~overlapped => Calm)
  BY DEF Quiet, Calm
<1>2. ~(Running > 0) => Idle
  BY NothingRuns
<1>3. ASSUME NEW j \in Jobs, NEW name \in Names \cup {None}, Check(j, name) PROVE Calm'
  <2>1. ~overlapped /\ ~(Running > 0)
    BY <1>3 DEF Check
  <2>2. QED
    BY <1>1, <1>2, <1>3, <2>1, CalmCheck
<1>4. ASSUME NEW j \in Jobs, Delete(j) PROVE Calm'
  <2>1. ~overlapped /\ ~(Running > 0)
    BY <1>4 DEF Delete
  <2>2. QED
    BY <1>1, <1>2, <1>4, <2>1, CalmDelete
<1>5. ASSUME NEW name \in Names \cup {Latest}, Miss(name) PROVE Calm'
  <2>1. ~overlapped /\ ~(Running > 0)
    BY <1>5 DEF Miss
  <2>2. QED
    BY <1>1, <1>2, <1>5, <2>1, CalmMiss
<1>6. ASSUME NEW j \in Jobs, Start(j) \/ Thread(j) \/ Unlist(j) \/ Uncache(j) \/ Erase(j)
      PROVE  Calm'
  <2>1. overlapped' = overlapped
    BY <1>6 DEF Start, Thread, SetLock, Store, Cache, List, Answer, Fail, Release, Unlist,
           Uncache, Erase
  <2>2. AnsweredOnce /\ Calm
    BY <1>1, <2>1
  <2>3. QED
    BY <1>6, <2>2, CalmStart, CalmSetLock, CalmStore, CalmCache, CalmList, CalmAnswer,
       CalmRelease, CalmUnlist, CalmUncache, CalmErase, Zenon DEF Thread
<1>7. ASSUME Fill PROVE Calm'
  BY <1>1, <1>7, CalmFill DEF Fill
<1>8. ASSUME NEW name \in Names \cup {Latest}, Evict(name) PROVE Calm'
  <2>1. /\ job' = job /\ pub' = pub /\ published' = published /\ status' = status
        /\ reading' = reading /\ deleting' = deleting /\ overlapped' = overlapped /\ held' = held
        /\ \A n \in Names \cup {Latest} : cache'[n] \in {cache[n], None}
    BY <1>8 DEF Evict, Typed
  <2>2. QED
    BY <1>1, <2>1, CalmRest
<1>9. ASSUME Expire \/ UNCHANGED pubVars PROVE Calm'
  <2>1. /\ job' = job /\ pub' = pub /\ published' = published /\ status' = status
        /\ reading' = reading /\ deleting' = deleting /\ overlapped' = overlapped /\ held' = held
        /\ cache' = cache
    BY <1>9 DEF Expire, pubVars
  <2>2. QED
    BY <1>1, <2>1, CalmRest
<1>10. QED
  BY <1>3, <1>4, <1>5, <1>6, <1>7, <1>8, <1>9, Zenon DEF Next

LEMMA InitQuiet == Init => Quiet
<1> SUFFICES ASSUME Init PROVE Quiet
  OBVIOUS
<1>1. /\ \A j \in Jobs : job[j].step = "none" /\ deleting[j] = "no" /\ status[j] = "none"
      /\ reading = NoRead /\ \A n \in Names \cup {Latest} : cache[n] = None
  BY DEF Init, NoJob
<1>2. Working = {} /\ Deleting = {}
  BY <1>1 DEF Working, Deleting
<1>3. AnsweredOnce /\ OneAtATime
  BY <1>1, <1>2 DEF AnsweredOnce, OneAtATime
<1>4. CacheRight
  BY <1>1 DEF CacheRight
<1>5. QED
  BY <1>3, <1>4 DEF Quiet

(* A version the client was told is published is on the list until it is    *)
(* deleted, for any number of jobs, as long as jobs, reads and deletes take *)
(* their turns.                                                             *)
THEOREM AnsweredStaysListed == Spec => []AnsweredIsListed
<1>1. Quiet => AnsweredIsListed
  BY DEF Quiet, OneAtATime, AnsweredIsListed
<1>2. QED
  BY <1>1, InitTyped, TypedStep, InitOrderly, OrderlyStep, InitQuiet, QuietStep, PTL DEF Spec

(* And while nothing runs, memcache serves the listed version of each name, *)
(* and the last one as the latest, if no job failed after it had stored its *)
(* version: whatever was evicted, read or deleted before.                   *)
THEOREM CacheServesList == Spec => []CacheTellsList
<1>1. Typed /\ Quiet => CacheTellsList
  <2> SUFFICES ASSUME Typed, Quiet, ~overlapped, NoneFailedLate, Running = 0,
                      NEW name \in DOMAIN cache, cache[name] # None
               PROVE  \E i \in Existing(published) :
                        /\ cache[name] = published[i]
                        /\ IF name = Latest THEN i = Max(Existing(published))
                           ELSE pub[published[i]].name = name
    BY DEF CacheTellsList
  <2>1. Idle
    BY NothingRuns
  <2>2. PICK c \in Jobs : c = cache[name] /\ name \in Names \cup {Latest}
    BY DEF Typed
  <2>3. CacheFits(name)
    BY <2>2 DEF Quiet, CacheRight
  <2>4. job[c].step # "cached" /\ status[c] # "500" /\ deleting[c] # "unlisted" /\ pub[c] # None
    BY <2>1, <2>2, <2>3 DEF Idle, Working, Deleting, CacheFits, NoneFailedLate
  <2>5. c \in ToSet(published) /\ (name = Latest => LastOf(published, pub, c))
        /\ (name # Latest => pub[c].name = name)
    BY <2>2, <2>3, <2>4 DEF CacheFits
  <2>6. PICK list \in Seq(Jobs) : list = published
    BY DEF Typed
  <2>7. CASE name = Latest
    <3>1. PICK i \in DOMAIN list : /\ list[i] = c /\ pub[c] # None
                                   /\ \A k \in DOMAIN list : pub[list[k]] # None => k <= i
      BY <2>5, <2>6, <2>7 DEF LastOf
    <3>2. /\ Existing(list) \subseteq Nat /\ i \in Existing(list) /\ i \in Nat
          /\ \A k \in Existing(list) : k <= i
      BY <3>1 DEF Existing
    <3>3. Max(Existing(list)) \in Existing(list) /\ i <= Max(Existing(list))
      BY <3>2, Greatest
    <3>4. i = Max(Existing(list))
      BY <3>2, <3>3
    <3>5. QED
      BY <2>2, <2>6, <2>7, <3>1, <3>2, <3>4
  <2>8. CASE name # Latest
    <3>1. PICK i \in DOMAIN list : list[i] = c
      BY <2>5, <2>6 DEF ToSet
    <3>2. QED
      BY <2>2, <2>4, <2>5, <2>6, <2>8, <3>1 DEF Existing
  <2>9. QED
    BY <2>7, <2>8
<1>2. QED
  BY <1>1, InitTyped, TypedStep, InitOrderly, OrderlyStep, InitQuiet, QuietStep, PTL DEF Spec
=============================================================================
