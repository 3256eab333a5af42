--------------------------- MODULE ModelTurnProofs ---------------------------
(***************************************************************************)
(* Proofs of what ModelTurn states, for every registry, every preference,  *)
(* any number of wakeups that share the circuits, and all thresholds.      *)
(***************************************************************************)
EXTENDS ModelTurn, SequenceTheorems, FiniteSetTheorems, TLAPS

LEMMA Limits ==
  /\ FailWindow \in Nat /\ Cooldown \in Nat /\ MaxMidstream \in Nat /\ MaxTurns \in Nat
  /\ FailThreshold \in Nat \ {0} /\ MaxPieces \in Nat \ {0} /\ MaxTime \in Nat \ {0}
  BY ModelTurnAssumption

Place == {"idle", "ready", "trying", "streaming", "refused", "raised"}
Times == Seq(Nat)

Types ==
    /\ now \in 1..MaxTime /\ turns \in 0..MaxTurns
    /\ failures \in [Models -> Times] /\ openedAt \in [Models -> Nat]
    /\ pc \in [Wakeup -> Place] /\ cands \in [Wakeup -> Seq(DOMAIN Registry)]
    /\ at \in [Wakeup -> Nat] /\ midstream \in [Wakeup -> Nat]
    /\ got \in [Wakeup -> Seq(Nat)] /\ reply \in [Wakeup -> Seq(Nat)]
    /\ spent \in [Wakeup -> SUBSET Models]
    /\ recent \in [Models -> Times] /\ dead \in [Models -> Nat]
    /\ probed \in [Wakeup -> [Models -> Nat]]

\* A wakeup is at one of its candidates, and within its midstream budget, until it gives up.
\* How many candidates it has depends on the registry alone.
Bounds ==
    \A w \in Wakeup :
        /\ cands[w] = <<>> \/ Len(cands[w]) = Cardinality(Eligible(Wants[w]))
        /\ at[w] \in 0..Len(cands[w]) + 1 /\ Len(got[w]) <= MaxPieces
        /\ midstream[w] <= MaxMidstream + 1
        /\ pc[w] \in {"trying", "streaming"} => at[w] >= 1 /\ midstream[w] <= MaxMidstream
        /\ pc[w] = "streaming" => at[w] \in DOMAIN cands[w]

\* What streams is of the candidate at hand, and a turn begins without a reply.
Streams ==
    /\ \A w \in Wakeup : pc[w] = "streaming" => \A i \in DOMAIN got[w] : got[w][i] = at[w]
    /\ \A w \in Wakeup : pc[w] \in {"trying", "streaming"} => reply[w] = <<>>
    /\ ReplyIsOneStream

\* The candidates are all that could answer, and those before the one at hand are spent.
Chosen ==
    \A w \in Wakeup :
        /\ pc[w] \notin {"idle", "refused"} =>
              \A i \in Usable(Wants[w], Carries[w]) : \E k \in DOMAIN cands[w] : cands[w][k] = i
        /\ pc[w] \in {"trying", "streaming"} =>
              \A k \in DOMAIN cands[w] : k < at[w] => Registry[cands[w][k]].id \in spent[w]

\* Oldest first, none of them to come.
Ordered(times) ==
    /\ \A i, j \in DOMAIN times : i <= j => times[i] <= times[j]
    /\ \A i \in DOMAIN times : times[i] \in 1..now

\* What the tracker holds and the last failures there were are the same as far as both
\* go back, and what it has dropped was out of the window by then.
Agree(held, last) ==
    /\ Len(last) <= FailThreshold
    /\ \A j \in Nat : j < Len(held) /\ j < Len(last) => held[Len(held) - j] = last[Len(last) - j]
    /\ Len(last) < Len(held) => Len(last) = FailThreshold
    /\ \A i \in DOMAIN last : i <= Len(last) - Len(held) => last[i] + FailWindow < last[Len(last)]

Held == \A m \in Models : /\ Ordered(failures[m]) /\ Ordered(recent[m])
                          /\ Agree(failures[m], recent[m])

\* The circuit is open from the failure that filled the window.
Opened ==
    \A m \in Models : /\ openedAt[m] <= now /\ dead[m] <= openedAt[m]
                      /\ dead[m] = Never <=> openedAt[m] = Never

\* A try in spite of that is followed by a failure that opens the circuit again, or is
\* under way with the circuit half-open.
TriedSince(w, m) ==
    \/ probed[w][m] <= openedAt[m]
    \/ /\ pc[w] = "streaming" /\ Candidate(w).id = m
       /\ now - openedAt[m] >= Cooldown
Tried ==
    \A w \in Wakeup, m \in Models :
        probed[w][m] # Never => dead[m] # Never /\ probed[w][m] <= now /\ TriedSince(w, m)

IInv == Types /\ Bounds /\ Streams /\ Chosen /\ Held /\ Opened /\ Tried /\ GivesUpLast

-----------------------------------------------------------------------------
(* Sequences of times *)

\* A set that has with a number all below it is an interval.
LEMMA HeadCount ==
  ASSUME NEW n \in Nat, NEW E \in SUBSET (1..n), \A i \in E : 1..i \subseteq E
  PROVE  Cardinality(E) \in 0..n /\ E = 1..Cardinality(E)
<1> DEFINE c == Cardinality(E)
<1>1. IsFiniteSet(1..n) /\ Cardinality(1..n) = n
  BY FS_Interval
<1>2. IsFiniteSet(E) /\ c \in Nat /\ c <= n
  <2>1. IsFiniteSet(E) /\ Cardinality(E) <= Cardinality(1..n)
    BY ONLY <1>1, E \in SUBSET (1..n), FS_Subset
  <2> QED
    BY <1>1, <2>1, FS_CardinalityType
<1>3. ASSUME NEW i \in E PROVE i \in 1..c
  <2>1. i \in 1..n /\ 1..i \in SUBSET E
    BY <1>3
  <2>2. Cardinality(1..i) = i
    BY <2>1, FS_Interval
  <2>3. i <= c
    BY <1>2, <2>1, <2>2, FS_Subset
  <2> QED
    BY <1>2, <2>1, <2>3
<1>4. E \in SUBSET (1..c) /\ IsFiniteSet(1..c) /\ Cardinality(1..c) = c
  <2>1. IsFiniteSet(1..c) /\ Cardinality(1..c) = c
    BY <1>2, FS_Interval
  <2> QED
    BY <1>3, <2>1
<1>5. 1..c = E
  BY <1>4, FS_Subset
<1> QED
  BY <1>2, <1>5

\* The rest of a sequence when the first c are dropped, and one more.
Moves(s, c, e, t) ==
    /\ t \in Times /\ Len(t) = Len(s) - c + 1 /\ t[Len(t)] = e
    /\ \A i \in 1..Len(s) - c : t[i] = s[c + i]

LEMMA RestAndOne ==
  ASSUME NEW s \in Times, NEW c \in 0..Len(s), NEW e \in Nat, NEW t,
         t = Append(SubSeq(s, c + 1, Len(s)), e)
  PROVE  Moves(s, c, e, t)
<1> DEFINE rest == SubSeq(s, c + 1, Len(s))
<1>1. Len(s) \in Nat /\ c \in Nat /\ c <= Len(s) /\ \A i \in 1..Len(s) : s[i] \in Nat
  BY DEF Times
<1>2. c + 1 \in Int /\ Len(s) \in Int /\ \A i \in c + 1..Len(s) : s[i] \in Nat
  BY <1>1
<1>3. /\ rest \in Seq(Nat) /\ Len(rest) = IF c + 1 <= Len(s) THEN Len(s) - (c + 1) + 1 ELSE 0
      /\ \A i \in 1..Len(s) - (c + 1) + 1 : rest[i] = s[c + 1 + i - 1]
  BY <1>2, SubSeqProperties
<1> HIDE DEF rest
<1>4. Len(rest) = Len(s) - c /\ \A i \in 1..Len(s) - c : rest[i] = s[c + i]
  BY <1>1, <1>3
<1>5. t \in Seq(Nat) /\ Len(t) = Len(rest) + 1 /\ t[Len(t)] = e /\ \A i \in 1..Len(rest) : t[i] = rest[i]
  <2>1. t = Append(rest, e)
    BY DEF rest
  <2>2. rest \in Seq(Nat)
    BY <1>3
  <2> QED
    BY ONLY <2>1, <2>2, e \in Nat
<1> QED
  BY <1>4, <1>5 DEF Times, Moves

\* _prune drops what stands at the head and is out of the window.
\* All of them are out of the window that ends at n, and the next one is not.
Outside(f, c, n) ==
    /\ \A i \in 1..c : f[i] + FailWindow < n
    /\ c < Len(f) => ~(f[c + 1] + FailWindow < n)

LEMMA Dropped ==
  ASSUME Types, NEW m \in Models
  PROVE  \E c \in 0..Len(failures[m]) :
            Outside(failures[m], c, now) /\ Moves(failures[m], c, now, Pruned(m))
<1> DEFINE f == failures[m]
           E == Expired(m)
           c == Cardinality(E)
<1>1. f \in Seq(Nat) /\ Len(f) \in Nat /\ DOMAIN f = 1..Len(f)
  BY DEF Types, Times
<1>2. \A i \in 1..Len(f) : i \in E <=> \A j \in 1..i : f[j] + FailWindow < now
  BY <1>1 DEF Expired
<1>3. E \in SUBSET (1..Len(f))
  BY <1>1 DEF Expired
<1>4. \A i \in E : 1..i \subseteq E
  BY <1>1, <1>2, <1>3
<1>5. c \in 0..Len(f) /\ E = 1..c
  BY <1>1, <1>3, <1>4, HeadCount
<1>6. \A i \in 1..c : f[i] + FailWindow < now
  BY <1>1, <1>2, <1>3, <1>5
<1>7. c < Len(f) => ~(f[c + 1] + FailWindow < now)
  <2> SUFFICES ASSUME c < Len(f), f[c + 1] + FailWindow < now PROVE FALSE
    OBVIOUS
  <2>1. c \in Nat
    BY <1>1, <1>5
  <2> HIDE DEF c, f, E
  <2>2. c + 1 \in 1..Len(f) /\ c + 1 \notin 1..c /\ \A j \in 1..c + 1 : j \in 1..c \/ j = c + 1
    BY <1>1, <2>1
  <2>3. c + 1 \in E
    BY <1>2, <1>6, <2>2
  <2> QED
    BY <1>5, <2>2, <2>3
<1>8. Pruned(m) = Append(SubSeq(f, c + 1, Len(f)), now)
  BY DEF Pruned
<1>9. now \in Nat /\ f \in Times
  BY Limits DEF Types
<1>10. Moves(f, c, now, Pruned(m))
  BY <1>5, <1>8, <1>9, RestAndOne
<1>11. Outside(f, c, now)
  BY <1>6, <1>7 DEF Outside
<1> QED
  BY <1>5, <1>10, <1>11

\* What there is to know of a list of times.
LEMMA TimesAre ==
  ASSUME NEW s \in Times
  PROVE  Len(s) \in Nat /\ DOMAIN s = 1..Len(s) /\ \A i \in 1..Len(s) : s[i] \in Nat
  BY DEF Times

\* A failure that comes keeps the two in agreement, and the window is full for the one
\* when it is for the other.
LEMMA WindowMoves ==
  ASSUME NEW f \in Times, NEW r \in Times, NEW n \in Nat, Agree(f, r),
         \A i, j \in DOMAIN f : i <= j => f[i] <= f[j], \A i \in DOMAIN r : r[i] <= n,
         NEW c \in 0..Len(f), Outside(f, c, n), NEW p, Moves(f, c, n, p),
         NEW d \in 0..1, d <= Len(r), d = 1 <=> Len(r) + 1 > FailThreshold,
         NEW l, Moves(r, d, n, l)
  PROVE  /\ Agree(p, l)
         /\ Len(p) >= FailThreshold <=> Len(l) = FailThreshold /\ n - l[1] <= FailWindow
<1>0. /\ p \in Times /\ Len(p) = Len(f) - c + 1 /\ p[Len(p)] = n
      /\ \A i \in 1..Len(f) - c : p[i] = f[c + i]
      /\ l \in Times /\ Len(l) = Len(r) - d + 1 /\ l[Len(l)] = n
      /\ \A i \in 1..Len(r) - d : l[i] = r[d + i]
      /\ \A i \in 1..c : f[i] + FailWindow < n
      /\ c < Len(f) => ~(f[c + 1] + FailWindow < n)
  BY DEF Moves, Outside
<1> USE <1>0, Limits
<1>1. /\ Len(f) \in Nat /\ Len(r) \in Nat /\ Len(p) \in Nat /\ Len(l) \in Nat
      /\ \A i \in 1..Len(f) : f[i] \in Nat
      /\ \A i \in 1..Len(r) : r[i] \in Nat /\ r[i] <= n
      /\ \A i \in 1..Len(p) : p[i] \in Nat
      /\ \A i \in 1..Len(l) : l[i] \in Nat
  BY TimesAre
<1>2. DOMAIN f = 1..Len(f) /\ DOMAIN r = 1..Len(r) /\ DOMAIN p = 1..Len(p) /\ DOMAIN l = 1..Len(l)
  BY TimesAre
<1>3. /\ Len(r) <= FailThreshold
      /\ \A j \in Nat : j < Len(f) /\ j < Len(r) => f[Len(f) - j] = r[Len(r) - j]
      /\ Len(r) < Len(f) => Len(r) = FailThreshold
      /\ \A i \in 1..Len(r) : i <= Len(r) - Len(f) => r[i] + FailWindow < r[Len(r)]
  BY <1>2 DEF Agree
<1>4. \A i, j \in 1..Len(f) : i <= j => f[i] <= f[j]
  BY <1>2
<1>size. /\ Len(f) \in Nat /\ Len(r) \in Nat /\ Len(p) \in Nat /\ Len(l) \in Nat
         /\ c \in Nat /\ c <= Len(f) /\ Len(p) = Len(f) - c + 1
         /\ d \in 0..1 /\ d <= Len(r) /\ Len(l) = Len(r) - d + 1
         /\ FailThreshold \in Nat /\ FailThreshold >= 1 /\ (d = 1 <=> Len(r) + 1 > FailThreshold)
         /\ Len(r) <= FailThreshold /\ (Len(r) < Len(f) => Len(r) = FailThreshold)
  BY <1>1, <1>3
<1>5. Len(l) <= FailThreshold
  BY ONLY <1>size
<1>6. ASSUME NEW j \in Nat, j < Len(p), j < Len(l)
      PROVE  p[Len(p) - j] = l[Len(l) - j]
  <2>1. CASE j = 0
    BY <1>1, <2>1
  <2>2. CASE j # 0
    <3>1. /\ j - 1 \in Nat /\ j - 1 < Len(f) /\ j - 1 < Len(r)
          /\ Len(p) - j \in 1..Len(f) - c /\ c + (Len(p) - j) = Len(f) - (j - 1)
          /\ Len(l) - j \in 1..Len(r) - d /\ d + (Len(l) - j) = Len(r) - (j - 1)
      BY ONLY <1>size, j \in Nat, <1>6, <2>2
    <3>2. f[Len(f) - (j - 1)] = r[Len(r) - (j - 1)]
      BY <1>3, <3>1
    <3>3. p[Len(p) - j] = f[c + (Len(p) - j)] /\ l[Len(l) - j] = r[d + (Len(l) - j)]
      BY <3>1
    <3> QED
      BY ONLY <3>1, <3>2, <3>3
  <2> QED
    BY <2>1, <2>2
<1>7. Len(l) < Len(p) => Len(l) = FailThreshold
  BY ONLY <1>size
<1>8. ASSUME NEW i \in 1..Len(l), i <= Len(l) - Len(p)
      PROVE  l[i] + FailWindow < n
  <2>1. /\ i \in 1..Len(r) - d /\ d + i \in 1..Len(r)
        /\ d + i <= Len(r) - Len(f) + c
    BY ONLY <1>size, i \in 1..Len(l), <1>8
  <2>2. l[i] = r[d + i]
    BY <2>1
  <2>3. CASE d + i <= Len(r) - Len(f)
    <3>1. r[d + i] + FailWindow < r[Len(r)]
      BY <1>3, <2>1, <2>3
    <3>0. Len(r) \in 1..Len(r)
      BY ONLY <1>size, <2>1
    <3>2. r[Len(r)] \in Nat /\ r[Len(r)] <= n /\ r[d + i] \in Nat
      BY <1>1, <2>1, <3>0
    <3>3. \A x, y \in Nat : x + FailWindow < y /\ y <= n => x + FailWindow < n
      BY ONLY Limits, n \in Nat
    <3> QED
      BY ONLY <2>2, <3>1, <3>2, <3>3
  <2>4. CASE d + i > Len(r) - Len(f)
    <3> DEFINE j == Len(r) - (d + i)
    <3>1. /\ j \in Nat /\ j < Len(f) /\ j < Len(r) /\ Len(f) - j \in 1..c
          /\ Len(r) - j = d + i
      <4>1. \A a, b, e, x \in Nat : e <= a /\ x <= b /\ x >= 1 /\ x <= b - a + e /\ x > b - a =>
               b - x \in Nat /\ b - x < a /\ b - x < b /\ a - (b - x) \in 1..e /\ b - (b - x) = x
        OBVIOUS
      <4>2. Len(f) \in Nat /\ Len(r) \in Nat /\ c \in Nat /\ c <= Len(f) /\ d + i \in Nat /\ d + i >= 1
            /\ d + i <= Len(r)
        BY <1>1, <2>1
      <4> QED
        BY ONLY <4>1, <4>2, <2>1, <2>4
    <3> HIDE DEF j
    <3>2. f[Len(f) - j] = r[Len(r) - j]
      BY <1>3, <3>1
    <3>3. f[Len(f) - j] + FailWindow < n
      BY <3>1
    <3> QED
      BY ONLY <2>2, <3>1, <3>2, <3>3
  <2>5. Len(r) \in Nat /\ Len(f) \in Nat /\ d + i \in Nat
    BY <1>size, <2>1
  <2> QED
    BY <2>3, <2>4, <2>5
<1>9. Agree(p, l)
  BY <1>2, <1>5, <1>6, <1>7, <1>8 DEF Agree
<1>10. ASSUME Len(p) >= FailThreshold
       PROVE  Len(l) = FailThreshold /\ n - l[1] <= FailWindow
  <2>1. Len(l) = FailThreshold
    BY ONLY <1>size, <1>5, <1>7, <1>10
  <2>2. CASE FailThreshold = 1
    <3>1. l[1] = n
      BY <2>1, <2>2
    <3> QED
      BY <2>1, <3>1
  <2>3. CASE FailThreshold > 1
    <3> DEFINE j == FailThreshold - 1
    <3>1. /\ j \in Nat /\ j < Len(p) /\ j < Len(l) /\ Len(l) - j = 1
          /\ Len(p) - j \in 1..Len(f) - c /\ c + (Len(p) - j) \in 1..Len(f)
          /\ c + 1 \in 1..Len(f) /\ c + 1 <= c + (Len(p) - j) /\ c < Len(f)
      BY ONLY <1>size, <1>10, <2>1, <2>3
    <3> HIDE DEF j
    <3>2. l[1] = p[Len(p) - j] /\ p[Len(p) - j] = f[c + (Len(p) - j)]
      BY <1>6, <3>1
    <3>3. f[c + 1] <= f[c + (Len(p) - j)]
      BY <1>4, <3>1
    <3>4. f[c + 1] \in Nat /\ f[c + (Len(p) - j)] \in Nat /\ ~(f[c + 1] + FailWindow < n)
      BY <1>1, <3>1
    <3>5. \A x, y \in Nat : x <= y /\ ~(x + FailWindow < n) => n - y <= FailWindow
      OBVIOUS
    <3> QED
      BY <2>1, <3>2, <3>3, <3>4, <3>5
  <2> QED
    BY <2>2, <2>3
<1>11. ASSUME Len(l) = FailThreshold, n - l[1] <= FailWindow
       PROVE  Len(p) >= FailThreshold
  <2> SUFFICES ASSUME Len(p) < FailThreshold PROVE FALSE
    BY <1>1
  <2>0. 1 \in 1..Len(l) /\ 1 <= Len(l) - Len(p)
    BY ONLY <1>size, <1>11, Len(p) < FailThreshold
  <2>1. 1 \in 1..Len(l) /\ 1 <= Len(l) - Len(p) /\ l[1] \in Nat
    BY <1>1, <2>0
  <2>2. l[1] + FailWindow < n
    BY <1>8, <2>1
  <2>3. \A x \in Nat : x + FailWindow < n => ~(n - x <= FailWindow)
    OBVIOUS
  <2> QED
    BY <1>11, <2>1, <2>2, <2>3
<1> QED
  BY <1>9, <1>10, <1>11

-----------------------------------------------------------------------------
(* Candidates *)

LEMMA RegistryFinite == IsFiniteSet(DOMAIN Registry)
<1>1. CASE User = <<>>
  BY <1>1, RegistryAssumption DEF Registry
<1>2. CASE User # <<>>
  BY <1>2, RegistryAssumption DEF Registry
<1> QED
  BY <1>1, <1>2

\* A selection lists all that is eligible, as often as there is of it.
LEMMA SelectionIs ==
  ASSUME NEW pref, NEW available, NEW list \in Selections(pref, available)
  PROVE  /\ list \in Seq(DOMAIN Registry) /\ Len(list) = Cardinality(Eligible(pref))
         /\ \A i \in Eligible(pref) : \E k \in DOMAIN list : list[k] = i
<1>1. Eligible(pref) \subseteq DOMAIN Registry
  BY DEF Eligible, Overriding, Supporting
<1>2. Cardinality(Eligible(pref)) \in Nat
  BY <1>1, RegistryFinite, FS_Subset, FS_CardinalityType
<1>3. /\ list \in [1..Cardinality(Eligible(pref)) -> Eligible(pref)]
      /\ \A i \in Eligible(pref) : \E k \in DOMAIN list : list[k] = i
  BY DEF Selections
<1>4. list \in Seq(DOMAIN Registry) /\ Len(list) = Cardinality(Eligible(pref))
  BY <1>1, <1>2, <1>3
<1> QED
  BY <1>3, <1>4

\* The factory makes no adapter for an entry that is not reachable.
LEMMA UsableIsEligible ==
  ASSUME NEW pref, NEW content
  PROVE  Usable(pref, content) \subseteq Eligible(pref)
  BY DEF Usable, Eligible, Makeable, Reachable

\* The candidate at hand is an entry of the registry.
LEMMA CandidateIs ==
  ASSUME Types, Bounds, NEW w \in Wakeup, pc[w] = "streaming" \/ Trying(w)
  PROVE  /\ at[w] \in DOMAIN cands[w] /\ cands[w][at[w]] \in DOMAIN Registry
         /\ Candidate(w).id \in Models
<1>1. cands[w] \in Seq(DOMAIN Registry) /\ at[w] \in Nat
  BY DEF Types
<1>2. at[w] \in DOMAIN cands[w]
  <2>1. CASE pc[w] = "streaming"
    BY <2>1 DEF Bounds
  <2>2. CASE Trying(w)
    <3>1. at[w] >= 1 /\ at[w] <= Len(cands[w]) /\ Len(cands[w]) \in Nat
      BY <1>1, <2>2 DEF Bounds, Trying
    <3> QED
      BY <1>1, <3>1
  <2> QED
    BY <2>1, <2>2
<1>3. cands[w][at[w]] \in DOMAIN Registry
  BY <1>1, <1>2
<1> QED
  BY <1>2, <1>3 DEF Candidate, Models

-----------------------------------------------------------------------------
(* Each step, part by part *)

\* The last failures that are remembered, when one more comes.
Later(m) ==
    SubSeq(Append(recent[m], now), IF Len(Append(recent[m], now)) > FailThreshold THEN 2 ELSE 1,
           Len(Append(recent[m], now)))

LEMMA Remembered ==
  ASSUME Types, NEW m \in Models, Held
  PROVE  \E d \in 0..1 :
            /\ d <= Len(recent[m]) /\ (d = 1 <=> Len(recent[m]) + 1 > FailThreshold)
            /\ Moves(recent[m], d, now, Later(m))
<1> DEFINE r == recent[m]
           t == Append(r, now)
           l == Later(m)
<1>1. r \in Seq(Nat) /\ Len(r) \in Nat /\ now \in Nat /\ Len(r) <= FailThreshold
  BY DEF Types, Times, Held, Agree
<1>2. /\ t \in Seq(Nat) /\ Len(t) = Len(r) + 1 /\ t[Len(r) + 1] = now
      /\ \A i \in 1..Len(r) : t[i] = r[i]
  BY <1>1
<1> HIDE DEF t, r, l
<1>3. PICK d \in 0..1 : d = 1 <=> Len(r) + 1 > FailThreshold
  OBVIOUS
<1>4. d <= Len(r)
  BY <1>1, <1>3, Limits
<1>5. l = SubSeq(t, d + 1, Len(t))
  <2>1. l = SubSeq(t, IF Len(t) > FailThreshold THEN 2 ELSE 1, Len(t))
    BY DEF t, r, l, Later
  <2>2. d + 1 = IF Len(t) > FailThreshold THEN 2 ELSE 1
    BY <1>2, <1>3
  <2> QED
    BY <2>1, <2>2
<1>6. /\ Len(l) = Len(r) - d + 1 /\ l \in Seq(Nat)
      /\ \A i \in 1..Len(r) - d + 1 : l[i] = t[d + i]
  <2>1. d + 1 \in Int /\ Len(r) + 1 \in Int /\ \A i \in d + 1..Len(r) + 1 : t[i] \in Nat
    <3>1. \A i \in d + 1..Len(r) + 1 : i \in DOMAIN t
      BY <1>1, <1>2
    <3> QED
      BY <1>1, <1>2, <3>1
  <2>2. /\ l \in Seq(Nat) /\ Len(l) = IF d + 1 <= Len(r) + 1 THEN Len(r) + 1 - (d + 1) + 1 ELSE 0
        /\ \A i \in 1..Len(r) + 1 - (d + 1) + 1 : l[i] = t[d + 1 + i - 1]
    <3>1. l = SubSeq(t, d + 1, Len(r) + 1)
      BY <1>2, <1>5
    <3> QED
      BY ONLY <2>1, <3>1, SubSeqProperties
  <2>3. d + 1 <= Len(r) + 1 /\ Len(r) + 1 - (d + 1) + 1 = Len(r) - d + 1
    BY <1>1, <1>4
  <2>4. \A i \in 1..Len(r) - d + 1 : d + 1 + i - 1 = d + i
    OBVIOUS
  <2> QED
    BY <2>2, <2>3, <2>4
<1>7. l[Len(l)] = now /\ \A i \in 1..Len(r) - d : l[i] = r[d + i]
  <2>0. Len(r) - d \in Nat
    BY <1>1, <1>4
  <2>1. Len(l) \in 1..Len(r) - d + 1 /\ d + Len(l) = Len(r) + 1
    <3>1. \A a, e \in Nat : a - e \in Nat => a - e + 1 \in 1..a - e + 1 /\ e + (a - e + 1) = a + 1
      OBVIOUS
    <3>2. d \in Nat
      OBVIOUS
    <3>3. Len(r) - d + 1 \in 1..Len(r) - d + 1 /\ d + (Len(r) - d + 1) = Len(r) + 1
      BY ONLY <1>1, <2>0, <3>1, <3>2
    <3> QED
      BY <1>6, <3>3
  <2>2. \A i \in 1..Len(r) - d : i \in 1..Len(r) - d + 1 /\ d + i \in 1..Len(r)
    BY <1>1, <1>4
  <2> QED
    BY <1>2, <1>6, <2>1, <2>2
<1>8. Moves(r, d, now, l)
  BY <1>6, <1>7 DEF Moves, Times
<1> QED
  BY <1>3, <1>4, <1>8 DEF r, l

\* What comes now is the last of the times.
LEMMA OrderedMoves ==
  ASSUME Types, NEW s \in Times, Ordered(s), NEW c \in 0..Len(s), NEW t, Moves(s, c, now, t)
  PROVE  Ordered(t)
<1>0. /\ t \in Times /\ Len(t) = Len(s) - c + 1 /\ t[Len(t)] = now
      /\ \A i \in 1..Len(s) - c : t[i] = s[c + i]
  BY DEF Moves
<1> USE <1>0
<1>1. /\ Len(s) \in Nat /\ DOMAIN s = 1..Len(s) /\ \A i \in 1..Len(s) : s[i] \in Nat
      /\ Len(t) \in Nat /\ DOMAIN t = 1..Len(t) /\ \A i \in 1..Len(t) : t[i] \in Nat
  BY TimesAre
<1>2. now \in Nat /\ now >= 1
  BY Limits DEF Types
<1>3. \A i \in 1..Len(t) : i = Len(t) \/ (i \in 1..Len(s) - c /\ c + i \in 1..Len(s))
  BY <1>1
<1>4. \A i \in 1..Len(t) : t[i] \in 1..now
  <2>1. \A i \in 1..Len(s) : s[i] \in 1..now
    BY <1>1 DEF Ordered
  <2>2. now \in 1..now
    BY <1>2
  <2> QED
    BY <1>3, <2>1, <2>2
<1>5. ASSUME NEW i \in 1..Len(t), NEW j \in 1..Len(t), i <= j
      PROVE  t[i] <= t[j]
  <2>1. CASE j = Len(t)
    BY <1>4, <1>2, <2>1
  <2>2. CASE j # Len(t)
    <3>1. Len(t) \in Nat /\ i \in 1..Len(t) /\ j \in 1..Len(t) /\ i <= j /\ c \in Nat
      BY <1>1, <1>5
    <3>2. i # Len(t) /\ c + i <= c + j
      BY ONLY <2>2, <3>1
    <3>3. /\ t[i] = s[c + i] /\ t[j] = s[c + j]
          /\ c + i \in 1..Len(s) /\ c + j \in 1..Len(s)
      BY <1>3, <2>2, <3>2
    <3> QED
      BY <1>1, <3>2, <3>3 DEF Ordered
  <2> QED
    BY <2>1, <2>2
<1> QED
  BY <1>1, <1>4, <1>5 DEF Ordered

\* A failure opens the circuit when it fills the window of what is remembered.
LEMMA FailureIs ==
  ASSUME Types, Held, NEW m \in Models, MarkFailure(m), Remember(m)
  PROVE  \E p, l \in Times, full \in BOOLEAN :
            /\ failures' = [failures EXCEPT ![m] = p] /\ recent' = [recent EXCEPT ![m] = l]
            /\ Ordered(p) /\ Ordered(l) /\ Agree(p, l)
            /\ openedAt' = IF State(m) = "half_open" \/ (State(m) = "closed" /\ full)
                           THEN [openedAt EXCEPT ![m] = now] ELSE openedAt
            /\ dead' = IF dead[m] = Never /\ full THEN [dead EXCEPT ![m] = now] ELSE dead
<1>1. PICK f \in Times, r \in Times :
        f = failures[m] /\ r = recent[m] /\ Ordered(f) /\ Ordered(r) /\ Agree(f, r)
  BY DEF Types, Held
<1>2. PICK p, l : p = Pruned(m) /\ l = Later(m)
  OBVIOUS
<1>3. PICK c \in 0..Len(f) : Outside(f, c, now) /\ Moves(f, c, now, p)
  BY <1>1, <1>2, Dropped
<1>4. PICK d \in 0..1 : d <= Len(r) /\ (d = 1 <=> Len(r) + 1 > FailThreshold) /\ Moves(r, d, now, l)
  BY <1>1, <1>2, Remembered
<1>5. /\ Agree(p, l)
      /\ Len(p) >= FailThreshold <=> Len(l) = FailThreshold /\ now - l[1] <= FailWindow
  <2>1. /\ \A i, j \in DOMAIN f : i <= j => f[i] <= f[j]
        /\ \A i \in DOMAIN r : r[i] <= now
    BY <1>1 DEF Ordered
  <2>2. now \in Nat
    BY DEF Types
  <2> QED
    BY <1>1, <1>3, <1>4, <2>1, <2>2, WindowMoves
<1>6. p \in Times /\ l \in Times
  BY <1>3, <1>4 DEF Moves
<1>7. Ordered(p) /\ Ordered(l)
  <2>1. d \in 0..Len(r)
    <3>1. Len(r) \in Nat
      BY TimesAre
    <3> QED
      BY <1>4, <3>1
  <2> QED
    BY <1>1, <1>3, <1>4, <2>1, OrderedMoves
<1>8. PICK full \in BOOLEAN : full <=> Len(p) >= FailThreshold
  OBVIOUS
<1>9. /\ failures' = [failures EXCEPT ![m] = p]
      /\ openedAt' = IF State(m) = "half_open" \/ (State(m) = "closed" /\ full)
                     THEN [openedAt EXCEPT ![m] = now] ELSE openedAt
  BY <1>2, <1>8 DEF MarkFailure
<1>10. /\ recent' = [recent EXCEPT ![m] = l]
       /\ dead' = IF dead[m] = Never /\ Len(l) = FailThreshold /\ now - l[1] <= FailWindow
                  THEN [dead EXCEPT ![m] = now] ELSE dead
  BY <1>2 DEF Remember, Later
<1>11. dead' = IF dead[m] = Never /\ full THEN [dead EXCEPT ![m] = now] ELSE dead
  BY <1>5, <1>8, <1>10
<1> QED
  BY <1>5, <1>6, <1>7, <1>9, <1>10, <1>11

\* Every step keeps the types.
LEMMA TypesStep == Types /\ Bounds /\ Held /\ [Next]_vars => Types'
<1> SUFFICES ASSUME Types, Bounds, Held, [Next]_vars PROVE Types'
  OBVIOUS
<1> USE DEF Types
<1>0. now \in Nat /\ Never \in Nat /\ MaxTurns \in Nat /\ MaxTime \in Nat
  BY Limits DEF Never
<1>1. CASE UNCHANGED vars
  BY <1>1 DEF vars, circuits, history
<1>2. CASE Tick
  <2>1. now' \in 1..MaxTime
    BY <1>0, <1>2 DEF Tick
  <2> QED
    BY <1>2, <2>1 DEF Tick, circuits, history
<1>3. ASSUME NEW w \in Wakeup, SelectCandidates(w) PROVE Types'
  <2>1. PICK selected \in Selections(Wants[w], Available) :
          /\ cands' = [cands EXCEPT ![w] = selected]
          /\ pc' = [pc EXCEPT ![w] = IF selected = <<>> THEN "refused" ELSE "ready"]
    BY <1>3 DEF SelectCandidates
  <2>2. selected \in Seq(DOMAIN Registry)
    BY SelectionIs
  <2>3. cands' \in [Wakeup -> Seq(DOMAIN Registry)] /\ pc' \in [Wakeup -> Place]
    BY <2>1, <2>2 DEF Place
  <2> QED
    BY <1>3, <2>3 DEF SelectCandidates, circuits, history
<1>4. ASSUME NEW w \in Wakeup, StartTurn(w) PROVE Types'
  <2>1. turns' \in 0..MaxTurns
    BY <1>0, <1>4 DEF StartTurn
  <2>2. pc' \in [Wakeup -> Place]
    BY <1>4 DEF StartTurn, Place
  <2> QED
    BY <1>4, <2>1, <2>2 DEF StartTurn, circuits
<1>5. ASSUME NEW w \in Wakeup, Skip(w) PROVE Types'
  <2>1. Candidate(w).id \in Models
    BY <1>5, CandidateIs DEF Skip
  <2>2. at' \in [Wakeup -> Nat] /\ spent' \in [Wakeup -> SUBSET Models]
    BY <1>5, <2>1 DEF Skip
  <2> QED
    BY <1>5, <2>2 DEF Skip, circuits
<1>6. ASSUME NEW w \in Wakeup, Open(w) PROVE Types'
  <2>1. Candidate(w).id \in Models
    BY <1>6, CandidateIs DEF Open
  <2>2. probed' \in [Wakeup -> [Models -> Nat]]
    BY <1>0, <1>6, <2>1 DEF Open
  <2>3. pc' \in [Wakeup -> Place] /\ got' \in [Wakeup -> Seq(Nat)]
    BY <1>6 DEF Open, Place
  <2> QED
    BY <1>6, <2>2, <2>3 DEF Open, circuits
<1>7. ASSUME NEW w \in Wakeup, Piece(w) PROVE Types'
  <2>1. got' \in [Wakeup -> Seq(Nat)]
    BY <1>7 DEF Piece
  <2> QED
    BY <1>7, <2>1 DEF Piece, circuits, history
<1>8. ASSUME NEW w \in Wakeup, Done(w) PROVE Types'
  <2>1. Candidate(w).id \in Models
    BY <1>8, CandidateIs DEF Done
  <2>2. failures' \in [Models -> Times] /\ openedAt' \in [Models -> Nat]
    BY <1>0, <1>8, <2>1 DEF Done, MarkSuccess, Times
  <2>3. recent' \in [Models -> Times] /\ dead' \in [Models -> Nat]
    BY <1>0, <1>8, <2>1 DEF Done, Forget, Times
  <2>4. probed' \in [Wakeup -> [Models -> Nat]]
    BY <1>0, <1>8, <2>1 DEF Done, Forget
  <2>5. pc' \in [Wakeup -> Place] /\ reply' \in [Wakeup -> Seq(Nat)]
    BY <1>8 DEF Done, Place
  <2> QED
    BY <1>8, <2>2, <2>3, <2>4, <2>5 DEF Done
<1>9. ASSUME NEW w \in Wakeup, Fail(w) PROVE Types'
  <2> DEFINE m == Candidate(w).id
  <2>1. m \in Models
    BY <1>9, CandidateIs DEF Fail
  <2>2. PICK p, l \in Times, full \in BOOLEAN :
           /\ failures' = [failures EXCEPT ![m] = p] /\ recent' = [recent EXCEPT ![m] = l]
           /\ openedAt' = IF State(m) = "half_open" \/ (State(m) = "closed" /\ full)
                          THEN [openedAt EXCEPT ![m] = now] ELSE openedAt
           /\ dead' = IF dead[m] = Never /\ full THEN [dead EXCEPT ![m] = now] ELSE dead
    <3>1. MarkFailure(m) /\ Remember(m)
      BY <1>9 DEF Fail
    <3> HIDE DEF m, Types
    <3> QED
      BY <2>1, <3>1, FailureIs
  <2>3. failures' \in [Models -> Times] /\ recent' \in [Models -> Times]
    BY <2>2
  <2>4. openedAt' \in [Models -> Nat] /\ dead' \in [Models -> Nat]
    BY <1>0, <2>2
  <2>5. spent' \in [Wakeup -> SUBSET Models]
    BY <1>9, <2>1 DEF Fail
  <2>6. midstream' \in [Wakeup -> Nat] /\ at' \in [Wakeup -> Nat]
    <3>1. \E n, k \in Nat : midstream' = [midstream EXCEPT ![w] = n] /\ at' = [at EXCEPT ![w] = k]
      <4>1. midstream[w] \in Nat /\ midstream[w] + 1 \in Nat /\ at[w] \in Nat /\ at[w] + 1 \in Nat
        OBVIOUS
      <4> QED
        BY <1>9, <4>1 DEF Fail
    <3> QED
      BY <3>1
  <2>7. pc' \in [Wakeup -> Place]
    BY <1>9 DEF Fail, Place
  <2> QED
    BY <1>9, <2>3, <2>4, <2>5, <2>6, <2>7 DEF Fail
<1>10. ASSUME NEW w \in Wakeup, AllFailed(w) \/ Again(w) PROVE Types'
  <2>1. pc' \in [Wakeup -> Place]
    BY <1>10 DEF AllFailed, Again, Place
  <2> QED
    BY <1>10, <2>1 DEF AllFailed, Again, circuits, history
<1> QED
  BY <1>1, <1>2, <1>3, <1>4, <1>5, <1>6, <1>7, <1>8, <1>9, <1>10 DEF Next

\* A step is of one wakeup at most, and leaves what is another's alone.
LEMMA OneAtATime ==
  ASSUME Types, NEW w \in Wakeup,
         \/ SelectCandidates(w) \/ StartTurn(w) \/ Skip(w) \/ Open(w) \/ Piece(w)
         \/ Done(w) \/ Fail(w) \/ AllFailed(w) \/ Again(w),
         NEW v \in Wakeup \ {w}
  PROVE  /\ pc'[v] = pc[v] /\ cands'[v] = cands[v] /\ at'[v] = at[v]
         /\ midstream'[v] = midstream[v] /\ got'[v] = got[v] /\ reply'[v] = reply[v]
         /\ spent'[v] = spent[v]
<1> USE DEF Types
<1>1. CASE SelectCandidates(w) \/ StartTurn(w)
  BY <1>1 DEF SelectCandidates, StartTurn, history
<1>2. CASE Skip(w) \/ Open(w) \/ Piece(w)
  BY <1>2 DEF Skip, Open, Piece, history
<1>3. CASE Done(w) \/ Fail(w)
  BY <1>3 DEF Done, Fail
<1>4. CASE AllFailed(w) \/ Again(w)
  BY <1>4 DEF AllFailed, Again, history
<1> QED
  BY <1>1, <1>2, <1>3, <1>4

\* A wakeup stays at one of its candidates, and within its budget.
LEMMA BoundsStep == Types /\ Bounds /\ [Next]_vars => Bounds'
<1> SUFFICES ASSUME Types, Bounds, [Next]_vars PROVE Bounds'
  OBVIOUS
<1>0. ASSUME UNCHANGED <<pc, cands, at, midstream, got>> PROVE Bounds'
  BY <1>0 DEF Bounds
<1>1. CASE UNCHANGED vars \/ Tick
  BY <1>0, <1>1 DEF vars, Tick
<1>2. ASSUME NEW w \in Wakeup,
             \/ SelectCandidates(w) \/ StartTurn(w) \/ Skip(w) \/ Open(w) \/ Piece(w)
             \/ Done(w) \/ Fail(w) \/ AllFailed(w) \/ Again(w)
      PROVE  Bounds'
  <2> DEFINE n == Len(cands[w])
  <2>1. /\ at[w] \in Nat /\ midstream[w] \in Nat /\ got[w] \in Seq(Nat) /\ n \in Nat
        /\ cands[w] \in Seq(DOMAIN Registry) /\ DOMAIN cands[w] = 1..n /\ MaxMidstream \in Nat
        /\ MaxPieces \in Nat /\ MaxPieces >= 1
    BY Limits DEF Types
  <2>2. /\ cands[w] = <<>> \/ n = Cardinality(Eligible(Wants[w]))
        /\ at[w] \in 0..n + 1 /\ Len(got[w]) <= MaxPieces
        /\ midstream[w] <= MaxMidstream + 1
        /\ pc[w] \in {"trying", "streaming"} => at[w] >= 1 /\ midstream[w] <= MaxMidstream
        /\ pc[w] = "streaming" => at[w] \in DOMAIN cands[w]
    BY DEF Bounds
  <2>3. /\ cands'[w] = <<>> \/ Len(cands'[w]) = Cardinality(Eligible(Wants[w]))
        /\ at'[w] \in 0..Len(cands'[w]) + 1 /\ Len(got'[w]) <= MaxPieces
        /\ midstream'[w] <= MaxMidstream + 1
        /\ pc'[w] \in {"trying", "streaming"} => at'[w] >= 1 /\ midstream'[w] <= MaxMidstream
        /\ pc'[w] = "streaming" => at'[w] \in DOMAIN cands'[w]
    <3>1. CASE SelectCandidates(w)
      <4>1. PICK selected \in Selections(Wants[w], Available) :
              /\ cands' = [cands EXCEPT ![w] = selected]
              /\ pc' = [pc EXCEPT ![w] = IF selected = <<>> THEN "refused" ELSE "ready"]
        BY <3>1 DEF SelectCandidates
      <4>2. /\ cands'[w] = selected /\ pc'[w] \in {"refused", "ready"}
            /\ UNCHANGED <<at, midstream, got>>
        BY <3>1, <4>1 DEF SelectCandidates, Types
      <4>3. /\ Len(selected) = Cardinality(Eligible(Wants[w]))
            /\ selected \in Seq(DOMAIN Registry) /\ Len(selected) \in Nat
        BY SelectionIs
      <4>4. at[w] \in 0..Len(selected) + 1
        BY <2>1, <2>2, <4>3
      <4> QED
        BY <2>2, <4>2, <4>3, <4>4
    <3>2. CASE StartTurn(w)
      <4>1. /\ at'[w] = 1 /\ midstream'[w] = 0 /\ pc'[w] = "trying"
            /\ UNCHANGED <<cands, got>>
        BY <3>2 DEF StartTurn, Types
      <4> QED
        BY <2>1, <2>2, <4>1
    <3>3. CASE Skip(w)
      <4>1. /\ at'[w] = at[w] + 1 /\ UNCHANGED <<cands, got, pc, midstream>>
            /\ pc[w] = "trying" /\ at[w] <= n
        BY <3>3 DEF Skip, Trying, Types
      <4> QED
        BY <2>1, <2>2, <4>1
    <3>4. CASE Open(w)
      <4>1. /\ got'[w] = <<>> /\ UNCHANGED <<cands, at, midstream>>
            /\ pc[w] = "trying" /\ at[w] <= n
        BY <3>4 DEF Open, Trying, Types
      <4> QED
        BY <2>1, <2>2, <4>1
    <3>5. CASE Piece(w)
      <4>1. /\ got'[w] = Append(got[w], at[w]) /\ Len(got[w]) < MaxPieces
            /\ UNCHANGED <<cands, at, midstream, pc>>
        BY <3>5 DEF Piece, Types
      <4>2. Len(got'[w]) = Len(got[w]) + 1 /\ Len(got[w]) \in Nat
        BY <2>1, <4>1
      <4>3. Len(got'[w]) <= MaxPieces
        BY ONLY <2>1, <4>1, <4>2
      <4> QED
        BY <2>2, <4>1, <4>3
    <3>6. CASE Done(w) \/ AllFailed(w) \/ Again(w)
      <4>1. /\ pc'[w] \in {"ready", "raised", "idle"}
            /\ UNCHANGED <<cands, at, midstream, got>>
        BY <3>6 DEF Done, AllFailed, Again, Types
      <4> QED
        BY <2>2, <4>1
    <3>7. CASE Fail(w)
      <4>1. /\ pc[w] = "streaming" /\ UNCHANGED <<cands, got>>
            /\ \/ /\ midstream'[w] = midstream[w] + 1 /\ pc'[w] = "raised" /\ at'[w] = at[w]
                  /\ midstream[w] = MaxMidstream
               \/ /\ midstream'[w] = midstream[w] + 1 /\ pc'[w] = "trying" /\ at'[w] = at[w] + 1
                  /\ midstream[w] # MaxMidstream
               \/ midstream'[w] = midstream[w] /\ pc'[w] = "trying" /\ at'[w] = at[w] + 1
        BY <3>7 DEF Fail, Types
      <4> QED
        BY <2>1, <2>2, <4>1
    <3> QED
      BY <1>2, <3>1, <3>2, <3>3, <3>4, <3>5, <3>6, <3>7
  <2>4. ASSUME NEW v \in Wakeup \ {w}
        PROVE  /\ pc'[v] = pc[v] /\ cands'[v] = cands[v] /\ at'[v] = at[v]
               /\ midstream'[v] = midstream[v] /\ got'[v] = got[v]
    BY <1>2, OneAtATime
  <2> QED
    BY <2>3, <2>4 DEF Bounds
<1> QED
  BY <1>1, <1>2 DEF Next

\* What streams, and what becomes of it.
LEMMA StreamsStep == Types /\ Streams /\ [Next]_vars => Streams'
<1> SUFFICES ASSUME Types, Streams, [Next]_vars PROVE Streams'
  OBVIOUS
<1>1. CASE UNCHANGED vars \/ Tick
  BY <1>1 DEF vars, Tick, Streams, ReplyIsOneStream
<1>2. ASSUME NEW w \in Wakeup,
             \/ SelectCandidates(w) \/ StartTurn(w) \/ Skip(w) \/ Open(w) \/ Piece(w)
             \/ Done(w) \/ Fail(w) \/ AllFailed(w) \/ Again(w)
      PROVE  Streams'
  <2>1. /\ pc[w] = "streaming" => \A i \in DOMAIN got[w] : got[w][i] = at[w]
        /\ pc[w] \in {"trying", "streaming"} => reply[w] = <<>>
        /\ \A i \in DOMAIN reply[w] : reply[w][i] = at[w]
    BY DEF Streams, ReplyIsOneStream
  <2>2. /\ pc'[w] = "streaming" => \A i \in DOMAIN got'[w] : got'[w][i] = at'[w]
        /\ pc'[w] \in {"trying", "streaming"} => reply'[w] = <<>>
        /\ \A i \in DOMAIN reply'[w] : reply'[w][i] = at'[w]
    <3>1. CASE SelectCandidates(w) \/ AllFailed(w) \/ Again(w)
      <4>1. pc'[w] \in {"refused", "ready", "raised", "idle"} /\ UNCHANGED <<at, reply>>
        BY <3>1 DEF SelectCandidates, AllFailed, Again, Types
      <4> QED
        BY <2>1, <4>1
    <3>2. CASE StartTurn(w)
      <4>1. pc'[w] = "trying" /\ reply'[w] = <<>>
        BY <3>2 DEF StartTurn, Types
      <4> QED
        BY <4>1
    <3>3. CASE Skip(w) \/ Fail(w)
      <4>1. /\ pc[w] \in {"trying", "streaming"} /\ pc'[w] \in {"trying", "raised"}
            /\ reply'[w] = reply[w]
        BY <3>3 DEF Skip, Fail, Trying, Types
      <4> QED
        BY <2>1, <4>1
    <3>4. CASE Open(w)
      <4>1. /\ pc[w] = "trying" /\ got'[w] = <<>> /\ reply'[w] = reply[w]
        BY <3>4 DEF Open, Trying, Types
      <4> QED
        BY <2>1, <4>1
    <3>5. CASE Piece(w)
      <4>1. /\ pc[w] = "streaming" /\ got'[w] = Append(got[w], at[w])
            /\ UNCHANGED <<pc, at, reply>>
        BY <3>5 DEF Piece, Types
      <4>2. got[w] \in Seq(Nat) /\ at[w] \in Nat
        BY DEF Types
      <4>3. \A i \in DOMAIN got'[w] : got'[w][i] = at[w]
        BY <2>1, <4>1, <4>2
      <4> QED
        BY <2>1, <4>1, <4>3
    <3>6. CASE Done(w)
      <4>1. /\ pc[w] = "streaming" /\ pc'[w] = "ready" /\ reply'[w] = got[w] /\ at'[w] = at[w]
        BY <3>6 DEF Done, Types
      <4> QED
        BY <2>1, <4>1
    <3> QED
      BY <1>2, <3>1, <3>2, <3>3, <3>4, <3>5, <3>6
  <2>3. ASSUME NEW v \in Wakeup \ {w}
        PROVE  pc'[v] = pc[v] /\ at'[v] = at[v] /\ got'[v] = got[v] /\ reply'[v] = reply[v]
    BY <1>2, OneAtATime
  <2> QED
    BY <2>2, <2>3 DEF Streams, ReplyIsOneStream
<1> QED
  BY <1>1, <1>2 DEF Next

\* The candidates that a wakeup leaves behind are spent, and it leaves no other out.
LEMMA ChosenStep == Types /\ Bounds /\ Chosen /\ GivesUpLast /\ [Next]_vars => (Chosen /\ GivesUpLast)'
<1> SUFFICES ASSUME Types, Bounds, Chosen, GivesUpLast, [Next]_vars PROVE (Chosen /\ GivesUpLast)'
  OBVIOUS
<1> DEFINE All(w, list) == \A i \in Usable(Wants[w], Carries[w]) : \E k \in DOMAIN list : list[k] = i
           Left(list, n, tried) == \A k \in DOMAIN list : k < n => Registry[list[k]].id \in tried
           Told(w, tried) == \A i \in Usable(Wants[w], Carries[w]) : Registry[i].id \in tried
<1>1. CASE UNCHANGED vars \/ Tick
  BY <1>1 DEF vars, history, Tick, Chosen, GivesUpLast
<1>2. ASSUME NEW w \in Wakeup,
             \/ SelectCandidates(w) \/ StartTurn(w) \/ Skip(w) \/ Open(w) \/ Piece(w)
             \/ Done(w) \/ Fail(w) \/ AllFailed(w) \/ Again(w)
      PROVE  (Chosen /\ GivesUpLast)'
  <2>1. /\ pc[w] \notin {"idle", "refused"} => All(w, cands[w])
        /\ pc[w] \in {"trying", "streaming"} => Left(cands[w], at[w], spent[w])
        /\ pc[w] = "refused" => Usable(Wants[w], Carries[w]) = {}
        /\ pc[w] = "raised" /\ midstream[w] <= MaxMidstream => Told(w, spent[w])
    BY DEF Chosen, GivesUpLast
  <2>2. cands[w] \in Seq(DOMAIN Registry) /\ at[w] \in Nat /\ Len(cands[w]) \in Nat
    BY DEF Types
  <2>3. /\ pc'[w] \notin {"idle", "refused"} => All(w, cands'[w])
        /\ pc'[w] \in {"trying", "streaming"} => Left(cands'[w], at'[w], spent'[w])
        /\ pc'[w] = "refused" => Usable(Wants[w], Carries[w]) = {}
        /\ pc'[w] = "raised" /\ midstream'[w] <= MaxMidstream => Told(w, spent'[w])
    <3>1. CASE SelectCandidates(w)
      <4>1. PICK selected \in Selections(Wants[w], Available) :
              /\ cands' = [cands EXCEPT ![w] = selected]
              /\ pc' = [pc EXCEPT ![w] = IF selected = <<>> THEN "refused" ELSE "ready"]
        BY <3>1 DEF SelectCandidates
      <4>2. cands'[w] = selected /\ pc'[w] = IF selected = <<>> THEN "refused" ELSE "ready"
        BY <4>1 DEF Types
      <4>3. All(w, selected)
        BY SelectionIs, UsableIsEligible
      <4>4. selected = <<>> => Usable(Wants[w], Carries[w]) = {}
        BY <4>3
      <4> QED
        BY <4>2, <4>3, <4>4
    <3>2. CASE StartTurn(w)
      <4>1. pc[w] = "ready" /\ pc'[w] = "trying" /\ at'[w] = 1 /\ UNCHANGED cands
        BY <3>2 DEF StartTurn, Types
      <4>2. \A k \in DOMAIN cands[w] : ~(k < 1)
        BY <2>2
      <4> QED
        BY <2>1, <4>1, <4>2
    <3>3. CASE Skip(w) \/ Fail(w)
      <4>0. pc[w] = "streaming" \/ Trying(w)
        BY <3>3 DEF Skip, Fail
      <4>1. /\ UNCHANGED cands /\ pc[w] \in {"trying", "streaming"}
            /\ spent'[w] = spent[w] \cup {Candidate(w).id}
            /\ pc'[w] = "trying" => at'[w] = at[w] + 1
            /\ pc'[w] # "trying" => pc'[w] = "raised" /\ midstream'[w] = MaxMidstream + 1
        BY <3>3 DEF Skip, Fail, Trying, Types
      <4>2. Left(cands[w], at[w] + 1, spent'[w])
        <5>1. ASSUME NEW k \in DOMAIN cands[w], k < at[w] + 1
              PROVE  Registry[cands[w][k]].id \in spent'[w]
          <6>1. k \in Nat
            BY <2>2
          <6>2. k = at[w] \/ k < at[w]
            BY ONLY <2>2, <5>1, <6>1
          <6> QED
            BY <2>1, <4>1, <6>2 DEF Candidate
        <5> QED
          BY <5>1
      <4>3. pc'[w] # "trying" => ~(midstream'[w] <= MaxMidstream)
        BY <4>1, Limits
      <4> QED
        BY <2>1, <4>1, <4>2, <4>3
    <3>4. CASE Open(w) \/ Piece(w) \/ Done(w) \/ Again(w)
      <4>1. /\ UNCHANGED <<cands, at, spent>>
            /\ \/ pc[w] \in {"trying", "streaming"} /\ pc'[w] = "streaming"
               \/ pc[w] = "streaming" /\ pc'[w] = "ready"
               \/ pc'[w] = "idle"
        BY <3>4 DEF Open, Trying, Piece, Done, Again, history, Types
      <4> QED
        BY <2>1, <4>1
    <3>5. CASE AllFailed(w)
      <4>1. /\ UNCHANGED <<cands, spent>> /\ pc[w] = "trying" /\ pc'[w] = "raised"
            /\ at[w] > Len(cands[w])
        BY <3>5 DEF AllFailed, history, Types
      <4>2. \A k \in DOMAIN cands[w] : k < at[w]
        BY <2>2, <4>1
      <4> QED
        BY <2>1, <4>1, <4>2
    <3> QED
      BY <1>2, <3>1, <3>2, <3>3, <3>4, <3>5
  <2>4. ASSUME NEW v \in Wakeup \ {w}
        PROVE  /\ pc'[v] = pc[v] /\ cands'[v] = cands[v] /\ at'[v] = at[v]
               /\ midstream'[v] = midstream[v] /\ spent'[v] = spent[v]
    BY <1>2, OneAtATime
  <2>5. ASSUME NEW v \in Wakeup
        PROVE  /\ pc'[v] \notin {"idle", "refused"} => All(v, cands'[v])
               /\ pc'[v] \in {"trying", "streaming"} => Left(cands'[v], at'[v], spent'[v])
               /\ pc'[v] = "refused" => Usable(Wants[v], Carries[v]) = {}
               /\ pc'[v] = "raised" /\ midstream'[v] <= MaxMidstream => Told(v, spent'[v])
    <3>1. CASE v = w
      BY <2>3, <3>1
    <3>2. CASE v # w
      BY <2>4, <3>2 DEF Chosen, GivesUpLast
    <3> QED
      BY <3>1, <3>2
  <2> QED
    BY <2>5 DEF Chosen, GivesUpLast
<1> QED
  BY <1>1, <1>2 DEF Next

\* Which of its circuits a step moves: none, one that recovers, or one that fails.
LEMMA CircuitStep ==
  ASSUME Types, Bounds, Held, [Next]_vars
  PROVE  \/ UNCHANGED <<failures, openedAt, recent, dead>>
         \/ \E w \in Wakeup : Done(w)
         \/ \E w \in Wakeup, m \in Models : Fail(w) /\ m = Candidate(w).id
<1>1. CASE UNCHANGED vars \/ Tick
  BY <1>1 DEF vars, Tick, circuits, history
<1>2. ASSUME NEW w \in Wakeup, Fail(w)
      PROVE  \E m \in Models : m = Candidate(w).id
  BY <1>2, CandidateIs DEF Fail
<1>3. ASSUME NEW w \in Wakeup,
             \/ SelectCandidates(w) \/ StartTurn(w) \/ Skip(w) \/ Open(w) \/ Piece(w)
             \/ AllFailed(w) \/ Again(w)
      PROVE  UNCHANGED <<failures, openedAt, recent, dead>>
  BY <1>3 DEF SelectCandidates, StartTurn, Skip, Open, Piece, AllFailed, Again, circuits, history
<1> QED
  BY <1>1, <1>2, <1>3 DEF Next

\* What the tracker keeps and what is remembered stay in agreement.
LEMMA HeldStep == Types /\ Bounds /\ Held /\ [Next]_vars => Held'
<1> SUFFICES ASSUME Types, Bounds, Held, [Next]_vars PROVE Held'
  OBVIOUS
<1>0. now \in Nat /\ now' \in Nat /\ now <= now'
  <2>1. now' = now \/ now' = now + 1
    BY DEF Next, vars, Tick, SelectCandidates, StartTurn, Skip, Open, Piece, Done, Fail,
       AllFailed, Again
  <2>2. now \in Nat
    BY DEF Types
  <2> QED
    BY <2>1, <2>2
<1>1. ASSUME NEW s \in Times, Ordered(s)
      PROVE  /\ \A i, j \in DOMAIN s : i <= j => s[i] <= s[j]
             /\ \A i \in DOMAIN s : s[i] \in 1..now'
  BY <1>0, <1>1 DEF Ordered
<1>2. CASE UNCHANGED <<failures, openedAt, recent, dead>>
  <2>1. \A m \in Models : failures[m] \in Times /\ recent[m] \in Times
    BY DEF Types
  <2>2. \A m \in Models : Ordered(failures[m]) /\ Ordered(recent[m]) /\ Agree(failures[m], recent[m])
    BY DEF Held
  <2> QED
    BY <1>1, <1>2, <2>1, <2>2 DEF Held, Ordered, Agree
<1>3. ASSUME NEW w \in Wakeup, NEW m \in Models, NEW p \in Times, NEW l \in Times,
             failures' = [failures EXCEPT ![m] = p], recent' = [recent EXCEPT ![m] = l],
             Ordered(p), Ordered(l), Agree(p, l)
      PROVE  Held'
  <2>1. /\ \A k \in Models : failures'[k] = IF k = m THEN p ELSE failures[k]
        /\ \A k \in Models : recent'[k] = IF k = m THEN l ELSE recent[k]
        /\ \A k \in Models : failures[k] \in Times /\ recent[k] \in Times
    BY <1>3 DEF Types
  <2>2. \A k \in Models : /\ Ordered(failures[k]) /\ Ordered(recent[k])
                          /\ Agree(failures[k], recent[k])
    BY DEF Held
  <2>3. ASSUME NEW k \in Models
        PROVE  /\ failures'[k] \in Times /\ Ordered(failures'[k])
               /\ recent'[k] \in Times /\ Ordered(recent'[k])
               /\ Agree(failures'[k], recent'[k])
    BY <1>3, <2>1, <2>2
  <2> QED
    BY <1>1, <2>3 DEF Held, Ordered, Agree
<1>4. ASSUME NEW w \in Wakeup, Done(w) PROVE Held'
  <2> DEFINE m == Candidate(w).id
  <2>1. m \in Models
    BY <1>4, CandidateIs DEF Done
  <2>2. failures' = [failures EXCEPT ![m] = <<>>] /\ recent' = [recent EXCEPT ![m] = <<>>]
    BY <1>4 DEF Done, MarkSuccess, Forget
  <2>3. <<>> \in Times /\ Ordered(<<>>) /\ Agree(<<>>, <<>>)
    BY Limits DEF Times, Ordered, Agree
  <2> QED
    BY <1>3, <2>1, <2>2, <2>3
<1>5. ASSUME NEW w \in Wakeup, NEW m \in Models, Fail(w), m = Candidate(w).id PROVE Held'
  <2>1. MarkFailure(m) /\ Remember(m)
    BY <1>5 DEF Fail
  <2> QED
    BY <1>3, <2>1, FailureIs
<1> QED
  BY <1>2, <1>4, <1>5, CircuitStep

\* The circuit of a model that its failures took out is open, and that of no other.
LEMMA OpenedStep == Types /\ Bounds /\ Held /\ Opened /\ [Next]_vars => Opened'
<1> SUFFICES ASSUME Types, Bounds, Held, Opened, [Next]_vars PROVE Opened'
  OBVIOUS
<1>0. now \in Nat /\ now' \in Nat /\ now <= now' /\ now >= 1
  <2>1. now' = now \/ now' = now + 1
    BY DEF Next, vars, Tick, SelectCandidates, StartTurn, Skip, Open, Piece, Done, Fail,
       AllFailed, Again
  <2>2. now \in Nat /\ now >= 1
    BY Limits DEF Types
  <2> QED
    BY <2>1, <2>2
<1>1. \A m \in Models : /\ openedAt[m] \in Nat /\ dead[m] \in Nat
                        /\ openedAt[m] <= now /\ dead[m] <= openedAt[m]
                        /\ (dead[m] = Never <=> openedAt[m] = Never)
  BY DEF Types, Opened
<1>2. CASE UNCHANGED <<failures, openedAt, recent, dead>>
  BY <1>0, <1>1, <1>2 DEF Opened
<1>3. ASSUME NEW w \in Wakeup, Done(w) PROVE Opened'
  <2> DEFINE m == Candidate(w).id
  <2>1. m \in Models
    BY <1>3, CandidateIs DEF Done
  <2>2. openedAt' = [openedAt EXCEPT ![m] = Never] /\ dead' = [dead EXCEPT ![m] = Never]
    BY <1>3 DEF Done, MarkSuccess, Forget
  <2> HIDE DEF m
  <2>3. \A k \in Models : /\ openedAt'[k] = IF k = m THEN Never ELSE openedAt[k]
                          /\ dead'[k] = IF k = m THEN Never ELSE dead[k]
    BY <2>1, <2>2 DEF Types
  <2> QED
    BY <1>0, <1>1, <2>3 DEF Opened, Never
<1>4. ASSUME NEW w \in Wakeup, NEW m \in Models, Fail(w), m = Candidate(w).id PROVE Opened'
  <2>1. MarkFailure(m) /\ Remember(m)
    BY <1>4 DEF Fail
  <2>2. PICK full \in BOOLEAN :
          /\ openedAt' = IF State(m) = "half_open" \/ (State(m) = "closed" /\ full)
                         THEN [openedAt EXCEPT ![m] = now] ELSE openedAt
          /\ dead' = IF dead[m] = Never /\ full THEN [dead EXCEPT ![m] = now] ELSE dead
    BY <2>1, FailureIs
  <2>3. \A k \in Models \ {m} : openedAt'[k] = openedAt[k] /\ dead'[k] = dead[k]
    BY <2>2
  <2>4. /\ openedAt'[m] \in Nat /\ openedAt'[m] <= now /\ dead'[m] <= openedAt'[m]
        /\ (dead'[m] = Never <=> openedAt'[m] = Never)
    <3>1. CASE openedAt[m] = Never
      <4>1. State(m) = "closed" /\ dead[m] = Never
        BY <1>1, <3>1 DEF State
      <4>2. openedAt'[m] = (IF full THEN now ELSE Never) /\ dead'[m] = (IF full THEN now ELSE Never)
        BY <2>2, <3>1, <4>1 DEF Types
      <4> QED
        BY <1>0, <4>2 DEF Never
    <3>2. CASE openedAt[m] # Never
      <4>1. State(m) # "closed" /\ dead[m] # Never
        BY <1>1, <3>2 DEF State
      <4>2. openedAt'[m] \in {now, openedAt[m]} /\ dead'[m] = dead[m]
        BY <2>2, <4>1 DEF Types
      <4> QED
        BY <1>0, <1>1, <3>2, <4>1, <4>2 DEF Never
    <3> QED
      BY <3>1, <3>2
  <2>5. \A k \in Models : /\ openedAt'[k] \in Nat /\ openedAt'[k] <= now /\ dead'[k] <= openedAt'[k]
                          /\ (dead'[k] = Never <=> openedAt'[k] = Never)
    BY <1>1, <2>3, <2>4
  <2> QED
    BY <1>0, <2>5 DEF Opened
<1> QED
  BY <1>2, <1>3, <1>4, CircuitStep

\* A try in spite of an open circuit is followed by a failure, or still under way.
LEMMA TriedStep == Types /\ Bounds /\ Held /\ Opened /\ Tried /\ [Next]_vars => Tried'
<1> SUFFICES ASSUME Types, Bounds, Held, Opened, Tried, [Next]_vars PROVE Tried'
  OBVIOUS
<1>0. /\ now \in Nat /\ now' \in Nat /\ now <= now' /\ now >= 1 /\ Cooldown \in Nat
      /\ \A k \in Models : openedAt[k] \in Nat /\ openedAt[k] <= now /\ dead[k] \in Nat
      /\ \A v \in Wakeup : \A k \in Models : probed[v][k] \in Nat
      /\ \A k \in Models : dead[k] = Never <=> openedAt[k] = Never
  <2>1. now' = now \/ now' = now + 1
    BY DEF Next, vars, Tick, SelectCandidates, StartTurn, Skip, Open, Piece, Done, Fail,
       AllFailed, Again
  <2>2. now \in Nat /\ now >= 1
    BY Limits DEF Types
  <2> QED
    BY <2>1, <2>2, Limits DEF Types, Opened
<1>1. \A v \in Wakeup, k \in Models : probed[v][k] # Never =>
         /\ dead[k] # Never /\ probed[v][k] <= now
         /\ \/ probed[v][k] <= openedAt[k]
            \/ pc[v] = "streaming" /\ Candidate(v).id = k /\ now - openedAt[k] >= Cooldown
  BY DEF Tried, TriedSince
\* The tables keep still, and who is streaming goes on.
<1>2. ASSUME UNCHANGED <<openedAt, dead, probed>>,
             \A v \in Wakeup : pc[v] = "streaming" =>
                pc'[v] = "streaming" /\ Candidate(v)' = Candidate(v)
      PROVE  Tried'
  <2>1. ASSUME NEW v \in Wakeup, NEW k \in Models, probed'[v][k] # Never
        PROVE  /\ dead'[k] # Never /\ probed'[v][k] <= now'
               /\ \/ probed'[v][k] <= openedAt'[k]
                  \/ pc'[v] = "streaming" /\ Candidate(v)'.id = k /\ now' - openedAt'[k] >= Cooldown
    BY <1>0, <1>1, <1>2, <2>1
  <2> QED
    BY <2>1 DEF Tried, TriedSince
<1>3. CASE UNCHANGED vars \/ Tick
  <2>1. UNCHANGED <<openedAt, dead, probed, pc, cands, at>>
    BY <1>3 DEF vars, Tick, circuits, history
  <2>2. \A v \in Wakeup : Candidate(v)' = Candidate(v)
    BY <2>1 DEF Candidate
  <2> QED
    BY <1>2, <2>1, <2>2
<1>4. ASSUME NEW w \in Wakeup,
             \/ SelectCandidates(w) \/ StartTurn(w) \/ Skip(w) \/ Piece(w)
             \/ AllFailed(w) \/ Again(w)
      PROVE  Tried'
  <2>1. UNCHANGED <<openedAt, dead, probed>>
    BY <1>4 DEF SelectCandidates, StartTurn, Skip, Piece, AllFailed, Again, circuits, history
  <2>2. pc[w] = "streaming" => UNCHANGED <<pc, cands, at>>
    BY <1>4 DEF SelectCandidates, StartTurn, Skip, Trying, Piece, AllFailed, Again
  <2>3. \A v \in Wakeup \ {w} : pc'[v] = pc[v] /\ cands'[v] = cands[v] /\ at'[v] = at[v]
    BY <1>4, OneAtATime
  <2>4. \A v \in Wakeup : pc[v] = "streaming" =>
           pc'[v] = "streaming" /\ Candidate(v)' = Candidate(v)
    BY <2>2, <2>3 DEF Candidate
  <2> QED
    BY <1>2, <2>1, <2>4
<1>5. ASSUME NEW w \in Wakeup, Open(w) PROVE Tried'
  <2> DEFINE m == Candidate(w).id
  <2>1. m \in Models
    BY <1>5, CandidateIs DEF Open
  <2>2. /\ pc[w] = "trying" /\ pc'[w] = "streaming" /\ UNCHANGED <<now, openedAt, dead, cands, at>>
        /\ \A v \in Wakeup \ {w} : pc'[v] = pc[v]
    BY <1>5 DEF Open, Trying, circuits, Types
  <2>3. \A v \in Wakeup : Candidate(v)' = Candidate(v)
    BY <2>2 DEF Candidate
  <2>4. openedAt[m] = Never \/ now - openedAt[m] >= Cooldown
    BY <1>5, <2>1 DEF Open, Available, State
  <2>5. /\ \A v \in Wakeup, k \in Models : v # w \/ k # m => probed'[v][k] = probed[v][k]
        /\ dead[m] = Never => probed'[w][m] = probed[w][m]
        /\ dead[m] # Never => probed'[w][m] = now
    BY <1>5, <2>1 DEF Open, Types
  <2> HIDE DEF m
  <2>6. ASSUME NEW v \in Wakeup, NEW k \in Models, probed'[v][k] # Never
        PROVE  /\ dead'[k] # Never /\ probed'[v][k] <= now'
               /\ \/ probed'[v][k] <= openedAt'[k]
                  \/ pc'[v] = "streaming" /\ Candidate(v)'.id = k /\ now' - openedAt'[k] >= Cooldown
    <3>1. CASE v # w \/ k # m
      BY <1>1, <2>2, <2>3, <2>5, <2>6, <3>1
    <3>2. CASE v = w /\ k = m
      <4>1. dead[m] # Never
        BY <1>1, <2>1, <2>5, <2>6, <3>2
      <4>2. now - openedAt[m] >= Cooldown
        BY <1>0, <2>1, <2>4, <4>1
      <4> QED
        BY <1>0, <2>2, <2>3, <2>5, <3>2, <4>1, <4>2 DEF m
    <3> QED
      BY <3>1, <3>2
  <2> QED
    BY <2>6 DEF Tried, TriedSince
<1>6. ASSUME NEW w \in Wakeup, Done(w) PROVE Tried'
  <2> DEFINE m == Candidate(w).id
  <2>1. m \in Models
    BY <1>6, CandidateIs DEF Done
  <2>2. /\ openedAt' = [openedAt EXCEPT ![m] = Never] /\ dead' = [dead EXCEPT ![m] = Never]
        /\ probed' = [v \in Wakeup |-> [probed[v] EXCEPT ![m] = Never]]
        /\ UNCHANGED <<now, cands, at>> /\ \A v \in Wakeup \ {w} : pc'[v] = pc[v]
    BY <1>6 DEF Done, MarkSuccess, Forget, Types
  <2>3. \A v \in Wakeup : Candidate(v)' = Candidate(v)
    BY <2>2 DEF Candidate
  <2> HIDE DEF m
  <2>4. /\ \A v \in Wakeup : probed'[v][m] = Never
        /\ \A k \in Models \ {m} : /\ openedAt'[k] = openedAt[k] /\ dead'[k] = dead[k]
                                   /\ \A v \in Wakeup : probed'[v][k] = probed[v][k]
    BY <2>1, <2>2 DEF Types
  <2>5. ASSUME NEW v \in Wakeup, NEW k \in Models, probed'[v][k] # Never
        PROVE  /\ dead'[k] # Never /\ probed'[v][k] <= now'
               /\ \/ probed'[v][k] <= openedAt'[k]
                  \/ pc'[v] = "streaming" /\ Candidate(v)'.id = k /\ now' - openedAt'[k] >= Cooldown
    <3>1. k # m
      BY <2>4, <2>5
    <3>2. v = w => Candidate(v).id # k
      BY <3>1 DEF m
    <3> QED
      BY <1>1, <2>2, <2>3, <2>4, <2>5, <3>1, <3>2
  <2> QED
    BY <2>5 DEF Tried, TriedSince
<1>7. ASSUME NEW w \in Wakeup, Fail(w) PROVE Tried'
  <2> DEFINE m == Candidate(w).id
  <2>1. m \in Models
    BY <1>7, CandidateIs DEF Fail
  <2>2. PICK full \in BOOLEAN :
          /\ openedAt' = IF State(m) = "half_open" \/ (State(m) = "closed" /\ full)
                         THEN [openedAt EXCEPT ![m] = now] ELSE openedAt
          /\ dead' = IF dead[m] = Never /\ full THEN [dead EXCEPT ![m] = now] ELSE dead
    <3>1. MarkFailure(m) /\ Remember(m)
      BY <1>7 DEF Fail
    <3> QED
      BY <2>1, <3>1, FailureIs
  <2>3. /\ pc[w] = "streaming" /\ UNCHANGED <<now, cands, probed>>
        /\ \A v \in Wakeup \ {w} : pc'[v] = pc[v] /\ at'[v] = at[v]
    BY <1>7 DEF Fail, Types
  <2>4. \A v \in Wakeup \ {w} : Candidate(v)' = Candidate(v)
    BY <2>3 DEF Candidate
  <2> HIDE DEF m
  <2>5. /\ \A k \in Models \ {m} : openedAt'[k] = openedAt[k] /\ dead'[k] = dead[k]
        /\ dead[m] # Never => dead'[m] # Never
    BY <2>2
  <2>6. dead[m] # Never =>
           openedAt'[m] = now \/ (openedAt'[m] = openedAt[m] /\ ~(now - openedAt[m] >= Cooldown))
    <3>1. CASE State(m) = "half_open"
      BY <2>1, <2>2, <3>1 DEF Types
    <3>2. CASE State(m) # "half_open"
      BY <1>0, <2>1, <2>2, <3>2 DEF State
    <3> QED
      BY <3>1, <3>2
  <2>7. ASSUME NEW v \in Wakeup, NEW k \in Models, probed'[v][k] # Never
        PROVE  /\ dead'[k] # Never /\ probed'[v][k] <= now'
               /\ \/ probed'[v][k] <= openedAt'[k]
                  \/ pc'[v] = "streaming" /\ Candidate(v)'.id = k /\ now' - openedAt'[k] >= Cooldown
    <3>1. probed[v][k] # Never /\ dead[k] # Never /\ probed[v][k] <= now
      BY <1>1, <2>3, <2>7
    <3>2. CASE k = m
      <4>1. openedAt'[m] = now \/ probed[v][m] <= openedAt'[m]
        BY <1>1, <2>6, <3>1, <3>2
      <4> QED
        BY <2>3, <2>5, <3>1, <3>2, <4>1
    <3>3. CASE k # m
      <4>1. v = w => Candidate(v).id # k
        BY <3>3 DEF m
      <4> QED
        BY <1>1, <2>3, <2>4, <2>5, <3>1, <3>3, <4>1
    <3> QED
      BY <3>2, <3>3
  <2> QED
    BY <2>7 DEF Tried, TriedSince
<1> QED
  BY <1>3, <1>4, <1>5, <1>6, <1>7 DEF Next

-----------------------------------------------------------------------------
(* The theorems *)

LEMMA IInvInit == Init => IInv
<1> SUFFICES ASSUME Init PROVE IInv
  OBVIOUS
<1> USE DEF Init
<1>1. Types
  <2>1. now \in 1..MaxTime /\ turns \in 0..MaxTurns
    BY Limits
  <2>2. pc \in [Wakeup -> Place] /\ cands \in [Wakeup -> Seq(DOMAIN Registry)]
    BY DEF Place
  <2>3. /\ failures \in [Models -> Times] /\ openedAt \in [Models -> Nat]
        /\ recent \in [Models -> Times] /\ dead \in [Models -> Nat]
        /\ probed \in [Wakeup -> [Models -> Nat]]
    BY DEF Times, Never
  <2>4. /\ at \in [Wakeup -> Nat] /\ midstream \in [Wakeup -> Nat] /\ spent \in [Wakeup -> SUBSET Models]
        /\ got \in [Wakeup -> Seq(Nat)] /\ reply \in [Wakeup -> Seq(Nat)]
    OBVIOUS
  <2> QED
    BY <2>1, <2>2, <2>3, <2>4 DEF Types
<1>2. Bounds
  BY Limits DEF Bounds
<1>3. Streams /\ Chosen /\ GivesUpLast
  BY DEF Streams, ReplyIsOneStream, Chosen, GivesUpLast
<1>4. Held
  BY Limits DEF Held, Ordered, Agree
<1>5. Opened
  BY DEF Opened, Never
<1>6. Tried
  BY DEF Tried
<1> QED
  BY <1>1, <1>2, <1>3, <1>4, <1>5, <1>6 DEF IInv

LEMMA IInvStep == IInv /\ [Next]_vars => IInv'
<1> SUFFICES ASSUME IInv, [Next]_vars PROVE IInv'
  OBVIOUS
<1>1. Types /\ Bounds /\ Streams /\ Chosen /\ Held /\ Opened /\ Tried /\ GivesUpLast
  BY DEF IInv
<1>2. Types' /\ Bounds' /\ Streams'
  BY <1>1, TypesStep, BoundsStep, StreamsStep
<1>3. Chosen' /\ GivesUpLast'
  BY <1>1, ChosenStep
<1>4. Held' /\ Opened' /\ Tried'
  BY <1>1, HeldStep, OpenedStep, TriedStep
<1> QED
  BY <1>2, <1>3, <1>4 DEF IInv

LEMMA Kept == Spec => []IInv
BY IInvInit, IInvStep, PTL DEF Spec

\* The wakeups stay at their candidates and within their budgets, and the clock and the
\* circuits in their ranges, whatever the models do (agent_loop._run_one_turn_with_fallback,
\* health_tracker.HealthTracker).
THEOREM TypesHold == Spec => []TypeOK
<1>1. IInv => TypeOK
  <2> SUFFICES ASSUME IInv PROVE TypeOK
    OBVIOUS
  <2>1. now \in 1..MaxTime /\ turns \in 0..MaxTurns /\ now \in Nat
    BY Limits DEF IInv, Types
  <2>2. ASSUME NEW m \in Models
        PROVE  /\ openedAt[m] \in Never..now
               /\ \A i \in DOMAIN failures[m] : failures[m][i] \in 1..now
    <3>1. openedAt[m] \in Nat /\ openedAt[m] <= now /\ Ordered(failures[m])
      BY DEF IInv, Types, Opened, Held
    <3> QED
      BY <2>1, <3>1 DEF Ordered, Never
  <2>3. ASSUME NEW w \in Wakeup
        PROVE  /\ pc[w] \in {"idle", "ready", "trying", "streaming", "refused", "raised"}
               /\ at[w] \in 0..Len(cands[w]) + 1 /\ Len(got[w]) <= MaxPieces
               /\ midstream[w] <= MaxMidstream + 1
               /\ spent[w] \subseteq Models
    BY DEF IInv, Types, Bounds, Place
  <2> QED
    BY <2>1, <2>2, <2>3 DEF TypeOK
<1> QED
  BY <1>1, Kept, PTL

\* The reply of a turn is one model's, and no wakeup gives up while an entry of the
\* registry that could answer has neither failed it this turn nor been passed over
\* (_run_one_turn_with_fallback: the candidates of ModelRouter.select in order).
THEOREM FailoverHolds == Spec => []FailoverIsSound
<1>1. IInv => FailoverIsSound
  BY DEF IInv, Streams, FailoverIsSound
<1> QED
  BY <1>1, Kept, PTL

\* A model whose failures filled a window is tried once per cooldown by each wakeup at
\* most, however the wakeups' streams overlap (HealthTracker.mark_failure).
THEOREM DeadIsSpared == Spec => DeadModelIsSpared
<1>1. ASSUME IInv, [Next]_vars
      PROVE  [\A w \in Wakeup, m \in Models :
                dead[m] # Never /\ pc[w] = "trying" /\ pc'[w] = "streaming" /\ Candidate(w).id = m
                => now >= Cooldown + (IF probed[w][m] = Never THEN dead[m] ELSE probed[w][m])]_vars
  <2> SUFFICES ASSUME NEW w \in Wakeup, NEW m \in Models, dead[m] # Never, pc[w] = "trying",
                      pc'[w] = "streaming", Candidate(w).id = m
               PROVE  now >= Cooldown + (IF probed[w][m] = Never THEN dead[m] ELSE probed[w][m])
    OBVIOUS
  <2>1. Types /\ Bounds /\ Opened /\ Tried
    BY <1>1 DEF IInv
  <2>2. Open(w)
    <3>1. pc'[w] # pc[w]
      OBVIOUS
    <3>2. PICK v \in Wakeup : \/ SelectCandidates(v) \/ StartTurn(v) \/ Skip(v) \/ Open(v) \/ Piece(v)
                              \/ Done(v) \/ Fail(v) \/ AllFailed(v) \/ Again(v)
      BY <1>1, <3>1 DEF Next, vars, Tick
    <3>3. v = w
      BY <2>1, <3>1, <3>2, OneAtATime
    <3> QED
      BY <2>1, <3>2, <3>3 DEF SelectCandidates, StartTurn, Skip, Piece, Done, Fail, AllFailed,
         Again, Types
  <2>3. openedAt[m] = Never \/ now - openedAt[m] >= Cooldown
    BY <2>2 DEF Open, Available, State
  <2>4. /\ now \in Nat /\ openedAt[m] \in Nat /\ dead[m] \in Nat /\ probed[w][m] \in Nat
        /\ Cooldown \in Nat
    BY <2>1, Limits DEF Types
  <2>5. openedAt[m] # Never /\ dead[m] <= openedAt[m]
    BY <2>1 DEF Opened
  <2>6. probed[w][m] = Never \/ probed[w][m] <= openedAt[m]
    BY <2>1 DEF Tried, TriedSince
  <2> QED
    BY <2>3, <2>4, <2>5, <2>6
<1> QED
  BY <1>1, Kept, PTL DEF Spec, DeadModelIsSpared

==============================================================================
