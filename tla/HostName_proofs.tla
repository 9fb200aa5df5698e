-------------------------- MODULE HostName_proofs --------------------------
(***************************************************************************)
(* What the public suffix rules give for every list of rules and every     *)
(* name: a registrable domain ends the name it is computed from, is its    *)
(* own registrable domain, and is recognised by sameOperator.              *)
(***************************************************************************)
EXTENDS HostName, WellFoundedInduction, SequenceTheorems, TLAPS

\* A bounded set of naturals has a largest member.
LEMMA Largest ==
  ASSUME NEW N \in Nat, NEW T \in SUBSET (0 .. N), T # {}
  PROVE  \E n \in T : \A m \in T : m <= n
<1> DEFINE C == {N - t : t \in T}
<1>1. C \subseteq Nat
  OBVIOUS
<1>2. C # {}
  <2>1. PICK t : t \in T
    OBVIOUS
  <2>2. N - t \in C
    BY <2>1
  <2>3. QED
    BY <2>2
<1>3. PICK x \in C : \A y \in C : ~(<<y, x>> \in OpToRel(<, Nat))
  BY <1>1, <1>2, NatLessThanWellFounded, WFMin
<1>4. \A y \in C : ~(y < x)
  BY <1>1, <1>3 DEF OpToRel
<1>5. PICK n \in T : x = N - n
  OBVIOUS
<1>6. \A m \in T : m <= n
  BY <1>4, <1>5
<1>7. QED
  BY <1>6

\* t ends name.
Ends(t, name) ==
  /\ t \in Seq(STRING) /\ name \in Seq(STRING)
  /\ Len(t) <= Len(name)
  /\ \A i \in 1 .. Len(t) : t[i] = name[Len(name) - Len(t) + i]

LEMMA MatchLength ==
  ASSUME NEW name \in Seq(STRING), NEW r \in Rules, Matches(r, name)
  PROVE  Len(r.labels) \in 1 .. Len(name)
BY RulesAssumption DEF Matches

\* Whether a rule matches depends on the end of the name alone.
LEMMA MatchesEnd ==
  ASSUME NEW name, NEW t, Ends(t, name), NEW r \in Rules
  PROVE  Matches(r, t) <=> Matches(r, name) /\ Len(r.labels) <= Len(t)
<1> DEFINE n == Len(r.labels)
<1>1. /\ r.labels \in Seq(STRING) /\ n \in Nat /\ DOMAIN r.labels = 1 .. n
      /\ Len(t) \in Nat /\ Len(name) \in Nat /\ Len(t) <= Len(name)
  BY RulesAssumption DEF Ends
<1>2. ASSUME n <= Len(t), NEW i \in 1 .. n
      PROVE  t[Len(t) - n + i] = name[Len(name) - n + i]
  <2>1. Len(t) - n + i \in 1 .. Len(t)
    BY <1>1, <1>2
  <2>2. Len(name) - Len(t) + (Len(t) - n + i) = Len(name) - n + i
    BY <1>1, <1>2
  <2>3. QED
    BY <2>1, <2>2 DEF Ends
<1>3. CASE n <= Len(t)
  <2>1. Len(t) - n >= 0 /\ Len(name) - n >= 0
    BY <1>1, <1>3
  <2>2. \A i \in 1 .. n : {"*", t[Len(t) - n + i]} = {"*", name[Len(name) - n + i]}
    BY <1>2, <1>3
  <2>3. Matches(r, t) <=> \A i \in 1 .. n : r.labels[i] \in {"*", t[Len(t) - n + i]}
    BY <1>1, <2>1 DEF Matches
  <2>4. Matches(r, name) <=> \A i \in 1 .. n : r.labels[i] \in {"*", name[Len(name) - n + i]}
    BY <1>1, <2>1 DEF Matches
  <2>5. QED
    BY <1>3, <2>2, <2>3, <2>4
<1>4. CASE ~(n <= Len(t))
  BY <1>1, <1>4 DEF Matches
<1>5. QED
  BY <1>3, <1>4

\* Two rules that match one name can both match it.
LEMMA MatchedTogether ==
  ASSUME NEW name \in Seq(STRING), NEW q \in Rules, NEW r \in Rules,
         Matches(q, name), Matches(r, name)
  PROVE  Compatible(q, r)
<1> SUFFICES ASSUME NEW i \in 0 .. Len(q.labels) - 1, i < Len(r.labels)
             PROVE  \/ q.labels[Len(q.labels) - i] = r.labels[Len(r.labels) - i]
                    \/ "*" \in {q.labels[Len(q.labels) - i], r.labels[Len(r.labels) - i]}
  BY DEF Compatible
<1>1. /\ Len(q.labels) - i \in DOMAIN q.labels
      /\ Len(r.labels) - i \in DOMAIN r.labels
  BY RulesAssumption
<1>2. /\ q.labels[Len(q.labels) - i] \in {"*", name[Len(name) - i]}
      /\ r.labels[Len(r.labels) - i] \in {"*", name[Len(name) - i]}
  BY <1>1, RulesAssumption DEF Matches
<1>3. QED
  BY <1>2

\* The public suffix of a name has as many labels as an exception that matches it
\* less one, or as the longest of its rules.
LEMMA SuffixLength ==
  ASSUME NEW name \in Seq(STRING), name # <<>>
  PROVE  /\ publicSuffixLength(name) \in 0 .. Len(name)
         /\ \A r \in Rules : r.ex /\ Matches(r, name) =>
              publicSuffixLength(name) = Len(r.labels) - 1
         /\ (\A r \in Rules : Matches(r, name) => ~r.ex) =>
              /\ publicSuffixLength(name) >= 1
              /\ \A r \in Rules : Matches(r, name) => Len(r.labels) <= publicSuffixLength(name)
              /\ \/ publicSuffixLength(name) = 1
                 \/ \E r \in Rules :
                      Matches(r, name) /\ Len(r.labels) = publicSuffixLength(name)
<1> DEFINE matches == {r \in Rules : Matches(r, name)}
           exception == {r \in matches : r.ex}
           lengths == {Len(r.labels) : r \in matches} \cup {1}
           longest == CHOOSE n \in lengths : \A m \in lengths : m <= n
<1>0. Len(name) \in Nat /\ Len(name) >= 1
  OBVIOUS
<1>1. lengths \in SUBSET (0 .. Len(name)) /\ lengths # {} /\ lengths \subseteq Nat
  BY <1>0, MatchLength
<1>2. longest \in lengths /\ \A m \in lengths : m <= longest
  <2>1. \E n \in lengths : \A m \in lengths : m <= n
    <3> HIDE DEF lengths
    <3>1. QED
      BY <1>0, <1>1, Largest
  <2> HIDE DEF lengths
  <2>2. QED
    BY <2>1
<1>3. CASE exception # {}
  <2> DEFINE e == CHOOSE r \in exception : TRUE
  <2>1. e \in Rules /\ Matches(e, name) /\ e.ex
    BY <1>3
  <2>2. publicSuffixLength(name) = Len(e.labels) - 1
    BY <1>3 DEF publicSuffixLength
  <2>3. Len(e.labels) \in 1 .. Len(name)
    BY <2>1, MatchLength
  <2>4. \A r \in Rules : r.ex /\ Matches(r, name) => r = e
    BY <2>1, MatchedTogether, ExceptionsAssumption
  <2> HIDE DEF e
  <2>5. QED
    BY <1>0, <2>1, <2>2, <2>3, <2>4
<1>4. CASE exception = {}
  <2>1. publicSuffixLength(name) = longest
    BY <1>4 DEF publicSuffixLength
  <2>2. longest \in 0 .. Len(name) /\ 1 <= longest
    BY <1>1, <1>2
  <2>3. \A r \in Rules : Matches(r, name) => Len(r.labels) \in lengths /\ ~r.ex
    BY <1>4
  <2>4. longest = 1 \/ \E r \in Rules : Matches(r, name) /\ Len(r.labels) = longest
    BY <1>2
  <2> HIDE DEF longest, lengths
  <2>5. QED
    BY <1>2, <2>1, <2>2, <2>3, <2>4
<1>5. QED
  BY <1>3, <1>4

\* A registrable domain is the end of its name, one label longer than the suffix.
LEMMA RegistrableEnds ==
  ASSUME NEW name \in Seq(STRING), registrableDomain(name) # <<>>
  PROVE  /\ Ends(registrableDomain(name), name)
         /\ Len(registrableDomain(name)) = publicSuffixLength(name) + 1
<1> DEFINE n == publicSuffixLength(name)
           d == registrableDomain(name)
<1>1. name # <<>>
  <2>1. SUFFICES ASSUME name = <<>> PROVE d = <<>>
    OBVIOUS
  <2>2. {r \in Rules : Matches(r, name)} = {}
    BY <2>1, RulesAssumption DEF Matches
  <2>3. n = 1
    BY <2>2 DEF publicSuffixLength
  <2>4. QED
    BY <2>1, <2>3 DEF registrableDomain
<1>2. n \in Nat /\ Len(name) \in Nat
  BY <1>1, SuffixLength
<1>3. Len(name) > n /\ d = SubSeq(name, Len(name) - n, Len(name))
  BY DEF registrableDomain
<1>4. \A i \in Len(name) - n .. Len(name) : name[i] \in STRING
  BY <1>2, <1>3
<1>5. /\ d \in Seq(STRING) /\ Len(d) = n + 1
      /\ \A i \in 1 .. n + 1 : d[i] = name[Len(name) - n + i - 1]
  <2>1. /\ d \in Seq(STRING)
        /\ Len(d) = IF Len(name) - n <= Len(name) THEN Len(name) - (Len(name) - n) + 1 ELSE 0
        /\ \A i \in 1 .. Len(name) - (Len(name) - n) + 1 : d[i] = name[Len(name) - n + i - 1]
    <3> HIDE DEF n
    <3>1. QED
      BY <1>2, <1>3, <1>4, SubSeqProperties
  <2>2. QED
    BY <1>2, <2>1
<1>6. Len(d) <= Len(name)
  BY <1>2, <1>3, <1>5
<1>7. ASSUME NEW i \in 1 .. Len(d) PROVE d[i] = name[Len(name) - Len(d) + i]
  <2>1. i \in 1 .. n + 1 /\ Len(name) - n + i - 1 = Len(name) - Len(d) + i
    BY <1>2, <1>5
  <2>2. QED
    BY <1>5, <2>1
<1>8. QED
  BY <1>5, <1>6, <1>7 DEF Ends

\* A name whose suffix is one label short of it is its own registrable domain.
LEMMA OwnRegistrable ==
  ASSUME NEW d \in Seq(STRING), d # <<>>, publicSuffixLength(d) = Len(d) - 1
  PROVE  registrableDomain(d) = d
<1>1. Len(d) \in Nat /\ Len(d) - (Len(d) - 1) = 1
  OBVIOUS
<1>2. registrableDomain(d) = SubSeq(d, 1, Len(d))
  BY <1>1 DEF registrableDomain
<1>3. QED
  BY <1>2, SubSeqFull

\* Whatever rules the list holds, the registrable domain of a name is its own
\* registrable domain: an exception that decided the name decides its end too, and
\* where none did, the longest rule of the name is a rule of the end.
THEOREM OwnersStable ==
  ASSUME NEW name \in Seq(STRING)
  PROVE  RegistrableIsStable(name)
<1> DEFINE n == publicSuffixLength(name)
           d == registrableDomain(name)
<1> SUFFICES ASSUME d # <<>> PROVE registrableDomain(d) = d
  BY DEF RegistrableIsStable
<1>1. Ends(d, name) /\ Len(d) = n + 1 /\ d \in Seq(STRING) /\ name # <<>>
  BY RegistrableEnds DEF Ends
<1>2. n \in Nat /\ Len(d) \in Nat
  BY <1>1, SuffixLength
<1>3. \A r \in Rules : Matches(r, d) <=> Matches(r, name) /\ Len(r.labels) <= n + 1
  BY <1>1, MatchesEnd
<1>4. CASE \E r \in Rules : r.ex /\ Matches(r, name)
  <2>1. PICK r \in Rules : r.ex /\ Matches(r, name)
    BY <1>4
  <2>2. n = Len(r.labels) - 1 /\ Len(r.labels) \in Nat
    BY <1>1, <2>1, SuffixLength, MatchLength
  <2>3. Matches(r, d)
    BY <1>3, <2>1, <2>2
  <2>4. publicSuffixLength(d) = n
    BY <1>1, <2>1, <2>2, <2>3, SuffixLength
  <2>5. QED
    BY <1>1, <1>2, <2>4, OwnRegistrable
<1>5. CASE \A r \in Rules : Matches(r, name) => ~r.ex
  <2>1. \A r \in Rules : Matches(r, name) => Len(r.labels) <= n /\ Len(r.labels) \in Nat
    BY <1>1, <1>5, SuffixLength, MatchLength
  <2>2. \A r \in Rules : Matches(r, d) <=> Matches(r, name)
    BY <1>2, <1>3, <2>1
  <2>3. d # <<>> /\ publicSuffixLength(d) \in Nat
    BY <1>1, SuffixLength
  <2>4. publicSuffixLength(d) = n
    <3>1. /\ n >= 1
          /\ n = 1 \/ \E r \in Rules : Matches(r, name) /\ Len(r.labels) = n
      BY <1>1, <1>5, SuffixLength
    <3>2. /\ publicSuffixLength(d) >= 1
          /\ \A r \in Rules : Matches(r, d) => Len(r.labels) <= publicSuffixLength(d)
          /\ \/ publicSuffixLength(d) = 1
             \/ \E r \in Rules : Matches(r, d) /\ Len(r.labels) = publicSuffixLength(d)
      BY <1>1, <1>5, <2>2, SuffixLength
    <3> HIDE DEF n, d
    <3>3. QED
      BY <1>2, <2>1, <2>2, <2>3, <3>1, <3>2
  <2>5. QED
    BY <1>1, <1>2, <2>4, OwnRegistrable
<1>6. QED
  BY <1>4, <1>5

-----------------------------------------------------------------------------
\* IsSuffix, which compares reversals, label by label.
LEMMA EndsIsSuffix ==
  ASSUME NEW t, NEW name, Ends(t, name)
  PROVE  IsSuffix(t, name)
<1> DEFINE rt == Reverse(t)
           rn == Reverse(name)
<1>1. /\ Len(t) \in Nat /\ Len(name) \in Nat /\ Len(t) <= Len(name)
      /\ t \in Seq(STRING) /\ name \in Seq(STRING)
  BY DEF Ends
<1>2. /\ rt \in Seq(STRING) /\ Len(rt) = Len(t)
      /\ \A i \in 1 .. Len(t) : rt[i] = t[Len(t) - i + 1]
  BY <1>1 DEF Reverse
<1>3. /\ rn \in Seq(STRING) /\ Len(rn) = Len(name)
      /\ \A i \in 1 .. Len(name) : rn[i] = name[Len(name) - i + 1]
  BY <1>1 DEF Reverse
<1>4. ASSUME NEW i \in 1 .. Len(t) PROVE rt[i] = rn[i]
  <2>1. t[Len(t) - i + 1] = name[Len(name) - Len(t) + (Len(t) - i + 1)]
    <3>1. Len(t) - i + 1 \in 1 .. Len(t)
      BY <1>1
    <3>2. \A j \in 1 .. Len(t) : t[j] = name[Len(name) - Len(t) + j]
      BY DEF Ends
    <3>3. QED
      BY <3>1, <3>2, Zenon
  <2>2. Len(name) - Len(t) + (Len(t) - i + 1) = Len(name) - i + 1
    BY <1>1
  <2>3. rt[i] = t[Len(t) - i + 1] /\ rn[i] = name[Len(name) - i + 1]
    <3>1. i \in 1 .. Len(name)
      BY <1>1
    <3> HIDE DEF rt, rn
    <3>2. QED
      BY <1>2, <1>3, <3>1
  <2> HIDE DEF rt, rn
  <2>4. QED
    BY <2>1, <2>2, <2>3
<1>5. SubSeq(rt, 1, Len(rt)) = SubSeq(rn, 1, Len(rt))
  <2> DEFINE a == SubSeq(rt, 1, Len(t))
             b == SubSeq(rn, 1, Len(t))
  <2> HIDE DEF rt, rn
  <2>1. /\ a \in Seq(STRING) /\ Len(a) = Len(t)
        /\ \A i \in 1 .. Len(t) : a[i] = rt[i]
    <3>1. a = rt
      BY <1>2, SubSeqFull
    <3>2. QED
      BY <1>2, <3>1
  <2>2. /\ b \in Seq(STRING) /\ Len(b) = Len(t)
        /\ \A i \in 1 .. Len(t) : b[i] = rn[i]
    BY <1>1, <1>3
  <2>3. \A i \in 1 .. Len(t) : a[i] = b[i]
    BY <1>4, <2>1, <2>2, Zenon
  <2> HIDE DEF a, b
  <2>4. a = b
    BY <2>1, <2>2, <2>3, SeqEqual, Zenon
  <2>5. QED
    BY <1>2, <2>4 DEF a, b
<1>6. QED
  BY <1>1, <1>2, <1>3, <1>5 DEF IsSuffix, IsPrefix

LEMMA StripWwwShape ==
  ASSUME NEW name \in Seq(STRING)
  PROVE  /\ StripWww(name) \in Seq(STRING)
         /\ Ends(StripWww(name), name)
         /\ name # <<>> => StripWww(name) # <<>>
         /\ Len(StripWww(name)) \in {Len(name), Len(name) - 1}
<1>1. CASE Len(name) > 1 /\ name[1] = "www"
  <2>1. StripWww(name) = Tail(name)
    BY <1>1 DEF StripWww
  <2>2. /\ Tail(name) \in Seq(STRING) /\ Len(Tail(name)) = Len(name) - 1
        /\ Len(name) \in Nat /\ Len(Tail(name)) >= 1
        /\ \A i \in 1 .. Len(Tail(name)) : Tail(name)[i] = name[i + 1]
    BY <1>1, HeadTailProperties
  <2>3. ASSUME NEW i \in 1 .. Len(Tail(name))
        PROVE  Tail(name)[i] = name[Len(name) - Len(Tail(name)) + i]
    <3>1. Len(name) - Len(Tail(name)) + i = i + 1
      BY <2>2
    <3>2. QED
      BY <2>2, <3>1
  <2>4. Ends(Tail(name), name)
    BY <2>2, <2>3 DEF Ends
  <2>5. Tail(name) # <<>>
    <3>1. SUFFICES ASSUME Tail(name) = <<>>
                   PROVE  FALSE
      OBVIOUS
    <3>2. Len(Tail(name)) = 0
      BY <3>1, EmptySeq
    <3>3. 0 >= 1
      <4>1. Len(Tail(name)) >= 1
        BY <2>2
      <4>2. QED
        BY <3>2, <4>1, Zenon
    <3>4. QED
      BY <3>3
  <2>6. QED
    BY <2>1, <2>2, <2>4, <2>5
<1>2. CASE ~(Len(name) > 1 /\ name[1] = "www")
  <2>1. StripWww(name) = name
    BY <1>2 DEF StripWww
  <2>2. Len(name) \in Nat /\ \A i \in 1 .. Len(name) : Len(name) - Len(name) + i = i
    OBVIOUS
  <2>3. Ends(name, name)
    BY <2>2 DEF Ends
  <2>4. QED
    BY <2>1, <2>3
<1>3. QED
  BY <1>1, <1>2

\* Taking "www." off both names keeps the one at the end of the other.
LEMMA StripKeepsEnds ==
  ASSUME NEW d, NEW name, Ends(d, name), d # <<>>
  PROVE  Ends(StripWww(d), StripWww(name))
<1>1. /\ d \in Seq(STRING) /\ name \in Seq(STRING) /\ Len(d) <= Len(name)
      /\ Len(d) \in Nat /\ Len(name) \in Nat /\ name # <<>>
  BY DEF Ends
<1>2. CASE Len(d) = Len(name)
  <2>1. d = name
    BY <1>1, <1>2, SeqEqual DEF Ends
  <2>2. QED
    BY <1>1, <2>1, StripWwwShape DEF Ends
<1>3. CASE Len(d) < Len(name)
  <2>1. Len(StripWww(d)) <= Len(StripWww(name))
    BY <1>1, <1>3, StripWwwShape
  <2>2. Ends(StripWww(d), d) /\ Ends(StripWww(name), name)
    BY <1>1, StripWwwShape
  <2>3. ASSUME NEW i \in 1 .. Len(StripWww(d))
        PROVE  StripWww(d)[i] = StripWww(name)[Len(StripWww(name)) - Len(StripWww(d)) + i]
    <3> DEFINE a == Len(StripWww(d))
               b == Len(StripWww(name))
    <3>1. a \in Nat /\ b \in Nat /\ a <= b /\ a <= Len(d) /\ b <= Len(name)
      BY <2>1, <2>2 DEF Ends
    <3>2. StripWww(d)[i] = d[Len(d) - a + i]
      BY <2>2 DEF Ends
    <3>3. d[Len(d) - a + i] = name[Len(name) - Len(d) + (Len(d) - a + i)]
      <4>1. Len(d) - a + i \in 1 .. Len(d)
        BY <1>1, <3>1
      <4>2. QED
        BY <4>1 DEF Ends
    <3>4. StripWww(name)[b - a + i] = name[Len(name) - b + (b - a + i)]
      <4>1. b - a + i \in 1 .. b
        BY <3>1
      <4>2. QED
        BY <2>2, <4>1 DEF Ends
    <3>5. /\ Len(name) - Len(d) + (Len(d) - a + i) = Len(name) - a + i
          /\ Len(name) - b + (b - a + i) = Len(name) - a + i
      BY <1>1, <3>1
    <3>6. QED
      BY <3>2, <3>3, <3>4, <3>5
  <2>4. QED
    BY <2>1, <2>2, <2>3 DEF Ends
<1>4. QED
  BY <1>1, <1>2, <1>3

\* Of bare names the string comparison of sameOperator misses none: a log whose host
\* is written without a final dot and without a port, and whose registrable domain is
\* the issuer's, is the issuer's own.
THEOREM OwnLogCaught ==
  ASSUME NEW name \in Seq(STRING), NEW domain \in Seq(STRING)
  PROVE  OwnLogIsCaught(name, domain)
<1> SUFFICES ASSUME HostOwned(domain), registrableDomain(name) = domain
             PROVE  sameOperator(LogHost(name, FALSE, FALSE), domain)
  BY DEF OwnLogIsCaught
<1>1. domain # <<>>
  BY DEF HostOwned, WellFormedName
<1>2. Ends(domain, name) /\ name # <<>>
  BY <1>1, RegistrableEnds DEF Ends
<1>3. IsSuffix(StripWww(domain), StripWww(name))
  BY <1>1, <1>2, StripKeepsEnds, EndsIsSuffix
<1>4. StripWww(domain) # <<>> /\ StripWww(name) # <<>>
  BY <1>1, <1>2, StripWwwShape
<1>5. QED
  BY <1>3, <1>4 DEF sameOperator, LogHost
=============================================================================
