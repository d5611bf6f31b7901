--------------------------- MODULE Staging_proofs ---------------------------
(***************************************************************************)
(* Theorems about staged enrichment for any complexes, any answers an      *)
(* agent may print, any number of overlapping runs and any mishaps: what   *)
(* is kept follows the parsers' rules, since nothing but a parser makes a  *)
(* record, and a pair is staged once, since a run looks it up first.       *)
(***************************************************************************)
EXTENDS Staging, TLAPS, SequenceTheorems, FiniteSetTheorems

-----------------------------------------------------------------------------
(* What a parser makes.                                                    *)

LEMMA ConfidenceCapped ==
  ASSUME NEW l, l.conf \in Int, l.url \in Wiki
  PROVE  CapWiki(l) <= WikiCap
BY DEF CapWiki, Clamp, Confidence, WikiCap

(* R1 and R2: a yes is neither a plan nor a generic word.                  *)
LEMMA Demoted ==
  ASSUME NEW l, attr \in {"gym", "pet"}, Demote(l) \in {"yes", "conditional"}
  PROVE  (l.future => l.done) /\ (attr = "gym" => l.token)
BY DEF Demote, States

LEMMA MadeFollows == ASSUME attr \in Attrs, NEW r \in Made PROVE Follows(r)
<1>1. PICK l \in Printed : Sourced(l, Complexes) /\ Parse(l).kept /\ r = RecordOf(l)
  BY DEF Made
<1>2. PICK out \in Answers : l \in ToSet(out)
  BY <1>1 DEF Printed
<1>3. l.json /\ l.complex \in Complexes /\ l.url \notin Untraceable \cup Blocked
  BY <1>1 DEF Sourced
<1>4. l.conf \in Int /\ l.size \in Int
  BY <1>2, <1>3, StagingConstants
<1>5. /\ r.complex = l.complex /\ r.url = l.url
      /\ r.value = Parse(l).value /\ r.conf = CapWiki(l)
  BY <1>1 DEF RecordOf
<1>6. r.url \in Wiki => r.conf <= WikiCap
  BY <1>4, <1>5, ConfidenceCapped
<1>7. CASE attr \in {"gym", "pet"}
  <2>1. r.value = Demote(l)
    BY <1>5, <1>7 DEF Parse, ParseState
  <2>2. r.value \in {"yes", "conditional"} =>
          (l.future => l.done) /\ (attr = "gym" => l.token)
    BY <1>7, <2>1, Demoted
  <2>. QED  BY <1>2, <1>3, <1>5, <1>6, <1>7, <2>2 DEF Follows
<1>8. CASE attr = "review"
  <2>1. r.value = CapText(l.size)
    BY <1>5, <1>8 DEF Parse, ParseReview
  <2>2. r.value <= SummaryCap + 1
    BY <1>4, <2>1 DEF CapText, SummaryCap
  <2>. QED  BY <1>3, <1>5, <1>6, <1>8, <2>2 DEF Follows
<1>9. CASE attr \notin {"gym", "pet", "review"}
  BY <1>3, <1>5, <1>6, <1>9 DEF Follows
<1>. QED  BY <1>7, <1>8, <1>9

(* A parser keeps one record of a pair.                                    *)
LEMMA ParsedOnce ==
  ASSUME NEW out \in Answers, NEW valid, valid \subseteq Complexes
  PROVE  /\ ParseRecords(out, valid) \subseteq Made
         /\ IsFiniteSet(ParseRecords(out, valid)) /\ Distinct(ParseRecords(out, valid))
<1>. DEFINE good == {i \in DOMAIN out : Sourced(out[i], valid) /\ Parse(out[i]).kept}
            first == {i \in good : \A j \in good : Key(out[j]) = Key(out[i]) => i <= j}
            parsed == {RecordOf(out[i]) : i \in first}
<1>1. ParseRecords(out, valid) = parsed
  BY DEF ParseRecords
<1>2. DOMAIN out = 1 .. Len(out) /\ Len(out) \in Nat
  BY StagingConstants
<1>3. parsed \subseteq Made
  <2>. SUFFICES ASSUME NEW i \in first PROVE RecordOf(out[i]) \in Made
    OBVIOUS
  <2>1. out[i] \in Printed
    BY DEF Printed, ToSet
  <2>2. Sourced(out[i], Complexes) /\ Parse(out[i]).kept
    BY DEF Sourced
  <2>. QED  BY <2>1, <2>2 DEF Made
<1>4. IsFiniteSet(parsed)
  <2>1. IsFiniteSet(1 .. Len(out)) /\ first \subseteq 1 .. Len(out)
    BY <1>2, FS_Interval
  <2>2. IsFiniteSet(first)
    BY <2>1, FS_Subset
  <2>. DEFINE f == [i \in first |-> RecordOf(out[i])]
  <2>3. f \in Surjection(first, parsed)
    BY DEF Surjection
  <2>. HIDE DEF first, parsed, f
  <2>. QED  BY <2>2, <2>3, FS_Surjection
<1>5. Distinct(parsed)
  <2>. SUFFICES ASSUME NEW i \in first, NEW j \in first,
                       Pair(RecordOf(out[i])) = Pair(RecordOf(out[j]))
       PROVE  RecordOf(out[i]) = RecordOf(out[j])
    BY DEF Distinct
  <2>1. Pair(out[i]) = Pair(out[j]) /\ out[i].complex = out[j].complex
    BY DEF Pair, RecordOf
  <2>2. Key(out[i]) = Key(out[j])
    BY <2>1 DEF Key
  <2>3. i <= j /\ j <= i /\ i \in Int /\ j \in Int
    BY <2>2, <1>2
  <2>. QED  BY <2>3
<1>. QED  BY <1>1, <1>3, <1>4, <1>5

-----------------------------------------------------------------------------
(* Sequences of lines.                                                     *)

LEMMA OnceConcat ==
  ASSUME NEW X, NEW s \in Seq(X), NEW t \in Seq(X), Once(s), Once(t),
         \A i \in DOMAIN s, j \in DOMAIN t :
            Torn \notin {s[i], t[j]} => Pair(s[i]) # Pair(t[j])
  PROVE  Once(s \o t)
<1>. DEFINE u == s \o t
<1>1. /\ u \in Seq(X) /\ Len(u) = Len(s) + Len(t)
      /\ \A i \in 1 .. Len(s) + Len(t) : u[i] = IF i <= Len(s) THEN s[i] ELSE t[i - Len(s)]
  BY ConcatProperties
<1>2. /\ DOMAIN u = 1 .. Len(u) /\ DOMAIN s = 1 .. Len(s) /\ DOMAIN t = 1 .. Len(t)
      /\ Len(s) \in Nat /\ Len(t) \in Nat
  BY <1>1
<1>. HIDE DEF u
<1>3. SUFFICES ASSUME NEW i \in DOMAIN u, NEW j \in DOMAIN u, i < j,
                      Torn \notin {u[i], u[j]}, Pair(u[i]) = Pair(u[j])
               PROVE  FALSE
  BY <1>1, <1>2 DEF Once, u
<1>4. CASE j <= Len(s)
  <2>1. i \in DOMAIN s /\ j \in DOMAIN s /\ u[i] = s[i] /\ u[j] = s[j]
    BY <1>1, <1>2, <1>3, <1>4
  <2>. QED  BY <2>1, <1>3, <1>2 DEF Once
<1>5. CASE i > Len(s)
  <2>1. /\ i - Len(s) \in DOMAIN t /\ j - Len(s) \in DOMAIN t
        /\ u[i] = t[i - Len(s)] /\ u[j] = t[j - Len(s)] /\ i - Len(s) # j - Len(s)
    BY <1>1, <1>2, <1>3, <1>5
  <2>. QED  BY <2>1, <1>3 DEF Once
<1>6. CASE i <= Len(s) /\ j > Len(s)
  <2>1. i \in DOMAIN s /\ j - Len(s) \in DOMAIN t /\ u[i] = s[i] /\ u[j] = t[j - Len(s)]
    BY <1>1, <1>2, <1>3, <1>6
  <2>. QED  BY <2>1, <1>3
<1>. QED  BY <1>2, <1>1, <1>4, <1>5, <1>6

LEMMA SubIsPart ==
  ASSUME NEW X, NEW s \in Seq(X), NEW m \in Nat \ {0}, NEW n \in 0 .. Len(s)
  PROVE  /\ SubSeq(s, m, n) \in Seq(X)
         /\ \A i \in DOMAIN SubSeq(s, m, n) :
               i + m - 1 \in DOMAIN s /\ i + m - 1 \in m .. n /\ SubSeq(s, m, n)[i] = s[i + m - 1]
         /\ Once(s) => Once(SubSeq(s, m, n))
<1>. DEFINE u == SubSeq(s, m, n)
<1>1. Len(s) \in Nat /\ DOMAIN s = 1 .. Len(s) /\ \A i \in m .. n : s[i] \in X
  OBVIOUS
<1>2. /\ u \in Seq(X) /\ Len(u) = (IF m <= n THEN n - m + 1 ELSE 0)
      /\ \A i \in 1 .. n - m + 1 : u[i] = s[m + i - 1]
  BY <1>1, SubSeqProperties
<1>. HIDE DEF u
<1>3. DOMAIN u = 1 .. Len(u) /\ Len(u) \in Nat
  BY <1>2
<1>4. \A i \in DOMAIN u : i + m - 1 \in DOMAIN s /\ i + m - 1 \in m .. n /\ u[i] = s[i + m - 1]
  BY <1>1, <1>2, <1>3
<1>5. Once(s) => Once(u)
  BY <1>4, <1>3 DEF Once
<1>. QED  BY <1>2, <1>4, <1>5 DEF u

LEMMA Ordered ==
  ASSUME NEW S, IsFiniteSet(S), NEW lines \in SetToSeqs(S)
  PROVE  lines \in Seq(S) /\ (Distinct(S) => Once(lines))
<1>1. Cardinality(S) \in Nat
  BY FS_CardinalityType
<1>2. /\ lines \in [1 .. Cardinality(S) -> S]
      /\ \A i, j \in 1 .. Cardinality(S) : i # j => lines[i] # lines[j]
  BY DEF SetToSeqs
<1>. QED  BY <1>1, <1>2 DEF Distinct, Once

(* What is appended: the lines, less one that went into half a line.       *)
LEMMA AppendKeeps ==
  ASSUME NEW X, staged \in Seq(X), NEW lines \in Seq(X)
  PROVE  /\ Appended(lines) \in Seq(X)
         /\ /\ Once(staged) /\ Once(lines)
            /\ \A i \in DOMAIN staged, j \in DOMAIN lines :
                  Torn \notin {staged[i], lines[j]} => Pair(staged[i]) # Pair(lines[j])
            => Once(Appended(lines))
<1>1. CASE Appended(lines) = staged \o lines
  BY <1>1, ConcatProperties, OnceConcat
<1>2. CASE lines # <<>> /\ Appended(lines) = staged \o Tail(lines)
  <2>. DEFINE t == SubSeq(lines, 2, Len(lines))
  <2>1. Tail(lines) = t
    BY <1>2, TailIsSubSeq
  <2>2. Len(lines) \in 0 .. Len(lines) /\ 2 \in Nat \ {0}
    OBVIOUS
  <2>3. /\ t \in Seq(X) /\ (Once(lines) => Once(t))
        /\ \A j \in DOMAIN t : j + 2 - 1 \in DOMAIN lines /\ t[j] = lines[j + 2 - 1]
    BY <2>2, SubIsPart
  <2>. HIDE DEF t
  <2>4. staged \o t \in Seq(X)
    BY <2>3, ConcatProperties
  <2>5. ASSUME Once(staged), Once(lines),
               \A i \in DOMAIN staged, j \in DOMAIN lines :
                  Torn \notin {staged[i], lines[j]} => Pair(staged[i]) # Pair(lines[j])
        PROVE  Once(staged \o t)
    <3>1. \A i \in DOMAIN staged, j \in DOMAIN t :
             Torn \notin {staged[i], t[j]} => Pair(staged[i]) # Pair(t[j])
      BY <2>3, <2>5
    <3>. QED  BY <2>3, <2>5, <3>1, OnceConcat
  <2>. QED  BY <1>2, <2>1, <2>4, <2>5
<1>. QED  BY <1>1, <1>2 DEF Appended

LEMMA RemoveKeeps ==
  ASSUME NEW X, staged \in Seq(X), NEW n \in DOMAIN staged
  PROVE  /\ Without(n) \in Seq(X)
         /\ \A i \in DOMAIN Without(n) : \E j \in DOMAIN staged : Without(n)[i] = staged[j]
         /\ Once(staged) => Once(Without(n))
<1>. DEFINE s == SubSeq(staged, 1, n - 1)
            t == SubSeq(staged, n + 1, Len(staged))
            u == s \o t
<1>1. /\ n \in 1 .. Len(staged) /\ Len(staged) \in Nat
      /\ n - 1 \in 0 .. Len(staged) /\ n + 1 \in Nat \ {0} /\ Len(staged) \in 0 .. Len(staged)
  OBVIOUS
<1>2. /\ s \in Seq(X) /\ (Once(staged) => Once(s))
      /\ \A i \in DOMAIN s : i + 1 - 1 \in DOMAIN staged /\ i + 1 - 1 \in 1 .. n - 1
                             /\ s[i] = staged[i + 1 - 1]
  <2>1. 1 \in Nat \ {0}
    OBVIOUS
  <2>. QED  BY <1>1, <2>1, SubIsPart
<1>3. /\ t \in Seq(X) /\ (Once(staged) => Once(t))
      /\ \A i \in DOMAIN t :
            /\ i + (n + 1) - 1 \in DOMAIN staged /\ i + (n + 1) - 1 \in n + 1 .. Len(staged)
            /\ t[i] = staged[i + (n + 1) - 1]
  BY <1>1, SubIsPart
<1>4. Without(n) = u
  BY DEF Without, RemoveAt
<1>. HIDE DEF s, t
<1>5. /\ u \in Seq(X) /\ Len(u) = Len(s) + Len(t)
      /\ \A i \in 1 .. Len(s) + Len(t) : u[i] = IF i <= Len(s) THEN s[i] ELSE t[i - Len(s)]
  BY <1>2, <1>3, ConcatProperties
<1>6. \A i \in DOMAIN u : \E j \in DOMAIN staged : u[i] = staged[j]
  <2>. SUFFICES ASSUME NEW i \in DOMAIN u PROVE \E j \in DOMAIN staged : u[i] = staged[j]
    OBVIOUS
  <2>1. i \in 1 .. Len(s) + Len(t) /\ Len(s) \in Nat /\ Len(t) \in Nat
    BY <1>2, <1>3, <1>5
  <2>2. CASE i <= Len(s)
    <3>1. i \in DOMAIN s /\ u[i] = s[i]
      BY <1>2, <1>5, <2>1, <2>2
    <3>. QED  BY <1>2, <3>1
  <2>3. CASE i > Len(s)
    <3>1. i - Len(s) \in DOMAIN t /\ u[i] = t[i - Len(s)]
      BY <1>3, <1>5, <2>1, <2>3
    <3>. QED  BY <1>3, <3>1
  <2>. QED  BY <2>1, <2>2, <2>3
<1>7. ASSUME Once(staged) PROVE Once(u)
  <2>1. ASSUME NEW i \in DOMAIN s, NEW j \in DOMAIN t, Torn \notin {s[i], t[j]}
        PROVE  Pair(s[i]) # Pair(t[j])
    <3>1. i \in Int /\ j \in Int /\ n \in Int
      BY <1>1, <1>2, <1>3
    <3>2. i + 1 - 1 # j + (n + 1) - 1
      BY <1>2, <1>3, <3>1
    <3>. QED  BY <1>2, <1>3, <1>7, <2>1, <3>2 DEF Once
  <2>. QED  BY <1>2, <1>3, <1>7, <2>1, OnceConcat
<1>. QED  BY <1>4, <1>5, <1>6, <1>7

-----------------------------------------------------------------------------
(* Types.                                                                  *)

LEMMA TypeInit == Init => TypeOK
<1>. SUFFICES ASSUME Init PROVE TypeOK
  OBVIOUS
<1>. USE StagingConstants DEF Init
<1>1. overlap \in BOOLEAN
  BY Zenon
<1>2. \A p \in Runs : IsFiniteSet(recs[p])
  BY FS_EmptySet
<1>3. staged \in Seq(Made \cup {Torn})
  OBVIOUS
<1>. QED  BY <1>1, <1>2, <1>3 DEF TypeOK

LEMMA SameMade == attr' = attr => Made' = Made
BY DEF Made, RecordOf, Parse, ParseState, ParseReview, ParseFloorplan, Demote, States,
       CapWiki, Sourced, Printed, Clamp, Confidence, WikiCap, CapText, SummaryCap, NormBay, Complexes

LEMMA AttrStays == [Next]_vars => attr' = attr
BY DEF Next, vars, Cron, Die, Person, LoadSeed, Expire, Select, StagedAlready, AppendStaging,
       AppendSeed, LoadRecords, Claude, Promote, Reject, Mend, Finish, Go

(* What a run appends, whole or with half a line at its end.               *)
LEMMA WritesLines ==
  ASSUME TypeOK, PairInv, NEW p \in Runs, AppendStaging(p) \/ Die(p), staged' # staged
  PROVE  /\ p \in Crons /\ pc[p] = "write"
         /\ \E lines \in Seq(Made \cup {Torn}) :
               /\ staged' = Appended(lines) /\ Once(lines)
               /\ \A i \in DOMAIN lines : lines[i] \in recs[p] \cup {Torn}
<1>. DEFINE X == Made \cup {Torn}
<1>0. p \in Crons /\ pc[p] = "write"
  BY DEF AppendStaging, Die
<1>1. PICK lines \in SetToSeqs(recs[p]) :
         \/ staged' = Appended(lines)
         \/ \E n \in 1 .. Len(lines) : staged' = Appended(SubSeq(lines, 1, n - 1) \o <<Torn>>)
  BY DEF AppendStaging, Die
<1>2. lines \in Seq(recs[p]) /\ Once(lines)
  BY <1>0, Ordered DEF TypeOK, PairInv
<1>3. lines \in Seq(X) /\ \A i \in DOMAIN lines : lines[i] \in recs[p]
  BY <1>2 DEF TypeOK
<1>4. CASE staged' = Appended(lines)
  BY <1>0, <1>2, <1>3, <1>4
<1>5. ASSUME NEW n \in 1 .. Len(lines),
             staged' = Appended(SubSeq(lines, 1, n - 1) \o <<Torn>>)
      PROVE  \E u \in Seq(X) : /\ staged' = Appended(u) /\ Once(u)
                               /\ \A i \in DOMAIN u : u[i] \in recs[p] \cup {Torn}
  <2>. DEFINE s == SubSeq(lines, 1, n - 1)
              t == <<Torn>>
              u == s \o t
  <2>1. n - 1 \in 0 .. Len(lines) /\ 1 \in Nat \ {0}
    BY <1>3
  <2>2. /\ s \in Seq(X) /\ Once(s)
        /\ \A i \in DOMAIN s : i + 1 - 1 \in DOMAIN lines /\ s[i] = lines[i + 1 - 1]
    BY <1>2, <1>3, <2>1, SubIsPart
  <2>3. t \in Seq(X) /\ Once(t) /\ \A j \in DOMAIN t : t[j] = Torn
    BY DEF Once
  <2>. HIDE DEF s, t
  <2>4. Once(u)
    BY <2>2, <2>3, OnceConcat
  <2>5. u \in Seq(X) /\ \A i \in DOMAIN u : u[i] \in recs[p] \cup {Torn}
    <3>1. /\ u \in Seq(X) /\ Len(u) = Len(s) + Len(t)
          /\ \A i \in 1 .. Len(s) + Len(t) : u[i] = IF i <= Len(s) THEN s[i] ELSE t[i - Len(s)]
      BY <2>2, <2>3, ConcatProperties
    <3>2. Len(s) \in Nat /\ Len(t) \in Nat /\ DOMAIN s = 1 .. Len(s) /\ DOMAIN t = 1 .. Len(t)
      BY <2>2, <2>3
    <3>3. ASSUME NEW i \in DOMAIN u PROVE u[i] \in recs[p] \cup {Torn}
      <4>1. CASE i <= Len(s)
        <5>1. i \in DOMAIN s /\ u[i] = s[i]
          BY <3>1, <3>2, <4>1
        <5>. QED  BY <1>3, <2>2, <5>1
      <4>2. CASE i > Len(s)
        <5>1. i - Len(s) \in DOMAIN t /\ u[i] = t[i - Len(s)]
          BY <3>1, <3>2, <4>2
        <5>. QED  BY <2>3, <5>1
      <4>. QED  BY <3>1, <3>2, <4>1, <4>2
    <3>. QED  BY <3>1, <3>3
  <2>6. staged' = Appended(u)
    BY <1>5 DEF s, t
  <2>. HIDE DEF u
  <2>. QED  BY <2>4, <2>5, <2>6
<1>. QED  BY <1>0, <1>1, <1>4, <1>5

(* The lines in the file.                                                  *)
LEMMA StagedType == TypeOK /\ PairInv /\ [Next]_vars => staged' \in Seq(Made \cup {Torn})
<1>. SUFFICES ASSUME TypeOK, PairInv, [Next]_vars, staged' # staged
     PROVE  staged' \in Seq(Made \cup {Torn})
  BY DEF TypeOK
<1>. USE DEF TypeOK
<1>1. ASSUME NEW p \in Runs, AppendStaging(p) \/ Die(p)
      PROVE  staged' \in Seq(Made \cup {Torn})
  <2>1. PICK lines \in Seq(Made \cup {Torn}) : staged' = Appended(lines)
    BY <1>1, WritesLines
  <2>. QED  BY <2>1, AppendKeeps
<1>2. ASSUME NEW i \in DOMAIN staged, staged' = Without(i)
      PROVE  staged' \in Seq(Made \cup {Torn})
  BY <1>2, RemoveKeeps
<1>. QED
  BY <1>1, <1>2 DEF Next, vars, Person, Promote, Reject, Mend, Cron, Select, StagedAlready,
     AppendSeed, LoadRecords, Claude, LoadSeed, Expire

(* The records in the seeds, in the table and in the hands of runs.        *)
LEMMA RecordTypes ==
  ASSUME TypeOK, [Next]_vars
  PROVE  /\ seeds' \subseteq Made /\ fresh' \subseteq Made
         /\ cand' \in [Runs -> SUBSET Complexes] /\ recs' \in [Runs -> SUBSET Made]
         /\ \A p \in Runs : IsFiniteSet(recs'[p])
<1>. USE DEF TypeOK
<1>1. ASSUME NEW p \in Runs, Finish(p), UNCHANGED <<seeds, fresh>>
      PROVE  /\ seeds' \subseteq Made /\ fresh' \subseteq Made
             /\ cand' \in [Runs -> SUBSET Complexes] /\ recs' \in [Runs -> SUBSET Made]
             /\ \A q \in Runs : IsFiniteSet(recs'[q])
  BY <1>1, FS_EmptySet DEF Finish
<1>2. ASSUME NEW p \in Runs, Select(p)
      PROVE  /\ UNCHANGED <<seeds, fresh, recs>> /\ cand' \in [Runs -> SUBSET Complexes]
  <2>1. \A S : SelectCandidates(S) \subseteq Complexes
    BY DEF SelectCandidates
  <2>. QED  BY <1>2, <2>1 DEF Select
<1>3. ASSUME NEW p \in Runs, NEW out \in Answers, Claude(p, out)
      PROVE  /\ seeds' \subseteq Made /\ fresh' \subseteq Made
             /\ cand' \in [Runs -> SUBSET Complexes] /\ recs' \in [Runs -> SUBSET Made]
             /\ \A q \in Runs : IsFiniteSet(recs'[q])
  <2>. DEFINE R == ParseRecords(out, cand[p])
  <2>1. R \subseteq Made /\ IsFiniteSet(R)
    BY ParsedOnce
  <2>2. Finish(p) \/ (recs' = [recs EXCEPT ![p] = R] /\ cand' = [cand EXCEPT ![p] = {}])
    BY <1>3 DEF Claude
  <2>3. UNCHANGED <<seeds, fresh>>
    BY <1>3 DEF Claude
  <2>. HIDE DEF R
  <2>. QED  BY <1>1, <2>1, <2>2, <2>3
<1>4. ASSUME NEW p \in Runs, StagedAlready(p)
      PROVE  /\ seeds' \subseteq Made /\ fresh' \subseteq Made
             /\ cand' \in [Runs -> SUBSET Complexes] /\ recs' \in [Runs -> SUBSET Made]
             /\ \A q \in Runs : IsFiniteSet(recs'[q])
  <2>. DEFINE R == {r \in recs[p] : Pair(r) \notin StagedPairs}
  <2>1. R \subseteq Made /\ IsFiniteSet(R)
    BY FS_Subset
  <2>2. Finish(p) \/ (recs' = [recs EXCEPT ![p] = R] /\ UNCHANGED cand)
    BY <1>4 DEF StagedAlready
  <2>3. UNCHANGED <<seeds, fresh>>
    BY <1>4 DEF StagedAlready
  <2>. HIDE DEF R
  <2>. QED  BY <1>1, <2>1, <2>2, <2>3
<1>5. ASSUME NEW p \in Runs, AppendStaging(p) \/ Die(p)
      PROVE  Finish(p) /\ UNCHANGED <<seeds, fresh>>
  BY <1>5 DEF AppendStaging, Die
<1>6. ASSUME NEW p \in Runs, AppendSeed(p)
      PROVE  UNCHANGED <<fresh, cand, recs>> /\ seeds' \subseteq Made
  BY <1>6 DEF AppendSeed
<1>7. ASSUME NEW p \in Runs, LoadRecords(p)
      PROVE  Finish(p) /\ UNCHANGED seeds /\ fresh' \subseteq Made
  BY <1>7 DEF LoadRecords, WriteFacts
<1>8. ASSUME NEW p \in Runs, Finish(p)
      PROVE  /\ cand' \in [Runs -> SUBSET Complexes] /\ recs' \in [Runs -> SUBSET Made]
             /\ \A q \in Runs : IsFiniteSet(recs'[q])
  BY <1>8, FS_EmptySet DEF Finish
<1>9. ASSUME NEW i \in DOMAIN staged, Promote(i) \/ Reject(i) \/ Mend(i)
      PROVE  UNCHANGED <<fresh, cand, recs>> /\ seeds' \subseteq Made
  <2>1. staged[i] \in Made \cup {Torn}
    OBVIOUS
  <2>. QED  BY <1>9, <2>1 DEF Promote, Reject, Mend
<1>10. ASSUME NEW c \in Complexes, LoadSeed(c)
       PROVE  UNCHANGED <<seeds, cand, recs>> /\ fresh' \subseteq Made
  BY <1>10 DEF LoadSeed, WriteFacts
<1>11. ASSUME NEW r \in fresh, Expire(r)
       PROVE  UNCHANGED <<seeds, cand, recs>> /\ fresh' \subseteq Made
  BY <1>11 DEF Expire
<1>12. CASE UNCHANGED vars
  BY <1>12 DEF vars
<1>. HIDE DEF TypeOK
<1>13. CASE \E p \in Runs : Cron(p) \/ Die(p)
  BY <1>1, <1>2, <1>3, <1>4, <1>5, <1>6, <1>7, <1>8, <1>13 DEF Cron, TypeOK
<1>14. CASE Person
  BY <1>9, <1>14 DEF Person, TypeOK
<1>. QED  BY <1>10, <1>11, <1>12, <1>13, <1>14 DEF Next, TypeOK

LEMMA TypeNext == TypeOK /\ PairInv /\ [Next]_vars => TypeOK'
<1>. SUFFICES ASSUME TypeOK, PairInv, [Next]_vars PROVE TypeOK'
  OBVIOUS
<1>1. attr' = attr /\ Made' = Made
  BY AttrStays, SameMade
<1>2. overlap' \in BOOLEAN
  BY Zenon DEF TypeOK, Next, vars, Cron, Die, Person, LoadSeed, Expire, Select, StagedAlready,
       AppendStaging, AppendSeed, LoadRecords, Claude, Promote, Reject, Mend
<1>3. mishaps' \in Nat
  <2>1. mishaps' = mishaps \/ mishaps' = mishaps + 1
    BY DEF Next, vars, Cron, Die, Person, LoadSeed, Expire, Select, StagedAlready,
       AppendStaging, AppendSeed, LoadRecords, Claude, Promote, Reject, Mend
  <2>. QED  BY <2>1 DEF TypeOK
<1>4. pc' \in [Runs -> {"idle", "claude", "dedup", "write", "load"}]
  BY DEF TypeOK, Next, vars, Cron, Die, Person, LoadSeed, Expire, Select, StagedAlready,
       AppendStaging, AppendSeed, LoadRecords, Claude, Promote, Reject, Mend, Finish, Go
<1>. QED  BY <1>1, <1>2, <1>3, <1>4, StagedType, RecordTypes, Zenon DEF TypeOK

-----------------------------------------------------------------------------
(* Once a pair.                                                            *)

LEMMA PairInit == Init => PairInv
<1>. SUFFICES ASSUME Init PROVE PairInv
  OBVIOUS
<1>. USE DEF Init
<1>1. \A p \in Runs : Distinct(recs[p])
  BY DEF Distinct
<1>2. OnePerPair
  BY DEF OnePerPair, Once
<1>3. \A p \in Crons : pc[p] # "write"
  BY DEF Runs
<1>. QED  BY <1>1, <1>2, <1>3 DEF PairInv

LEMMA OverlapStays == [Next]_vars /\ overlap => overlap'
BY Zenon DEF Next, vars, Cron, Die, Person, LoadSeed, Expire, Select, StagedAlready,
     AppendStaging, AppendSeed, LoadRecords, Claude, Promote, Reject, Mend

(* Four kinds of step: a run enters the write, a run writes, the person    *)
(* takes a line out, and the rest, which starts no write.                  *)
LEMMA FourKinds ==
  ASSUME TypeOK, [Next]_vars
  PROVE  \/ \E p \in Crons : StagedAlready(p)
         \/ \E p \in Runs : (AppendStaging(p) \/ Die(p)) /\ staged' # staged
         \/ \E n \in DOMAIN staged : staged' = Without(n) /\ UNCHANGED <<pc, recs>>
         \/ /\ staged' = staged
            /\ \A q \in Crons : pc'[q] = "write" => pc[q] = "write" /\ recs'[q] = recs[q]
<1>. DEFINE Quiet ==
       /\ staged' = staged
       /\ \A q \in Crons : pc'[q] = "write" => pc[q] = "write" /\ recs'[q] = recs[q]
<1>. USE DEF TypeOK
<1>1. ASSUME NEW p \in Runs, Finish(p), staged' = staged PROVE Quiet
  BY <1>1 DEF Finish, Go, Runs
<1>2. ASSUME NEW p \in Runs, Select(p) PROVE Quiet
  BY <1>2 DEF Select, Go, Runs
<1>3. ASSUME NEW p \in Runs, NEW out \in Answers, Claude(p, out) PROVE Quiet
  <2>. DEFINE R == ParseRecords(out, cand[p])
  <2>1. staged' = staged
    BY <1>3 DEF Claude
  <2>2. Finish(p) \/ (recs' = [recs EXCEPT ![p] = R] /\ Go(p, "dedup"))
    BY <1>3 DEF Claude
  <2>. HIDE DEF R, Quiet
  <2>3. CASE recs' = [recs EXCEPT ![p] = R] /\ Go(p, "dedup")
    BY <2>1, <2>3 DEF Go, Runs, Quiet
  <2>. QED  BY <1>1, <2>1, <2>2, <2>3
<1>4. ASSUME NEW p \in Runs, AppendSeed(p) PROVE Quiet
  BY <1>4 DEF AppendSeed, Go, Runs
<1>5. ASSUME NEW p \in Runs, LoadRecords(p) PROVE Quiet
  <2>1. Finish(p) /\ staged' = staged
    BY <1>5 DEF LoadRecords
  <2>. QED  BY <1>1, <2>1
<1>6. ASSUME NEW p \in Runs, AppendStaging(p) \/ Die(p), staged' = staged PROVE Quiet
  <2>1. Finish(p)
    BY <1>6 DEF AppendStaging, Die
  <2>. QED  BY <1>1, <1>6, <2>1
<1>7. CASE UNCHANGED vars
  BY <1>7 DEF vars
<1>8. ASSUME NEW c \in Complexes, LoadSeed(c) PROVE Quiet
  BY <1>8 DEF LoadSeed
<1>9. ASSUME NEW r \in fresh, Expire(r) PROVE Quiet
  BY <1>9 DEF Expire
<1>10. ASSUME NEW n \in DOMAIN staged, Promote(n) \/ Reject(n) \/ Mend(n)
       PROVE  staged' = Without(n) /\ UNCHANGED <<pc, recs>>
  BY <1>10 DEF Promote, Reject, Mend
<1>11. ASSUME NEW p \in Runs, StagedAlready(p) PROVE p \in Crons
  BY <1>11 DEF StagedAlready
<1>. HIDE DEF TypeOK, Quiet
<1>12. CASE \E p \in Runs : Cron(p) \/ Die(p)
  BY <1>2, <1>3, <1>4, <1>5, <1>6, <1>11, <1>12 DEF Cron, Quiet
<1>13. CASE Person
  BY <1>10, <1>13 DEF Person
<1>. QED  BY <1>7, <1>8, <1>9, <1>12, <1>13 DEF Next, Quiet

(* A run holds one record of a pair.                                       *)
LEMMA RecordsStayDistinct ==
  ASSUME TypeOK, PairInv, [Next]_vars
  PROVE  \A q \in Runs : Distinct(recs'[q])
<1>. USE DEF TypeOK, PairInv
<1>0. Distinct({})
  BY DEF Distinct
<1>1. ASSUME NEW p \in Runs, NEW R, Distinct(R), recs' = [recs EXCEPT ![p] = R]
      PROVE  \A q \in Runs : Distinct(recs'[q])
  BY <1>1
<1>2. ASSUME NEW p \in Runs, Finish(p) PROVE \A q \in Runs : Distinct(recs'[q])
  <2>1. recs' = [recs EXCEPT ![p] = {}]
    BY <1>2 DEF Finish
  <2>. QED  BY <1>0, <1>1, <2>1
<1>3. ASSUME NEW p \in Runs, NEW out \in Answers, Claude(p, out)
      PROVE  \A q \in Runs : Distinct(recs'[q])
  <2>. DEFINE R == ParseRecords(out, cand[p])
  <2>1. Distinct(R)
    BY ParsedOnce
  <2>2. Finish(p) \/ recs' = [recs EXCEPT ![p] = R]
    BY <1>3 DEF Claude
  <2>. HIDE DEF R
  <2>. QED  BY <1>1, <1>2, <2>1, <2>2
<1>4. ASSUME NEW p \in Runs, StagedAlready(p) PROVE \A q \in Runs : Distinct(recs'[q])
  <2>. DEFINE R == {r \in recs[p] : Pair(r) \notin StagedPairs}
  <2>1. Distinct(R)
    BY DEF Distinct
  <2>2. Finish(p) \/ recs' = [recs EXCEPT ![p] = R]
    BY <1>4 DEF StagedAlready
  <2>. HIDE DEF R
  <2>. QED  BY <1>1, <1>2, <2>1, <2>2
<1>5. ASSUME NEW p \in Runs, AppendStaging(p) \/ Die(p) \/ LoadRecords(p)
      PROVE  \A q \in Runs : Distinct(recs'[q])
  BY <1>2, <1>5 DEF AppendStaging, Die, LoadRecords
<1>6. CASE recs' = recs
  BY <1>6
<1>. HIDE DEF TypeOK, PairInv
<1>7. CASE \E p \in Runs : Cron(p) \/ Die(p)
  BY <1>3, <1>4, <1>5, <1>6, <1>7 DEF Cron, Select, AppendSeed
<1>. QED
  BY <1>6, <1>7 DEF Next, vars, Person, Promote, Reject, Mend, LoadSeed, Expire

LEMMA PairNext == TypeOK /\ PairInv /\ [Next]_vars => PairInv'
<1>. SUFFICES ASSUME TypeOK, PairInv, [Next]_vars PROVE PairInv'
  OBVIOUS
<1>. DEFINE Alone == \A p \in Crons : pc[p] = "write" =>
                        /\ \A r \in recs[p] : Pair(r) \notin StagedPairs
                        /\ \A q \in Crons : pc[q] = "write" => q = p
            X == Made \cup {Torn}
<1>1. \A q \in Runs : Distinct(recs'[q])
  BY RecordsStayDistinct
<1>2. SUFFICES ASSUME ~overlap' PROVE Once(staged)' /\ Alone'
  BY <1>1 DEF PairInv, OnePerPair
<1>3. Once(staged) /\ Alone
  BY <1>2, OverlapStays DEF PairInv, OnePerPair
<1>4. ASSUME NEW p \in Crons, StagedAlready(p) PROVE Once(staged)' /\ Alone'
  <2>1. staged' = staged
    BY <1>4 DEF StagedAlready
  <2>2. \A q \in Crons \ {p} : pc[q] # "write"
    BY <1>2, <1>4 DEF StagedAlready
  <2>3. DOMAIN pc = Runs /\ pc = [q \in Runs |-> pc[q]] /\ recs \in [Runs -> SUBSET Made] /\ p \in Runs
    BY DEF TypeOK, Runs
  <2>4. /\ \A q \in Crons \ {p} : pc'[q] = pc[q]
        /\ pc'[p] = "write" => recs'[p] = {r \in recs[p] : Pair(r) \notin StagedPairs}
    BY <1>4, <2>3 DEF StagedAlready, Finish, Go, Runs
  <2>. QED  BY <1>3, <2>1, <2>2, <2>4 DEF StagedPairs, Records
<1>5. ASSUME NEW p \in Runs, AppendStaging(p) \/ Die(p), staged' # staged
      PROVE  Once(staged)' /\ Alone'
  <2>1. /\ p \in Crons /\ pc[p] = "write"
        /\ \E lines \in Seq(X) :
              /\ staged' = Appended(lines) /\ Once(lines)
              /\ \A i \in DOMAIN lines : lines[i] \in recs[p] \cup {Torn}
    BY <1>5, WritesLines
  <2>2. PICK lines \in Seq(X) :
              /\ staged' = Appended(lines) /\ Once(lines)
              /\ \A i \in DOMAIN lines : lines[i] \in recs[p] \cup {Torn}
    BY <2>1
  <2>3. \A i \in DOMAIN staged, j \in DOMAIN lines :
           Torn \notin {staged[i], lines[j]} => Pair(staged[i]) # Pair(lines[j])
    BY <1>3, <2>1, <2>2 DEF StagedPairs, Records
  <2>4. staged \in Seq(X)
    BY DEF TypeOK
  <2>5. Once(staged')
    BY <1>3, <2>2, <2>3, <2>4, AppendKeeps
  <2>6. \A q \in Crons : pc'[q] # "write"
    <3>1. pc' = [pc EXCEPT ![p] = "idle"]
      BY <1>5 DEF AppendStaging, Die, Finish, Go
    <3>. QED  BY <1>3, <2>1, <3>1 DEF TypeOK, Runs
  <2>. QED  BY <2>5, <2>6 DEF Once, Pair
<1>6. ASSUME NEW n \in DOMAIN staged, staged' = Without(n), UNCHANGED <<pc, recs>>
      PROVE  Once(staged)' /\ Alone'
  <2>1. /\ \A i \in DOMAIN Without(n) : \E j \in DOMAIN staged : Without(n)[i] = staged[j]
        /\ Once(Without(n))
    BY <1>3, RemoveKeeps DEF TypeOK
  <2>2. StagedPairs' \subseteq StagedPairs
    BY <1>6, <2>1 DEF StagedPairs, Records, Pair
  <2>. QED  BY <1>3, <1>6, <2>1, <2>2 DEF Once, Pair
<1>7. ASSUME staged' = staged,
             \A q \in Crons : pc'[q] = "write" => pc[q] = "write" /\ recs'[q] = recs[q]
      PROVE  Once(staged)' /\ Alone'
  BY <1>3, <1>7 DEF Once, Pair, StagedPairs, Records
<1>. HIDE DEF Alone
<1>. QED  BY <1>4, <1>5, <1>6, <1>7, FourKinds

-----------------------------------------------------------------------------
(* The theorems.                                                           *)

(* Types, and the two reasons below: a record comes from a parser, and a   *)
(* run that is about to write holds no staged pair and is alone, unless    *)
(* crons have overlapped.                                                  *)
THEOREM StagingInvariant == Spec => [](TypeOK /\ PairInv)
<1>1. Init => TypeOK /\ PairInv
  BY TypeInit, PairInit
<1>2. TypeOK /\ PairInv /\ [Next]_vars => TypeOK' /\ PairInv'
  BY TypeNext, PairNext
<1>. QED  BY <1>1, <1>2, PTL DEF Spec

(* Whatever agents print, however runs overlap and die, and whatever the   *)
(* person moves, nothing staged, seeded or stored breaks the parsers'      *)
(* rules: no blocked source, a wiki counts little, a plan is never a yes,  *)
(* a summary is no longer than its cap and the ellipsis.                   *)
THEOREM RulesKept == Spec => []Disciplined
<1>1. TypeOK => Disciplined
  <2>. SUFFICES ASSUME TypeOK, NEW r \in Records \cup seeds \cup fresh PROVE Follows(r)
    BY DEF Disciplined
  <2>1. r \in Made
    BY DEF TypeOK, Records
  <2>. QED  BY <2>1, MadeFollows DEF TypeOK
<1>. QED  BY <1>1, StagingInvariant, PTL

(* A source of a complex is staged once, for any number of runs, unless    *)
(* two of them were between the look and the write at the same time.       *)
THEOREM StagedOnce == Spec => []OnePerPair
<1>1. PairInv => OnePerPair
  BY DEF PairInv
<1>. QED  BY <1>1, StagingInvariant, PTL
=============================================================================
