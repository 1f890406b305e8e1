---------------------------- MODULE TopicsProofs ----------------------------
(***************************************************************************)
(* Proofs about Topics, for names of every length: what the three passes   *)
(* of SanitizeTopic do to a name, and with that the run's three            *)
(* properties.                                                             *)
(***************************************************************************)
EXTENDS Topics, SequenceTheorems, WellFoundedInduction, TLAPS

(* The characters a name can hold on its way, and the ones Kafka accepts.   *)
Alphabet == Characters \union {"op"}
LegalOnes == {c \in Alphabet : IsLegal(c)}

LEMMA LegalFacts ==
  /\ LegalOnes \subseteq Alphabet
  /\ \A c \in LegalOnes : c \notin Illegal /\ c # "/" /\ IsLegal(c)
  /\ {"b", "z", ".", "coap", "mq", "snmp", "op"} \subseteq LegalOnes
BY DEF LegalOnes, Alphabet, Characters, Words, Illegal, IsLegal

----------------------------------------------------------------------------
(* Induction over the prefixes of a name: the least prefix a claim fails    *)
(* for would be the successor of one it holds for.                          *)
LEMMA LeastExists ==
  ASSUME NEW S, S \subseteq Nat, S # {}
  PROVE  \E i \in S : \A j \in S : i <= j
<1> DEFINE R == {ss \in Nat \X Nat : ss[1] < ss[2]}
<1>1. IsWellFoundedOn(R, Nat)
  BY NatLessThanWellFounded, Zenon DEF OpToRel
<1>2. PICK i \in S : \A j \in S : ~(<<j, i>> \in R)
  BY <1>1, WFMin
<1>3. \A m, k \in Nat : m < k => <<m, k>> \in R
  OBVIOUS
<1>4. ASSUME NEW j \in S PROVE i <= j
  <2>1. i \in Nat /\ j \in Nat /\ <<j, i>> \notin R
    BY <1>2
  <2> QED
    BY <1>3, <2>1
<1> QED
  BY <1>4

LEMMA PrefixInduction ==
  ASSUME NEW n \in Nat, NEW G, 0 \in G,
         \A i \in 1..n : i - 1 \in G => i \in G
  PROVE  0..n \subseteq G
<1>1. SUFFICES ASSUME (0..n) \ G # {} PROVE FALSE
  OBVIOUS
<1>2. (0..n) \ G \subseteq Nat
  OBVIOUS
<1>3. PICK i \in (0..n) \ G : \A j \in (0..n) \ G : i <= j
  BY <1>1, <1>2, LeastExists
<1>4. i \in 1..n /\ i - 1 \in 0..n /\ ~(i <= i - 1)
  BY <1>3
<1>5. i - 1 \in G
  BY <1>3, <1>4
<1> QED
  BY <1>3, <1>4, <1>5

----------------------------------------------------------------------------
(* The regular expression's pass keeps the legal characters, one at a time. *)
KeepsLegal(t, k, n) ==
  k = [i \in 0..n |->
        IF i = 0 THEN <<>>
        ELSE IF IsLegal(t[i]) THEN Append(k[i - 1], t[i]) ELSE k[i - 1]]

LEMMA KeptExists ==
  ASSUME NEW t, NEW n \in Nat
  PROVE  \E k : KeepsLegal(t, k, n)
<1> DEFINE G == {m \in 0..n : \E k : KeepsLegal(t, k, m)}
<1>1. 0 \in G
  <2>1. KeepsLegal(t, [i \in 0..0 |-> <<>>], 0)
    BY DEF KeepsLegal
  <2> QED
    BY <2>1
<1>2. ASSUME NEW m \in 1..n, m - 1 \in G PROVE m \in G
  <2>1. PICK k : KeepsLegal(t, k, m - 1)
    BY <1>2
  <2> DEFINE next == IF IsLegal(t[m]) THEN Append(k[m - 1], t[m]) ELSE k[m - 1]
             k2 == [i \in 0..m |-> IF i = m THEN next ELSE k[i]]
             step(i) == IF i = 0 THEN <<>>
                        ELSE IF IsLegal(t[i]) THEN Append(k2[i - 1], t[i]) ELSE k2[i - 1]
  <2>2. ASSUME NEW i \in 0..m PROVE k2[i] = step(i)
    <3>1. CASE i = m
      <4>1. k2[i - 1] = k[m - 1] /\ i # 0
        BY <3>1
      <4> QED
        BY <3>1, <4>1
    <3>2. CASE i # m /\ i # 0
      <4>1. i \in 0..(m - 1) /\ k2[i - 1] = k[i - 1] /\ k2[i] = k[i]
        BY <3>2
      <4>2. k[i] = IF IsLegal(t[i]) THEN Append(k[i - 1], t[i]) ELSE k[i - 1]
        BY <2>1, <3>2, <4>1 DEF KeepsLegal
      <4> HIDE DEF k2
      <4> QED
        BY <3>2, <4>1, <4>2
    <3>3. CASE i # m /\ i = 0
      <4>1. 0 \in 0..(m - 1) /\ k2[0] = k[0]
        BY <3>3
      <4>2. k[0] = <<>>
        BY <2>1, <4>1 DEF KeepsLegal
      <4> QED
        BY <3>3, <4>1, <4>2
    <3> QED
      BY <3>1, <3>2, <3>3
  <2>3. k2 = [i \in 0..m |-> k2[i]]
    OBVIOUS
  <2>4. k2 = [i \in 0..m |-> step(i)]
    <3> HIDE DEF k2, step
    <3> QED
      BY <2>2, <2>3
  <2>5. KeepsLegal(t, k2, m)
    BY <2>4 DEF KeepsLegal
  <2> QED
    BY <2>5
<1>3. 0..n \subseteq G
  <2> HIDE DEF G
  <2> QED
    BY <1>1, <1>2, PrefixInduction
<1> QED
  BY <1>3

(* So RemoveIllegal is what the last of these steps leaves.                 *)
LEMMA RemovalSteps ==
  ASSUME NEW t, Len(t) \in Nat
  PROVE  \E k : KeepsLegal(t, k, Len(t)) /\ RemoveIllegal(t) = k[Len(t)]
<1> DEFINE kept[i \in 0..Len(t)] ==
             IF i = 0 THEN <<>>
             ELSE IF IsLegal(t[i]) THEN Append(kept[i - 1], t[i]) ELSE kept[i - 1]
<1>1. RemoveIllegal(t) = kept[Len(t)]
  BY DEF RemoveIllegal
<1>2. PICK g : KeepsLegal(t, g, Len(t))
  BY KeptExists
<1>3. KeepsLegal(t, kept, Len(t))
  BY <1>2 DEF KeepsLegal
<1> QED
  BY <1>1, <1>3

(* The pass leaves legal characters only; the first character, when legal,  *)
(* stays the first; and a legal name stays as it is.                        *)
LEMMA RemoveIllegalProperties ==
  ASSUME NEW t \in Seq(Alphabet)
  PROVE  /\ RemoveIllegal(t) \in Seq(LegalOnes)
         /\ Len(t) > 0 /\ IsLegal(t[1])
              => Len(RemoveIllegal(t)) > 0 /\ RemoveIllegal(t)[1] = t[1]
         /\ t \in Seq(LegalOnes) => RemoveIllegal(t) = t
<1> DEFINE n == Len(t)
<1>1. n \in Nat /\ \A i \in 1..n : t[i] \in Alphabet
  BY LenProperties
<1>2. PICK k : KeepsLegal(t, k, n) /\ RemoveIllegal(t) = k[n]
  BY <1>1, RemovalSteps
<1> HIDE DEF n
<1>3. k[0] = <<>>
  BY <1>1, <1>2 DEF KeepsLegal
<1>4. ASSUME NEW i \in 1..n
      PROVE  k[i] = IF IsLegal(t[i]) THEN Append(k[i - 1], t[i]) ELSE k[i - 1]
  <2>1. i \in 0..n /\ i # 0
    BY <1>1
  <2> QED
    BY <1>2, <2>1 DEF KeepsLegal
<1>5. \A i \in 1..n : IsLegal(t[i]) => t[i] \in LegalOnes
  BY <1>1 DEF LegalOnes
<1>6. ASSUME NEW i \in 1..n, k[i - 1] \in Seq(LegalOnes)
      PROVE  /\ k[i] \in Seq(LegalOnes)
             /\ IsLegal(t[i]) => Len(k[i]) = Len(k[i - 1]) + 1
             /\ IsLegal(t[i]) => k[i][Len(k[i - 1]) + 1] = t[i]
             /\ \A j \in 1..Len(k[i - 1]) : k[i][j] = k[i - 1][j]
             /\ ~IsLegal(t[i]) => k[i] = k[i - 1]
  <2>1. CASE IsLegal(t[i])
    <3>1. k[i] = Append(k[i - 1], t[i]) /\ t[i] \in LegalOnes
      BY <1>4, <1>5, <2>1
    <3> QED
      BY <1>6, <2>1, <3>1, AppendProperties
  <2>2. CASE ~IsLegal(t[i])
    BY <1>4, <1>6, <2>2
  <2> QED
    BY <2>1, <2>2
<1>7. \A i \in 0..n : k[i] \in Seq(LegalOnes)
  <2> DEFINE G == {i \in 0..n : k[i] \in Seq(LegalOnes)}
  <2>1. 0 \in G
    <3>1. <<>> \in Seq(LegalOnes)
      BY EmptySeq
    <3>2. k[0] \in Seq(LegalOnes)
      BY <1>3, <3>1, Zenon
    <3>3. 0 \in 0..n
      BY <1>1
    <3> QED
      BY <3>2, <3>3
  <2>2. \A i \in 1..n : i - 1 \in G => i \in G
    BY <1>1, <1>6
  <2>3. 0..n \subseteq G
    <3> HIDE DEF G
    <3> QED
      BY <1>1, <2>1, <2>2, PrefixInduction
  <2> QED
    BY <2>3
<1>8. ASSUME n > 0, IsLegal(t[1])
      PROVE  Len(k[n]) > 0 /\ k[n][1] = t[1]
  <2> DEFINE G == {i \in 0..n : i > 0 => Len(k[i]) > 0 /\ k[i][1] = t[1]}
  <2>1. 0 \in G
    BY <1>1
  <2>2. ASSUME NEW i \in 1..n, i - 1 \in G PROVE i \in G
    <3>0. i - 1 \in 0..n /\ k[i - 1] \in Seq(LegalOnes) /\ Len(k[i - 1]) \in Nat
      BY <1>1, <1>7, LenProperties
    <3>1. CASE i = 1
      <4>1. k[i - 1] = <<>> /\ Len(k[i - 1]) = 0
        BY <1>3, <3>1
      <4>2. Len(k[i]) = 1 /\ k[i][1] = t[1]
        <5>1. /\ Len(k[i]) = Len(k[i - 1]) + 1
              /\ k[i][Len(k[i - 1]) + 1] = t[i]
          BY <1>6, <1>8, <3>0, <3>1
        <5>2. Len(k[i - 1]) + 1 = 1
          BY <4>1
        <5> QED
          BY <3>1, <5>1, <5>2
      <4> QED
        BY <4>2
    <3>2. CASE i # 1
      <4>1. Len(k[i - 1]) > 0 /\ k[i - 1][1] = t[1]
        BY <1>1, <2>2, <3>2
      <4>2. k[i][1] = t[1]
        <5>1. 1 \in 1..Len(k[i - 1])
          BY <3>0, <4>1
        <5>2. \A j \in 1..Len(k[i - 1]) : k[i][j] = k[i - 1][j]
          BY <1>6, <3>0
        <5> QED
          BY <4>1, <5>1, <5>2
      <4>3. Len(k[i]) > 0
        BY <1>6, <3>0, <4>1
      <4> QED
        BY <4>2, <4>3
    <3> QED
      BY <3>1, <3>2
  <2>3. 0..n \subseteq G
    <3> HIDE DEF G
    <3> QED
      BY <1>1, <2>1, <2>2, PrefixInduction
  <2> QED
    BY <1>1, <1>8, <2>3
<1>9. ASSUME t \in Seq(LegalOnes) PROVE k[n] = t
  <2>1. \A i \in 1..n : IsLegal(t[i])
    BY <1>9, LegalFacts, ElementOfSeq DEF n
  <2> DEFINE G == {i \in 0..n : Len(k[i]) = i /\ \A j \in 1..i : k[i][j] = t[j]}
  <2>2. 0 \in G
    BY <1>1, <1>3
  <2>3. ASSUME NEW i \in 1..n, i - 1 \in G PROVE i \in G
    <3>1. i - 1 \in 0..n /\ k[i - 1] \in Seq(LegalOnes)
      BY <1>1, <1>7
    <3>2. Len(k[i - 1]) = i - 1 /\ \A j \in 1..(i - 1) : k[i - 1][j] = t[j]
      BY <2>3
    <3>3. Len(k[i]) = i /\ k[i][i] = t[i] /\ \A j \in 1..(i - 1) : k[i][j] = t[j]
      BY <1>1, <1>6, <2>1, <3>1, <3>2
    <3> QED
      BY <1>1, <3>3
  <2>4. 0..n \subseteq G
    <3> HIDE DEF G
    <3> QED
      BY <1>1, <2>2, <2>3, PrefixInduction
  <2>5. Len(k[n]) = n /\ \A j \in 1..n : k[n][j] = t[j]
    BY <1>1, <2>4
  <2>6. k[n] \in Seq(LegalOnes)
    BY <1>1, <1>7
  <2> QED
    BY <1>9, <2>5, <2>6, SeqEqual DEF n
<1> QED
  BY <1>1, <1>2, <1>7, <1>8, <1>9 DEF n

----------------------------------------------------------------------------
(* The other passes, and the three together.                                *)

LEMMA DottedProperties ==
  ASSUME NEW t \in Seq(Alphabet)
  PROVE  /\ Dotted(t) \in Seq(Alphabet) /\ Len(Dotted(t)) = Len(t)
         /\ \A i \in 1..Len(t) : t[i] # "/" => Dotted(t)[i] = t[i]
         /\ t \in Seq(LegalOnes) => Dotted(t) = t
<1> DEFINE n == Len(t)
<1>1. n \in Nat /\ DOMAIN t = 1..n /\ \A i \in 1..n : t[i] \in Alphabet
  BY LenProperties
<1>2. Dotted(t) = [i \in 1..n |-> IF t[i] = "/" THEN "." ELSE t[i]]
  BY <1>1 DEF Dotted
<1>3. \A i \in 1..n : (IF t[i] = "/" THEN "." ELSE t[i]) \in Alphabet
  BY <1>1, LegalFacts
<1>4. Dotted(t) \in [1..n -> Alphabet]
  <2> HIDE DEF n
  <2> QED
    BY <1>2, <1>3
<1>5. Dotted(t) \in Seq(Alphabet) /\ Len(Dotted(t)) = n
  <2>1. Dotted(t) \in Seq(Alphabet)
    BY <1>1, <1>4, SeqDef
  <2>2. DOMAIN Dotted(t) = 1..n
    BY <1>2
  <2> HIDE DEF n
  <2> QED
    BY <1>1, <2>1, <2>2, LenProperties
<1>6. \A i \in 1..n : t[i] # "/" => Dotted(t)[i] = t[i]
  BY <1>2
<1>7. ASSUME t \in Seq(LegalOnes) PROVE Dotted(t) = t
  <2>1. \A i \in 1..n : t[i] # "/"
    BY <1>7, LegalFacts, ElementOfSeq
  <2> QED
    BY <1>5, <1>6, <2>1, SeqEqual
<1> QED
  BY <1>5, <1>6, <1>7

LEMMA TrimProperties ==
  ASSUME NEW t \in Seq(Alphabet)
  PROVE  /\ TrimPrefix(t) \in Seq(Alphabet)
         /\ Len(t) = 0 \/ t[1] # "/" => TrimPrefix(t) = t
<1>1. ASSUME IsPrefix(<<"/">>, t) PROVE Len(t) > 0 /\ t[1] = "/"
  <2>1. Len(<<"/">>) = 1 /\ Len(t) \in Nat
    BY LenProperties
  <2>2. 1 <= Len(t) /\ SubSeq(<<"/">>, 1, 1) = SubSeq(t, 1, 1)
    BY <1>1, <2>1 DEF IsPrefix
  <2>3. SubSeq(<<"/">>, 1, 1)[1] = "/"
    OBVIOUS
  <2>4. SubSeq(t, 1, 1)[1] = t[1]
    BY <2>1, <2>2
  <2> QED
    BY <2>1, <2>2, <2>3, <2>4
<1>2. CASE IsPrefix(<<"/">>, t)
  <2>1. t # <<>> /\ Len(t) \in Nat
    BY <1>1, <1>2, EmptySeq, LenProperties
  <2>2. TrimPrefix(t) = Tail(t) /\ Tail(t) \in Seq(Alphabet)
    BY <1>2, <2>1, HeadTailProperties DEF TrimPrefix
  <2>3. ~(Len(t) = 0) /\ t[1] = "/"
    BY <1>1, <1>2, <2>1
  <2> QED
    BY <2>2, <2>3
<1>3. CASE ~IsPrefix(<<"/">>, t)
  BY <1>3 DEF TrimPrefix
<1> QED
  BY <1>2, <1>3

(* The namespace, as a prefix of a legal name.                              *)
LEMMA NamespaceFacts ==
  ASSUME NEW t \in Seq(LegalOnes)
  PROVE  /\ IsPrefix(Namespace, t) => Len(t) >= 3 /\ t[1] = "b"
         /\ Namespace \o t \in Seq(LegalOnes)
         /\ IsPrefix(Namespace, Namespace \o t)
         /\ Len(Namespace \o t) = Len(t) + 3
         /\ Len(t) > 0 => (Namespace \o t)[4] = t[1]
<1>1. /\ Namespace \in Seq(LegalOnes) /\ Len(Namespace) = 3
      /\ Namespace[1] = "b" /\ Namespace[2] = "z" /\ Namespace[3] = "."
  BY LegalFacts DEF Namespace
<1>2. Len(t) \in Nat
  BY LenProperties
<1>3. /\ Namespace \o t \in Seq(LegalOnes)
      /\ Len(Namespace \o t) = 3 + Len(t)
      /\ \A i \in 1..(3 + Len(t)) :
           (Namespace \o t)[i] = IF i <= 3 THEN Namespace[i] ELSE t[i - 3]
  <2>1. /\ Namespace \o t \in Seq(LegalOnes)
        /\ Len(Namespace \o t) = Len(Namespace) + Len(t)
        /\ \A i \in 1..(Len(Namespace) + Len(t)) :
             (Namespace \o t)[i] = IF i <= Len(Namespace) THEN Namespace[i]
                                   ELSE t[i - Len(Namespace)]
    BY <1>1, ConcatProperties
  <2>2. Len(Namespace) = 3
    BY <1>1
  <2> QED
    BY <2>1, <2>2, Zenon
<1>4. ASSUME IsPrefix(Namespace, t) PROVE Len(t) >= 3 /\ t[1] = "b"
  <2>1. 3 <= Len(t) /\ SubSeq(Namespace, 1, 3) = SubSeq(t, 1, 3)
    BY <1>1, <1>4 DEF IsPrefix
  <2>2. SubSeq(Namespace, 1, 3)[1] = "b" /\ SubSeq(t, 1, 3)[1] = t[1]
    BY <1>1, <1>2, <2>1
  <2> QED
    BY <1>2, <2>1, <2>2
<1>5. IsPrefix(Namespace, Namespace \o t)
  <2>1. SubSeq(Namespace \o t, 1, 3) = SubSeq(Namespace, 1, 3)
    <3>1. Namespace \in Seq(LegalOnes) /\ 1 \in 1..Len(Namespace) /\ 3 \in 1..Len(Namespace)
      BY <1>1
    <3> QED
      BY <3>1, SubSeqOfConcat1, Zenon
  <2> QED
    BY <1>1, <1>2, <1>3, <2>1 DEF IsPrefix
<1>6. ASSUME Len(t) > 0 PROVE (Namespace \o t)[4] = t[1]
  <2>1. 4 \in 1..(3 + Len(t)) /\ ~(4 <= 3) /\ 4 - 3 = 1
    BY <1>2, <1>6
  <2> QED
    BY <1>3, <2>1
<1>7. Len(Namespace \o t) = Len(t) + 3
  BY <1>2, <1>3
<1> QED
  BY <1>3, <1>4, <1>5, <1>6, <1>7

LEMMA SanitizeTopicProperties ==
  ASSUME NEW t \in Seq(Alphabet)
  PROVE  /\ SanitizeTopic(t) \in Seq(LegalOnes)
         /\ IsPrefix(Namespace, SanitizeTopic(t))
         /\ Len(t) > 0 /\ t[1] \in Words
              => Len(SanitizeTopic(t)) > 3 /\ SanitizeTopic(t)[4] = t[1]
         /\ t \in Seq(LegalOnes) /\ IsPrefix(Namespace, t) => SanitizeTopic(t) = t
<1> DEFINE trimmed == TrimPrefix(t)
           dotted == Dotted(trimmed)
           legal == RemoveIllegal(dotted)
<1>1. trimmed \in Seq(Alphabet) /\ (Len(t) = 0 \/ t[1] # "/" => trimmed = t)
  BY TrimProperties
<1> HIDE DEF trimmed
<1>2. /\ dotted \in Seq(Alphabet) /\ Len(dotted) = Len(trimmed)
      /\ \A i \in 1..Len(trimmed) : trimmed[i] # "/" => dotted[i] = trimmed[i]
      /\ trimmed \in Seq(LegalOnes) => dotted = trimmed
  BY <1>1, DottedProperties
<1> HIDE DEF dotted
<1>3. /\ legal \in Seq(LegalOnes)
      /\ Len(dotted) > 0 /\ IsLegal(dotted[1]) => Len(legal) > 0 /\ legal[1] = dotted[1]
      /\ dotted \in Seq(LegalOnes) => legal = dotted
  BY <1>2, RemoveIllegalProperties
<1> HIDE DEF legal
<1>4. SanitizeTopic(t) = IF IsPrefix(Namespace, legal) THEN legal ELSE Namespace \o legal
  BY DEF SanitizeTopic, HasPrefix, trimmed, dotted, legal
<1>5. SanitizeTopic(t) \in Seq(LegalOnes) /\ IsPrefix(Namespace, SanitizeTopic(t))
  BY <1>3, <1>4, NamespaceFacts
<1>6. ASSUME Len(t) > 0, t[1] \in Words
      PROVE  Len(SanitizeTopic(t)) > 3 /\ SanitizeTopic(t)[4] = t[1]
  <2>1. IsLegal(t[1]) /\ t[1] # "/" /\ t[1] # "b"
    BY <1>6 DEF Words, IsLegal, Illegal
  <2>2. Len(t) \in Nat /\ 1 \in 1..Len(t)
    BY <1>6, LenProperties
  <2>3. trimmed = t
    BY <1>1, <2>1
  <2>4. Len(dotted) = Len(t) /\ dotted[1] = t[1]
    BY <1>2, <2>1, <2>2, <2>3
  <2>5. Len(legal) > 0 /\ legal[1] = t[1]
    BY <1>3, <1>6, <2>1, <2>4
  <2>6. SanitizeTopic(t) = Namespace \o legal
    BY <1>3, <1>4, <2>1, <2>5, NamespaceFacts
  <2>7. Len(legal) \in Nat
    BY <1>3, LenProperties
  <2>8. Len(Namespace \o legal) = Len(legal) + 3 /\ (Namespace \o legal)[4] = t[1]
    BY <1>3, <2>5, NamespaceFacts
  <2> QED
    BY <2>5, <2>6, <2>7, <2>8
<1>7. ASSUME t \in Seq(LegalOnes), IsPrefix(Namespace, t) PROVE SanitizeTopic(t) = t
  <2>1. t[1] = "b"
    BY <1>7, NamespaceFacts
  <2>2. trimmed = t
    BY <1>1, <2>1
  <2>3. dotted = t
    BY <1>2, <1>7, <2>2
  <2>4. legal = t
    BY <1>3, <1>7, <2>3
  <2> QED
    BY <1>4, <1>7, <2>4
<1> QED
  BY <1>5, <1>6, <1>7

----------------------------------------------------------------------------
(* The inductive invariant.  A name on its way to Publish is still marked   *)
(* with the word of its front end, or has been sanitized (REST); what was   *)
(* sent is legal, in the namespace, and the word comes right behind it.     *)
Fronts == {"rest", "coap", "mqtt", "snmp"}

TypeOK ==
  /\ front \in Fronts /\ at \in {"front", "publish", "sent"}
  /\ source \in Seq(Alphabet) /\ topic \in Seq(Alphabet)

Clean(t) == t \in Seq(LegalOnes) /\ IsPrefix(Namespace, t)

OnItsWay ==
  at = "publish" =>
    IF front = "rest" THEN Clean(topic)
    ELSE Len(topic) > 0 /\ topic[1] = WordOf[front]

Arrived ==
  at = "sent" =>
    /\ Clean(topic)
    /\ front # "rest" => Len(topic) > 3 /\ topic[4] = WordOf[front]

IInv == TypeOK /\ OnItsWay /\ Arrived

LEMMA WordFacts ==
  /\ DOMAIN WordOf = {"coap", "mqtt", "snmp"}
  /\ WordOf["coap"] = "coap" /\ WordOf["mqtt"] = "mq" /\ WordOf["snmp"] = "snmp"
  /\ \A f \in DOMAIN WordOf : WordOf[f] \in Words
  /\ \A f, g \in DOMAIN WordOf : WordOf[f] = WordOf[g] => f = g
BY DEF WordOf, Words

LEMMA TagFacts ==
  /\ Tag("rest") = <<>>
  /\ \A f \in DOMAIN WordOf :
       Tag(f) \in Seq(LegalOnes) /\ Len(Tag(f)) > 0 /\ Tag(f)[1] = WordOf[f]
<1>1. Tag("rest") = <<>>
  BY DEF Tag
<1>2. /\ Tag("coap") = <<"coap">> /\ Tag("mqtt") = <<"mq", ".">>
      /\ Tag("snmp") = <<"snmp", ".", "op", ".">>
  BY DEF Tag
<1>3. /\ <<"coap">> \in Seq(LegalOnes) /\ <<"mq", ".">> \in Seq(LegalOnes)
      /\ <<"snmp", ".", "op", ".">> \in Seq(LegalOnes)
  BY LegalFacts
<1>4. Tag("coap") \in Seq(LegalOnes) /\ Len(Tag("coap")) > 0 /\ Tag("coap")[1] = "coap"
  BY <1>2, <1>3
<1>5. Tag("mqtt") \in Seq(LegalOnes) /\ Len(Tag("mqtt")) > 0 /\ Tag("mqtt")[1] = "mq"
  <2>1. Len(<<"mq", ".">>) = 2 /\ <<"mq", ".">>[1] = "mq"
    OBVIOUS
  <2>2. Tag("mqtt") \in Seq(LegalOnes)
    BY <1>2, <1>3
  <2> QED
    BY <1>2, <2>1, <2>2
<1>6. Tag("snmp") \in Seq(LegalOnes) /\ Len(Tag("snmp")) > 0 /\ Tag("snmp")[1] = "snmp"
  <2>1. Len(<<"snmp", ".", "op", ".">>) = 4 /\ <<"snmp", ".", "op", ".">>[1] = "snmp"
    OBVIOUS
  <2>2. Tag("snmp") \in Seq(LegalOnes)
    BY <1>2, <1>3
  <2> QED
    BY <1>2, <2>1, <2>2
<1> QED
  BY <1>1, <1>4, <1>5, <1>6, WordFacts

LEMMA LegalInAlphabet ==
  \A t : t \in Seq(LegalOnes) => t \in Seq(Alphabet)
BY LegalFacts, SeqMonotonic

LEMMA InitIInv == Init => IInv
<1> SUFFICES ASSUME Init PROVE IInv
  OBVIOUS
<1>1. front \in Fronts /\ at = "front" /\ topic = source
  BY DEF Init, Fronts
<1>2. PICK n \in 0..MaxLen : source \in [1..n -> Characters]
  BY DEF Init, BoundedSeq, SeqOf
<1>3. n \in Nat
  BY <1>2, TopicsAssumption DEF TopicsAssumption
<1>4. source \in Seq(Characters)
  BY <1>2, <1>3, SeqDef
<1>5. source \in Seq(Alphabet)
  BY <1>4, SeqMonotonic DEF Alphabet
<1> QED
  BY <1>1, <1>5 DEF IInv, TypeOK, OnItsWay, Arrived

LEMMA FrontEndStep ==
  ASSUME IInv, FrontEnd
  PROVE  IInv'
<1>1. /\ at' = "publish" /\ front' = front /\ source' = source
      /\ topic' = Tag(front) \o (IF Sanitizes(front) THEN SanitizeTopic(source) ELSE source)
  BY DEF FrontEnd
<1>2. source \in Seq(Alphabet) /\ front \in Fronts
  BY DEF IInv, TypeOK
<1>3. Clean(SanitizeTopic(source))
  BY <1>2, SanitizeTopicProperties DEF Clean
<1>4. SanitizeTopic(source) \in Seq(Alphabet)
  BY <1>3, LegalInAlphabet DEF Clean
<1>5. CASE front = "rest"
  <2>1. topic' = <<>> \o SanitizeTopic(source)
    BY <1>1, <1>5, TagFacts DEF Sanitizes
  <2>2. topic' = SanitizeTopic(source)
    BY <1>4, <2>1, ConcatEmptySeq
  <2>3. TypeOK'
    BY <1>1, <1>2, <1>4, <2>2 DEF TypeOK
  <2>4. OnItsWay'
    BY <1>1, <1>3, <1>5, <2>2 DEF OnItsWay, Clean
  <2> QED
    BY <1>1, <2>3, <2>4 DEF IInv, Arrived
<1>6. CASE front # "rest"
  <2> DEFINE name == IF Sanitizes(front) THEN SanitizeTopic(source) ELSE source
  <2>1. name \in Seq(Alphabet) /\ topic' = Tag(front) \o name
    BY <1>1, <1>2, <1>4
  <2> HIDE DEF name
  <2>2. front \in DOMAIN WordOf
    BY <1>2, <1>6, WordFacts DEF Fronts
  <2>3. Tag(front) \in Seq(Alphabet) /\ Len(Tag(front)) > 0 /\ Tag(front)[1] = WordOf[front]
    BY <2>2, TagFacts, LegalInAlphabet
  <2>4. /\ topic' \in Seq(Alphabet) /\ Len(topic') = Len(Tag(front)) + Len(name)
        /\ \A i \in 1..(Len(Tag(front)) + Len(name)) :
             topic'[i] = IF i <= Len(Tag(front)) THEN Tag(front)[i]
                         ELSE name[i - Len(Tag(front))]
    BY <2>1, <2>3, ConcatProperties
  <2>5. Len(Tag(front)) \in Nat /\ Len(name) \in Nat
    BY <2>1, <2>3, LenProperties
  <2>6. Len(topic') > 0 /\ topic'[1] = WordOf[front]
    <3>1. 1 \in 1..(Len(Tag(front)) + Len(name)) /\ 1 <= Len(Tag(front))
      BY <2>3, <2>5
    <3>2. topic'[1] = Tag(front)[1]
      BY <2>4, <3>1
    <3> QED
      BY <2>3, <2>4, <2>5, <3>2
  <2>7. TypeOK'
    BY <1>1, <1>2, <2>4 DEF TypeOK
  <2>8. OnItsWay'
    BY <1>1, <1>6, <2>6 DEF OnItsWay
  <2> QED
    BY <1>1, <2>7, <2>8 DEF IInv, Arrived
<1> QED
  BY <1>5, <1>6

LEMMA PublishStep ==
  ASSUME IInv, Publish
  PROVE  IInv'
<1>1. /\ at = "publish" /\ at' = "sent" /\ front' = front /\ source' = source
      /\ topic' = SanitizeTopic(topic)
  BY DEF Publish
<1>2. topic \in Seq(Alphabet)
  BY DEF IInv, TypeOK
<1>3. Clean(SanitizeTopic(topic))
  BY <1>2, SanitizeTopicProperties DEF Clean
<1>4. SanitizeTopic(topic) \in Seq(Alphabet)
  BY <1>3, LegalInAlphabet DEF Clean
<1>5. ASSUME front # "rest"
      PROVE  Len(SanitizeTopic(topic)) > 3 /\ SanitizeTopic(topic)[4] = WordOf[front]
  <2>1. front \in DOMAIN WordOf
    BY <1>5, WordFacts DEF IInv, TypeOK, Fronts
  <2>2. Len(topic) > 0 /\ topic[1] = WordOf[front]
    BY <1>1, <1>5 DEF IInv, OnItsWay
  <2>3. topic[1] \in Words
    BY <2>1, <2>2, WordFacts
  <2> QED
    BY <1>2, <2>2, <2>3, SanitizeTopicProperties
<1>6. TypeOK'
  BY <1>1, <1>4 DEF IInv, TypeOK
<1>7. Arrived'
  BY <1>1, <1>3, <1>5 DEF Arrived, Clean
<1> QED
  BY <1>1, <1>6, <1>7 DEF IInv, OnItsWay

LEMMA NextIInv == IInv /\ [Next]_vars => IInv'
<1> SUFFICES ASSUME IInv, [Next]_vars PROVE IInv'
  OBVIOUS
<1>1. CASE FrontEnd
  BY <1>1, FrontEndStep
<1>2. CASE Publish
  BY <1>2, PublishStep
<1>3. CASE UNCHANGED vars
  BY <1>3 DEF vars, IInv, TypeOK, OnItsWay, Arrived, Clean
<1> QED
  BY <1>1, <1>2, <1>3 DEF Next

(* FrontEnd and Publish lead names of any length from IInv to IInv.         *)
THEOREM Invariance == Spec => []IInv
BY InitIInv, NextIInv, PTL DEF Spec

----------------------------------------------------------------------------
(* What IInv implies.                                                       *)

(* Whatever name a message of any length comes with, the topic of its       *)
(* record has only characters Kafka allows and lies in the program's        *)
(* namespace.  Nothing is said of its length.                               *)
THEOREM OnlyLegalCharacters == Spec => []LegalCharacters
<1>1. IInv => LegalCharacters
  <2> SUFFICES ASSUME IInv, at = "sent"
               PROVE  /\ \A i \in DOMAIN topic : topic[i] \notin Illegal
                      /\ IsPrefix(Namespace, topic)
    BY DEF LegalCharacters
  <2>1. topic \in Seq(LegalOnes) /\ IsPrefix(Namespace, topic)
    BY DEF IInv, Arrived, Clean
  <2>2. ASSUME NEW i \in DOMAIN topic PROVE topic[i] \notin Illegal
    <3>1. topic[i] \in LegalOnes
      BY <2>1, LenProperties, ElementOfSeq
    <3> QED
      BY <3>1, LegalFacts
  <2> QED
    BY <2>1, <2>2
<1> QED
  BY <1>1, Invariance, PTL

(* No name of any length carries a CoAP, MQTT or SNMP record into the       *)
(* topics of another front end: the word is the topic's fourth character.   *)
THEOREM FrontEndsDoNotMix == Spec => []FrontEndsKeepApart
<1>1. IInv => FrontEndsKeepApart
  <2> SUFFICES ASSUME IInv, at = "sent", NEW f \in DOMAIN WordOf,
                      IsPrefix(Append(Namespace, WordOf[f]), topic), front # "rest"
               PROVE  front = f
    BY DEF FrontEndsKeepApart
  <2>1. topic \in Seq(LegalOnes) /\ topic[4] = WordOf[front]
    BY DEF IInv, Arrived, Clean
  <2>2. front \in DOMAIN WordOf
    BY WordFacts DEF IInv, TypeOK, Fronts
  <2> DEFINE p == Append(Namespace, WordOf[f])
  <2>3. Len(p) = 4 /\ p[4] = WordOf[f]
    BY DEF Namespace
  <2>4. 4 <= Len(topic) /\ SubSeq(p, 1, 4) = SubSeq(topic, 1, 4)
    BY <2>3 DEF IsPrefix
  <2>5. SubSeq(p, 1, 4)[4] = p[4] /\ SubSeq(topic, 1, 4)[4] = topic[4]
    <3> HIDE DEF p
    <3>1. Len(topic) \in Nat
      BY <2>1, LenProperties
    <3> QED
      BY <2>3, <2>4, <3>1
  <2>6. WordOf[f] = WordOf[front]
    BY <2>1, <2>3, <2>4, <2>5
  <2> QED
    BY <2>2, <2>6, WordFacts
<1> QED
  BY <1>1, Invariance, PTL

(* Publish leaves the topic REST has made as it is, whatever its length.    *)
THEOREM RestTopicIsFinal == Spec => SecondPassIsIdle
<1>1. IInv /\ [Next]_vars => [at = "publish" /\ front = "rest" => topic' = topic]_vars
  <2> SUFFICES ASSUME IInv, Next, at = "publish", front = "rest"
               PROVE  topic' = topic
    BY DEF vars
  <2>1. topic' = SanitizeTopic(topic)
    BY DEF Next, FrontEnd, Publish
  <2>2. topic \in Seq(Alphabet) /\ Clean(topic)
    BY DEF IInv, TypeOK, OnItsWay
  <2> QED
    BY <2>1, <2>2, SanitizeTopicProperties DEF Clean
<1> QED
  BY <1>1, Invariance, PTL DEF Spec, SecondPassIsIdle
=============================================================================
