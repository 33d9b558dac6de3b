-------------------------- MODULE DictionaryProofs --------------------------
(***************************************************************************)
(* Proofs about container/dictionary.c, for every table size and every    *)
(* hash function: the lists stay well hashed, and the dictionary refines  *)
(* KeyValueMap.                                                            *)
(***************************************************************************)
EXTENDS Dictionary, SequenceTheorems, TLAPS

\* The keys of a list are pairwise distinct.
UniqueKeys(c) ==
    \A i, j \in 1..Len(c) : i # j => c[i].key # c[j].key

\* The representation invariant of a table value.
WH(t) ==
    \A b \in Buckets :
        /\ UniqueKeys(t[b])
        /\ \A i \in 1..Len(t[b]) : Hash[t[b][i].key] = b

Tables == [Buckets -> Seq(Entry)]

\* The key has an entry in its bucket.
Has(t, k) == \E i \in 1..Len(t[Hash[k]]) : t[Hash[k]][i].key = k

-----------------------------------------------------------------------------
(* The walk of a list with distinct keys stops at the entry of the key.    *)
LEMMA MatchAt ==
    ASSUME NEW c \in Seq(Entry), UniqueKeys(c),
           NEW k, NEW i \in 1..Len(c), c[i].key = k
    PROVE  Match(c, k) = i
<1> DEFINE P(x) == /\ c[x].key = k
                   /\ \A j \in 1..(x - 1) : c[j].key # k
<1>1. P(i)
  BY DEF UniqueKeys
<1>2. \A x \in 1..Len(c) : P(x) => x = i
  BY DEF UniqueKeys
<1>3. Match(c, k) = CHOOSE x \in 1..Len(c) : P(x)
  BY DEF Match
<1>4. (CHOOSE x \in 1..Len(c) : P(x)) = i
  BY <1>1, <1>2
<1>. QED
  BY <1>3, <1>4

(* A walk that meets no entry of the key returns 0.                        *)
LEMMA MatchNone ==
    ASSUME NEW c \in Seq(Entry), NEW k,
           \A i \in 1..Len(c) : c[i].key # k
    PROVE  Match(c, k) = 0
BY DEF Match

(* In a well-hashed table, dictionary_get returns the payload of the key's *)
(* entry, and NULL when it has none.                                       *)
LEMMA GetInEntry ==
    ASSUME HashAssumption, NEW t \in Tables, WH(t), NEW k \in Key,
           NEW i \in 1..Len(t[Hash[k]]), t[Hash[k]][i].key = k
    PROVE  GetIn(t, k) = t[Hash[k]][i].payload
<1>1. t[Hash[k]] \in Seq(Entry) /\ UniqueKeys(t[Hash[k]])
  BY DEF HashAssumption, Tables, WH
<1>2. Match(t[Hash[k]], k) = i
  BY <1>1, MatchAt
<1>. QED
  BY <1>2 DEF GetIn

LEMMA GetInNone ==
    ASSUME HashAssumption, NEW t \in Tables, NEW k \in Key, ~Has(t, k)
    PROVE  GetIn(t, k) = NULL
<1>1. t[Hash[k]] \in Seq(Entry)
  BY DEF HashAssumption, Tables
<1>2. Match(t[Hash[k]], k) = 0
  BY <1>1, MatchNone DEF Has
<1>. QED
  BY <1>2 DEF GetIn

(* A stored key is one the table has an entry for.                         *)
LEMMA MatchHas ==
    ASSUME HashAssumption, NEW t \in Tables, WH(t), NEW k \in Key
    PROVE  Match(t[Hash[k]], k) # 0 <=> Has(t, k)
<1>1. t[Hash[k]] \in Seq(Entry) /\ UniqueKeys(t[Hash[k]])
  BY DEF HashAssumption, Tables, WH
<1>2. CASE Has(t, k)
  <2>1. PICK i \in 1..Len(t[Hash[k]]) : t[Hash[k]][i].key = k
    BY <1>2 DEF Has
  <2>2. Match(t[Hash[k]], k) = i
    BY <1>1, <2>1, MatchAt
  <2>. QED
    BY <1>2, <2>2
<1>3. CASE ~Has(t, k)
  BY <1>1, <1>3, MatchNone DEF Has
<1>. QED
  BY <1>2, <1>3

-----------------------------------------------------------------------------
(* The list dictionary_insert builds for a new key: the entry, then the    *)
(* old list one position further on.                                       *)
LEMMA PushProps ==
    ASSUME NEW c \in Seq(Entry), NEW e \in Entry
    PROVE  /\ <<e>> \o c \in Seq(Entry)
           /\ Len(<<e>> \o c) = Len(c) + 1
           /\ (<<e>> \o c)[1] = e
           /\ \A j \in 2..(Len(c) + 1) : (<<e>> \o c)[j] = c[j - 1]
<1>1. <<e>> \in Seq(Entry) /\ Len(<<e>>) = 1 /\ <<e>>[1] = e
  OBVIOUS
<1>. QED
  BY <1>1, ConcatProperties

(* Two pieces of a list put back together, the entry at i left out.       *)
LEMMA JoinAround ==
    ASSUME NEW c \in Seq(Entry), NEW i \in 1..Len(c),
           NEW s1 \in Seq(Entry), NEW s2 \in Seq(Entry),
           Len(s1) = i - 1, \A j \in 1..(i - 1) : s1[j] = c[j],
           Len(s2) = Len(c) - i, \A j \in 1..(Len(c) - i) : s2[j] = c[i + j]
    PROVE  /\ s1 \o s2 \in Seq(Entry)
           /\ Len(s1 \o s2) = Len(c) - 1
           /\ \A j \in 1..(Len(c) - 1) :
                 (s1 \o s2)[j] = IF j < i THEN c[j] ELSE c[j + 1]
<1>1. /\ s1 \o s2 \in Seq(Entry)
      /\ Len(s1 \o s2) = Len(s1) + Len(s2)
      /\ \A j \in 1..(Len(s1) + Len(s2)) :
            (s1 \o s2)[j] = IF j <= Len(s1) THEN s1[j] ELSE s2[j - Len(s1)]
  BY ConcatProperties
<1>. QED
  BY <1>1

(* The list dictionary_remove leaves: position i unlinked, the entries     *)
(* after it one position closer to the head.                               *)
LEMMA UnlinkProps ==
    ASSUME NEW c \in Seq(Entry), NEW i \in 1..Len(c)
    PROVE  /\ SubSeq(c, 1, i - 1) \o SubSeq(c, i + 1, Len(c)) \in Seq(Entry)
           /\ Len(SubSeq(c, 1, i - 1) \o SubSeq(c, i + 1, Len(c))) = Len(c) - 1
           /\ \A j \in 1..(Len(c) - 1) :
                 (SubSeq(c, 1, i - 1) \o SubSeq(c, i + 1, Len(c)))[j]
                    = IF j < i THEN c[j] ELSE c[j + 1]
<1>1. /\ SubSeq(c, 1, i - 1) \in Seq(Entry)
      /\ Len(SubSeq(c, 1, i - 1)) = i - 1
      /\ \A j \in 1..(i - 1) : SubSeq(c, 1, i - 1)[j] = c[j]
  BY SubSeqProperties
<1>2. /\ SubSeq(c, i + 1, Len(c)) \in Seq(Entry)
      /\ Len(SubSeq(c, i + 1, Len(c))) = Len(c) - i
      /\ \A j \in 1..(Len(c) - i) : SubSeq(c, i + 1, Len(c))[j] = c[i + j]
  BY SubSeqProperties
<1>3. PICK s1 \in Seq(Entry) : s1 = SubSeq(c, 1, i - 1)
  BY <1>1
<1>4. PICK s2 \in Seq(Entry) : s2 = SubSeq(c, i + 1, Len(c))
  BY <1>2
<1>5. /\ s1 \o s2 \in Seq(Entry)
      /\ Len(s1 \o s2) = Len(c) - 1
      /\ \A j \in 1..(Len(c) - 1) :
            (s1 \o s2)[j] = IF j < i THEN c[j] ELSE c[j + 1]
  <2>1. Len(s1) = i - 1 /\ \A j \in 1..(i - 1) : s1[j] = c[j]
    BY <1>1, <1>3
  <2>2. Len(s2) = Len(c) - i /\ \A j \in 1..(Len(c) - i) : s2[j] = c[i + j]
    BY <1>2, <1>4
  <2>. QED
    BY <2>1, <2>2, JoinAround, ZenonT(60)
<1>. QED
  BY <1>3, <1>4, <1>5, Zenon

-----------------------------------------------------------------------------
(* Every table operation replaces one bucket list: the others, and the     *)
(* keys that hash to them, are untouched.                                  *)
LEMMA Rebucket ==
    ASSUME HashAssumption, NEW t \in Tables, WH(t), NEW b \in Buckets,
           NEW s \in Seq(Entry), UniqueKeys(s),
           \A j \in 1..Len(s) : Hash[s[j].key] = b
    PROVE  /\ [t EXCEPT ![b] = s] \in Tables
           /\ WH([t EXCEPT ![b] = s])
           /\ \A x \in Key : Hash[x] # b =>
                 /\ Has([t EXCEPT ![b] = s], x) <=> Has(t, x)
                 /\ GetIn([t EXCEPT ![b] = s], x) = GetIn(t, x)
<1>1. [t EXCEPT ![b] = s] \in Tables
  BY DEF Tables
<1>2. WH([t EXCEPT ![b] = s])
  BY DEF WH, Tables
<1>3. ASSUME NEW x \in Key, Hash[x] # b
      PROVE  [t EXCEPT ![b] = s][Hash[x]] = t[Hash[x]]
  BY <1>3 DEF HashAssumption, Tables
<1>. QED
  BY <1>1, <1>2, <1>3 DEF Has, GetIn

(* dictionary_insert of a key the table has: its entry's payload is        *)
(* overwritten in place and the old one returned.                          *)
LEMMA InsertFound ==
    ASSUME HashAssumption, NEW t \in Tables, WH(t), NEW k \in Key,
           NEW p \in Payload, Has(t, k)
    PROVE  /\ InsertIn(t, k, p).table \in Tables
           /\ WH(InsertIn(t, k, p).table)
           /\ InsertIn(t, k, p).ret = GetIn(t, k)
           /\ \A x \in Key : Has(InsertIn(t, k, p).table, x) <=> Has(t, x)
           /\ \A x \in Key : Has(InsertIn(t, k, p).table, x) =>
                 GetIn(InsertIn(t, k, p).table, x) = IF x = k THEN p ELSE GetIn(t, x)
<1> DEFINE b == Hash[k]
           c == t[b]
<1> USE DEF b, c
<1>1. b \in Buckets /\ c \in Seq(Entry)
  BY DEF HashAssumption, Tables
<1>2. UniqueKeys(c)
  BY <1>1 DEF WH
<1>3. \A j \in 1..Len(c) : Hash[c[j].key] = b
  BY <1>1 DEF WH
<1>4. PICK i \in 1..Len(c) : c[i].key = k
  BY DEF Has
<1>5. Match(c, k) = i
  BY <1>1, <1>2, <1>4, MatchAt
<1> DEFINE e == [key |-> k, payload |-> p]
           s == [c EXCEPT ![i] = e]
           t2 == [t EXCEPT ![b] = s]
<1> USE DEF e, s, t2
<1>6. e \in Entry /\ c[i] \in Entry
  <2>1. e \in Entry
    BY DEF Entry
  <2>2. c[i] \in Entry
    BY <1>1
  <2>. QED
    BY <2>1, <2>2
<1>7. [t EXCEPT ![b][i].payload = p] = t2
  <2>1. [c[i] EXCEPT !.payload = p] = e
    BY <1>4, <1>6 DEF Entry
  <2>2. [t EXCEPT ![b][i].payload = p]
           = [t EXCEPT ![b] = [c EXCEPT ![i] = [c[i] EXCEPT !.payload = p]]]
    OBVIOUS
  <2>3. [c EXCEPT ![i] = [c[i] EXCEPT !.payload = p]] = s
    BY <2>1
  <2>. QED
    BY <2>2, <2>3, Zenon
<1>8. InsertIn(t, k, p) = [table |-> t2, ret |-> c[i].payload]
  BY <1>5, <1>7 DEF InsertIn
<1>9. /\ s \in Seq(Entry)
      /\ Len(s) = Len(c)
      /\ \A j \in 1..Len(c) : s[j] = IF j = i THEN e ELSE c[j]
  BY <1>1, <1>6, ExceptSeq
<1>10. UniqueKeys(s)
  BY <1>2, <1>4, <1>9 DEF UniqueKeys
<1>11. \A j \in 1..Len(s) : Hash[s[j].key] = b
  BY <1>3, <1>4, <1>9
<1>12. /\ t2 \in Tables
       /\ WH(t2)
       /\ \A x \in Key : Hash[x] # b =>
             /\ Has(t2, x) <=> Has(t, x)
             /\ GetIn(t2, x) = GetIn(t, x)
  BY <1>1, <1>9, <1>10, <1>11, Rebucket
<1>13. t2[b] = s
  BY <1>1 DEF Tables
<1>14. GetIn(t, k) = c[i].payload
  BY <1>4, GetInEntry
<1>15. \A j \in 1..Len(c) : s[j].key = c[j].key
  BY <1>4, <1>9
<1>16. ASSUME NEW x \in Key, Hash[x] = b
       PROVE  Has(t2, x) <=> Has(t, x)
  <2>1. t2[Hash[x]] = s /\ t[Hash[x]] = c
    BY <1>13, <1>16
  <2>. QED
    BY <2>1, <1>9, <1>15 DEF Has
<1>17. ASSUME NEW x \in Key, Hash[x] = b, Has(t2, x)
       PROVE  GetIn(t2, x) = IF x = k THEN p ELSE GetIn(t, x)
  <2>0. t2[Hash[x]] = s /\ t[Hash[x]] = c
    BY <1>13, <1>17
  <2>1. PICK j \in 1..Len(s) : s[j].key = x
    BY <1>17, <2>0 DEF Has
  <2>2. GetIn(t2, x) = s[j].payload
    <3>1. j \in 1..Len(t2[Hash[x]]) /\ t2[Hash[x]][j].key = x
      BY <2>0, <2>1
    <3>2. GetIn(t2, x) = t2[Hash[x]][j].payload
      BY <3>1, <1>12, GetInEntry
    <3>. QED
      BY <3>2, <2>0
  <2>3. CASE j = i
    BY <2>1, <2>2, <2>3, <1>9
  <2>4. CASE j # i
    <3>1. x # k /\ c[j].key = x
      BY <2>1, <2>4, <1>2, <1>4, <1>9 DEF UniqueKeys
    <3>2. GetIn(t, x) = c[j].payload
      BY <3>1, <2>0, <1>9, GetInEntry
    <3>. QED
      BY <2>2, <2>4, <3>1, <3>2, <1>9
  <2>. QED
    BY <2>3, <2>4
<1>18. \A x \in Key : Has(t2, x) <=> Has(t, x)
  BY <1>12, <1>16
<1>19. \A x \in Key : Has(t2, x) => GetIn(t2, x) = IF x = k THEN p ELSE GetIn(t, x)
  BY <1>12, <1>17
<1>20. InsertIn(t, k, p).table = t2 /\ InsertIn(t, k, p).ret = c[i].payload
  BY <1>8
<1>. QED
  BY <1>12, <1>14, <1>18, <1>19, <1>20

(* dictionary_insert of a key the table lacks: a new entry is pushed at    *)
(* the head of its bucket and NULL returned.                               *)
LEMMA InsertNew ==
    ASSUME HashAssumption, NEW t \in Tables, WH(t), NEW k \in Key,
           NEW p \in Payload, ~Has(t, k)
    PROVE  /\ InsertIn(t, k, p).table \in Tables
           /\ WH(InsertIn(t, k, p).table)
           /\ InsertIn(t, k, p).ret = GetIn(t, k)
           /\ \A x \in Key : Has(InsertIn(t, k, p).table, x) <=> (Has(t, x) \/ x = k)
           /\ \A x \in Key : Has(InsertIn(t, k, p).table, x) =>
                 GetIn(InsertIn(t, k, p).table, x) = IF x = k THEN p ELSE GetIn(t, x)
<1> DEFINE b == Hash[k]
           c == t[b]
           e == [key |-> k, payload |-> p]
<1> USE DEF b, c, e
<1>1. b \in Buckets /\ c \in Seq(Entry)
  BY DEF HashAssumption, Tables
<1>0. PICK s : s = <<e>> \o c
  OBVIOUS
<1> DEFINE t2 == [t EXCEPT ![b] = s]
<1> USE DEF t2
<1>2. UniqueKeys(c)
  BY <1>1 DEF WH
<1>3. \A j \in 1..Len(c) : Hash[c[j].key] = b
  BY <1>1 DEF WH
<1>4. \A j \in 1..Len(c) : c[j].key # k
  BY DEF Has
<1>5. Match(c, k) = 0
  BY <1>1, <1>4, MatchNone
<1>6. e \in Entry
  BY DEF Entry
<1>7. InsertIn(t, k, p).table = t2 /\ InsertIn(t, k, p).ret = NULL
  BY <1>0, <1>5 DEF InsertIn
<1>8. /\ s \in Seq(Entry)
      /\ Len(s) = Len(c) + 1
      /\ s[1] = e
      /\ \A j \in 2..(Len(c) + 1) : s[j] = c[j - 1]
  BY <1>0, <1>1, <1>6, PushProps
<1>9. UniqueKeys(s)
  <2> SUFFICES ASSUME NEW i \in 1..Len(s), NEW j \in 1..Len(s), i # j
               PROVE  s[i].key # s[j].key
    BY DEF UniqueKeys
  <2>0. ASSUME NEW m \in 1..Len(s), m # 1
        PROVE  m - 1 \in 1..Len(c) /\ s[m] = c[m - 1]
    <3>1. m \in 2..(Len(c) + 1)
      BY <2>0, <1>1, <1>8
    <3>. QED
      BY <3>1, <1>1, <1>8
  <2>1. CASE i = 1
    BY <2>1, <2>0, <1>4, <1>8
  <2>2. CASE j = 1
    BY <2>2, <2>0, <1>4, <1>8
  <2>3. CASE i # 1 /\ j # 1
    <3>1. i - 1 \in 1..Len(c) /\ s[i] = c[i - 1]
      BY <2>3, <2>0
    <3>2. j - 1 \in 1..Len(c) /\ s[j] = c[j - 1]
      BY <2>3, <2>0
    <3>3. i - 1 # j - 1
      OBVIOUS
    <3>4. c[i - 1].key # c[j - 1].key
      BY <3>1, <3>2, <3>3, <1>2 DEF UniqueKeys
    <3>. QED
      BY <3>1, <3>2, <3>4
  <2>. QED
    BY <2>1, <2>2, <2>3
<1>10. \A j \in 1..Len(s) : Hash[s[j].key] = b
  <2> SUFFICES ASSUME NEW j \in 1..Len(s)
               PROVE  Hash[s[j].key] = b
    OBVIOUS
  <2>1. CASE j = 1
    BY <2>1, <1>8
  <2>2. CASE j # 1
    <3>1. j \in 2..(Len(c) + 1)
      BY <2>2, <1>1, <1>8
    <3>2. j - 1 \in 1..Len(c) /\ s[j] = c[j - 1]
      BY <3>1, <1>1, <1>8
    <3>. QED
      BY <3>2, <1>3
  <2>. QED
    BY <2>1, <2>2
<1>11. /\ t2 \in Tables
       /\ WH(t2)
       /\ \A x \in Key : Hash[x] # b =>
             /\ Has(t2, x) <=> Has(t, x)
             /\ GetIn(t2, x) = GetIn(t, x)
  <2>1. s \in Seq(Entry)
    BY <1>8
  <2>. QED
    BY <1>1, <2>1, <1>9, <1>10, Rebucket
<1>12. GetIn(t, k) = NULL
  BY GetInNone
<1>13. ASSUME NEW x \in Key, Hash[x] = b
       PROVE  /\ Has(t2, x) <=> (Has(t, x) \/ x = k)
              /\ Has(t2, x) => GetIn(t2, x) = IF x = k THEN p ELSE GetIn(t, x)
  <2>0. t2[Hash[x]] = s /\ t[Hash[x]] = c
    BY <1>1, <1>13 DEF Tables
  <2>1. CASE x = k
    <3>1. 1 \in 1..Len(t2[Hash[x]]) /\ t2[Hash[x]][1].key = x
      BY <2>0, <2>1, <1>8
    <3>2. GetIn(t2, x) = p
      <4>1. GetIn(t2, x) = t2[Hash[x]][1].payload
        BY <3>1, <1>11, GetInEntry
      <4>. QED
        BY <4>1, <2>0, <1>8
    <3>. QED
      BY <3>1, <3>2, <2>1 DEF Has
  <2>2. CASE x # k
    <3>1. ASSUME NEW j \in 1..Len(s), s[j].key = x
          PROVE  j \in 2..(Len(c) + 1) /\ c[j - 1].key = x
      BY <3>1, <2>2, <1>8
    <3>2. ASSUME NEW j \in 1..Len(c), c[j].key = x
          PROVE  j + 1 \in 1..Len(s) /\ s[j + 1].key = x
      BY <3>2, <1>8
    <3>3. Has(t2, x) <=> Has(t, x)
      <4>1. ASSUME Has(t2, x) PROVE Has(t, x)
        <5>1. PICK j \in 1..Len(s) : s[j].key = x
          BY <4>1, <2>0 DEF Has
        <5>2. j - 1 \in 1..Len(c) /\ c[j - 1].key = x
          BY <5>1, <3>1
        <5>. QED
          BY <5>2, <2>0 DEF Has
      <4>2. ASSUME Has(t, x) PROVE Has(t2, x)
        <5>1. PICK j \in 1..Len(c) : c[j].key = x
          BY <4>2, <2>0 DEF Has
        <5>2. j + 1 \in 1..Len(s) /\ s[j + 1].key = x
          BY <5>1, <3>2
        <5>. QED
          BY <5>2, <2>0 DEF Has
      <4>. QED
        BY <4>1, <4>2
    <3>4. ASSUME Has(t2, x)
          PROVE  GetIn(t2, x) = GetIn(t, x)
      <4>1. PICK j \in 1..Len(s) : s[j].key = x
        BY <3>4, <2>0 DEF Has
      <4>2. j \in 2..(Len(c) + 1) /\ c[j - 1].key = x
        BY <4>1, <3>1
      <4>3. GetIn(t2, x) = s[j].payload
        <5>1. j \in 1..Len(t2[Hash[x]]) /\ t2[Hash[x]][j].key = x
          BY <4>1, <2>0
        <5>2. GetIn(t2, x) = t2[Hash[x]][j].payload
          BY <5>1, <1>11, GetInEntry
        <5>. QED
          BY <5>2, <2>0
      <4>4. GetIn(t, x) = c[j - 1].payload
        BY <4>2, <2>0, GetInEntry
      <4>. QED
        BY <4>2, <4>3, <4>4, <1>8
    <3>. QED
      BY <2>2, <3>3, <3>4
  <2>. QED
    BY <2>1, <2>2
<1>14. \A x \in Key : Has(t2, x) <=> (Has(t, x) \/ x = k)
  BY <1>11, <1>13
<1>15. \A x \in Key : Has(t2, x) => GetIn(t2, x) = IF x = k THEN p ELSE GetIn(t, x)
  BY <1>11, <1>13
<1>. QED
  BY <1>7, <1>11, <1>12, <1>14, <1>15

(* dictionary_remove of a key the table has: its entry is unlinked, the   *)
(* other entries keep their payloads.                                      *)
LEMMA RemoveFound ==
    ASSUME HashAssumption, NEW t \in Tables, WH(t), NEW k \in Key, Has(t, k)
    PROVE  /\ RemoveIn(t, k) \in Tables
           /\ WH(RemoveIn(t, k))
           /\ \A x \in Key : Has(RemoveIn(t, k), x) <=> (Has(t, x) /\ x # k)
           /\ \A x \in Key : Has(RemoveIn(t, k), x) =>
                 GetIn(RemoveIn(t, k), x) = GetIn(t, x)
<1> DEFINE b == Hash[k]
           c == t[b]
<1> USE DEF b, c
<1>1. b \in Buckets /\ c \in Seq(Entry)
  BY DEF HashAssumption, Tables
<1>2. UniqueKeys(c)
  BY <1>1 DEF WH
<1>3. \A j \in 1..Len(c) : Hash[c[j].key] = b
  BY <1>1 DEF WH
<1>4. PICK i \in 1..Len(c) : c[i].key = k
  BY DEF Has
<1>5. Match(c, k) = i
  BY <1>1, <1>2, <1>4, MatchAt
<1>6. PICK d : d = SubSeq(c, 1, i - 1) \o SubSeq(c, i + 1, Len(c))
  OBVIOUS
<1> DEFINE t2 == [t EXCEPT ![b] = d]
<1> USE DEF t2
<1>7. RemoveIn(t, k) = t2
  BY <1>5, <1>6 DEF RemoveIn
<1>8. /\ d \in Seq(Entry)
      /\ Len(d) = Len(c) - 1
      /\ \A j \in 1..(Len(c) - 1) : d[j] = IF j < i THEN c[j] ELSE c[j + 1]
  BY <1>1, <1>6, UnlinkProps
\* Position m of the new list holds the entry at position n of the old.
<1>9. ASSUME NEW m \in 1..Len(d), m < i
      PROVE  m \in 1..Len(c) /\ m # i /\ d[m] = c[m]
  BY <1>9, <1>1, <1>8
<1>10. ASSUME NEW m \in 1..Len(d), ~(m < i)
       PROVE  m + 1 \in 1..Len(c) /\ m + 1 # i /\ d[m] = c[m + 1]
  BY <1>10, <1>1, <1>8
<1>11. ASSUME NEW m \in 1..Len(d)
       PROVE  \E n \in 1..Len(c) : n # i /\ d[m] = c[n]
  BY <1>9, <1>10
<1>12. UniqueKeys(d)
  <2> SUFFICES ASSUME NEW m1 \in 1..Len(d), NEW m2 \in 1..Len(d), m1 # m2
               PROVE  d[m1].key # d[m2].key
    BY DEF UniqueKeys
  <2>1. \E n1, n2 \in 1..Len(c) : n1 # n2 /\ d[m1] = c[n1] /\ d[m2] = c[n2]
    <3>1. CASE m1 < i /\ m2 < i
      BY <3>1, <1>9
    <3>2. CASE m1 < i /\ ~(m2 < i)
      BY <3>2, <1>9, <1>10
    <3>3. CASE ~(m1 < i) /\ m2 < i
      BY <3>3, <1>9, <1>10
    <3>4. CASE ~(m1 < i) /\ ~(m2 < i)
      <4>1. m1 + 1 \in 1..Len(c) /\ d[m1] = c[m1 + 1]
        BY <3>4, <1>10
      <4>2. m2 + 1 \in 1..Len(c) /\ d[m2] = c[m2 + 1]
        BY <3>4, <1>10
      <4>3. m1 + 1 # m2 + 1
        OBVIOUS
      <4>. QED
        BY <4>1, <4>2, <4>3
    <3>. QED
      BY <3>1, <3>2, <3>3, <3>4
  <2>. QED
    BY <2>1, <1>2 DEF UniqueKeys
<1>13. \A m \in 1..Len(d) : Hash[d[m].key] = b
  BY <1>11, <1>3
<1>14. /\ t2 \in Tables
       /\ WH(t2)
       /\ \A x \in Key : Hash[x] # b =>
             /\ Has(t2, x) <=> Has(t, x)
             /\ GetIn(t2, x) = GetIn(t, x)
  BY <1>1, <1>8, <1>12, <1>13, Rebucket
<1>15. ASSUME NEW x \in Key, Hash[x] = b
       PROVE  /\ Has(t2, x) <=> (Has(t, x) /\ x # k)
              /\ Has(t2, x) => GetIn(t2, x) = GetIn(t, x)
  <2>0. t2[Hash[x]] = d /\ t[Hash[x]] = c
    BY <1>1, <1>15 DEF Tables
  <2>1. ASSUME Has(t2, x)
        PROVE  Has(t, x) /\ x # k /\ GetIn(t2, x) = GetIn(t, x)
    <3>1. PICK m \in 1..Len(d) : d[m].key = x
      BY <2>0, <2>1 DEF Has
    <3>2. PICK n \in 1..Len(c) : n # i /\ d[m] = c[n]
      BY <1>11
    <3>3. x # k
      BY <3>1, <3>2, <1>2, <1>4 DEF UniqueKeys
    <3>4. GetIn(t2, x) = d[m].payload
      <4>1. m \in 1..Len(t2[Hash[x]]) /\ t2[Hash[x]][m].key = x
        BY <2>0, <3>1
      <4>2. GetIn(t2, x) = t2[Hash[x]][m].payload
        BY <4>1, <1>14, GetInEntry
      <4>. QED
        BY <4>2, <2>0
    <3>5. GetIn(t, x) = c[n].payload
      <4>1. n \in 1..Len(t[Hash[x]]) /\ t[Hash[x]][n].key = x
        BY <2>0, <3>1, <3>2
      <4>2. GetIn(t, x) = t[Hash[x]][n].payload
        BY <4>1, GetInEntry
      <4>. QED
        BY <4>2, <2>0
    <3>6. Has(t, x)
      BY <2>0, <3>1, <3>2 DEF Has
    <3>. QED
      BY <3>2, <3>3, <3>4, <3>5, <3>6
  <2>2. ASSUME Has(t, x), x # k
        PROVE  Has(t2, x)
    <3>1. PICK n \in 1..Len(c) : c[n].key = x
      BY <2>0, <2>2 DEF Has
    <3>2. n # i
      BY <3>1, <2>2, <1>4
    <3>3. \E m \in 1..Len(d) : d[m] = c[n]
      <4>1. CASE n < i
        <5>1. n \in 1..Len(d) /\ d[n] = c[n]
          BY <4>1, <1>1, <1>8
        <5>. QED
          BY <5>1
      <4>2. CASE n > i
        <5>1. n - 1 \in 1..Len(d) /\ d[n - 1] = c[n]
          BY <4>2, <1>1, <1>8
        <5>. QED
          BY <5>1
      <4>. QED
        BY <3>2, <4>1, <4>2
    <3>. QED
      BY <3>1, <3>3, <2>0 DEF Has
  <2>. QED
    BY <2>1, <2>2
<1>16. \A x \in Key : Has(t2, x) <=> (Has(t, x) /\ x # k)
  BY <1>14, <1>15
<1>17. \A x \in Key : Has(t2, x) => GetIn(t2, x) = GetIn(t, x)
  BY <1>14, <1>15
<1>. QED
  BY <1>7, <1>14, <1>16, <1>17

(* dictionary_remove of a key the table lacks leaves it as it is.          *)
LEMMA RemoveNone ==
    ASSUME HashAssumption, NEW t \in Tables, NEW k \in Key, ~Has(t, k)
    PROVE  RemoveIn(t, k) = t
<1>1. t[Hash[k]] \in Seq(Entry)
  BY DEF HashAssumption, Tables
<1>2. Match(t[Hash[k]], k) = 0
  BY <1>1, MatchNone DEF Has
<1>. QED
  BY <1>2 DEF RemoveIn

-----------------------------------------------------------------------------
(* The two cases of dictionary_insert together.                            *)
LEMMA InsertLemma ==
    ASSUME HashAssumption, NEW t \in Tables, WH(t), NEW k \in Key, NEW p \in Payload
    PROVE  /\ InsertIn(t, k, p).table \in Tables
           /\ WH(InsertIn(t, k, p).table)
           /\ InsertIn(t, k, p).ret = GetIn(t, k)
           /\ \A x \in Key : Has(InsertIn(t, k, p).table, x) <=> (Has(t, x) \/ x = k)
           /\ \A x \in Key : Has(InsertIn(t, k, p).table, x) =>
                 GetIn(InsertIn(t, k, p).table, x) = IF x = k THEN p ELSE GetIn(t, x)
<1>1. CASE Has(t, k)
  BY <1>1, InsertFound
<1>2. CASE ~Has(t, k)
  BY <1>2, InsertNew
<1>. QED
  BY <1>1, <1>2

(* The two cases of dictionary_remove together.                            *)
LEMMA RemoveLemma ==
    ASSUME HashAssumption, NEW t \in Tables, WH(t), NEW k \in Key
    PROVE  /\ RemoveIn(t, k) \in Tables
           /\ WH(RemoveIn(t, k))
           /\ \A x \in Key : Has(RemoveIn(t, k), x) <=> (Has(t, x) /\ x # k)
           /\ \A x \in Key : Has(RemoveIn(t, k), x) =>
                 GetIn(RemoveIn(t, k), x) = GetIn(t, x)
<1>1. CASE Has(t, k)
  BY <1>1, RemoveFound
<1>2. CASE ~Has(t, k)
  BY <1>2, RemoveNone
<1>. QED
  BY <1>1, <1>2

(* dictionary_init's table: empty lists, no key.                          *)
LEMMA NewTableProps ==
    ASSUME HashAssumption
    PROVE  /\ NewTable \in Tables
           /\ WH(NewTable)
           /\ \A x \in Key : ~Has(NewTable, x)
<1>1. NewTable \in Tables
  BY DEF NewTable, Tables
<1>2. \A b \in Buckets : NewTable[b] = <<>>
  BY DEF NewTable
<1>. QED
  BY <1>1, <1>2 DEF WH, UniqueKeys, Has, HashAssumption

(* A lookup in a well-hashed table returns a payload or NULL.              *)
LEMMA GetInType ==
    ASSUME HashAssumption, NEW t \in Tables, WH(t), NEW k \in Key
    PROVE  GetIn(t, k) \in Payload \cup {NULL}
<1>1. CASE Has(t, k)
  <2>1. PICK i \in 1..Len(t[Hash[k]]) : t[Hash[k]][i].key = k
    BY <1>1 DEF Has
  <2>2. t[Hash[k]][i] \in Entry
    BY DEF HashAssumption, Tables
  <2>. QED
    BY <2>1, <2>2, GetInEntry DEF Entry
<1>2. CASE ~Has(t, k)
  BY <1>2, GetInNone
<1>. QED
  BY <1>1, <1>2

(* After dictionary_insert, a lookup of the inserted key returns its new   *)
(* payload and a lookup of any other key what it returned before.          *)
LEMMA InsertGetIn ==
    ASSUME HashAssumption, NEW t \in Tables, WH(t), NEW k \in Key, NEW p \in Payload,
           NEW x \in Key
    PROVE  GetIn(InsertIn(t, k, p).table, x) = IF x = k THEN p ELSE GetIn(t, x)
<1>1. /\ InsertIn(t, k, p).table \in Tables
      /\ Has(InsertIn(t, k, p).table, x) <=> (Has(t, x) \/ x = k)
      /\ Has(InsertIn(t, k, p).table, x) =>
            GetIn(InsertIn(t, k, p).table, x) = IF x = k THEN p ELSE GetIn(t, x)
  BY InsertLemma
<1>2. CASE ~Has(InsertIn(t, k, p).table, x)
  <2>1. x # k /\ ~Has(t, x)
    BY <1>1, <1>2
  <2>2. GetIn(InsertIn(t, k, p).table, x) = NULL /\ GetIn(t, x) = NULL
    BY <1>1, <1>2, <2>1, GetInNone
  <2>. QED
    BY <2>1, <2>2
<1>. QED
  BY <1>1, <1>2

(* A lookup in dictionary_init's table returns NULL.                      *)
LEMMA NewTableGetIn ==
    ASSUME HashAssumption, NEW x \in Key
    PROVE  GetIn(NewTable, x) = NULL
BY NewTableProps, GetInNone

-----------------------------------------------------------------------------
Inv == TypeOK /\ WH(table)

(* Every step of the dictionary keeps the inductive invariant.            *)
LEMMA InvStep ==
    ASSUME HashAssumption
    PROVE  Inv /\ [Next]_vars => Inv'
<1> SUFFICES ASSUME Inv, [Next]_vars
             PROVE  Inv'
  OBVIOUS
<1>1. table \in Tables /\ WH(table)
  BY DEF Inv, TypeOK, Tables
<1>2. CASE Create \/ Release
  BY <1>2, NewTableProps DEF Create, Release, Inv, TypeOK, Tables
<1>3. ASSUME NEW k \in Key, Get(k)
      PROVE  Inv'
  BY <1>1, <1>3, GetInType DEF Get, Inv, TypeOK
<1>4. ASSUME NEW k \in Key, Remove(k)
      PROVE  Inv'
  BY <1>1, <1>4, RemoveLemma DEF Remove, Inv, TypeOK, Tables
<1>5. ASSUME NEW k \in Key, NEW p \in Payload, Insert(k, p)
      PROVE  Inv'
  <2>1. InsertIn(table, k, p).ret \in Payload \cup {NULL}
    BY <1>1, InsertLemma, GetInType
  <2>. QED
    BY <1>1, <1>5, <2>1, InsertLemma DEF Insert, Inv, TypeOK, Tables
<1>6. CASE UNCHANGED vars
  BY <1>6 DEF vars, Inv, TypeOK
<1>. QED
  BY <1>2, <1>3, <1>4, <1>5, <1>6 DEF Next

(* The type invariant and the representation invariant hold in every       *)
(* reachable state: whatever the hash function, dictionary_insert,         *)
(* dictionary_remove and dictionary_release keep each bucket list free of  *)
(* duplicate keys and of keys that hash elsewhere.                         *)
THEOREM Invariant ==
    ASSUME HashAssumption
    PROVE  Spec => [](TypeOK /\ WellHashed)
<1>1. Init => Inv
  BY NewTableProps DEF Init, Inv, TypeOK, Tables
<1>2. Inv /\ [Next]_vars => Inv'
  BY InvStep
<1>3. Inv => TypeOK /\ WellHashed
  BY DEF Inv, WH, UniqueKeys, WellHashed
<1>. QED
  BY <1>1, <1>2, <1>3, PTL DEF Spec

-----------------------------------------------------------------------------
(* The abstract map of a well-hashed table, over the keys it has.          *)
AM(t) == [x \in {y \in Key : Has(t, y)} |-> GetIn(t, x)]

LEMMA AbsMapIs ==
    ASSUME HashAssumption, NEW t \in Tables, WH(t)
    PROVE  [x \in {y \in Key : Match(t[Hash[y]], y) # 0} |-> GetIn(t, x)] = AM(t)
<1>1. {y \in Key : Match(t[Hash[y]], y) # 0} = {y \in Key : Has(t, y)}
  BY MatchHas
<1>. QED
  BY <1>1 DEF AM

(* KeyValueMap's Lookup of a key is dictionary_get.                        *)
LEMMA LookupIs ==
    ASSUME HashAssumption, NEW t \in Tables, WH(t), NEW k \in Key
    PROVE  (IF k \in DOMAIN AM(t) THEN AM(t)[k] ELSE NULL) = GetIn(t, k)
<1>1. CASE Has(t, k)
  BY <1>1 DEF AM
<1>2. CASE ~Has(t, k)
  BY <1>2, GetInNone DEF AM
<1>. QED
  BY <1>1, <1>2

(* The abstract map of the state and of the next state.                    *)
LEMMA AbsMapState ==
    ASSUME HashAssumption, Inv
    PROVE  AbsMap = AM(table)
BY AbsMapIs DEF Inv, TypeOK, Tables, AbsMap, StoredKeys

LEMMA AbsMapNext ==
    ASSUME HashAssumption, Inv'
    PROVE  AbsMap' = AM(table')
<1>1. table' \in Tables /\ WH(table')
  BY DEF Inv, TypeOK, Tables
<1>. QED
  BY <1>1, AbsMapIs DEF AbsMap, StoredKeys

(* The dictionary implements KeyValueMap under the map of its stored keys  *)
(* to their payloads: dictionary_init and dictionary_release are Clear,    *)
(* dictionary_get is Get, dictionary_insert is Put (returning the payload  *)
(* it replaced) and dictionary_remove is Delete, whatever the collisions. *)
THEOREM Refinement ==
    ASSUME HashAssumption
    PROVE  Spec => RefinesKeyValueMap
<1>1. Init => Abstract!Init
  <2> SUFFICES ASSUME Init PROVE Abstract!Init
    OBVIOUS
  <2>1. Inv
    BY NewTableProps DEF Init, Inv, TypeOK, Tables
  <2>2. AM(table) = Abstract!EmptyMap
    BY NewTableProps DEF Init, AM, Abstract!EmptyMap
  <2>. QED
    BY <2>1, <2>2, AbsMapState DEF Init, Abstract!Init
<1>2. Inv /\ Inv' /\ [Next]_vars => [Abstract!Next]_Abstract!vars
  <2> SUFFICES ASSUME Inv, Inv', [Next]_vars
               PROVE  [Abstract!Next]_Abstract!vars
    OBVIOUS
  <2>0. /\ table \in Tables /\ WH(table)
        /\ AbsMap = AM(table) /\ AbsMap' = AM(table')
    BY AbsMapState, AbsMapNext DEF Inv, TypeOK, Tables
  <2>1. CASE Create \/ Release
    <3>1. AM(table') = Abstract!EmptyMap
      BY <2>1, NewTableProps DEF Create, Release, AM, Abstract!EmptyMap
    <3>. QED
      BY <2>0, <2>1, <3>1 DEF Create, Release, Abstract!Next, Abstract!Clear
  <2>2. ASSUME NEW k \in Key, Get(k)
        PROVE  [Abstract!Next]_Abstract!vars
    <3>1. GetIn(table, k) = Abstract!Lookup(k)
      BY <2>0, LookupIs DEF Abstract!Lookup
    <3>. QED
      BY <2>0, <2>2, <3>1 DEF Get, Abstract!Next, Abstract!Get
  <2>3. ASSUME NEW k \in Key, Remove(k)
        PROVE  [Abstract!Next]_Abstract!vars
    <3>1. AM(table') = [x \in DOMAIN AM(table) \ {k} |-> AM(table)[x]]
      BY <2>0, <2>3, RemoveLemma DEF Remove, AM
    <3>. QED
      BY <2>0, <2>3, <3>1 DEF Remove, Abstract!Next, Abstract!Delete
  <2>4. ASSUME NEW k \in Key, NEW p \in Payload, Insert(k, p)
        PROVE  [Abstract!Next]_Abstract!vars
    <3>1. AM(table') = [x \in DOMAIN AM(table) \cup {k} |->
                          IF x = k THEN p ELSE AM(table)[x]]
      BY <2>0, <2>4, InsertLemma DEF Insert, AM
    <3>2. result' = Abstract!Lookup(k)
      BY <2>0, <2>4, InsertLemma, LookupIs DEF Insert, Abstract!Lookup
    <3>. QED
      BY <2>0, <2>4, <3>1, <3>2 DEF Insert, Abstract!Next, Abstract!Put
  <2>5. CASE UNCHANGED vars
    BY <2>0, <2>5 DEF vars, Abstract!vars
  <2>. QED
    BY <2>1, <2>2, <2>3, <2>4, <2>5 DEF Next
<1>3. Spec => []Inv
  <2>1. Init => Inv
    BY NewTableProps DEF Init, Inv, TypeOK, Tables
  <2>2. Inv /\ [Next]_vars => Inv'
    BY InvStep
  <2>. QED
    BY <2>1, <2>2, PTL DEF Spec
<1>. QED
  BY <1>1, <1>2, <1>3, PTL DEF Spec, RefinesKeyValueMap, Abstract!Spec

=============================================================================
