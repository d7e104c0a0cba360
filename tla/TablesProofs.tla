---------------------------- MODULE TablesProofs ----------------------------
(***************************************************************************)
(* The two tables the kernel keeps for the programs, whatever their sizes  *)
(* and however deep processes are nested.  The environment: its two copies *)
(* agree, what is set is read back, and a child has its parent's and       *)
(* cannot change it.  The descriptors: programs that close only what they  *)
(* opened themselves leave none dangling and no object without an owner.   *)
(***************************************************************************)
EXTENDS Environment, Descriptors, SequenceTheorems, WellFoundedInduction, TLAPS

Text == Seq(Chars)
EnvTable == Seq(Text)

(***************************************************************************)
(* The first of a set of positions is the least (kernel/env.c:18-24).      *)
(***************************************************************************)
LEMMA Least ==
    ASSUME NEW set, set \subseteq Nat, set # {}
    PROVE  First(set) \in set /\ \A j \in set : First(set) <= j
<1>1. PICK R : R = OpToRel(<, Nat)
  OBVIOUS
<1>2. IsWellFoundedOn(R, Nat)
  BY <1>1, NatLessThanWellFounded
<1>3. \E x \in set : \A y \in set : ~ (<<y, x>> \in R)
  BY <1>2, WFMin
<1>4. \A x, y \in Nat : y < x => <<y, x>> \in R
  BY <1>1 DEF OpToRel
<1>5. PICK x \in set : \A y \in set : ~ (<<y, x>> \in R)
  BY <1>3
<1>6. ASSUME NEW y \in set PROVE x <= y
  <2>1. x \in Nat /\ y \in Nat
    OBVIOUS
  <2>2. ~ (<<y, x>> \in R)
    BY <1>5
  <2>3. ~ (y < x)
    BY <2>1, <2>2, <1>4
  <2> QED
    BY <2>1, <2>3
<1>7. \E i \in set : \A j \in set : i <= j
  BY <1>6
<1> QED
  BY <1>7 DEF First

(***************************************************************************)
(* What an entry that answers to a key looks like.                         *)
(***************************************************************************)
LEMMA MatchesIs ==
    ASSUME NEW entry \in Text, NEW key \in Text, Matches(entry, key)
    PROVE  /\ Len(key) < Len(entry)
           /\ \A i \in 1 .. Len(key) : entry[i] = key[i]
           /\ entry[Len(key) + 1] = "="
<1>1. Len(key) \in Nat /\ Len(entry) \in Nat /\ Len(key) < Len(entry)
  BY DEF Text, Matches
<1>2. SubSeq(entry, 1, Len(key)) = key /\ entry[Len(key) + 1] = "="
  BY DEF Matches
<1>3. \A i \in 1 .. Len(key) : entry[i] \in Chars
  BY <1>1 DEF Text
<1>4. \A i \in 1 .. Len(key) : SubSeq(entry, 1, Len(key))[i] = entry[i]
  <2>1. \A i \in 1 .. Len(key) - 1 + 1 :
           SubSeq(entry, 1, Len(key))[i] = entry[1 + i - 1]
    BY <1>1, <1>3, SubSeqProperties
  <2> QED
    BY <2>1, <1>1
<1> QED
  BY <1>1, <1>2, <1>4

(***************************************************************************)
(* One entry answers to two keys only if one goes on from the other with a *)
(* separator.                                                              *)
(***************************************************************************)
LEMMA OneKey ==
    ASSUME NEW entry \in Text, NEW key \in Text, NEW other \in Text,
           Matches(entry, key), Matches(entry, other)
    PROVE  ~Apart(key, other)
<1>1. /\ Len(key) < Len(entry)
      /\ \A i \in 1 .. Len(key) : entry[i] = key[i]
      /\ entry[Len(key) + 1] = "="
  BY MatchesIs
<1>2. /\ Len(other) < Len(entry)
      /\ \A i \in 1 .. Len(other) : entry[i] = other[i]
      /\ entry[Len(other) + 1] = "="
  BY MatchesIs
<1>3. /\ Len(key) \in Nat /\ DOMAIN key = 1 .. Len(key)
      /\ Len(other) \in Nat /\ DOMAIN other = 1 .. Len(other)
  BY DEF Text
<1>4. CASE Len(key) < Len(other)
  BY <1>1, <1>2, <1>3, <1>4 DEF Apart, Opens
<1>5. CASE Len(other) < Len(key)
  BY <1>1, <1>2, <1>3, <1>5 DEF Apart, Opens
<1>6. CASE Len(key) = Len(other)
  <2>1. \A i \in 1 .. Len(key) : key[i] = other[i]
    BY <1>1, <1>2, <1>6
  <2>2. key = other
    BY <2>1, <1>6, SeqEqual DEF Text
  <2> QED
    BY <2>2 DEF Apart
<1>7. \/ Len(key) < Len(other)
      \/ Len(other) < Len(key)
      \/ Len(key) = Len(other)
  <2>1. Len(key) \in Nat /\ Len(other) \in Nat
    BY <1>3
  <2> QED
    BY ONLY <2>1
<1> QED
  BY <1>4, <1>5, <1>6, <1>7

(***************************************************************************)
(* An entry answers to the key it was made of, and its value is read back  *)
(* (kernel/env.c:6-13, 31-40).                                             *)
(***************************************************************************)
LEMMA EntryIs ==
    ASSUME NEW key \in Text, NEW value \in Text
    PROVE  /\ Entry(key, value) \in Text
           /\ Matches(Entry(key, value), key)
           /\ SubSeq(Entry(key, value), Len(key) + 2, Len(Entry(key, value))) = value
<1> DEFINE head == key \o <<"=">>
           e == head \o value
<1>1. <<"=">> \in Text /\ Len(<<"=">>) = 1
  BY EnvironmentAssumption DEF Text
<1>2. /\ head \in Text /\ Len(head) = Len(key) + 1
      /\ \A i \in 1 .. Len(key) + 1 :
             head[i] = IF i <= Len(key) THEN key[i] ELSE <<"=">>[i - Len(key)]
  BY <1>1, ConcatProperties DEF Text
<1>3. Len(key) \in Nat /\ Len(value) \in Nat
  BY DEF Text
<1>4. head[Len(key) + 1] = "=" /\ \A i \in 1 .. Len(key) : head[i] = key[i]
  BY <1>2, <1>3
<1> HIDE DEF head
<1>5. /\ e \in Text /\ Len(e) = Len(head) + Len(value)
      /\ \A i \in 1 .. Len(head) + Len(value) :
             e[i] = IF i <= Len(head) THEN head[i] ELSE value[i - Len(head)]
  <2>1. head \in Seq(Chars) /\ value \in Seq(Chars)
    BY <1>2 DEF Text
  <2> QED
    BY <2>1, ConcatProperties DEF Text
<1> HIDE DEF e
<1>6. \A i \in 1 .. Len(key) : e[i] = key[i]
  BY <1>2, <1>3, <1>4, <1>5
<1>7. e[Len(key) + 1] = "="
  BY <1>2, <1>3, <1>4, <1>5
<1>8. \A i \in 1 .. Len(e) : e[i] \in Chars
  BY <1>5 DEF Text
<1>9. SubSeq(e, 1, Len(key)) = key
  <2>1. \A i \in 1 .. Len(key) : e[i] \in Chars
    BY <1>2, <1>3, <1>5, <1>8
  <2>2. /\ SubSeq(e, 1, Len(key)) \in Seq(Chars)
        /\ Len(SubSeq(e, 1, Len(key))) = IF 1 <= Len(key) THEN Len(key) - 1 + 1 ELSE 0
        /\ \A i \in 1 .. Len(key) - 1 + 1 : SubSeq(e, 1, Len(key))[i] = e[1 + i - 1]
    BY <2>1, <1>3, SubSeqProperties
  <2>3. /\ Len(SubSeq(e, 1, Len(key))) = Len(key)
        /\ \A i \in 1 .. Len(SubSeq(e, 1, Len(key))) : SubSeq(e, 1, Len(key))[i] = key[i]
    BY <2>2, <1>3, <1>6
  <2> QED
    BY <2>2, <2>3, SeqEqual DEF Text
<1>10. SubSeq(e, Len(key) + 2, Len(e)) = value
  <2> DEFINE m == Len(key) + 2
             n == Len(e)
             rest == SubSeq(e, m, n)
  <2>1. m \in Int /\ n \in Int /\ n - m + 1 = Len(value)
    BY <1>2, <1>3, <1>5
  <2>2. \A i \in m .. n : e[i] \in Chars
    BY <1>3, <1>8
  <2> HIDE DEF m, n
  <2>3. /\ rest \in Seq(Chars)
        /\ Len(rest) = IF m <= n THEN n - m + 1 ELSE 0
        /\ \A i \in 1 .. n - m + 1 : rest[i] = e[m + i - 1]
    <3>1. m \in Int /\ n \in Int
      BY <2>1
    <3> QED
      BY ONLY <2>2, <3>1, SubSeqProperties
  <2>4. Len(rest) = Len(value)
    BY <2>1, <2>3, <1>3
  <2>5. \A i \in 1 .. Len(value) : rest[i] = value[i]
    <3> SUFFICES ASSUME NEW i \in 1 .. Len(value) PROVE rest[i] = value[i]
      OBVIOUS
    <3>1. rest[i] = e[m + i - 1]
      BY <2>1, <2>3
    <3>2. /\ m + i - 1 \in 1 .. Len(head) + Len(value)
          /\ ~(m + i - 1 <= Len(head)) /\ (m + i - 1) - Len(head) = i
      BY <1>2, <1>3 DEF m
    <3> QED
      BY <3>1, <3>2, <1>5
  <2> QED
    BY <2>3, <2>4, <2>5, SeqEqual DEF Text, m, n
<1>11. Len(e) > Len(key)
  BY <1>2, <1>3, <1>5
<1> QED
  BY <1>5, <1>7, <1>9, <1>10, <1>11 DEF e, head, Entry, Matches

LEMMA StringsAreText == Keys \subseteq Text /\ Values \subseteq Text
  BY EnvironmentAssumption DEF Text

(***************************************************************************)
(* The entries that answer to a key are where they were, one or none more. *)
(***************************************************************************)
LEMMA FirstFound ==
    ASSUME NEW table \in EnvTable, NEW key
    PROVE  /\ DOMAIN table = 1 .. Len(table) /\ Len(table) \in Nat
           /\ \A i \in 1 .. Len(table) : table[i] \in Text
           /\ Found(table, key) \subseteq 1 .. Len(table)
           /\ Found(table, key) # {} =>
                  /\ First(Found(table, key)) \in Found(table, key)
                  /\ \A j \in Found(table, key) : First(Found(table, key)) <= j
<1>1. /\ DOMAIN table = 1 .. Len(table) /\ Len(table) \in Nat
      /\ \A i \in 1 .. Len(table) : table[i] \in Text
  BY DEF EnvTable
<1>2. Found(table, key) \subseteq 1 .. Len(table)
  BY <1>1 DEF Found
<1>3. Found(table, key) \subseteq Nat
  BY <1>2
<1> QED
  BY <1>1, <1>2, <1>3, Least

(***************************************************************************)
(* What setting does to a table: the first entry of the key is replaced,   *)
(* or a last one added, or nothing (kernel/env.c:15-29).                   *)
(***************************************************************************)
LEMMA StoredIs ==
    ASSUME NEW table \in EnvTable, NEW key \in Text, NEW value \in Text, NEW room \in BOOLEAN
    PROVE  LET s == Stored(table, key, value, room)
               f == First(Found(table, key))
           IN  /\ s \in EnvTable
               /\ Found(table, key) # {} =>
                      /\ Len(s) = Len(table) /\ s[f] = Entry(key, value)
                      /\ \A i \in 1 .. Len(table) : i # f => s[i] = table[i]
               /\ Found(table, key) = {} /\ room =>
                      /\ Len(s) = Len(table) + 1 /\ s[Len(table) + 1] = Entry(key, value)
                      /\ \A i \in 1 .. Len(table) : s[i] = table[i]
               /\ Found(table, key) = {} /\ ~room => s = table
<1> DEFINE e == Entry(key, value)
           f == First(Found(table, key))
<1>1. e \in Text
  BY EntryIs
<1> HIDE DEF e
<1>2. Found(table, key) # {} => f \in 1 .. Len(table)
  BY FirstFound
<1> HIDE DEF f
<1>3. ASSUME Found(table, key) # {}
      PROVE  /\ [table EXCEPT ![f] = e] \in EnvTable
             /\ Len([table EXCEPT ![f] = e]) = Len(table)
             /\ \A i \in 1 .. Len(table) :
                    [table EXCEPT ![f] = e][i] = IF i = f THEN e ELSE table[i]
  BY <1>1, <1>2, <1>3, ExceptSeq DEF EnvTable
<1>4. /\ Append(table, e) \in EnvTable /\ Len(Append(table, e)) = Len(table) + 1
      /\ \A i \in 1 .. Len(table) : Append(table, e)[i] = table[i]
      /\ Append(table, e)[Len(table) + 1] = e
  BY <1>1, AppendProperties DEF EnvTable
<1>5. CASE Found(table, key) # {}
  <2>1. Stored(table, key, value, room) = [table EXCEPT ![f] = e]
    BY <1>5 DEF Stored, e, f
  <2> QED
    BY <1>2, <1>3, <1>5, <2>1 DEF e, f
<1>6. CASE Found(table, key) = {} /\ room
  <2>1. Stored(table, key, value, room) = Append(table, e)
    BY <1>6 DEF Stored, e
  <2> QED
    BY <1>4, <1>6, <2>1 DEF e
<1>7. CASE Found(table, key) = {} /\ ~room
  BY <1>7 DEF Stored
<1> QED
  BY <1>5, <1>6, <1>7

(***************************************************************************)
(* What unsetting does: the entries behind the one that goes move down     *)
(* (kernel/env.c:42-54).                                                   *)
(***************************************************************************)
LEMMA RemovedIs ==
    ASSUME NEW table \in EnvTable, NEW key \in Text
    PROVE  LET r == Removed(table, key)
               f == First(Found(table, key))
           IN  /\ r \in EnvTable
               /\ Found(table, key) = {} => r = table
               /\ Found(table, key) # {} =>
                      /\ Len(r) = Len(table) - 1
                      /\ \A i \in 1 .. Len(table) - 1 :
                             r[i] = IF i < f THEN table[i] ELSE table[i + 1]
<1> DEFINE f == First(Found(table, key))
           front == SubSeq(table, 1, f - 1)
           back == SubSeq(table, f + 1, Len(table))
<1>1. CASE Found(table, key) = {}
  BY <1>1 DEF Removed
<1>2. CASE Found(table, key) # {}
  <2>1. /\ f \in 1 .. Len(table) /\ Len(table) \in Nat
        /\ \A i \in 1 .. Len(table) : table[i] \in Text
    BY <1>2, FirstFound
  <2>2. Removed(table, key) = front \o back
    BY <1>2 DEF Removed, Without
  <2> HIDE DEF f
  <2>3. f - 1 \in Int /\ f + 1 \in Int /\ Len(table) \in Int
    BY <2>1
  <2>4. /\ \A i \in 1 .. f - 1 : table[i] \in Text
        /\ \A i \in f + 1 .. Len(table) : table[i] \in Text
    BY <2>1
  <2>5. /\ front \in EnvTable /\ Len(front) = f - 1
        /\ \A i \in 1 .. f - 1 : front[i] = table[i]
    <3>1. /\ front \in Seq(Text)
          /\ Len(front) = IF 1 <= f - 1 THEN (f - 1) - 1 + 1 ELSE 0
          /\ \A i \in 1 .. (f - 1) - 1 + 1 : front[i] = table[1 + i - 1]
      BY <2>3, <2>4, SubSeqProperties
    <3> QED
      BY <3>1, <2>1 DEF EnvTable
  <2>6. /\ back \in EnvTable /\ Len(back) = Len(table) - f
        /\ \A i \in 1 .. Len(table) - f : back[i] = table[f + i]
    <3>1. /\ back \in Seq(Text)
          /\ Len(back) = IF f + 1 <= Len(table) THEN Len(table) - (f + 1) + 1 ELSE 0
          /\ \A i \in 1 .. Len(table) - (f + 1) + 1 : back[i] = table[f + 1 + i - 1]
      BY <2>3, <2>4, SubSeqProperties
    <3>2. \A i \in 1 .. Len(table) - f :
             i \in 1 .. Len(table) - (f + 1) + 1 /\ f + 1 + i - 1 = f + i
      BY <2>1
    <3> QED
      BY <3>1, <3>2, <2>1 DEF EnvTable
  <2> HIDE DEF front, back
  <2>7. /\ front \o back \in EnvTable
        /\ Len(front \o back) = Len(front) + Len(back)
        /\ \A i \in 1 .. Len(front) + Len(back) :
               (front \o back)[i] =
                   IF i <= Len(front) THEN front[i] ELSE back[i - Len(front)]
    BY <2>5, <2>6, ConcatProperties DEF EnvTable
  <2>8. Len(front) + Len(back) = Len(table) - 1
    BY <2>1, <2>5, <2>6
  <2>9. \A i \in 1 .. Len(table) - 1 :
           (front \o back)[i] = IF i < f THEN table[i] ELSE table[i + 1]
    <3> SUFFICES ASSUME NEW i \in 1 .. Len(table) - 1
                 PROVE  (front \o back)[i] = IF i < f THEN table[i] ELSE table[i + 1]
      OBVIOUS
    <3>1. CASE i < f
      BY <3>1, <2>1, <2>5, <2>7, <2>8
    <3>2. CASE ~(i < f)
      <4>1. (front \o back)[i] = back[i - (f - 1)]
        BY <3>2, <2>1, <2>5, <2>7, <2>8
      <4>2. i - (f - 1) \in 1 .. Len(table) - f /\ f + (i - (f - 1)) = i + 1
        BY <3>2, <2>1
      <4>3. back[i - (f - 1)] = table[f + (i - (f - 1))]
        BY <4>2, <2>6
      <4> QED
        BY <3>2, <4>1, <4>2, <4>3
    <3> QED
      BY <3>1, <3>2
  <2> QED
    BY <1>2, <2>2, <2>7, <2>8, <2>9 DEF f
<1> QED
  BY <1>1, <1>2

(***************************************************************************)
(* Setting a key leaves the entries of every key apart from it where they  *)
(* are.                                                                    *)
(***************************************************************************)
LEMMA StoredApart ==
    ASSUME NEW table \in EnvTable, NEW key \in Text, NEW value \in Text, NEW room \in BOOLEAN,
           NEW other \in Text, Apart(key, other)
    PROVE  /\ Found(Stored(table, key, value, room), other) = Found(table, other)
           /\ \A i \in Found(table, other) :
                  Stored(table, key, value, room)[i] = table[i]
<1> DEFINE s == Stored(table, key, value, room)
           f == First(Found(table, key))
           e == Entry(key, value)
<1>1. /\ s \in EnvTable
      /\ Found(table, key) # {} =>
             /\ Len(s) = Len(table) /\ s[f] = e
             /\ \A i \in 1 .. Len(table) : i # f => s[i] = table[i]
      /\ Found(table, key) = {} /\ room =>
             /\ Len(s) = Len(table) + 1 /\ s[Len(table) + 1] = e
             /\ \A i \in 1 .. Len(table) : s[i] = table[i]
      /\ Found(table, key) = {} /\ ~room => s = table
  BY StoredIs
<1>2. ~Matches(e, other)
  BY EntryIs, OneKey
<1>3. /\ DOMAIN table = 1 .. Len(table) /\ Len(table) \in Nat
      /\ Found(table, key) # {} => f \in Found(table, key) /\ f \in 1 .. Len(table)
      /\ \A i \in 1 .. Len(table) : table[i] \in Text
  BY FirstFound
<1>4. DOMAIN s = 1 .. Len(s)
  BY <1>1 DEF EnvTable
<1> HIDE DEF s, f, e
<1>5. CASE Found(table, key) # {}
  <2>1. Matches(table[f], key)
    BY <1>3, <1>5 DEF Found
  <2>2. ~Matches(table[f], other)
    BY <1>3, <1>5, <2>1, OneKey
  <2>3. \A i \in 1 .. Len(table) : Matches(s[i], other) <=> Matches(table[i], other)
    BY <1>1, <1>2, <1>5, <2>2
  <2>4. \A i \in 1 .. Len(table) : Matches(table[i], other) => s[i] = table[i]
    BY <1>1, <1>5, <2>2
  <2>5. DOMAIN s = DOMAIN table
    BY <1>1, <1>3, <1>4, <1>5
  <2> QED
    BY <1>3, <2>3, <2>4, <2>5 DEF Found, s
<1>6. CASE Found(table, key) = {} /\ room
  <2>1. \A i \in 1 .. Len(table) + 1 :
           Matches(s[i], other) <=> i \in 1 .. Len(table) /\ Matches(table[i], other)
    BY <1>1, <1>2, <1>3, <1>6
  <2>2. DOMAIN s = 1 .. Len(table) + 1
    BY <1>1, <1>4, <1>6
  <2>3. 1 .. Len(table) \subseteq 1 .. Len(table) + 1
    BY <1>3
  <2>4. Found(s, other) = Found(table, other)
    BY <1>3, <2>1, <2>2, <2>3 DEF Found
  <2>5. \A i \in Found(table, other) : s[i] = table[i]
    BY <1>1, <1>3, <1>6 DEF Found
  <2> QED
    BY <2>4, <2>5 DEF s
<1>7. CASE Found(table, key) = {} /\ ~room
  BY <1>1, <1>7 DEF s
<1> QED
  BY <1>5, <1>6, <1>7

(***************************************************************************)
(* The key's own entries: the first one is the new one, or the new one is  *)
(* the only one.                                                           *)
(***************************************************************************)
LEMMA StoredOwn ==
    ASSUME NEW table \in EnvTable, NEW key \in Text, NEW value \in Text, NEW room \in BOOLEAN
    PROVE  LET s == Stored(table, key, value, room)
               f == First(Found(table, key))
           IN  /\ Found(table, key) # {} =>
                      Found(s, key) = Found(table, key) /\ s[f] = Entry(key, value)
               /\ Found(table, key) = {} /\ room =>
                      /\ Found(s, key) = {Len(table) + 1}
                      /\ s[Len(table) + 1] = Entry(key, value)
               /\ Found(table, key) = {} /\ ~room => s = table
<1> DEFINE s == Stored(table, key, value, room)
           f == First(Found(table, key))
           e == Entry(key, value)
<1>1. /\ s \in EnvTable
      /\ Found(table, key) # {} =>
             /\ Len(s) = Len(table) /\ s[f] = e
             /\ \A i \in 1 .. Len(table) : i # f => s[i] = table[i]
      /\ Found(table, key) = {} /\ room =>
             /\ Len(s) = Len(table) + 1 /\ s[Len(table) + 1] = e
             /\ \A i \in 1 .. Len(table) : s[i] = table[i]
      /\ Found(table, key) = {} /\ ~room => s = table
  BY StoredIs
<1>2. Matches(e, key)
  BY EntryIs
<1>3. /\ DOMAIN table = 1 .. Len(table) /\ Len(table) \in Nat
      /\ Found(table, key) # {} => f \in Found(table, key) /\ f \in 1 .. Len(table)
  BY FirstFound
<1>4. DOMAIN s = 1 .. Len(s)
  BY <1>1 DEF EnvTable
<1> HIDE DEF s, f, e
<1>5. CASE Found(table, key) # {}
  <2>1. Matches(table[f], key)
    BY <1>3, <1>5 DEF Found
  <2>2. \A i \in 1 .. Len(table) : Matches(s[i], key) <=> Matches(table[i], key)
    BY <1>1, <1>2, <1>5, <2>1
  <2>3. DOMAIN s = DOMAIN table
    BY <1>1, <1>3, <1>4, <1>5
  <2>4. Found(s, key) = Found(table, key)
    BY <1>3, <2>2, <2>3 DEF Found
  <2> QED
    BY <1>1, <1>5, <2>4 DEF s, f, e
<1>6. CASE Found(table, key) = {} /\ room
  <2>1. \A i \in 1 .. Len(table) : ~Matches(table[i], key)
    BY <1>3, <1>6 DEF Found
  <2>2. \A i \in 1 .. Len(table) + 1 : Matches(s[i], key) <=> i = Len(table) + 1
    BY <1>1, <1>2, <1>3, <1>6, <2>1
  <2>3. DOMAIN s = 1 .. Len(table) + 1
    BY <1>1, <1>4, <1>6
  <2>4. Len(table) + 1 \in 1 .. Len(table) + 1
    BY <1>3
  <2>5. Found(s, key) = {Len(table) + 1}
    BY <2>2, <2>3, <2>4 DEF Found
  <2> QED
    BY <1>1, <1>6, <2>5 DEF s, e
<1>7. CASE Found(table, key) = {} /\ ~room
  BY <1>1, <1>7 DEF s
<1> QED
  BY <1>5, <1>6, <1>7

(***************************************************************************)
(* At most one entry answers to the key.                                   *)
(***************************************************************************)
Once(table, key) == \A i, j \in Found(table, key) : i = j

(***************************************************************************)
(* Unsetting a key leaves what is kept under every key apart from it; and  *)
(* of a key that had one entry none is left.                               *)
(***************************************************************************)
LEMMA RemovedApart ==
    ASSUME NEW table \in EnvTable, NEW key \in Text, NEW other \in Text, Apart(key, other)
    PROVE  /\ Under(Removed(table, key), other) = Under(table, other)
           /\ Once(table, other) => Once(Removed(table, key), other)
<1> DEFINE r == Removed(table, key)
           f == First(Found(table, key))
<1>1. /\ r \in EnvTable
      /\ Found(table, key) = {} => r = table
      /\ Found(table, key) # {} =>
             /\ Len(r) = Len(table) - 1
             /\ \A i \in 1 .. Len(table) - 1 :
                    r[i] = IF i < f THEN table[i] ELSE table[i + 1]
  BY RemovedIs
<1>2. /\ DOMAIN table = 1 .. Len(table) /\ Len(table) \in Nat
      /\ Found(table, key) # {} => f \in Found(table, key) /\ f \in 1 .. Len(table)
      /\ \A i \in 1 .. Len(table) : table[i] \in Text
  BY FirstFound
<1>3. DOMAIN r = 1 .. Len(r)
  BY <1>1 DEF EnvTable
<1> HIDE DEF r, f
<1>4. CASE Found(table, key) # {}
  <2>1. ~Matches(table[f], other)
    BY <1>2, <1>4, OneKey DEF Found
  <2>2. DOMAIN r = 1 .. Len(table) - 1
    BY <1>1, <1>3, <1>4
  <2> DEFINE Old(i) == IF i < f THEN i ELSE i + 1
             New(j) == IF j < f THEN j ELSE j - 1
  <2>3. \A i \in 1 .. Len(table) - 1 :
           /\ Old(i) \in 1 .. Len(table) /\ New(Old(i)) = i
           /\ r[i] = table[Old(i)]
    <3>1. f \in 1 .. Len(table) /\ Len(table) \in Nat
      BY <1>2, <1>4
    <3>2. \A i \in 1 .. Len(table) - 1 :
             Old(i) \in 1 .. Len(table) /\ New(Old(i)) = i
      BY ONLY <3>1
    <3>3. \A i \in 1 .. Len(table) - 1 : r[i] = table[Old(i)]
      BY <1>1, <1>4
    <3> QED
      BY <3>2, <3>3
  <2>4. \A j \in 1 .. Len(table) : j # f =>
           New(j) \in 1 .. Len(table) - 1 /\ Old(New(j)) = j
    BY <1>2, <1>4
  <2> HIDE DEF Old, New
  <2>5. \A i \in Found(r, other) :
           Old(i) \in Found(table, other) /\ r[i] = table[Old(i)] /\ New(Old(i)) = i
    BY <1>2, <2>2, <2>3 DEF Found
  <2>6. \A j \in Found(table, other) : j \in 1 .. Len(table) /\ j # f
    BY <1>2, <2>1 DEF Found
  <2>7. \A j \in Found(table, other) : New(j) \in Found(r, other) /\ r[New(j)] = table[j]
    <3> SUFFICES ASSUME NEW j \in Found(table, other)
                 PROVE  New(j) \in Found(r, other) /\ r[New(j)] = table[j]
      OBVIOUS
    <3>1. j \in 1 .. Len(table) /\ j # f /\ Matches(table[j], other)
      BY <2>6 DEF Found
    <3>2. New(j) \in 1 .. Len(table) - 1 /\ Old(New(j)) = j
      BY <3>1, <2>4
    <3>3. r[New(j)] = table[j]
      BY <3>2, <2>3
    <3> QED
      BY <3>1, <3>2, <3>3, <2>2 DEF Found
  <2>8. Under(r, other) \subseteq Under(table, other)
    BY <2>5 DEF Under
  <2>9. Under(table, other) \subseteq Under(r, other)
    BY <2>7 DEF Under
  <2>10. Once(table, other) => Once(r, other)
    <3> SUFFICES ASSUME Once(table, other), NEW i \in Found(r, other), NEW j \in Found(r, other)
                 PROVE  i = j
      BY DEF Once
    <3>1. Old(i) = Old(j)
      BY <2>5 DEF Once
    <3> QED
      BY <3>1, <2>5
  <2> QED
    BY <2>8, <2>9, <2>10 DEF r
<1>5. CASE Found(table, key) = {}
  BY <1>1, <1>5 DEF r
<1> QED
  BY <1>4, <1>5

LEMMA RemovedOwn ==
    ASSUME NEW table \in EnvTable, NEW key \in Text, Once(table, key)
    PROVE  Found(Removed(table, key), key) = {}
<1> DEFINE r == Removed(table, key)
           f == First(Found(table, key))
<1>1. /\ r \in EnvTable
      /\ Found(table, key) = {} => r = table
      /\ Found(table, key) # {} =>
             /\ Len(r) = Len(table) - 1
             /\ \A i \in 1 .. Len(table) - 1 :
                    r[i] = IF i < f THEN table[i] ELSE table[i + 1]
  BY RemovedIs
<1>2. /\ DOMAIN table = 1 .. Len(table) /\ Len(table) \in Nat
      /\ Found(table, key) # {} => f \in Found(table, key) /\ f \in 1 .. Len(table)
  BY FirstFound
<1>3. DOMAIN r = 1 .. Len(r)
  BY <1>1 DEF EnvTable
<1> HIDE DEF r, f
<1>4. CASE Found(table, key) # {}
  <2>1. \A j \in 1 .. Len(table) : j # f => ~Matches(table[j], key)
    BY <1>2, <1>4 DEF Once, Found
  <2>2. \A i \in DOMAIN r :
           \E j \in 1 .. Len(table) : j # f /\ r[i] = table[j]
    <3> SUFFICES ASSUME NEW i \in 1 .. Len(table) - 1
                 PROVE  \E j \in 1 .. Len(table) : j # f /\ r[i] = table[j]
      BY <1>1, <1>3, <1>4
    <3>1. f \in 1 .. Len(table) /\ Len(table) \in Nat
      BY <1>2, <1>4
    <3>2. r[i] = IF i < f THEN table[i] ELSE table[i + 1]
      BY <1>1, <1>4
    <3>3. CASE i < f
      <4>1. i \in 1 .. Len(table) /\ i # f
        BY ONLY <3>1, <3>3, i \in 1 .. Len(table) - 1
      <4> QED
        BY <3>2, <3>3, <4>1
    <3>4. CASE ~(i < f)
      <4>1. i + 1 \in 1 .. Len(table) /\ i + 1 # f
        BY ONLY <3>1, <3>4, i \in 1 .. Len(table) - 1
      <4> QED
        BY <3>2, <3>4, <4>1
    <3> QED
      BY <3>3, <3>4
  <2> QED
    BY <2>1, <2>2 DEF Found, r
<1>5. CASE Found(table, key) = {}
  BY <1>1, <1>5 DEF r
<1> QED
  BY <1>4, <1>5

-----------------------------------------------------------------------------
(***************************************************************************)
(* The invariant of one process: of a key that no other answers for, each  *)
(* table has one entry at most, and the kernel's is the library's.         *)
(***************************************************************************)
Agree(kernel, library, key) ==
    Once(kernel, key) /\ Once(library, key) /\ Under(kernel, key) \subseteq Under(library, key)

Follow(kernel, library, full) ==
    /\ \A key \in Lone : Agree(kernel, library, key)
    /\ ~full => kernel = library

EnvTypeOK ==
    /\ envp \in Seq(EnvTable) /\ environ \in Seq(EnvTable) /\ refused \in Seq(BOOLEAN)
    /\ Len(environ) = Len(envp) /\ Len(refused) = Len(envp) /\ Len(envp) > 0

EachFollows == \A p \in 1 .. Current : Follow(envp[p], environ[p], refused[p])

EnvironmentInv == EnvTypeOK /\ EachFollows

(***************************************************************************)
(* A set key keeps the two tables in agreement (kernel/env.c:15-29,        *)
(* usr/lib/stdlib.c:22-63).                                                *)
(***************************************************************************)
LEMMA StoredAgree ==
    ASSUME NEW kernel \in EnvTable, NEW library \in EnvTable, NEW key \in Keys, NEW value \in Values,
           NEW room \in BOOLEAN, NEW other \in Lone, Agree(kernel, library, other)
    PROVE  Agree(Stored(kernel, key, value, room), Stored(library, key, value, TRUE), other)
<1> DEFINE k == Stored(kernel, key, value, room)
           l == Stored(library, key, value, TRUE)
           e == Entry(key, value)
           fk == First(Found(kernel, key))
           fl == First(Found(library, key))
<1>1. key \in Text /\ value \in Text /\ other \in Text /\ other \in Keys
  BY StringsAreText DEF Lone
<1>2. CASE other # key
  <2>1. Apart(key, other)
    BY <1>2 DEF Lone, Apart
  <2>2. /\ Found(k, other) = Found(kernel, other)
        /\ \A i \in Found(kernel, other) : k[i] = kernel[i]
    BY <1>1, <2>1, StoredApart
  <2>3. /\ Found(l, other) = Found(library, other)
        /\ \A i \in Found(library, other) : l[i] = library[i]
    <3>1. PICK always \in BOOLEAN : always = TRUE
      OBVIOUS
    <3>2. /\ Found(Stored(library, key, value, always), other) = Found(library, other)
          /\ \A i \in Found(library, other) :
                 Stored(library, key, value, always)[i] = library[i]
      BY <1>1, <2>1, StoredApart
    <3> QED
      BY <3>1, <3>2
  <2> HIDE DEF k, l
  <2>4. Under(k, other) = Under(kernel, other) /\ Under(l, other) = Under(library, other)
    BY <2>2, <2>3 DEF Under
  <2>5. Once(k, other) /\ Once(l, other)
    BY <2>2, <2>3 DEF Agree, Once
  <2> QED
    BY <2>4, <2>5 DEF Agree, k, l
<1>3. CASE other = key
  <2>1. /\ Found(kernel, key) # {} => Found(k, key) = Found(kernel, key) /\ k[fk] = e
        /\ Found(kernel, key) = {} /\ room =>
               Found(k, key) = {Len(kernel) + 1} /\ k[Len(kernel) + 1] = e
        /\ Found(kernel, key) = {} /\ ~room => k = kernel
    BY <1>1, StoredOwn
  <2>2. /\ Found(library, key) # {} => Found(l, key) = Found(library, key) /\ l[fl] = e
        /\ Found(library, key) = {} =>
               Found(l, key) = {Len(library) + 1} /\ l[Len(library) + 1] = e
    BY <1>1, StoredOwn
  <2>3. /\ Found(kernel, key) # {} => fk \in Found(kernel, key)
        /\ Found(library, key) # {} => fl \in Found(library, key)
    BY FirstFound
  <2> HIDE DEF k, l, e, fk, fl
  <2>4. Once(kernel, key) /\ Once(library, key)
    BY <1>3 DEF Agree
  <2>5. Once(k, key) /\ Once(l, key)
    <3>1. Once(l, key)
      BY <2>2, <2>4 DEF Once
    <3>2. Once(k, key)
      BY <2>1, <2>4 DEF Once
    <3> QED
      BY <3>1, <3>2
  <2>6. \A i \in Found(l, key) : l[i] = e
    BY <2>2, <2>3, <2>4 DEF Once
  <2>7. Found(l, key) # {}
    BY <2>2
  <2>8. \A i \in Found(k, key) : k[i] = e
    BY <2>1, <2>3, <2>4 DEF Once
  <2>9. Under(k, key) \subseteq Under(l, key)
    BY <2>6, <2>7, <2>8 DEF Under
  <2> QED
    BY <1>3, <2>5, <2>9 DEF Agree, k, l
<1> QED
  BY <1>2, <1>3

LEMMA StoredFollow ==
    ASSUME NEW kernel \in EnvTable, NEW library \in EnvTable, NEW full \in BOOLEAN,
           NEW key \in Keys, NEW value \in Values, Follow(kernel, library, full)
    PROVE  Follow(Stored(kernel, key, value, HasRoom(kernel)),
                  Stored(library, key, value, TRUE),
                  full \/ (Found(kernel, key) = {} /\ ~HasRoom(kernel)))
<1>1. HasRoom(kernel) \in BOOLEAN
  BY DEF HasRoom
<1>2. \A other \in Lone : Agree(Stored(kernel, key, value, HasRoom(kernel)),
                                Stored(library, key, value, TRUE), other)
  BY <1>1, StoredAgree DEF Follow
<1>3. ASSUME ~(full \/ (Found(kernel, key) = {} /\ ~HasRoom(kernel)))
      PROVE  Stored(kernel, key, value, HasRoom(kernel)) = Stored(library, key, value, TRUE)
  <2>1. kernel = library
    BY <1>3 DEF Follow
  <2>2. CASE Found(kernel, key) = {}
    BY <1>3, <2>1, <2>2 DEF Stored
  <2>3. CASE Found(kernel, key) # {}
    BY <2>1, <2>3 DEF Stored
  <2> QED
    BY <2>2, <2>3
<1> QED
  BY <1>2, <1>3 DEF Follow

(***************************************************************************)
(* So does an unset one (kernel/env.c:42-54, usr/lib/stdlib.c:65-82).      *)
(***************************************************************************)
LEMMA RemovedFollow ==
    ASSUME NEW kernel \in EnvTable, NEW library \in EnvTable, NEW full \in BOOLEAN,
           NEW key \in Keys, Follow(kernel, library, full)
    PROVE  Follow(Removed(kernel, key), Removed(library, key), full)
<1>1. ASSUME NEW other \in Lone
      PROVE  Agree(Removed(kernel, key), Removed(library, key), other)
  <2>1. key \in Text /\ other \in Text /\ other \in Keys
    BY StringsAreText DEF Lone
  <2>2. Agree(kernel, library, other)
    BY DEF Follow
  <2>3. CASE other # key
    <3>1. Apart(key, other)
      BY <2>3 DEF Lone, Apart
    <3>2. /\ Under(Removed(kernel, key), other) = Under(kernel, other)
          /\ Once(Removed(kernel, key), other)
      BY <2>1, <2>2, <3>1, RemovedApart DEF Agree
    <3>3. /\ Under(Removed(library, key), other) = Under(library, other)
          /\ Once(Removed(library, key), other)
      BY <2>1, <2>2, <3>1, RemovedApart DEF Agree
    <3> QED
      BY <2>2, <3>2, <3>3 DEF Agree
  <2>4. CASE other = key
    <3>1. Found(Removed(kernel, key), key) = {} /\ Found(Removed(library, key), key) = {}
      BY <2>1, <2>2, <2>4, RemovedOwn DEF Agree
    <3> QED
      BY <2>4, <3>1 DEF Agree, Once, Under
  <2> QED
    BY <2>3, <2>4
<1>2. ~full => Removed(kernel, key) = Removed(library, key)
  BY DEF Follow
<1> QED
  BY <1>1, <1>2 DEF Follow

-----------------------------------------------------------------------------
LEMMA EnvInitInv == EnvInit => EnvironmentInv
<1> SUFFICES ASSUME EnvInit PROVE EnvironmentInv
  OBVIOUS
<1>1. << >> \in EnvTable
  BY DEF EnvTable
<1>2. EnvTypeOK
  BY <1>1 DEF EnvInit, EnvTypeOK
<1>3. \A key : Found(<< >>, key) = {}
  BY DEF Found
<1>4. Follow(<< >>, << >>, FALSE)
  BY <1>3 DEF Follow, Agree, Once, Under
<1>5. \A p \in 1 .. Current : envp[p] = << >> /\ environ[p] = << >> /\ refused[p] = FALSE
  <2>1. Current = 1
    BY DEF EnvInit, Current
  <2>2. envp[1] = << >> /\ environ[1] = << >> /\ refused[1] = FALSE
    BY DEF EnvInit
  <2>3. \A p \in 1 .. Current : p = 1
    BY <2>1
  <2> QED
    BY <2>2, <2>3
<1> QED
  BY <1>2, <1>4, <1>5 DEF EnvironmentInv, EachFollows

(***************************************************************************)
(* A table at the end of the list is changed, added or dropped: the others *)
(* stay.                                                                   *)
(***************************************************************************)
LEMMA LastChanged ==
    ASSUME NEW S, NEW list \in Seq(S), NEW n, n = Len(list), n > 0, NEW x \in S,
           NEW new, new = [list EXCEPT ![n] = x]
    PROVE  /\ new \in Seq(S) /\ Len(new) = n /\ new[n] = x
           /\ \A p \in 1 .. n - 1 : new[p] = list[p]
<1>1. n \in 1 .. Len(list) /\ n \in Nat
  OBVIOUS
<1>2. /\ [list EXCEPT ![n] = x] \in Seq(S)
      /\ Len([list EXCEPT ![n] = x]) = Len(list)
      /\ \A j \in 1 .. Len(list) : [list EXCEPT ![n] = x][j] = IF j = n THEN x ELSE list[j]
  BY <1>1, ExceptSeq
<1> QED
  BY <1>1, <1>2

LEMMA LastAdded ==
    ASSUME NEW S, NEW list \in Seq(S), NEW n, n = Len(list), NEW x \in S,
           NEW new, new = Append(list, x)
    PROVE  /\ new \in Seq(S) /\ Len(new) = n + 1 /\ new[n + 1] = x
           /\ \A p \in 1 .. n : new[p] = list[p]
  BY AppendProperties

LEMMA LastDropped ==
    ASSUME NEW S, NEW list \in Seq(S), NEW n \in Nat, Len(list) = n, n > 1
    PROVE  /\ SubSeq(list, 1, n - 1) \in Seq(S) /\ Len(SubSeq(list, 1, n - 1)) = n - 1
           /\ \A p \in 1 .. n - 1 : SubSeq(list, 1, n - 1)[p] = list[p]
<1>1. PICK m \in Int : m = n - 1
  OBVIOUS
<1>2. \A i \in 1 .. m : list[i] \in S
  BY <1>1
<1>3. /\ SubSeq(list, 1, m) \in Seq(S)
      /\ Len(SubSeq(list, 1, m)) = IF 1 <= m THEN m - 1 + 1 ELSE 0
      /\ \A i \in 1 .. m - 1 + 1 : SubSeq(list, 1, m)[i] = list[1 + i - 1]
  BY <1>2, SubSeqProperties
<1> QED
  BY <1>1, <1>3

LEMMA RunningIs ==
    ASSUME EnvironmentInv
    PROVE  /\ Current \in Nat /\ Current > 0 /\ Current \in 1 .. Current
           /\ Current = Len(envp) /\ Current = Len(environ) /\ Current = Len(refused)
           /\ envp[Current] \in EnvTable /\ environ[Current] \in EnvTable
           /\ refused[Current] \in BOOLEAN
           /\ Follow(envp[Current], environ[Current], refused[Current])
<1>1. /\ Current \in Nat /\ Current > 0
      /\ Current = Len(envp) /\ Current = Len(environ) /\ Current = Len(refused)
  BY DEF EnvironmentInv, EnvTypeOK, Current
<1>2. Current \in 1 .. Current
  BY <1>1
<1>3. /\ envp[Current] \in EnvTable /\ environ[Current] \in EnvTable
      /\ refused[Current] \in BOOLEAN
  BY <1>1, <1>2, ElementOfSeq DEF EnvironmentInv, EnvTypeOK
<1>4. Follow(envp[Current], environ[Current], refused[Current])
  BY <1>2 DEF EnvironmentInv, EachFollows
<1> QED
  BY <1>1, <1>2, <1>3, <1>4

(***************************************************************************)
(* A step that changes the tables of the running process only.             *)
(***************************************************************************)
LEMMA ChangeInv ==
    ASSUME EnvironmentInv,
           NEW kernel \in EnvTable, NEW library \in EnvTable, NEW full \in BOOLEAN,
           Follow(kernel, library, full),
           envp' = [envp EXCEPT ![Current] = kernel],
           environ' = [environ EXCEPT ![Current] = library],
           refused' = [refused EXCEPT ![Current] = full]
    PROVE  /\ EnvironmentInv' /\ Current' = Current
           /\ envp'[Current] = kernel /\ environ'[Current] = library
           /\ refused'[Current] = full
           /\ \A p \in 1 .. Current - 1 : envp'[p] = envp[p] /\ environ'[p] = environ[p]
<1>1. PICK n : n = Current
  OBVIOUS
<1>2. /\ n \in Nat /\ n > 0
      /\ n = Len(envp) /\ n = Len(environ) /\ n = Len(refused)
  BY <1>1, RunningIs
<1>3. envp \in Seq(EnvTable) /\ environ \in Seq(EnvTable) /\ refused \in Seq(BOOLEAN)
  BY DEF EnvironmentInv, EnvTypeOK
<1>4. /\ envp' \in Seq(EnvTable) /\ Len(envp') = n /\ envp'[n] = kernel
      /\ \A p \in 1 .. n - 1 : envp'[p] = envp[p]
  <2>1. envp \in Seq(EnvTable) /\ n = Len(envp) /\ n > 0 /\ envp' = [envp EXCEPT ![n] = kernel]
    BY <1>1, <1>2, <1>3
  <2>2. kernel \in EnvTable
    OBVIOUS
  <2> QED
    BY ONLY <2>1, <2>2, LastChanged
<1>5. /\ environ' \in Seq(EnvTable) /\ Len(environ') = n /\ environ'[n] = library
      /\ \A p \in 1 .. n - 1 : environ'[p] = environ[p]
  <2>1. environ \in Seq(EnvTable) /\ n = Len(environ) /\ n > 0 /\ environ' = [environ EXCEPT ![n] = library]
    BY <1>1, <1>2, <1>3
  <2>2. library \in EnvTable
    OBVIOUS
  <2> QED
    BY ONLY <2>1, <2>2, LastChanged
<1>6. /\ refused' \in Seq(BOOLEAN) /\ Len(refused') = n /\ refused'[n] = full
      /\ \A p \in 1 .. n - 1 : refused'[p] = refused[p]
  <2>1. refused \in Seq(BOOLEAN) /\ n = Len(refused) /\ n > 0 /\ refused' = [refused EXCEPT ![n] = full]
    BY <1>1, <1>2, <1>3
  <2>2. full \in BOOLEAN
    OBVIOUS
  <2> QED
    BY ONLY <2>1, <2>2, LastChanged
<1>7. Current' = n
  BY <1>4 DEF Current
<1>8. EnvTypeOK'
  BY <1>2, <1>4, <1>5, <1>6 DEF EnvTypeOK
<1>9. \A p \in 1 .. n : Follow(envp'[p], environ'[p], refused'[p])
  <2> SUFFICES ASSUME NEW p \in 1 .. n PROVE Follow(envp'[p], environ'[p], refused'[p])
    OBVIOUS
  <2>1. CASE p = n
    BY <2>1, <1>4, <1>5, <1>6
  <2>2. CASE p # n
    <3>1. p \in 1 .. n - 1
      BY <2>2, <1>2
    <3>2. Follow(envp[p], environ[p], refused[p])
      BY <1>1 DEF EnvironmentInv, EachFollows
    <3> QED
      BY <3>1, <3>2, <1>4, <1>5, <1>6
  <2> QED
    BY <2>1, <2>2
<1>10. EachFollows'
  BY <1>7, <1>9 DEF EachFollows
<1> QED
  BY <1>1, <1>4, <1>5, <1>6, <1>7, <1>8, <1>10 DEF EnvironmentInv

(***************************************************************************)
(* What a call of setenv leaves: the tables it has set, or everything as   *)
(* it was.                                                                 *)
(***************************************************************************)
LEMMA SetenvInv ==
    ASSUME EnvironmentInv, NEW key \in Keys, NEW value \in Values, NEW overwrite \in BOOLEAN,
           setenv(key, value, overwrite), ~(UNCHANGED envVars)
    PROVE  /\ EnvironmentInv' /\ Current' = Current
           /\ environ'[Current] = Stored(environ[Current], key, value, TRUE)
           /\ \A p \in 1 .. Current - 1 : envp'[p] = envp[p] /\ environ'[p] = environ[p]
<1>1. PICK kernel, library, full :
          kernel = envp[Current] /\ library = environ[Current] /\ full = refused[Current]
  OBVIOUS
<1>2. /\ kernel \in EnvTable /\ library \in EnvTable /\ full \in BOOLEAN
      /\ Follow(kernel, library, full)
  BY <1>1, RunningIs
<1>3. PICK k, l, f :
          /\ k = Stored(kernel, key, value, HasRoom(kernel))
          /\ l = Stored(library, key, value, TRUE)
          /\ f = (full \/ (Found(kernel, key) = {} /\ ~HasRoom(kernel)))
  OBVIOUS
<1>4. /\ envp' = [envp EXCEPT ![Current] = k]
      /\ environ' = [environ EXCEPT ![Current] = l]
      /\ refused' = [refused EXCEPT ![Current] = f]
  BY <1>1, <1>3 DEF setenv
<1>5. key \in Text /\ value \in Text
  BY StringsAreText
<1>6. k \in EnvTable
  <2>1. HasRoom(kernel) \in BOOLEAN
    BY DEF HasRoom
  <2> QED
    BY <1>2, <1>3, <1>5, <2>1, StoredIs
<1>7. l \in EnvTable
  BY <1>2, <1>3, <1>5, StoredIs
<1>8. Follow(k, l, f) /\ f \in BOOLEAN
  BY <1>2, <1>3, StoredFollow
<1> QED
  BY <1>1, <1>3, <1>4, <1>6, <1>7, <1>8, ChangeInv

LEMMA UnsetenvInv ==
    ASSUME EnvironmentInv, NEW key \in Keys, unsetenv(key)
    PROVE  /\ EnvironmentInv'
           /\ \A p \in 1 .. Current - 1 : envp'[p] = envp[p] /\ environ'[p] = environ[p]
<1>1. PICK kernel, library, full :
          kernel = envp[Current] /\ library = environ[Current] /\ full = refused[Current]
  OBVIOUS
<1>2. /\ kernel \in EnvTable /\ library \in EnvTable /\ full \in BOOLEAN
      /\ Follow(kernel, library, full)
  BY <1>1, RunningIs
<1>3. PICK k, l : k = Removed(kernel, key) /\ l = Removed(library, key)
  OBVIOUS
<1>4. /\ envp' = [envp EXCEPT ![Current] = k]
      /\ environ' = [environ EXCEPT ![Current] = l]
  BY <1>1, <1>3 DEF unsetenv
<1>5. refused' = [refused EXCEPT ![Current] = full]
  <2>1. refused' = refused /\ refused \in Seq(BOOLEAN)
    BY DEF unsetenv, EnvironmentInv, EnvTypeOK
  <2> QED
    BY <1>1, <2>1
<1>6. key \in Text
  BY StringsAreText
<1>7. k \in EnvTable /\ l \in EnvTable
  BY <1>2, <1>3, <1>6, RemovedIs
<1>8. Follow(k, l, full)
  BY <1>2, <1>3, RemovedFollow
<1> QED
  BY <1>2, <1>4, <1>5, <1>7, <1>8, ChangeInv

(***************************************************************************)
(* A child begins with the kernel's table of its parent in both its copies *)
(* (kernel/env.c:56-63, usr/lib/libc.c:6-21); its parent's are not touched *)
(* until it has ended.                                                     *)
(***************************************************************************)
LEMMA EnvExecInv ==
    ASSUME EnvironmentInv, Exec
    PROVE  /\ EnvironmentInv'
           /\ environ'[Current + 1] = envp[Current]
           /\ \A p \in 1 .. Current : envp'[p] = envp[p] /\ environ'[p] = environ[p]
<1>1. PICK n, kernel : n = Current /\ kernel = envp[Current]
  OBVIOUS
<1>2. /\ n \in Nat /\ n > 0
      /\ n = Len(envp) /\ n = Len(environ) /\ n = Len(refused)
      /\ kernel \in EnvTable
      /\ Follow(kernel, environ[Current], refused[Current])
  BY <1>1, RunningIs
<1>3. envp \in Seq(EnvTable) /\ environ \in Seq(EnvTable) /\ refused \in Seq(BOOLEAN)
  BY DEF EnvironmentInv, EnvTypeOK
<1>4. /\ envp' = Append(envp, kernel) /\ environ' = Append(environ, kernel)
      /\ refused' = Append(refused, FALSE)
  BY <1>1 DEF Exec, Inherited
<1>5. /\ envp' \in Seq(EnvTable) /\ Len(envp') = n + 1 /\ envp'[n + 1] = kernel
      /\ \A p \in 1 .. n : envp'[p] = envp[p]
  <2>1. envp \in Seq(EnvTable) /\ n = Len(envp) /\ kernel \in EnvTable /\ envp' = Append(envp, kernel)
    BY <1>2, <1>3, <1>4
  <2> QED
    BY ONLY <2>1, LastAdded
<1>6. /\ environ' \in Seq(EnvTable) /\ Len(environ') = n + 1 /\ environ'[n + 1] = kernel
      /\ \A p \in 1 .. n : environ'[p] = environ[p]
  <2>1. environ \in Seq(EnvTable) /\ n = Len(environ) /\ kernel \in EnvTable /\ environ' = Append(environ, kernel)
    BY <1>2, <1>3, <1>4
  <2> QED
    BY ONLY <2>1, LastAdded
<1>7. /\ refused' \in Seq(BOOLEAN) /\ Len(refused') = n + 1 /\ refused'[n + 1] = FALSE
      /\ \A p \in 1 .. n : refused'[p] = refused[p]
  <2>1. FALSE \in BOOLEAN
    OBVIOUS
  <2> QED
    BY <1>2, <1>3, <1>4, <2>1, LastAdded
<1>8. Current' = n + 1
  BY <1>5 DEF Current
<1>9. EnvTypeOK'
  BY <1>2, <1>5, <1>6, <1>7 DEF EnvTypeOK
<1>10. Follow(kernel, kernel, FALSE)
  BY <1>2 DEF Follow, Agree
<1>11. \A p \in 1 .. n + 1 : Follow(envp'[p], environ'[p], refused'[p])
  <2> SUFFICES ASSUME NEW p \in 1 .. n + 1 PROVE Follow(envp'[p], environ'[p], refused'[p])
    OBVIOUS
  <2>1. CASE p = n + 1
    BY <2>1, <1>5, <1>6, <1>7, <1>10
  <2>2. CASE p # n + 1
    <3>1. p \in 1 .. n
      BY <2>2, <1>2
    <3>2. Follow(envp[p], environ[p], refused[p])
      BY <3>1, <1>1 DEF EnvironmentInv, EachFollows
    <3> QED
      BY <3>1, <3>2, <1>5, <1>6, <1>7
  <2> QED
    BY <2>1, <2>2
<1>12. EachFollows'
  BY <1>8, <1>11 DEF EachFollows
<1> QED
  BY <1>1, <1>5, <1>6, <1>9, <1>12 DEF EnvironmentInv

LEMMA EnvExitInv ==
    ASSUME EnvironmentInv, Exit
    PROVE  /\ EnvironmentInv'
           /\ \A p \in 1 .. Current - 1 : envp'[p] = envp[p] /\ environ'[p] = environ[p]
<1>1. PICK n : n = Current
  OBVIOUS
<1>2. n \in Nat /\ n = Len(envp) /\ n = Len(environ) /\ n = Len(refused)
  BY <1>1, RunningIs
<1>3. envp \in Seq(EnvTable) /\ environ \in Seq(EnvTable) /\ refused \in Seq(BOOLEAN)
  BY DEF EnvironmentInv, EnvTypeOK
<1>4. /\ n > 1
      /\ envp' = SubSeq(envp, 1, n - 1) /\ environ' = SubSeq(environ, 1, n - 1)
      /\ refused' = SubSeq(refused, 1, n - 1)
  BY <1>1 DEF Exit
<1>5. /\ envp' \in Seq(EnvTable) /\ Len(envp') = n - 1
      /\ \A p \in 1 .. n - 1 : envp'[p] = envp[p]
  BY <1>2, <1>3, <1>4, LastDropped
<1>6. /\ environ' \in Seq(EnvTable) /\ Len(environ') = n - 1
      /\ \A p \in 1 .. n - 1 : environ'[p] = environ[p]
  BY <1>2, <1>3, <1>4, LastDropped
<1>7. /\ refused' \in Seq(BOOLEAN) /\ Len(refused') = n - 1
      /\ \A p \in 1 .. n - 1 : refused'[p] = refused[p]
  BY <1>2, <1>3, <1>4, LastDropped
<1>8. Current' = n - 1
  BY <1>5 DEF Current
<1>9. EnvTypeOK'
  BY <1>2, <1>4, <1>5, <1>6, <1>7 DEF EnvTypeOK
<1>10. \A p \in 1 .. n - 1 : Follow(envp'[p], environ'[p], refused'[p])
  <2> SUFFICES ASSUME NEW p \in 1 .. n - 1 PROVE Follow(envp'[p], environ'[p], refused'[p])
    OBVIOUS
  <2>1. p \in 1 .. n
    BY <1>2
  <2>2. Follow(envp[p], environ[p], refused[p])
    BY <2>1, <1>1 DEF EnvironmentInv, EachFollows
  <2> QED
    BY <2>2, <1>5, <1>6, <1>7
<1>11. EachFollows'
  BY <1>8, <1>10 DEF EachFollows
<1> QED
  BY <1>1, <1>5, <1>6, <1>9, <1>11 DEF EnvironmentInv

LEMMA EnvNextInv ==
    ASSUME EnvironmentInv, [EnvNext]_envVars
    PROVE  EnvironmentInv'
<1>1. CASE UNCHANGED envVars
  <2>1. EnvTypeOK'
    BY <1>1 DEF EnvironmentInv, EnvTypeOK, envVars
  <2>2. Current' = Current
    BY <1>1 DEF Current, envVars
  <2>3. EachFollows'
    BY <1>1, <2>2 DEF EnvironmentInv, EachFollows, envVars
  <2> QED
    BY <2>1, <2>3 DEF EnvironmentInv
<1>2. ASSUME NEW key \in Keys, NEW value \in Values, NEW overwrite \in BOOLEAN,
             setenv(key, value, overwrite)
      PROVE  EnvironmentInv'
  BY <1>1, <1>2, SetenvInv
<1>3. ASSUME NEW key \in Keys, unsetenv(key) PROVE EnvironmentInv'
  BY <1>3, UnsetenvInv
<1>4. CASE Exec
  BY <1>4, EnvExecInv
<1>5. CASE Exit
  BY <1>5, EnvExitInv
<1> QED
  BY <1>1, <1>2, <1>3, <1>4, <1>5 DEF EnvNext

LEMMA SpecInv == EnvSpec => []EnvironmentInv
<1>1. EnvInit => EnvironmentInv
  BY EnvInitInv
<1>2. EnvironmentInv /\ [EnvNext]_envVars => EnvironmentInv'
  BY EnvNextInv
<1> QED
  BY <1>1, <1>2, PTL DEF EnvSpec

(***************************************************************************)
(* What the kernel passes on to children under a key is what the process   *)
(* itself has under it, whatever was set, unset and inherited before, and  *)
(* however often the kernel's table was full (kernel/env.c:15-63,          *)
(* usr/lib/stdlib.c:22-82).                                                *)
(***************************************************************************)
THEOREM SpecKernelFollows == EnvSpec => []KernelFollows
<1>1. EnvironmentInv => KernelFollows
  BY DEF EnvironmentInv, EachFollows, Follow, Agree, KernelFollows
<1> QED
  BY <1>1, SpecInv, PTL

-----------------------------------------------------------------------------
(***************************************************************************)
(* The value that is stored is the value that is looked up.                *)
(***************************************************************************)
LEMMA LookupSet ==
    ASSUME NEW table \in EnvTable, NEW key \in Text, NEW value \in Text
    PROVE  Lookup(Stored(table, key, value, TRUE), key) = value
<1> DEFINE s == Stored(table, key, value, TRUE)
           f == First(Found(table, key))
           e == Entry(key, value)
<1>1. /\ Found(table, key) # {} => Found(s, key) = Found(table, key) /\ s[f] = e
      /\ Found(table, key) = {} =>
             Found(s, key) = {Len(table) + 1} /\ s[Len(table) + 1] = e
  BY StoredOwn
<1>2. SubSeq(e, Len(key) + 2, Len(e)) = value
  BY EntryIs
<1> HIDE DEF s, e
<1>3. Found(s, key) # {} /\ s[First(Found(s, key))] = e
  <2>1. CASE Found(table, key) # {}
    BY <1>1, <2>1
  <2>2. CASE Found(table, key) = {}
    <3>1. PICK n \in Nat : n = Len(table) + 1
      BY FirstFound
    <3>2. First({n}) = n
      BY Least
    <3> QED
      BY <1>1, <2>2, <3>1, <3>2
  <2> QED
    BY <2>1, <2>2
<1> QED
  BY <1>2, <1>3 DEF Lookup, s

LEMMA LookupOther ==
    ASSUME NEW table \in EnvTable, NEW key \in Text, NEW value \in Text, NEW other \in Text,
           Apart(key, other)
    PROVE  Lookup(Stored(table, key, value, TRUE), other) = Lookup(table, other)
<1> DEFINE f == First(Found(table, other))
<1>1. PICK always \in BOOLEAN : always = TRUE
  OBVIOUS
<1>2. PICK s : s = Stored(table, key, value, always)
  OBVIOUS
<1>3. /\ Found(s, other) = Found(table, other)
      /\ \A i \in Found(table, other) : s[i] = table[i]
  BY <1>2, StoredApart
<1>4. Found(table, other) # {} => f \in Found(table, other)
  BY FirstFound
<1> HIDE DEF f
<1>5. Found(table, other) # {} => s[f] = table[f]
  BY <1>3, <1>4
<1>6. Lookup(s, other) = Lookup(table, other)
  BY <1>3, <1>5 DEF Lookup, f
<1> QED
  BY <1>1, <1>2, <1>6

(***************************************************************************)
(* getenv returns what setenv was given, in the process and, where the     *)
(* kernel's table never was full, in its children; and setting a key       *)
(* changes what no other key reads, of keys without a separator            *)
(* (usr/lib/stdlib.c:9-63).                                                *)
(***************************************************************************)
THEOREM SpecSetIsRead == EnvSpec => SetIsRead
<1> DEFINE Step ==
        \A key \in Keys, value \in Values :
           setenv(key, value, TRUE) =>
               /\ Lookup(environ'[Current], key) = value
               /\ ~refused'[Current] => Lookup(envp'[Current], key) = value
               /\ key \in Plain => \A other \in Plain \ {key} :
                      Lookup(environ'[Current], other) = Lookup(environ[Current], other)
<1>1. ASSUME EnvironmentInv, [EnvNext]_envVars, ~(UNCHANGED envVars) PROVE Step
  <2> SUFFICES ASSUME NEW key \in Keys, NEW value \in Values, setenv(key, value, TRUE)
      PROVE  /\ Lookup(environ'[Current], key) = value
             /\ ~refused'[Current] => Lookup(envp'[Current], key) = value
             /\ key \in Plain => \A other \in Plain \ {key} :
                    Lookup(environ'[Current], other) = Lookup(environ[Current], other)
    OBVIOUS
  <2>1. PICK library : library = environ[Current]
    OBVIOUS
  <2>2. library \in EnvTable /\ Current \in 1 .. Current
    BY <1>1, <2>1, RunningIs
  <2>3. /\ EnvironmentInv' /\ Current' = Current
        /\ environ'[Current] = Stored(library, key, value, TRUE)
    BY <1>1, <2>1, SetenvInv
  <2>4. key \in Text /\ value \in Text
    BY StringsAreText
  <2>5. Lookup(environ'[Current], key) = value
    BY <2>2, <2>3, <2>4, LookupSet
  <2>6. ~refused'[Current] => Lookup(envp'[Current], key) = value
    <3>1. ~refused'[Current] => envp'[Current] = environ'[Current]
      BY <2>2, <2>3 DEF EnvironmentInv, EachFollows, Follow
    <3> QED
      BY <2>5, <3>1
  <2>7. ASSUME key \in Plain, NEW other \in Plain \ {key}
        PROVE  Lookup(environ'[Current], other) = Lookup(environ[Current], other)
    <3>1. other \in Text /\ key # other
      BY StringsAreText DEF Plain
    <3>2. \A k, o \in Plain : k \in Text /\ o \in Text => ~Opens(k, o)
      <4> SUFFICES ASSUME NEW k \in Plain, NEW o \in Plain, k \in Text, o \in Text,
                          Opens(k, o)
                   PROVE  FALSE
        OBVIOUS
      <4>1. Len(k) + 1 \in 1 .. Len(o) /\ DOMAIN o = 1 .. Len(o)
        BY DEF Opens, Text
      <4> QED
        BY <4>1 DEF Opens, Plain
    <3>3. Apart(key, other)
      BY <2>4, <2>7, <3>1, <3>2 DEF Apart
    <3>4. Lookup(Stored(library, key, value, TRUE), other) = Lookup(library, other)
      BY ONLY <2>2, <2>4, <3>1, <3>3, LookupOther
    <3> QED
      BY <2>1, <2>3, <3>4
  <2> QED
    BY <2>5, <2>6, <2>7
<1>2. EnvironmentInv /\ [EnvNext]_envVars => [Step]_envVars
  BY <1>1
<1> QED
  BY <1>2, SpecInv, PTL DEF EnvSpec, SetIsRead

(***************************************************************************)
(* A child starts with its parent's environment, of a parent whose table   *)
(* in the kernel never was full; and no step of the running process, its   *)
(* end included, touches the tables of one that waits for it               *)
(* (kernel/env.c:56-63, usr/lib/libc.c:6-21).                              *)
(***************************************************************************)
THEOREM SpecChildApart == EnvSpec => ChildApart
<1> DEFINE Step ==
        /\ Exec => (~refused[Current] => environ'[Current + 1] = environ[Current])
        /\ \A p \in 1 .. Current - 1 : envp'[p] = envp[p] /\ environ'[p] = environ[p]
<1>1. ASSUME EnvironmentInv, [EnvNext]_envVars, ~(UNCHANGED envVars) PROVE Step
  <2>1. ASSUME Exec
        PROVE  ~refused[Current] => environ'[Current + 1] = environ[Current]
    <3>1. environ'[Current + 1] = envp[Current]
      BY <1>1, <2>1, EnvExecInv
    <3>2. Follow(envp[Current], environ[Current], refused[Current])
      BY <1>1, RunningIs
    <3> QED
      BY <3>1, <3>2 DEF Follow
  <2>2. ASSUME NEW p \in 1 .. Current - 1
        PROVE  envp'[p] = envp[p] /\ environ'[p] = environ[p]
    <3>1. ASSUME NEW key \in Keys, NEW value \in Values, NEW overwrite \in BOOLEAN,
                 setenv(key, value, overwrite)
          PROVE  envp'[p] = envp[p] /\ environ'[p] = environ[p]
      BY <1>1, <3>1, SetenvInv
    <3>2. ASSUME NEW key \in Keys, unsetenv(key)
          PROVE  envp'[p] = envp[p] /\ environ'[p] = environ[p]
      BY <1>1, <3>2, UnsetenvInv
    <3>3. CASE Exec
      <4>1. p \in 1 .. Current
        BY <1>1, RunningIs
      <4> QED
        BY <1>1, <3>3, <4>1, EnvExecInv
    <3>4. CASE Exit
      BY <1>1, <3>4, EnvExitInv
    <3> QED
      BY <1>1, <3>1, <3>2, <3>3, <3>4 DEF EnvNext
  <2> QED
    BY <2>1, <2>2
<1>2. EnvironmentInv /\ [EnvNext]_envVars => [Step]_envVars
  BY <1>1
<1> QED
  BY <1>2, SpecInv, PTL DEF EnvSpec, ChildApart

-----------------------------------------------------------------------------
(***************************************************************************)
(* The descriptors (kernel/fd.c).                                          *)
(***************************************************************************)
USE DescriptorsAssumption

Descriptor == [type : {"none", "tty", "file", "dir"}, ops : {"none", "tty", "file", "dir"},
               readable : BOOLEAN, writable : BOOLEAN, data : {Null} \cup Addresses]

TypeOK ==
    /\ tables \in Seq([Slots -> Descriptor]) /\ Len(tables) > 0
    /\ opened \in Seq(SUBSET Slots) /\ Len(opened) = Len(tables)
    /\ objects \in [Addresses -> {"free", "file", "dir"}]

\* What the fields of one descriptor have to do with one another.
WellFormed(d) ==
    /\ d.type \in {"none", "tty"} => d.data = Null
    /\ d.type \in {"file", "dir"} => d.ops = d.type /\ d.data # Null

DescriptorsFormed == \A p \in Processes : \A i \in Slots : WellFormed(tables[p][i])

\* Descriptors in use point to live objects of their kind.
Live == \A p \in Processes : \A i \in Used(p) : objects[tables[p][i].data] = tables[p][i].type

\* What a process opened it uses.
OpenedUsed == \A p \in Processes : opened[p] \subseteq Used(p)

\* What a process uses that waits for another, that one has from it.
UsedSince ==
    \A p, q \in Processes : p < q =>
        \A i \in Used(p) : tables[q][i] = tables[p][i] /\ i \notin opened[q]

\* What a process uses it opened itself, or its parent uses it too.
FromParent ==
    \A q \in Processes : \A i \in Used(q) \ opened[q] :
        q > 1 => i \in Used(q - 1) /\ tables[q - 1][i] = tables[q][i]

Inv ==
    /\ TypeOK
    /\ DescriptorsFormed
    /\ Live
    /\ OneOwner
    /\ OpenedUsed
    /\ UsedSince
    /\ FromParent
    /\ ObjectsReachable

\* The first process has only the terminal.
LEMMA InitInv == Init => Inv
<1> SUFFICES ASSUME Init PROVE Inv
  OBVIOUS
<1>1. FDInitProcess \in [Slots -> Descriptor]
  BY DEF FDInitProcess, Descriptor, TTY, Unused
<1>2. \A i \in Slots : WellFormed(FDInitProcess[i]) /\ FDInitProcess[i].type \in {"none", "tty"}
  BY DEF FDInitProcess, WellFormed, TTY, Unused
<1>3. Processes = {1} /\ tables[1] = FDInitProcess /\ opened[1] = {}
  BY DEF Init, Processes
<1>4. Used(1) = {}
  BY <1>2, <1>3 DEF Used
<1>5. TypeOK
  BY <1>1 DEF Init, TypeOK
<1> QED
  BY <1>2, <1>3, <1>4, <1>5
  DEF Init, Inv, DescriptorsFormed, Live, OneOwner, OpenedUsed, UsedSince, FromParent, ObjectsReachable

\* What the running process changes in its own table.
LEMMA OwnTable ==
    ASSUME Inv, NEW n \in Nat, n = Running, NEW i \in Slots, NEW d \in Descriptor,
           tables' = [tables EXCEPT ![n][i] = d]
    PROVE  /\ tables' \in Seq([Slots -> Descriptor])
           /\ Processes' = Processes /\ n \in Processes
           /\ \A p \in Processes : p # n => tables'[p] = tables[p] /\ p < n
           /\ \A j \in Slots : tables'[n][j] = IF j = i THEN d ELSE tables[n][j]
BY DEF Inv, TypeOK, Running, Processes

\* The new object was free, so nobody used it, and its number was free here
\* and therefore in every process that waits.
LEMMA OpenInv ==
    ASSUME Inv, NEW kind \in {"file", "dir"}, NEW r \in BOOLEAN, NEW w \in BOOLEAN, Open(kind, r, w)
    PROVE  Inv'
<1> PICK n \in Nat \ {0} : n = Running
  BY DEF Inv, TypeOK, Running
<1> PICK i \in 0 .. FDMax, a \in Addresses :
        /\ FDAlloc(i)
        /\ Allocated(a)
        /\ objects' = [objects EXCEPT ![a] = kind]
        /\ tables' = [tables EXCEPT ![n][i] = Opened(kind, r, w, a)]
        /\ opened' = [opened EXCEPT ![n] = @ \cup {i}]
        /\ orphans' = orphans \ {a}
  BY DEF Open
<1> DEFINE d == Opened(kind, r, w, a)
<1>1. i \in Slots /\ tables[n][i].type = "none" /\ objects[a] = "free" /\ a # Null
  BY DEF FDAlloc, Allocated, Table, Addresses, Null
<1>2. d \in Descriptor /\ WellFormed(d) /\ d.type = kind /\ d.data = a
  BY <1>1 DEF Opened, Descriptor, WellFormed
<1>3. /\ tables' \in Seq([Slots -> Descriptor])
      /\ Processes' = Processes /\ n \in Processes
      /\ \A p \in Processes : p # n => tables'[p] = tables[p] /\ p < n
      /\ \A j \in Slots : tables'[n][j] = IF j = i THEN d ELSE tables[n][j]
  BY <1>1, <1>2, OwnTable, ZenonT(40)
<1>4. /\ \A p \in Processes : p # n => Used(p)' = Used(p)
      /\ Used(n)' = Used(n) \cup {i} /\ i \notin Used(n)
  BY <1>1, <1>2, <1>3 DEF Used
<1>5. /\ opened' \in Seq(SUBSET Slots) /\ Len(opened') = Len(opened)
      /\ opened'[n] = opened[n] \cup {i}
      /\ \A p \in Processes : p # n => opened'[p] = opened[p]
  BY <1>1, <1>3 DEF Inv, TypeOK, Processes
<1>6. TypeOK'
  BY <1>3, <1>5 DEF Inv, TypeOK, Processes
<1>7. \A p \in Processes : i \notin Used(p)
  BY <1>1, <1>3, <1>4 DEF Inv, UsedSince, Used
<1>8. \A p \in Processes : \A j \in Used(p) : tables[p][j].data # a
  BY <1>1 DEF Inv, Live, Used
<1>9. DescriptorsFormed'
  BY <1>2, <1>3 DEF Inv, DescriptorsFormed
<1>10. Live'
  <2> SUFFICES ASSUME NEW p \in Processes, NEW j \in Used(p)'
               PROVE  objects'[tables'[p][j].data] = tables'[p][j].type
    BY <1>3 DEF Live
  <2>1. CASE p = n /\ j = i
    BY <2>1, <1>1, <1>2, <1>3 DEF Inv, TypeOK
  <2>2. CASE ~(p = n /\ j = i)
    <3>1. j \in Used(p) /\ j \in Slots /\ tables'[p][j] = tables[p][j]
      BY <2>2, <1>3, <1>4 DEF Used
    <3>2. tables[p][j].data # a
      BY <3>1, <1>8
    <3>3. objects[tables[p][j].data] = tables[p][j].type
      BY <3>1 DEF Inv, Live
    <3>4. tables[p][j].data \in Addresses
      BY <3>1 DEF Inv, DescriptorsFormed, WellFormed, Used, TypeOK, Descriptor, Processes
    <3> QED
      BY <3>1, <3>2, <3>3, <3>4 DEF Inv, TypeOK
  <2> QED
    BY <2>1, <2>2
<1>11. OneOwner'
  <2> SUFFICES ASSUME NEW p \in Processes, NEW q \in Processes, NEW j \in Used(p)', NEW k \in Used(q)',
                      tables'[p][j].data = tables'[q][k].data
               PROVE  j = k
    BY <1>3 DEF OneOwner
  <2>1. \A s \in Processes : \A l \in Used(s)' :
            \/ s = n /\ l = i /\ tables'[s][l].data = a
            \/ l \in Used(s) /\ tables'[s][l].data = tables[s][l].data /\ tables[s][l].data # a
    BY <1>2, <1>3, <1>4, <1>8 DEF Used
  <2> QED
    BY <2>1 DEF Inv, OneOwner
<1>12. OpenedUsed'
  BY <1>3, <1>4, <1>5 DEF Inv, OpenedUsed
<1>13. UsedSince'
  <2> SUFFICES ASSUME NEW p \in Processes, NEW q \in Processes, p < q, NEW j \in Used(p)'
               PROVE  tables'[q][j] = tables'[p][j] /\ j \notin opened'[q]
    BY <1>3 DEF UsedSince
  <2>1. p # n
    BY <1>3 DEF Running, Processes, Inv, TypeOK
  <2>2. j \in Used(p) /\ j # i /\ j \in Slots
    BY <2>1, <1>4, <1>7 DEF Used
  <2>3. tables[q][j] = tables[p][j] /\ j \notin opened[q]
    BY <2>2 DEF Inv, UsedSince
  <2> QED
    BY <2>1, <2>2, <2>3, <1>3, <1>5
<1>14. FromParent'
  <2> SUFFICES ASSUME NEW q \in Processes, q > 1, NEW j \in Used(q)' \ opened'[q]
               PROVE  j \in Used(q - 1)' /\ tables'[q - 1][j] = tables'[q][j]
    BY <1>3 DEF FromParent
  <2>1. j \in Used(q) \ opened[q] /\ j \in Slots /\ ~(q = n /\ j = i)
    BY <1>4, <1>5 DEF Used
  <2>2. j \in Used(q - 1) /\ tables[q - 1][j] = tables[q][j]
    BY <2>1 DEF Inv, FromParent
  <2>3. q - 1 \in Processes /\ q - 1 # n
    BY <1>3 DEF Processes, Running, Inv, TypeOK
  <2> QED
    BY <2>1, <2>2, <2>3, <1>3, <1>4
<1>15. ObjectsReachable'
  <2> SUFFICES ASSUME NEW b \in Addresses, objects'[b] # "free", b \notin orphans'
               PROVE  \E p \in Processes : \E j \in Used(p)' : tables'[p][j].data = b
    BY <1>3 DEF ObjectsReachable
  <2>1. CASE b = a
    BY <2>1, <1>2, <1>3, <1>4, <1>1
  <2>2. CASE b # a
    <3>1. objects[b] # "free" /\ b \notin orphans
      BY <2>2 DEF Inv, TypeOK
    <3>2. PICK p \in Processes : \E j \in Used(p) : tables[p][j].data = b
      BY <3>1 DEF Inv, ObjectsReachable
    <3> QED
      BY <3>2, <1>3, <1>4 DEF Used
  <2> QED
    BY <2>1, <2>2
<1> QED
  BY <1>6, <1>9, <1>10, <1>11, <1>12, <1>13, <1>14, <1>15 DEF Inv

\* The object is in no other descriptor: the number is this process's own.
LEMMA CloseInv ==
    ASSUME Inv, ~ClosesInherited, NEW i \in Slots, FDClose(i)
    PROVE  Inv'
<1> PICK n \in Nat \ {0} : n = Running
  BY DEF Inv, TypeOK, Running
<1> DEFINE a == tables[n][i].data
<1> PICK d : d = Closed(tables[n][i])
  OBVIOUS
<1>1. /\ i \in opened[n] /\ objects' = Released(tables[n][i])
      /\ tables' = [tables EXCEPT ![n][i] = d]
      /\ opened' = [opened EXCEPT ![n] = @ \ {i}]
      /\ UNCHANGED orphans
  BY DEF FDClose, Table
<1>2. n \in Processes /\ tables[n] \in [Slots -> Descriptor]
  BY DEF Inv, TypeOK, Running, Processes
<1>3. i \in Used(n) /\ WellFormed(tables[n][i])
  BY <1>1, <1>2 DEF Inv, OpenedUsed, DescriptorsFormed
<1>4. a \in Addresses /\ objects' = [objects EXCEPT ![a] = "free"]
  BY <1>1, <1>2, <1>3 DEF Used, WellFormed, Descriptor, Released
<1>5. d \in Descriptor /\ WellFormed(d) /\ d.type = "none"
  BY <1>2, ZenonT(40) DEF Closed, Descriptor, WellFormed
<1>6. /\ tables' \in Seq([Slots -> Descriptor])
      /\ Processes' = Processes
      /\ \A p \in Processes : p # n => tables'[p] = tables[p] /\ p < n
      /\ \A j \in Slots : tables'[n][j] = IF j = i THEN d ELSE tables[n][j]
  <2>1. tables' = [tables EXCEPT ![n][i] = d]
    BY <1>1
  <2>2. n \in Nat /\ n = Running /\ i \in Slots /\ d \in Descriptor
    BY <1>5
  <2> QED
    BY ONLY Inv, <2>1, <2>2, OwnTable, ZenonT(40)
<1>7. /\ \A p \in Processes : p # n => Used(p)' = Used(p)
      /\ Used(n)' = Used(n) \ {i}
  BY <1>2, <1>5, <1>6 DEF Used
<1>8. /\ opened' \in Seq(SUBSET Slots) /\ Len(opened') = Len(opened)
      /\ opened'[n] = opened[n] \ {i}
      /\ \A p \in Processes : p # n => opened'[p] = opened[p]
  BY <1>1, <1>2 DEF Inv, TypeOK, Processes
<1>9. TypeOK'
  BY <1>4, <1>6, <1>8 DEF Inv, TypeOK, Processes
<1>10. \A p \in Processes : i \notin Used(p)'
  BY <1>1, <1>2, <1>6, <1>7 DEF Inv, UsedSince
<1>11. \A p \in Processes : \A j \in Used(p)' :
            j \in Used(p) /\ j # i /\ tables'[p][j] = tables[p][j] /\ tables[p][j].data # a
  <2> SUFFICES ASSUME NEW p \in Processes, NEW j \in Used(p)'
               PROVE  j \in Used(p) /\ j # i /\ tables'[p][j] = tables[p][j] /\ tables[p][j].data # a
    OBVIOUS
  <2>1. j \in Used(p) /\ j # i /\ j \in Slots
    BY <1>7, <1>10 DEF Used
  <2> QED
    BY <2>1, <1>2, <1>3, <1>6 DEF Inv, OneOwner
<1>12. DescriptorsFormed'
  BY <1>5, <1>6 DEF Inv, DescriptorsFormed
<1>13. Live'
  <2> SUFFICES ASSUME NEW p \in Processes, NEW j \in Used(p)'
               PROVE  objects'[tables'[p][j].data] = tables'[p][j].type
    BY <1>6 DEF Live
  <2>1. j \in Used(p) /\ j \in Slots /\ tables'[p][j] = tables[p][j] /\ tables[p][j].data # a
    BY <1>11 DEF Used
  <2>2. objects[tables[p][j].data] = tables[p][j].type
    BY <2>1 DEF Inv, Live
  <2>3. tables[p][j].data \in Addresses
    BY <2>1 DEF Inv, DescriptorsFormed, WellFormed, Used, TypeOK, Descriptor, Processes
  <2> QED
    BY <2>1, <2>2, <2>3, <1>4 DEF Inv, TypeOK
<1>14. OneOwner'
  BY <1>6, <1>11 DEF Inv, OneOwner
<1>15. OpenedUsed'
  BY <1>6, <1>7, <1>8 DEF Inv, OpenedUsed
<1>16. UsedSince'
  <2> SUFFICES ASSUME NEW p \in Processes, NEW q \in Processes, p < q, NEW j \in Used(p)'
               PROVE  tables'[q][j] = tables'[p][j] /\ j \notin opened'[q]
    BY <1>6 DEF UsedSince
  <2>1. j \in Used(p) /\ j \in Slots /\ j # i /\ tables'[p][j] = tables[p][j]
    BY <1>11 DEF Used
  <2>2. tables[q][j] = tables[p][j] /\ j \notin opened[q]
    BY <2>1 DEF Inv, UsedSince
  <2> QED
    BY <2>1, <2>2, <1>6, <1>8
<1>17. FromParent'
  <2> SUFFICES ASSUME NEW q \in Processes, q > 1, NEW j \in Used(q)' \ opened'[q]
               PROVE  j \in Used(q - 1)' /\ tables'[q - 1][j] = tables'[q][j]
    BY <1>6 DEF FromParent
  <2>1. j \in Used(q) \ opened[q] /\ j \in Slots /\ tables'[q][j] = tables[q][j]
    BY <1>8, <1>11 DEF Used
  <2>2. j \in Used(q - 1) /\ tables[q - 1][j] = tables[q][j]
    BY <2>1 DEF Inv, FromParent
  <2>3. q - 1 \in Processes /\ q - 1 # n
    BY <1>6 DEF Processes, Running, Inv, TypeOK
  <2> QED
    BY <2>1, <2>2, <2>3, <1>6, <1>7
<1>18. ObjectsReachable'
  <2> SUFFICES ASSUME NEW b \in Addresses, objects'[b] # "free", b \notin orphans'
               PROVE  \E p \in Processes : \E j \in Used(p)' : tables'[p][j].data = b
    BY <1>6 DEF ObjectsReachable
  <2>1. b # a /\ objects[b] # "free" /\ b \notin orphans
    BY <1>1, <1>4 DEF Inv, TypeOK
  <2>2. PICK p \in Processes : \E j \in Used(p) : tables[p][j].data = b
    BY <2>1 DEF Inv, ObjectsReachable
  <2> PICK j \in Used(p) : tables[p][j].data = b
    BY <2>2
  <2>3. ~(p = n /\ j = i)
    BY <2>1
  <2> QED
    BY <2>3, <1>6, <1>7 DEF Used
<1> QED
  BY <1>9, <1>12, <1>13, <1>14, <1>15, <1>16, <1>17, <1>18 DEF Inv

\* The child's table is that of the caller, and it has opened nothing.
LEMMA ExecInv == Inv /\ SysExec => Inv'
<1> SUFFICES ASSUME Inv, SysExec PROVE Inv'
  OBVIOUS
<1> PICK n \in Nat \ {0} : n = Running
  BY DEF Inv, TypeOK, Running
<1>1. n \in Nat \ {0} /\ Processes = 1 .. n /\ tables[n] \in [Slots -> Descriptor]
  BY DEF Inv, TypeOK, Running, Processes
<1>2. /\ tables' = Append(tables, tables[n]) /\ opened' = Append(opened, {})
      /\ UNCHANGED <<objects, orphans>>
  BY DEF SysExec, Table
<1>3. /\ Processes' = 1 .. n + 1 /\ Len(opened') = n + 1
      /\ tables' \in Seq([Slots -> Descriptor]) /\ Len(tables') = n + 1
      /\ opened' \in Seq(SUBSET Slots)
  BY <1>1, <1>2 DEF Inv, TypeOK, Running, Processes
<1>4. /\ \A p \in 1 .. n : tables'[p] = tables[p] /\ opened'[p] = opened[p]
      /\ tables'[n + 1] = tables[n] /\ opened'[n + 1] = {}
  BY <1>1, <1>2 DEF Inv, TypeOK, Running
<1>5. /\ \A p \in 1 .. n : Used(p)' = Used(p)
      /\ Used(n + 1)' = Used(n)
  BY <1>4 DEF Used
<1>6. TypeOK'
  BY <1>1, <1>2, <1>3 DEF Inv, TypeOK
<1>7. DescriptorsFormed'
  BY <1>1, <1>3, <1>4 DEF Inv, DescriptorsFormed
<1>8. Live'
  BY <1>1, <1>2, <1>3, <1>4, <1>5 DEF Inv, Live
<1>9. OneOwner'
  <2> DEFINE from(p) == IF p = n + 1 THEN n ELSE p
  <2>1. \A p \in Processes' : from(p) \in Processes /\ Used(p)' = Used(from(p)) /\ tables'[p] = tables[from(p)]
    BY <1>1, <1>3, <1>4, <1>5
  <2> HIDE DEF from
  <2> QED
    BY <2>1 DEF Inv, OneOwner
<1>10. OpenedUsed'
  BY <1>1, <1>3, <1>4, <1>5 DEF Inv, OpenedUsed
<1>11. UsedSince'
  <2> SUFFICES ASSUME NEW p \in 1 .. n + 1, NEW q \in 1 .. n + 1, p < q, NEW j \in Used(p)'
               PROVE  tables'[q][j] = tables'[p][j] /\ j \notin opened'[q]
    BY <1>3 DEF UsedSince
  <2>1. p \in 1 .. n /\ j \in Used(p) /\ tables'[p] = tables[p]
    BY <1>1, <1>4, <1>5
  <2>2. CASE q \in 1 .. n
    BY <2>1, <2>2, <1>1, <1>4 DEF Inv, UsedSince
  <2>3. CASE q = n + 1
    <3>1. p < n => tables[n][j] = tables[p][j]
      BY <2>1, <1>1 DEF Inv, UsedSince
    <3>2. p = n \/ p < n
      BY <1>1, <2>1
    <3> QED
      BY <2>1, <2>3, <3>1, <3>2, <1>4
  <2> QED
    BY <2>2, <2>3, <1>1
<1>12. FromParent'
  <2> SUFFICES ASSUME NEW q \in 1 .. n + 1, q > 1, NEW j \in Used(q)' \ opened'[q]
               PROVE  j \in Used(q - 1)' /\ tables'[q - 1][j] = tables'[q][j]
    BY <1>3 DEF FromParent
  <2>1. CASE q = n + 1
    BY <2>1, <1>1, <1>4, <1>5
  <2>2. CASE q \in 1 .. n
    <3>1. j \in Used(q) \ opened[q] /\ q - 1 \in 1 .. n
      BY <2>2, <1>1, <1>4, <1>5
    <3> QED
      BY <2>2, <3>1, <1>1, <1>4, <1>5 DEF Inv, FromParent
  <2> QED
    BY <2>1, <2>2, <1>1
<1>13. ObjectsReachable'
  BY <1>1, <1>2, <1>3, <1>4, <1>5 DEF Inv, ObjectsReachable
<1> QED
  BY <1>6, <1>7, <1>8, <1>9, <1>10, <1>11, <1>12, <1>13 DEF Inv

\* A sequence without its last element.
LEMMA ShorterSeq ==
    ASSUME NEW S, NEW s \in Seq(S), Len(s) > 0
    PROVE  SubSeq(s, 1, Len(s) - 1) \in Seq(S) /\ Len(SubSeq(s, 1, Len(s) - 1)) = Len(s) - 1
<1>1. 1 \in Int /\ Len(s) - 1 \in Int /\ \A i \in 1 .. Len(s) - 1 : s[i] \in S
  OBVIOUS
<1>2. Len(SubSeq(s, 1, Len(s) - 1)) = IF 1 <= Len(s) - 1 THEN Len(s) - 1 - 1 + 1 ELSE 0
  BY <1>1, SubSeqProperties
<1>3. SubSeq(s, 1, Len(s) - 1) \in Seq(S)
  BY <1>1, SubSeqProperties
<1>4. Len(s) \in Nat /\ (IF 1 <= Len(s) - 1 THEN Len(s) - 1 - 1 + 1 ELSE 0) = Len(s) - 1
  BY SMTT(20)
<1>5. Len(SubSeq(s, 1, Len(s) - 1)) = Len(s) - 1
  BY ONLY <1>2, <1>4
<1> QED
  BY ONLY <1>3, <1>5

\* What it opened becomes an orphan; the rest its parent uses.
LEMMA ExitInv == Inv /\ SysExit => Inv'
<1> SUFFICES ASSUME Inv, SysExit PROVE Inv'
  OBVIOUS
<1> PICK n \in Nat \ {0} : n = Running
  BY DEF Inv, TypeOK, Running
<1>1. n \in Nat /\ n > 1 /\ Processes = 1 .. n
  BY DEF Inv, TypeOK, Running, Processes, SysExit
<1>2. /\ tables' = SubSeq(tables, 1, n - 1) /\ opened' = SubSeq(opened, 1, n - 1)
      /\ orphans' = orphans \cup {tables[n][i].data : i \in opened[n]}
      /\ UNCHANGED objects
  BY DEF SysExit, Table
<1>3. /\ Processes' = 1 .. n - 1 /\ Len(opened') = n - 1
      /\ tables' \in Seq([Slots -> Descriptor]) /\ Len(tables') = n - 1
      /\ opened' \in Seq(SUBSET Slots)
  <2>1. /\ tables \in Seq([Slots -> Descriptor]) /\ Len(tables) = n
        /\ opened \in Seq(SUBSET Slots) /\ Len(opened) = n
    BY DEF Inv, TypeOK, Running
  <2>2. tables' \in Seq([Slots -> Descriptor]) /\ Len(tables') = n - 1
    BY <2>1, <1>1, <1>2, ShorterSeq
  <2>3. opened' \in Seq(SUBSET Slots) /\ Len(opened') = n - 1
    BY <2>1, <1>1, <1>2, ShorterSeq
  <2> QED
    BY <2>2, <2>3, <1>1 DEF Processes
<1>4. \A p \in 1 .. n - 1 : p \in Processes /\ tables'[p] = tables[p] /\ opened'[p] = opened[p]
  BY <1>1, <1>2 DEF Inv, TypeOK, Running
<1>5. \A p \in 1 .. n - 1 : Used(p)' = Used(p)
  BY <1>4 DEF Used
<1>6. TypeOK'
  BY <1>1, <1>2, <1>3 DEF Inv, TypeOK
<1>7. DescriptorsFormed' /\ Live' /\ OneOwner' /\ OpenedUsed'
  BY <1>2, <1>3, <1>4, <1>5 DEF Inv, DescriptorsFormed, Live, OneOwner, OpenedUsed
<1>8. UsedSince'
  BY <1>3, <1>4, <1>5 DEF Inv, UsedSince
<1>9. FromParent'
  <2> SUFFICES ASSUME NEW q \in 1 .. n - 1, q > 1, NEW j \in Used(q)' \ opened'[q]
               PROVE  j \in Used(q - 1)' /\ tables'[q - 1][j] = tables'[q][j]
    BY <1>3 DEF FromParent
  <2>1. q - 1 \in 1 .. n - 1 /\ j \in Used(q) \ opened[q]
    BY <1>1, <1>4, <1>5
  <2> QED
    BY <2>1, <1>4, <1>5 DEF Inv, FromParent
<1>10. ObjectsReachable'
  <2> SUFFICES ASSUME NEW b \in Addresses, objects[b] # "free", b \notin orphans'
               PROVE  \E p \in 1 .. n - 1 : \E j \in Used(p)' : tables'[p][j].data = b
    BY <1>2, <1>3 DEF ObjectsReachable
  <2>1. PICK p \in 1 .. n : \E j \in Used(p) : tables[p][j].data = b
    BY <1>1, <1>2 DEF Inv, ObjectsReachable
  <2> PICK j \in Used(p) : tables[p][j].data = b
    BY <2>1
  <2>2. CASE p \in 1 .. n - 1
    BY <2>2, <1>4, <1>5
  <2>3. CASE p = n
    <3>1. j \notin opened[n]
      BY <2>3, <1>2
    <3>2. n - 1 \in 1 .. n - 1 /\ j \in Used(n - 1) /\ tables[n - 1][j] = tables[n][j]
      BY <2>3, <3>1, <1>1 DEF Inv, FromParent
    <3> QED
      BY <2>3, <3>2, <1>4, <1>5
  <2> QED
    BY <2>2, <2>3, <1>1
<1> QED
  BY <1>6, <1>7, <1>8, <1>9, <1>10 DEF Inv

LEMMA NextInv ==
    ASSUME ~ClosesInherited
    PROVE  Inv /\ [Next]_vars => Inv'
<1> SUFFICES ASSUME Inv, [Next]_vars PROVE Inv'
  OBVIOUS
<1>1. CASE SysOpen
  BY <1>1, OpenInv DEF SysOpen
<1>2. CASE SysOpenDir
  BY <1>2, OpenInv DEF SysOpenDir
<1>3. ASSUME NEW i \in Slots, FDClose(i) PROVE Inv'
  BY <1>3, CloseInv
<1>4. CASE SysExec
  BY <1>4, ExecInv
<1>5. CASE SysExit
  BY <1>5, ExitInv
<1>6. CASE UNCHANGED vars
  BY <1>6 DEF vars, Inv, TypeOK, DescriptorsFormed, Live, OneOwner, OpenedUsed, UsedSince, FromParent,
              ObjectsReachable, Processes, Used
<1> QED
  BY <1>1, <1>2, <1>3, <1>4, <1>5, <1>6 DEF Next

LEMMA InvNoDangling == Inv => NoDangling
<1> SUFFICES ASSUME Inv, NEW p \in Processes
             PROVE  /\ \A i \in Used(p) : /\ tables[p][i].data \in Addresses
                                          /\ objects[tables[p][i].data] = tables[p][i].type
                    /\ \A i \in Slots : tables[p][i].ops = "file" /\ tables[p][i].data # Null
                                        => objects[tables[p][i].data] = "file"
  BY DEF NoDangling
<1>1. \A i \in Slots : tables[p][i] \in Descriptor /\ WellFormed(tables[p][i])
  BY DEF Inv, TypeOK, DescriptorsFormed, Processes
<1>2. \A i \in Used(p) : i \in Slots /\ tables[p][i].data # Null
  BY <1>1 DEF Used, WellFormed
<1>3. \A i \in Slots : tables[p][i].ops = "file" /\ tables[p][i].data # Null
                       => i \in Used(p) /\ tables[p][i].type = "file"
  BY <1>1 DEF Used, WellFormed, Descriptor
<1> QED
  BY <1>1, <1>2, <1>3 DEF Inv, Live, Descriptor

\* As long as programs close only what they opened, descriptors point to live
\* objects of their kind, in the running process and in all that wait
\* (kernel/fd.c:23-52).
THEOREM NothingDangles ==
    ASSUME ~ClosesInherited
    PROVE  Spec => []NoDangling
<1>1. Spec => []Inv
  BY InitInv, NextInv, PTL DEF Spec
<1> QED
  BY <1>1, InvNoDangling, PTL

\* Then every object that was not freed is in the hands of one descriptor of a
\* process, or was left open by a process that is over
\* (kernel/fd.c:23-52, kernel/filefd.c:26-33).
THEOREM Ownership ==
    ASSUME ~ClosesInherited
    PROVE  Spec => []ObjectsOwned
<1>1. Spec => []Inv
  BY InitInv, NextInv, PTL DEF Spec
<1>2. Inv => ObjectsOwned
  BY DEF Inv, ObjectsOwned
<1> QED
  BY <1>1, <1>2, PTL
=============================================================================
