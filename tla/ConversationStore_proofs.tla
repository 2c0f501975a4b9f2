---------------------- MODULE ConversationStore_proofs ----------------------
(***************************************************************************)
(* For any number of requests, message IDs and contexts and any history       *)
(* length: the conversations in memory are windows of what was stored, no     *)
(* message outlives its conversation, and a reader gets the last messages.    *)
(***************************************************************************)
EXTENDS ConversationStore, Integers, FiniteSetTheorems, SequenceTheorems, TLAPS

-----------------------------------------------------------------------------
(* Sequences *)

(* A set of numbers up to n that holds 0, and with a number the next one, holds *)
(* them all: if k were missing, adding 1 would map the part of it below k into  *)
(* itself without 0, which is smaller.                                          *)
LEMMA UpTo ==
    ASSUME NEW n \in Nat, NEW P, 0 \in P, \A i \in 0..n : i \in P /\ i < n => i + 1 \in P
    PROVE  0..n \subseteq P
<1> SUFFICES ASSUME NEW k \in 0..n, k \notin P PROVE FALSE
  OBVIOUS
<1> DEFINE Q == P \cap 0..k
           next == [i \in Q |-> i + 1]
<1>1. IsFiniteSet(Q)
  BY FS_Interval, FS_Subset, 0 \in Int, k \in Int
<1>2. /\ IsFiniteSet(Q \ {0}) /\ Cardinality(Q) \in Nat
      /\ Cardinality(Q \ {0}) = Cardinality(Q) - 1
  <2>1. 0 \in Q
    OBVIOUS
  <2> HIDE DEF Q
  <2> QED BY <1>1, <2>1, FS_RemoveElement, FS_CardinalityType
<1>3. next \in [Q -> Q \ {0}]
  <2>1. ASSUME NEW i \in Q PROVE i + 1 \in Q \ {0}
    <3>1. i # k /\ i \in 0..k /\ i \in P
      OBVIOUS
    <3> QED BY <3>1
  <2> QED BY <2>1
<1>4. \E i, j \in Q : i # j /\ next[i] = next[j]
  <2> HIDE DEF Q, next
  <2> QED BY <1>1, <1>2, <1>3, FS_PigeonHole
<1> QED BY <1>4

LEMMA AppendFacts ==
    ASSUME NEW S, NEW s \in Seq(S), NEW x \in S
    PROVE  /\ Append(s, x) \in Seq(S) /\ Len(Append(s, x)) = Len(s) + 1
           /\ \A i \in 1..Len(s) : Append(s, x)[i] = s[i]
           /\ Append(s, x)[Len(s) + 1] = x
  OBVIOUS

(* What LastOf takes of a sequence. *)
LEMMA LastFacts ==
    ASSUME NEW S, NEW s \in Seq(S), NEW n \in Nat \ {0}
    PROVE  /\ LastOf(s, n) \in Seq(S)
           /\ Len(LastOf(s, n)) = IF Len(s) > n THEN n ELSE Len(s)
           /\ \A i \in 1..Len(LastOf(s, n)) :
                  LastOf(s, n)[i] = s[Len(s) - Len(LastOf(s, n)) + i]
<1> DEFINE first == IF Len(s) > n THEN Len(s) - n + 1 ELSE 1
<1>1. Len(s) \in Nat /\ first \in Int /\ first >= 1 /\ first <= Len(s) + 1
  OBVIOUS
<1>2. \A i \in first..Len(s) : s[i] \in S
  BY <1>1, ElementOfSeq
<1>3. /\ LastOf(s, n) \in Seq(S)
      /\ Len(LastOf(s, n)) = IF first <= Len(s) THEN Len(s) - first + 1 ELSE 0
      /\ \A i \in 1..Len(s) - first + 1 : LastOf(s, n)[i] = s[first + i - 1]
  <2> HIDE DEF first
  <2>1. Len(s) \in Int
    BY <1>1
  <2> QED BY <1>1, <1>2, <2>1, SubSeqProperties DEF LastOf, first
<1> HIDE DEF first
<1>4. Len(LastOf(s, n)) = Len(s) - first + 1 /\ first = Len(s) - Len(LastOf(s, n)) + 1
  BY <1>1, <1>3
<1>5. \A i \in 1..Len(LastOf(s, n)) : LastOf(s, n)[i] = s[Len(s) - Len(LastOf(s, n)) + i]
  <2> TAKE i \in 1..Len(LastOf(s, n))
  <2>1. i \in 1..Len(s) - first + 1 /\ first + i - 1 = Len(s) - Len(LastOf(s, n)) + i
    BY <1>1, <1>4
  <2> QED BY <1>3, <2>1
<1>6. Len(LastOf(s, n)) = IF Len(s) > n THEN n ELSE Len(s)
  BY <1>1, <1>4 DEF first
<1> QED BY <1>3, <1>5, <1>6

(* The window of a sequence moves by one when an element is appended. *)
LEMMA WindowMoves ==
    ASSUME NEW s \in Seq(Messages), NEW x \in Messages
    PROVE  Trim(Append(LastOf(s, MaxHistoryLength), x)) = LastOf(Append(s, x), MaxHistoryLength)
<1> DEFINE n == MaxHistoryLength
           w == LastOf(s, n)
           ids == Append(w, x)
           all == Append(s, x)
           new == LastOf(all, n)
<1>1. n \in Nat \ {0} /\ Len(s) \in Nat
  BY WindowAssumption
<1>2. /\ w \in Seq(Messages) /\ Len(w) = IF Len(s) > n THEN n ELSE Len(s)
      /\ \A i \in 1..Len(w) : w[i] = s[Len(s) - Len(w) + i]
  <2> HIDE DEF n
  <2> QED BY <1>1, LastFacts
<1>3. /\ ids \in Seq(Messages) /\ Len(ids) = Len(w) + 1
      /\ \A i \in 1..Len(w) : ids[i] = w[i]
      /\ ids[Len(w) + 1] = x
  <2> HIDE DEF w
  <2> QED BY <1>2, AppendFacts
<1>4. /\ all \in Seq(Messages) /\ Len(all) = Len(s) + 1
      /\ \A i \in 1..Len(s) : all[i] = s[i]
      /\ all[Len(s) + 1] = x
  BY AppendFacts
<1>5. /\ new \in Seq(Messages) /\ Len(new) = IF Len(all) > n THEN n ELSE Len(all)
      /\ \A i \in 1..Len(new) : new[i] = all[Len(all) - Len(new) + i]
  <2> HIDE DEF n, all
  <2> QED BY <1>1, <1>4, LastFacts
<1> HIDE DEF n, w, ids, all, new
<1>6. CASE Len(ids) > n
  <2>1. Len(w) = n /\ Len(new) = n /\ Len(s) >= n /\ Len(ids) = n + 1
    BY <1>1, <1>2, <1>3, <1>4, <1>5, <1>6
  <2>2. /\ Tail(ids) \in Seq(Messages) /\ Len(Tail(ids)) = n
        /\ \A i \in 1..n : Tail(ids)[i] = ids[i + 1]
    <3>1. ids # <<>>
      BY <1>1, <1>6
    <3> QED BY <1>1, <1>3, <2>1, <3>1, HeadTailProperties
  <2>3. ASSUME NEW i \in 1..n PROVE Tail(ids)[i] = new[i]
    <3>1. Tail(ids)[i] = ids[i + 1] /\ new[i] = all[Len(s) + 1 - n + i]
      <4>1. i \in 1..Len(new) /\ Len(all) - Len(new) + i = Len(s) + 1 - n + i
        BY <1>1, <1>4, <2>1
      <4> QED BY <1>5, <2>2, <4>1
    <3>2. CASE i = n
      BY <1>1, <1>3, <1>4, <2>1, <3>1, <3>2
    <3>3. CASE i # n
      <4>1. i + 1 \in 1..Len(w) /\ Len(s) - Len(w) + (i + 1) = Len(s) + 1 - n + i
        BY <1>1, <2>1, <3>3
      <4>2. Len(s) + 1 - n + i \in 1..Len(s)
        BY <1>1, <2>1, <3>3
      <4> QED BY <1>2, <1>3, <1>4, <3>1, <4>1, <4>2
    <3> QED BY <3>2, <3>3
  <2>4. Tail(ids) = new
    BY <1>5, <2>1, <2>2, <2>3, SeqEqual
  <2>5. Trim(ids) = Tail(ids)
    BY <1>6 DEF Trim, n
  <2> QED BY <2>4, <2>5 DEF n, w, ids, all, new
<1>7. CASE ~(Len(ids) > n)
  <2>1. Len(w) = Len(s) /\ Len(new) = Len(s) + 1 /\ Len(ids) = Len(s) + 1
    BY <1>1, <1>2, <1>3, <1>4, <1>5, <1>7
  <2>2. ASSUME NEW i \in 1..Len(ids) PROVE ids[i] = new[i]
    <3>1. new[i] = all[i]
      <4>1. i \in 1..Len(new) /\ Len(all) - Len(new) + i = i
        BY <1>1, <1>4, <2>1
      <4> QED BY <1>5, <4>1
    <3>2. CASE i = Len(s) + 1
      BY <1>3, <1>4, <2>1, <3>1, <3>2
    <3>3. CASE i # Len(s) + 1
      <4>1. i \in 1..Len(s) /\ i \in 1..Len(w)
        BY <1>1, <2>1, <3>3
      <4>2. w[i] = s[i]
        <5>1. Len(s) - Len(w) + i = i
          BY <1>1, <2>1
        <5> QED BY <1>2, <4>1, <5>1
      <4> QED BY <1>3, <1>4, <3>1, <4>1, <4>2
    <3> QED BY <3>2, <3>3
  <2>3. ids = new
    BY <1>3, <1>5, <2>1, <2>2, SeqEqual
  <2>4. Trim(ids) = ids
    BY <1>7 DEF Trim, n
  <2> QED BY <2>3, <2>4 DEF n, w, ids, all, new
<1> QED BY <1>6, <1>7

(* The last elements of a window are the last of the sequence. *)
LEMMA LastOfWindow ==
    ASSUME NEW S, NEW s \in Seq(S), NEW n \in Nat \ {0}, NEW k \in 1..n
    PROVE  LastOf(LastOf(s, n), k) = LastOf(s, k)
<1> DEFINE w == LastOf(s, n)
           a == LastOf(w, k)
           b == LastOf(s, k)
<1>1. k \in Nat \ {0} /\ Len(s) \in Nat
  OBVIOUS
<1>2. /\ w \in Seq(S) /\ Len(w) = IF Len(s) > n THEN n ELSE Len(s)
      /\ \A i \in 1..Len(w) : w[i] = s[Len(s) - Len(w) + i]
  BY LastFacts
<1>3. /\ b \in Seq(S) /\ Len(b) = IF Len(s) > k THEN k ELSE Len(s)
      /\ \A i \in 1..Len(b) : b[i] = s[Len(s) - Len(b) + i]
  BY <1>1, LastFacts
<1> HIDE DEF w
<1>4. /\ a \in Seq(S) /\ Len(a) = IF Len(w) > k THEN k ELSE Len(w)
      /\ \A i \in 1..Len(a) : a[i] = w[Len(w) - Len(a) + i]
  BY <1>1, <1>2, LastFacts
<1> HIDE DEF a, b
<1>5. Len(a) = Len(b) /\ Len(a) <= Len(w) /\ Len(w) \in Nat /\ Len(a) \in Nat
  BY <1>1, <1>2, <1>3, <1>4
<1>6. ASSUME NEW i \in 1..Len(a) PROVE a[i] = b[i]
  <2>1. Len(w) - Len(a) + i \in 1..Len(w)
    BY <1>5
  <2>2. a[i] = s[Len(s) - Len(w) + (Len(w) - Len(a) + i)]
    BY <1>2, <1>4, <2>1
  <2>3. Len(s) - Len(w) + (Len(w) - Len(a) + i) = Len(s) - Len(b) + i
    BY <1>1, <1>5
  <2> QED BY <1>3, <1>5, <2>2, <2>3
<1>7. a = b
  BY <1>3, <1>4, <1>5, <1>6, SeqEqual
<1> QED BY <1>7 DEF a, b, w

(* A history is whole when every ID of the conversation's window is stored. *)
LEMMA WholeHistory ==
    ASSUME NEW c \in Contexts, conversations[c] \in Seq(Messages), NEW n \in Nat \ {0},
           \A i \in 1..Len(conversations[c]) : messages[conversations[c][i]] # None
    PROVE  getConversationHistory(c, n) = LastOf(conversations[c], n)
<1> DEFINE ids == LastOf(conversations[c], n)
           Step(h) ==
               [i \in 0..Len(ids) |->
                   IF i = 0 THEN <<>>
                   ELSE IF messages[ids[i]] = None THEN h[i - 1]
                   ELSE Append(h[i - 1], ids[i])]
           history == CHOOSE h : h = Step(h)
           taken == [i \in 0..Len(ids) |-> SubSeq(ids, 1, i)]
<1>1. /\ ids \in Seq(Messages) /\ Len(ids) \in Nat
      /\ \A i \in 1..Len(ids) : messages[ids[i]] # None
  <2>1. /\ ids \in Seq(Messages)
        /\ Len(ids) = IF Len(conversations[c]) > n THEN n ELSE Len(conversations[c])
        /\ \A i \in 1..Len(ids) :
               ids[i] = conversations[c][Len(conversations[c]) - Len(ids) + i]
    BY LastFacts
  <2>2. Len(ids) \in Nat /\ Len(conversations[c]) \in Nat /\ Len(ids) <= Len(conversations[c])
    BY <2>1
  <2> HIDE DEF ids
  <2>3. ASSUME NEW i \in 1..Len(ids) PROVE messages[ids[i]] # None
    <3>1. Len(conversations[c]) - Len(ids) + i \in 1..Len(conversations[c])
      BY <2>2
    <3> QED BY <2>1, <3>1
  <2> QED BY <2>1, <2>2, <2>3
<1>2. getConversationHistory(c, n) = history[Len(ids)]
  BY DEF getConversationHistory
<1> HIDE DEF ids
<1>3. \A i \in 1..Len(ids) : Append(SubSeq(ids, 1, i - 1), ids[i]) = SubSeq(ids, 1, i)
  <2> TAKE i \in 1..Len(ids)
  <2>1. SubSeq(ids, 1, i) = SubSeq(ids, 1, i - 1) \o <<ids[i]>>
    BY <1>1, SubSeqRecursiveSecond, 1 \in 1..Len(ids)
  <2>2. SubSeq(ids, 1, i - 1) \in Seq(Messages) /\ ids[i] \in Messages
    <3>1. \A j \in 1..i - 1 : ids[j] \in Messages
      BY <1>1, ElementOfSeq
    <3> QED BY <1>1, <3>1, SubSeqProperties, ElementOfSeq, 1 \in Int, i - 1 \in Int
  <2> QED BY <2>1, <2>2, AppendIsConcat
<1>4. SubSeq(ids, 1, 0) = <<>>
  BY SubSeqEmpty, 1 \in Int, 0 \in Int
<1>5. taken = Step(taken)
  <2>1. ASSUME NEW i \in 0..Len(ids) PROVE taken[i] = Step(taken)[i]
    <3>1. CASE i = 0
      BY <1>4, <3>1
    <3>2. CASE i # 0
      <4>1. i \in 1..Len(ids) /\ i - 1 \in 0..Len(ids)
        BY <1>1, <3>2
      <4> QED BY <1>1, <1>3, <3>2, <4>1
    <3> QED BY <3>1, <3>2
  <2> QED BY <2>1
<1>6. history = Step(history)
  <2> HIDE DEF taken, Step
  <2> QED BY <1>5
<1>7. \A i \in 0..Len(ids) : history[i] = Step(history)[i]
  <2> HIDE DEF history, Step
  <2> QED BY <1>6
<1> HIDE DEF history
<1>8. history[0] = <<>>
  <2>1. 0 \in 0..Len(ids)
    BY <1>1
  <2> QED BY <1>7, <2>1
<1>9. \A i \in 1..Len(ids) : history[i] = Append(history[i - 1], ids[i])
  <2> TAKE i \in 1..Len(ids)
  <2>1. i \in 0..Len(ids) /\ i # 0 /\ messages[ids[i]] # None
    BY <1>1
  <2> QED BY <1>7, <2>1
<1> DEFINE P == {i \in 0..Len(ids) : history[i] = SubSeq(ids, 1, i)}
<1>10. 0 \in P
  <2>1. 0 \in 0..Len(ids)
    BY <1>1
  <2> QED BY <1>4, <1>8, <2>1
<1>11. ASSUME NEW i \in 0..Len(ids), i \in P, i < Len(ids) PROVE i + 1 \in P
  <2>1. i + 1 \in 1..Len(ids) /\ (i + 1) - 1 = i /\ i + 1 \in 0..Len(ids)
    BY <1>1, <1>11
  <2>2. history[i + 1] = Append(SubSeq(ids, 1, i), ids[i + 1])
    BY <1>9, <1>11, <2>1
  <2>3. Append(SubSeq(ids, 1, i), ids[i + 1]) = SubSeq(ids, 1, i + 1)
    BY <1>3, <2>1
  <2> QED BY <2>1, <2>2, <2>3
<1>12. 0..Len(ids) \subseteq P
  <2> HIDE DEF P
  <2> QED BY <1>1, <1>10, <1>11, UpTo
<1>13. history[Len(ids)] = SubSeq(ids, 1, Len(ids))
  BY <1>1, <1>12
<1> QED BY <1>1, <1>2, <1>13, SubSeqFull DEF ids

(* Trim leaves the newest IDs; at most the oldest one goes, with its message. *)
Excess(ids) == IF Len(ids) > MaxHistoryLength THEN 1 ELSE 0

LEMMA TrimFacts ==
    ASSUME NEW s \in Seq(Messages), NEW m \in Messages, Len(s) <= MaxHistoryLength,
           NEW ids \in Seq(Messages), Len(ids) = Len(s) + 1, ids[Len(ids)] = m,
           \A i \in 1..Len(s) : ids[i] = s[i]
    PROVE  /\ Trim(ids) \in Seq(Messages)
           /\ Len(Trim(ids)) = Len(ids) - Excess(ids)
           /\ Len(Trim(ids)) >= 1 /\ Len(Trim(ids)) <= MaxHistoryLength
           /\ \A i \in 1..Len(Trim(ids)) : Trim(ids)[i] = ids[i + Excess(ids)]
           /\ Trim(ids)[Len(Trim(ids))] = m
           /\ TrimmedMessages(ids) = IF Excess(ids) = 1 THEN {s[1]} ELSE {}
           /\ Excess(ids) = 1 => Len(s) >= 1
<1> DEFINE n == MaxHistoryLength
<1>1. n \in Nat \ {0} /\ Len(s) \in Nat
  BY WindowAssumption
<1>2. /\ ids \in Seq(Messages) /\ Len(ids) = Len(s) + 1 /\ ids[Len(ids)] = m
      /\ \A i \in 1..Len(s) : ids[i] = s[i]
  OBVIOUS
<1>3. CASE Len(ids) > n
  <2>1. Excess(ids) = 1 /\ Trim(ids) = Tail(ids) /\ TrimmedMessages(ids) = {Head(ids)}
    BY <1>3 DEF Excess, Trim, TrimmedMessages
  <2>2. Len(s) >= 1 /\ Len(s) = n /\ ids # <<>>
    BY <1>1, <1>2, <1>3
  <2>3. /\ Tail(ids) \in Seq(Messages) /\ Len(Tail(ids)) = Len(ids) - 1
        /\ \A i \in 1..Len(Tail(ids)) : Tail(ids)[i] = ids[i + 1]
    BY <1>2, <2>2, HeadTailProperties
  <2>4. Head(ids) = s[1]
    BY <1>1, <1>2, <2>2
  <2>5. Tail(ids)[Len(Tail(ids))] = m
    BY <1>1, <1>2, <2>2, <2>3
  <2> QED BY <1>1, <1>2, <2>1, <2>2, <2>3, <2>4, <2>5
<1>4. CASE ~(Len(ids) > n)
  <2>1. Excess(ids) = 0 /\ Trim(ids) = ids /\ TrimmedMessages(ids) = {}
    BY <1>4 DEF Excess, Trim, TrimmedMessages
  <2> QED BY <1>1, <1>2, <1>4, <2>1
<1> QED BY <1>3, <1>4

-----------------------------------------------------------------------------
(* The inductive invariant *)

(* A message is processed for as long as its request has it and its context. *)
RequestsOK ==
    \A p \in Requests :
        me[p].pc # "idle" => me[p].request \in Messages /\ me[p].context \in Contexts

(* When no client uses an ID again, an ID is in one place of one conversation,   *)
(* and its message is stored.                                                  *)
UniqueIds ==
    /\ \A c \in Contexts : \A i \in 1..Len(conversations[c]) :
          conversations[c][i] \in used /\ messages[conversations[c][i]] # None
    /\ \A c, d \in Contexts :
          \A i \in 1..Len(conversations[c]), j \in 1..Len(conversations[d]) :
              conversations[c][i] = conversations[d][j] => c = d /\ i = j

IInv ==
    /\ TypeOK /\ RequestsOK
    /\ WindowOfLog /\ NothingLeaked
    /\ retries \/ UniqueIds

LEMMA InitIInv == Init => IInv
<1> SUFFICES ASSUME Init PROVE IInv
  OBVIOUS
<1>1. TypeOK
  <2>1. \A c \in Contexts : conversations[c] = <<>> /\ Len(conversations[c]) = 0
    BY DEF Init
  <2>2. me \in [Requests -> Locals]
    BY DEF Init, Locals, Waiting
  <2>3. conversations \in [Contexts -> Seq(Messages)] /\ log \in [Contexts -> Seq(Messages)]
    BY DEF Init
  <2> QED BY <2>1, <2>2, <2>3, WindowAssumption DEF Init, TypeOK
<1>2. RequestsOK
  BY DEF Init, RequestsOK, Waiting
<1>3. WindowOfLog
  <2> SUFFICES ASSUME NEW c \in Contexts
               PROVE  conversations[c] = LastOf(log[c], MaxHistoryLength)
    BY DEF WindowOfLog
  <2>1. conversations[c] = <<>> /\ log[c] = <<>>
    BY DEF Init
  <2> QED BY <2>1, WindowAssumption DEF LastOf
<1>4. NothingLeaked
  BY DEF Init, NothingLeaked
<1>5. UniqueIds
  BY DEF Init, UniqueIds
<1> QED BY <1>1, <1>2, <1>3, <1>4, <1>5 DEF IInv

-----------------------------------------------------------------------------
(* Storing a message *)

LEMMA StoreKeeps ==
    ASSUME IInv, NEW m \in Messages, NEW c \in Contexts, storeMessage(m, c),
           me' \in [Requests -> Locals], RequestsOK'
    PROVE  IInv'
<1> DEFINE s == conversations[c]
           ids == Append(s, m)
           new == Trim(ids)
           gone == TrimmedMessages(ids)
           k == Excess(ids)
<1>1. /\ TypeOK /\ WindowOfLog /\ NothingLeaked /\ (retries \/ UniqueIds)
      /\ s \in Seq(Messages) /\ Len(s) <= MaxHistoryLength /\ Len(s) \in Nat
  BY DEF IInv, TypeOK
<1>2. /\ ids \in Seq(Messages) /\ Len(ids) = Len(s) + 1 /\ ids[Len(ids)] = m
      /\ \A i \in 1..Len(s) : ids[i] = s[i]
      /\ new \in Seq(Messages) /\ Len(new) = Len(ids) - k
      /\ Len(new) >= 1 /\ Len(new) <= MaxHistoryLength /\ new[Len(new)] = m
      /\ \A i \in 1..Len(new) : new[i] = ids[i + k]
      /\ gone = IF k = 1 THEN {s[1]} ELSE {}
      /\ k = 1 => Len(s) >= 1
  <2>1. /\ ids \in Seq(Messages) /\ Len(ids) = Len(s) + 1 /\ ids[Len(s) + 1] = m
        /\ \A i \in 1..Len(s) : ids[i] = s[i]
    BY <1>1, AppendFacts
  <2> HIDE DEF s, ids
  <2> QED BY <1>1, <2>1, TrimFacts
<1>3. k \in {0, 1}
  BY DEF Excess
<1>4. /\ messages' = [i \in Messages |-> IF i \in gone THEN None ELSE IF i = m THEN c ELSE messages[i]]
      /\ conversations' = [conversations EXCEPT ![c] = new]
      /\ log' = [log EXCEPT ![c] = Append(log[c], m)]
      /\ idle' = idle \ {c} /\ used' = used \cup {m, c} /\ retries' = retries
      /\ retries \/ m \notin used
  BY DEF storeMessage, Stored
<1>5. /\ conversations'[c] = new
      /\ \A d \in Contexts \ {c} : conversations'[d] = conversations[d]
      /\ conversations' \in [Contexts -> Seq(Messages)]
      /\ \A i \in Messages :
             messages'[i] = IF i \in gone THEN None ELSE IF i = m THEN c ELSE messages[i]
  <2> HIDE DEF ids, new, gone
  <2> QED BY <1>1, <1>2, <1>4 DEF TypeOK
<1>6. /\ log'[c] = Append(log[c], m) /\ log[c] \in Seq(Messages)
      /\ \A d \in Contexts \ {c} : log'[d] = log[d]
      /\ log' \in [Contexts -> Seq(Messages)]
  BY <1>1, <1>4 DEF TypeOK
<1>7. WindowOfLog'
  <2> SUFFICES ASSUME NEW d \in Contexts
               PROVE  conversations'[d] = LastOf(log'[d], MaxHistoryLength)
    BY DEF WindowOfLog
  <2>1. CASE d = c
    <3>1. Trim(Append(LastOf(log[c], MaxHistoryLength), m))
              = LastOf(Append(log[c], m), MaxHistoryLength)
      BY <1>6, WindowMoves, Zenon
    <3>2. s = LastOf(log[c], MaxHistoryLength)
      BY <1>1 DEF WindowOfLog
    <3> HIDE DEF s
    <3> QED BY <1>5, <1>6, <2>1, <3>1, <3>2, Zenon
  <2>2. CASE d # c
    BY <1>1, <1>5, <1>6, <2>2 DEF WindowOfLog
  <2> QED BY <2>1, <2>2
<1> HIDE DEF s, ids, new, gone, k
<1>8. TypeOK'
  <2>1. messages' \in [Messages -> Contexts \cup {None}]
    BY <1>1, <1>4 DEF TypeOK
  <2>2. \A d \in Contexts : Len(conversations'[d]) <= MaxHistoryLength
    BY <1>1, <1>2, <1>5 DEF TypeOK
  <2>3. idle' \subseteq {d \in Contexts : conversations'[d] # <<>>}
    BY <1>1, <1>4, <1>5 DEF TypeOK
  <2>4. used' \subseteq Messages \cup Contexts /\ retries' \in BOOLEAN
    BY <1>1, <1>4 DEF TypeOK
  <2> QED BY <1>5, <1>6, <2>1, <2>2, <2>3, <2>4 DEF TypeOK
<1>9. NothingLeaked'
  <2> SUFFICES ASSUME NEW i \in Messages, messages'[i] # None
               PROVE  \E d \in Contexts : i \in ToSet(conversations'[d])
    BY DEF NothingLeaked
  <2>1. i \notin gone
    BY <1>5
  <2>2. CASE i = m
    <3>1. Len(new) \in DOMAIN new
      BY <1>2
    <3> QED BY <1>2, <1>5, <2>2, <3>1 DEF ToSet
  <2>3. CASE i # m
    <3>1. messages[i] # None
      BY <1>5, <2>1, <2>3
    <3>2. PICK d \in Contexts : i \in ToSet(conversations[d])
      BY <1>1, <3>1 DEF NothingLeaked
    <3>3. CASE d # c
      BY <1>5, <3>2, <3>3
    <3>4. CASE d = c
      <4>1. PICK j \in 1..Len(s) : s[j] = i
        BY <1>1, <3>2, <3>4 DEF ToSet, s
      <4>2. j - k \in 1..Len(new)
        <5>1. ~(k = 1 /\ j = 1)
          BY <1>2, <2>1, <4>1
        <5> QED BY <1>1, <1>2, <1>3, <5>1
      <4>3. new[j - k] = i
        <5>1. (j - k) + k = j
          BY <1>3
        <5> QED BY <1>2, <4>1, <4>2, <5>1
      <4>4. j - k \in DOMAIN new
        BY <1>2, <4>2
      <4> QED BY <1>5, <4>3, <4>4 DEF ToSet
    <3> QED BY <3>3, <3>4
  <2> QED BY <2>2, <2>3
<1>10. ASSUME ~retries PROVE UniqueIds'
  <2>1. UniqueIds /\ m \notin used
    BY <1>1, <1>4, <1>10
  <2>2. ASSUME NEW i \in 1..Len(new)
        PROVE  \/ i = Len(new) /\ new[i] = m
               \/ i + k \in 1..Len(s) /\ new[i] = s[i + k]
    <3>1. CASE i = Len(new)
      BY <1>2, <3>1
    <3>2. CASE i # Len(new)
      <4>1. i + k \in 1..Len(s)
        BY <1>1, <1>2, <1>3, <3>2
      <4> QED BY <1>2, <4>1
    <3> QED BY <3>1, <3>2
  <2>3. \A d \in Contexts : \A i \in 1..Len(conversations[d]) : conversations[d][i] # m
    BY <2>1 DEF UniqueIds
  <2>4. ASSUME NEW d \in Contexts, NEW i \in 1..Len(conversations'[d])
        PROVE  conversations'[d][i] \in used' /\ messages'[conversations'[d][i]] # None
    <3>0. m \notin gone
      <4>1. k = 1 => s[1] # m
        <5>1. k = 1 => 1 \in 1..Len(s)
          BY <1>1, <1>2
        <5> QED BY <2>3, <5>1 DEF s
      <4> QED BY <1>2, <4>1
    <3>1. CASE d = c
      <4>1. i \in 1..Len(new) /\ conversations'[d][i] = new[i]
        BY <1>5, <3>1
      <4>2. CASE new[i] = m
        BY <1>4, <1>5, <3>0, <4>1, <4>2, NoneAssumption
      <4>3. CASE i + k \in 1..Len(s) /\ new[i] = s[i + k]
        <5>1. s[i + k] \in used /\ messages[s[i + k]] # None /\ s[i + k] # m
          BY <2>1, <2>3, <4>3 DEF UniqueIds, s
        <5>2. s[i + k] \in Messages
          BY <1>1, <4>3, ElementOfSeq
        <5>3. s[i + k] \notin gone
          <6>1. ASSUME k = 1 PROVE s[i + k] # s[1]
            <7>1. 1 \in 1..Len(s) /\ i + k # 1
              BY <1>1, <1>2, <4>1, <6>1
            <7> QED BY <2>1, <4>3, <7>1 DEF UniqueIds, s
          <6> QED BY <1>2, <6>1
        <5> QED BY <1>4, <1>5, <4>1, <4>3, <5>1, <5>2, <5>3
      <4> QED BY <2>2, <4>1, <4>2, <4>3
    <3>2. CASE d # c
      <4> DEFINE x == conversations[d][i]
      <4>1. i \in 1..Len(conversations[d]) /\ conversations'[d][i] = x
        BY <1>5, <3>2
      <4>2. x \in used /\ messages[x] # None /\ x # m /\ x \in Messages
        BY <1>1, <2>1, <2>3, <4>1, ElementOfSeq DEF UniqueIds, TypeOK
      <4>3. x \notin gone
        <5>1. ASSUME k = 1 PROVE x # s[1]
          <6>1. 1 \in 1..Len(s)
            BY <1>1, <1>2, <5>1
          <6> QED BY <2>1, <3>2, <4>1, <6>1 DEF UniqueIds, s
        <5> QED BY <1>2, <5>1
      <4> HIDE DEF x
      <4> QED BY <1>4, <1>5, <4>1, <4>2, <4>3
    <3> QED BY <3>1, <3>2
  <2>5. ASSUME NEW d \in Contexts, NEW e \in Contexts,
               NEW i \in 1..Len(conversations'[d]), NEW j \in 1..Len(conversations'[e]),
               conversations'[d][i] = conversations'[e][j]
        PROVE  d = e /\ i = j
    <3> DEFINE At(a, b) == \/ a = c /\ b = Len(new) /\ conversations'[a][b] = m
                           \/ \E l \in 1..Len(conversations[a]) :
                                 /\ conversations'[a][b] = conversations[a][l]
                                 /\ l = IF a = c THEN b + k ELSE b
    <3>1. ASSUME NEW a \in Contexts, NEW b \in 1..Len(conversations'[a]) PROVE At(a, b)
      <4>1. CASE a = c
        <5>1. b \in 1..Len(new) /\ conversations'[a][b] = new[b]
          BY <1>5, <4>1
        <5> QED BY <2>2, <4>1, <5>1 DEF s
      <4>2. CASE a # c
        BY <1>5, <4>2
      <4> QED BY <4>1, <4>2
    <3>2. At(d, i) /\ At(e, j)
      <4> HIDE DEF At
      <4> QED BY <3>1
    <3>3. CASE conversations'[d][i] = m
      BY <2>3, <2>5, <3>2, <3>3
    <3>4. CASE conversations'[d][i] # m
      <4>1. PICK l \in 1..Len(conversations[d]) :
                /\ conversations'[d][i] = conversations[d][l]
                /\ l = IF d = c THEN i + k ELSE i
        BY <3>2, <3>4
      <4>2. PICK n \in 1..Len(conversations[e]) :
                /\ conversations'[e][j] = conversations[e][n]
                /\ n = IF e = c THEN j + k ELSE j
        BY <2>5, <3>2, <3>4
      <4>3. d = e /\ l = n
        <5>1. conversations[d][l] = conversations[e][n]
          BY <2>5, <4>1, <4>2
        <5> QED BY <2>1, <5>1 DEF UniqueIds
      <4> QED BY <1>3, <4>1, <4>2, <4>3
    <3> QED BY <3>3, <3>4
  <2> QED BY <2>4, <2>5 DEF UniqueIds
<1>11. retries' \/ UniqueIds'
  BY <1>4, <1>10
<1> QED BY <1>7, <1>8, <1>9, <1>11 DEF IInv

-----------------------------------------------------------------------------
(* The steps *)

(* A step that leaves the conversations as they are. *)
LEMMA NothingStored ==
    ASSUME IInv, UNCHANGED <<retries, messages, conversations, used, log>>,
           idle' \subseteq {c \in Contexts : conversations[c] # <<>>},
           me' \in [Requests -> Locals], RequestsOK'
    PROVE  IInv'
<1>1. TypeOK'
  BY DEF IInv, TypeOK
<1>2. WindowOfLog' /\ NothingLeaked'
  BY DEF IInv, WindowOfLog, NothingLeaked
<1>3. (retries \/ UniqueIds)'
  BY DEF IInv, UniqueIds
<1> QED BY <1>1, <1>2, <1>3 DEF IInv

(* A request that changes only its own record, and keeps its message and context. *)
LEMMA RequestMoves ==
    ASSUME TypeOK, RequestsOK, NEW p \in Requests, NEW local \in Locals,
           me' = [me EXCEPT ![p] = local],
           local.pc # "idle" => local.request \in Messages /\ local.context \in Contexts
    PROVE  me' \in [Requests -> Locals] /\ RequestsOK'
<1>1. me' \in [Requests -> Locals]
  BY DEF TypeOK
<1>2. me'[p] = local /\ \A q \in Requests \ {p} : me'[q] = me[q]
  BY DEF TypeOK
<1>3. ASSUME NEW q \in Requests, me'[q].pc # "idle"
      PROVE  me'[q].request \in Messages /\ me'[q].context \in Contexts
  <2>1. CASE q = p
    BY <1>2, <1>3, <2>1
  <2>2. CASE q # p
    BY <1>2, <1>3, <2>2 DEF RequestsOK
  <2> QED BY <2>1, <2>2
<1> QED BY <1>1, <1>3 DEF RequestsOK

LEMMA WaitingIsLocal == Waiting \in Locals /\ Waiting.pc = "idle"
  BY DEF Waiting, Locals

LEMMA ReadKeeps ==
    ASSUME IInv, NEW c, Read(c), UNCHANGED me
    PROVE  IInv'
<1>1. idle' \subseteq {d \in Contexts : conversations[d] # <<>>}
  BY DEF IInv, TypeOK, Read
<1>2. me' \in [Requests -> Locals] /\ RequestsOK'
  BY DEF IInv, TypeOK, RequestsOK
<1> QED BY <1>1, <1>2, NothingStored DEF Read

LEMMA ExpiryKeeps ==
    ASSUME IInv, CleanExpiredConversations
    PROVE  IInv'
<1> DEFINE expired == UNION {ToSet(conversations[c]) : c \in idle}
<1>1. /\ TypeOK /\ WindowOfLog /\ NothingLeaked /\ RequestsOK /\ (retries \/ UniqueIds)
      /\ idle \subseteq Contexts
  BY DEF IInv, TypeOK
<1>2. /\ messages' = [m \in Messages |-> IF m \in expired THEN None ELSE messages[m]]
      /\ conversations' = [c \in Contexts |-> IF c \in idle THEN <<>> ELSE conversations[c]]
      /\ log' = [c \in Contexts |-> IF c \in idle THEN <<>> ELSE log[c]]
      /\ idle' = {} /\ UNCHANGED <<retries, me, used>>
  BY DEF CleanExpiredConversations
<1>3. /\ \A m \in Messages \ expired : messages'[m] = messages[m]
      /\ \A m \in Messages : messages'[m] # None => m \notin expired /\ messages[m] # None
      /\ \A c \in Contexts \ idle : conversations'[c] = conversations[c] /\ log'[c] = log[c]
      /\ \A c \in idle : conversations'[c] = <<>> /\ log'[c] = <<>>
  <2> HIDE DEF expired
  <2> QED BY <1>1, <1>2
<1>4. TypeOK'
  <2>1. conversations' \in [Contexts -> Seq(Messages)] /\ log' \in [Contexts -> Seq(Messages)]
    BY <1>1, <1>2 DEF TypeOK
  <2>2. messages' \in [Messages -> Contexts \cup {None}]
    <3> HIDE DEF expired
    <3> QED BY <1>1, <1>2 DEF TypeOK
  <2>3. ASSUME NEW c \in Contexts PROVE Len(conversations'[c]) <= MaxHistoryLength
    <3>1. CASE c \in idle
      <4>1. conversations'[c] = <<>>
        BY <1>3, <3>1
      <4> QED BY <4>1, WindowAssumption
    <3>2. CASE c \notin idle
      BY <1>1, <1>3, <3>2 DEF TypeOK
    <3> QED BY <3>1, <3>2
  <2> QED BY <1>1, <1>2, <2>1, <2>2, <2>3 DEF TypeOK
<1>5. WindowOfLog'
  <2> SUFFICES ASSUME NEW c \in Contexts
               PROVE  conversations'[c] = LastOf(log'[c], MaxHistoryLength)
    BY DEF WindowOfLog
  <2>1. CASE c \in idle
    <3>1. conversations'[c] = <<>> /\ log'[c] = <<>>
      BY <1>3, <2>1
    <3> QED BY <3>1, WindowAssumption DEF LastOf
  <2>2. CASE c \notin idle
    BY <1>1, <1>3, <2>2 DEF WindowOfLog
  <2> QED BY <2>1, <2>2
<1>6. NothingLeaked'
  <2> SUFFICES ASSUME NEW m \in Messages, messages'[m] # None
               PROVE  \E c \in Contexts : m \in ToSet(conversations'[c])
    BY DEF NothingLeaked
  <2>1. PICK c \in Contexts : m \in ToSet(conversations[c])
    BY <1>1, <1>3 DEF NothingLeaked
  <2>2. c \notin idle
    BY <1>3, <2>1
  <2> QED BY <1>3, <2>1, <2>2
<1>7. ASSUME ~retries PROVE UniqueIds'
  <2>1. UniqueIds
    BY <1>1, <1>7
  <2>2. ASSUME NEW c \in Contexts, NEW i \in 1..Len(conversations'[c])
        PROVE  c \notin idle /\ conversations'[c] = conversations[c]
    <3>1. c \notin idle
      <4>1. c \in idle => conversations'[c] = <<>>
        BY <1>3
      <4>2. Len(<<>>) = 0
        OBVIOUS
      <4> QED BY <4>1, <4>2
    <3> QED BY <1>3, <3>1
  <2>3. ASSUME NEW c \in Contexts, NEW i \in 1..Len(conversations'[c])
        PROVE  conversations'[c][i] \in used' /\ messages'[conversations'[c][i]] # None
    <3> DEFINE m == conversations[c][i]
    <3>1. c \notin idle /\ conversations'[c] = conversations[c] /\ i \in 1..Len(conversations[c])
      BY <2>2
    <3>2. m \in used /\ messages[m] # None /\ m \in Messages
      BY <1>1, <2>1, <3>1, ElementOfSeq DEF UniqueIds, TypeOK
    <3>3. m \notin expired
      <4> SUFFICES ASSUME NEW d \in idle, NEW j \in 1..Len(conversations[d]),
                          conversations[d][j] = m
                   PROVE  FALSE
        <5>1. \A d \in idle : DOMAIN conversations[d] = 1..Len(conversations[d])
          BY <1>1 DEF TypeOK
        <5> QED BY <5>1 DEF ToSet
      <4> QED BY <1>1, <2>1, <3>1 DEF UniqueIds
    <3> HIDE DEF m, expired
    <3>4. messages'[m] # None /\ m \in used'
      BY <1>2, <1>3, <3>2, <3>3
    <3> QED BY <3>1, <3>4 DEF m
  <2>4. ASSUME NEW c \in Contexts, NEW d \in Contexts,
               NEW i \in 1..Len(conversations'[c]), NEW j \in 1..Len(conversations'[d]),
               conversations'[c][i] = conversations'[d][j]
        PROVE  c = d /\ i = j
    BY <2>1, <2>2, <2>4 DEF UniqueIds
  <2> QED BY <2>3, <2>4 DEF UniqueIds
<1>8. RequestsOK'
  BY <1>1, <1>2 DEF RequestsOK
<1>9. (retries \/ UniqueIds)'
  BY <1>2, <1>7
<1> QED BY <1>4, <1>5, <1>6, <1>8, <1>9 DEF IInv

LEMMA NextIInv == IInv /\ [Next]_vars => IInv'
<1> SUFFICES ASSUME IInv, [Next]_vars PROVE IInv'
  OBVIOUS
<1>1. TypeOK /\ RequestsOK /\ me \in [Requests -> Locals]
  BY DEF IInv, TypeOK
<1>2. ASSUME NEW p \in Requests, NEW m \in Messages, NEW c \in Contexts,
             processRequestMessage(p, m, c)
      PROVE  IInv'
  <2> DEFINE local == [pc |-> "processing", request |-> m, context |-> c, hook |-> None]
  <2>1. local \in Locals /\ local.request = m /\ local.context = c
    BY DEF Locals
  <2>2. me' = [me EXCEPT ![p] = local] /\ storeMessage(m, c)
    BY <1>2 DEF processRequestMessage
  <2> HIDE DEF local
  <2> QED BY <1>1, <2>1, <2>2, RequestMoves, StoreKeeps
<1>3. ASSUME NEW p \in Requests, NEW m \in Messages, sendStreamingEventHook(p, m)
      PROVE  IInv'
  <2>1. PICK c \in Contexts : storeMessage(m, c)
    BY <1>3 DEF sendStreamingEventHook
  <2>2. me' \in [Requests -> Locals] /\ RequestsOK'
    BY <1>1, <1>3 DEF sendStreamingEventHook, RequestsOK
  <2> QED BY <2>1, <2>2, StoreKeeps
<1>4. ASSUME NEW p \in Requests, NEW m \in Messages, processReplyMessage(p, m)
      PROVE  IInv'
  <2>1. /\ me[p].context \in Contexts /\ storeMessage(m, me[p].context)
        /\ me' = [me EXCEPT ![p] = Waiting]
    BY <1>1, <1>4 DEF processReplyMessage, RequestsOK
  <2> QED BY <1>1, <2>1, WaitingIsLocal, RequestMoves, StoreKeeps
<1>5. ASSUME NEW p \in Requests, SubscribeTask(p) PROVE IInv'
  <2> DEFINE local == [me[p] EXCEPT !.pc = "streaming", !.hook = GetContextID(p)]
  <2>1. me[p].request \in Messages /\ me[p].context \in Contexts /\ me[p] \in Locals
    BY <1>1, <1>5 DEF SubscribeTask, RequestsOK
  <2>2. GetContextID(p) \in Contexts \cup {None}
    BY <1>1, <2>1 DEF GetContextID, TypeOK
  <2>3. local \in Locals /\ local.request = me[p].request /\ local.context = me[p].context
    BY <2>1, <2>2 DEF Locals
  <2>4. me' = [me EXCEPT ![p] = local]
    BY <1>5 DEF SubscribeTask
  <2>5. UNCHANGED <<retries, messages, conversations, idle, used, log>>
    BY <1>5 DEF SubscribeTask
  <2> HIDE DEF local
  <2>6. me' \in [Requests -> Locals] /\ RequestsOK'
    BY <1>1, <2>1, <2>3, <2>4, RequestMoves
  <2>7. idle' \subseteq {c \in Contexts : conversations[c] # <<>>}
    BY <1>1, <2>5 DEF TypeOK
  <2> QED BY <2>5, <2>6, <2>7, NothingStored
<1>6. ASSUME NEW p \in Requests, EndProcessing(p) PROVE IInv'
  <2>1. /\ me' = [me EXCEPT ![p] = Waiting]
        /\ UNCHANGED <<retries, messages, conversations, idle, used, log>>
    BY <1>6 DEF EndProcessing
  <2>2. me' \in [Requests -> Locals] /\ RequestsOK'
    BY <1>1, <2>1, WaitingIsLocal, RequestMoves
  <2>3. idle' \subseteq {c \in Contexts : conversations[c] # <<>>}
    BY <1>1, <2>1 DEF TypeOK
  <2> QED BY <2>1, <2>2, <2>3, NothingStored
<1>7. ASSUME NEW p \in Requests, GetMessageHistory(p) PROVE IInv'
  BY <1>7, ReadKeeps DEF GetMessageHistory, Read
<1>8. ASSUME NEW c \in Contexts, OnGetTask(c) PROVE IInv'
  BY <1>8, ReadKeeps DEF OnGetTask, Read
<1>9. ASSUME NEW c \in Contexts, Age(c) PROVE IInv'
  <2>1. idle' \subseteq {d \in Contexts : conversations[d] # <<>>}
    BY <1>1, <1>9 DEF TypeOK, Age
  <2>2. me' \in [Requests -> Locals] /\ RequestsOK'
    BY <1>1, <1>9 DEF RequestsOK, Age
  <2> QED BY <1>9, <2>1, <2>2, NothingStored DEF Age
<1>10. CASE CleanExpiredConversations
  BY <1>10, ExpiryKeeps
<1>11. CASE UNCHANGED vars
  <2>1. me' \in [Requests -> Locals] /\ RequestsOK'
    BY <1>1, <1>11 DEF RequestsOK, vars
  <2>2. idle' \subseteq {c \in Contexts : conversations[c] # <<>>}
    BY <1>1, <1>11 DEF TypeOK, vars
  <2> QED BY <1>11, <2>1, <2>2, NothingStored DEF vars
<1> QED BY <1>2, <1>3, <1>4, <1>5, <1>6, <1>7, <1>8, <1>9, <1>10, <1>11 DEF Next

-----------------------------------------------------------------------------
(* The theorems *)

(* The inductive invariant: with TypeOK, WindowOfLog and NothingLeaked, that a   *)
(* request in progress has its message and context, and that unique IDs stay    *)
(* unique and stored.                                                          *)
THEOREM ConversationsInMemory == Spec => []IInv
  BY InitIInv, NextIInv, PTL DEF Spec

(* Type correctness, and with it that no conversation is longer than            *)
(* MaxHistoryLength, for any number of requests, IDs and contexts.              *)
THEOREM StoreTypeCorrect == Spec => []TypeOK
  BY ConversationsInMemory, PTL DEF IInv

(* storeMessage keeps each conversation the window of what was stored in it,     *)
(* in order, whether or not clients use an ID again.                           *)
THEOREM WindowsAreLogs == Spec => []WindowOfLog
  BY ConversationsInMemory, PTL DEF IInv

(* storeMessage and the cleanup leave no message stored that no conversation    *)
(* lists, although an ID that is used again moves to another conversation.      *)
THEOREM MessagesNotLeaked == Spec => []NothingLeaked
  BY ConversationsInMemory, PTL DEF IInv

(* When IDs are unique, getConversationHistory gives as many of the last         *)
(* messages of a conversation as its reader asked for and the window holds.     *)
THEOREM HistoriesAreRecent == Spec => []HistoryIsRecent
<1>1. IInv => HistoryIsRecent
  <2> SUFFICES ASSUME IInv, ~retries, NEW c \in Contexts, NEW n \in 1..MaxHistoryLength
               PROVE  getConversationHistory(c, n) = LastOf(log[c], n)
    BY DEF HistoryIsRecent
  <2>1. /\ conversations[c] \in Seq(Messages) /\ log[c] \in Seq(Messages) /\ UniqueIds
        /\ conversations[c] = LastOf(log[c], MaxHistoryLength)
    BY DEF IInv, TypeOK, WindowOfLog
  <2>2. n \in Nat \ {0} /\ MaxHistoryLength \in Nat \ {0}
    BY WindowAssumption
  <2>3. getConversationHistory(c, n) = LastOf(conversations[c], n)
    BY <2>1, <2>2, WholeHistory DEF UniqueIds
  <2>4. LastOf(conversations[c], n) = LastOf(log[c], n)
    BY <2>1, <2>2, LastOfWindow
  <2> QED BY <2>3, <2>4
<1> QED BY <1>1, ConversationsInMemory, PTL
=============================================================================
