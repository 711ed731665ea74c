--------------------------- MODULE RtTargetProofs ---------------------------
(***************************************************************************)
(* Proofs about the threads, objects, timers and stores of RtTarget, for   *)
(* any threads, objects, names, handles and CPUs, any timers, and stores   *)
(* of any size.                                                            *)
(*                                                                         *)
(* What is shown is right because of what the kernel keeps: no object is   *)
(* registered twice or in two classes, a thread that is neither unborn nor *)
(* on its way out is registered, and a thread on a wait list is suspended, *)
(* is at no step of its own, and is on no other list.  The timers and the  *)
(* stores have an invariant of their own, stated where they begin.         *)
(***************************************************************************)
EXTENDS RtTarget, Integers, Sequences, FiniteSets, TLAPS, FiniteSetTheorems, SequenceTheorems,
        WellFoundedInduction

Distinct(s) == \A i, j \in DOMAIN s : s[i] = s[j] => i = j

States == {"Unborn", "Init", "Ready", "Running", "Suspend", "Close"}
Steps == {T!NoStep, T!At("resume", T!Null, T!Null)}
         \cup {T!At("enter", o, f) : o \in Object, f \in T!Fields}

ThreadsTyped ==
  /\ registry \in [T!Classes -> Seq(T!Address)]
  /\ kindOf \in [Object -> Kinds \cup {"none"}]
  /\ waitList \in [Object -> [T!Fields -> Seq(Thread)]]
  /\ stat \in [Thread -> States]
  /\ oncpu \in [Thread -> T!Cpus \cup {T!Detached}]
  /\ currentOf \in [T!Cpus -> Thread \cup {T!Null}]
  /\ selected \in T!Cpus
  /\ handle \in [Handle -> Object \cup {T!Null}]
  /\ step \in [Thread -> Steps]

\* The registry is the live objects, once each.
Registries ==
  /\ \A c \in T!Classes : Distinct(registry[c])
  /\ T!Members(registry["thread"]) \subseteq Thread
  /\ \A k \in Kinds : T!Members(registry[k]) = {o \in Object : kindOf[o] = k}
  /\ \A t \in Thread : t \in T!Members(registry["thread"]) => stat[t] # "Unborn"
  /\ \A t \in Thread : stat[t] \notin {"Unborn", "Close"} => t \in T!Members(registry["thread"])

\* A thread waits in one place, and is then at no step of a call.
On(t, o, f) == t \in T!Members(waitList[o][f])
Waits ==
  /\ \A o \in Object, f \in T!Fields : Distinct(waitList[o][f])
  /\ \A t \in Thread, o \in Object, f \in T!Fields :
       On(t, o, f) => stat[t] = "Suspend" /\ step[t] = T!NoStep
  /\ \A t \in Thread, o, p \in Object, f, g \in T!Fields : On(t, o, f) /\ On(t, p, g) => o = p /\ f = g
  /\ \A t \in Thread : step[t] # T!NoStep => stat[t] = "Suspend"

\* What a CPU runs was born.
RunsBorn ==
  /\ \A c \in T!Cpus : currentOf[c] # T!Null => stat[currentOf[c]] # "Unborn"
  /\ \A t \in Thread : oncpu[t] \in T!Cpus => stat[t] # "Unborn"

ThreadInv == ThreadsTyped /\ Registries /\ Waits /\ RunsBorn

TargetInv == part = "threads" => ThreadInv

-----------------------------------------------------------------------------
\* Sequences without repetition.

\* The members are what stands at a position.
LEMMA MembersAt ==
  ASSUME NEW S, NEW s \in Seq(S)
  PROVE  /\ DOMAIN s = 1..Len(s) /\ Len(s) \in Nat
         /\ T!Members(s) = {s[i] : i \in 1..Len(s)} /\ T!Members(s) \subseteq S
  BY DEF T!Members

\* A new object at the head.
LEMMA Prepended ==
  ASSUME NEW S, NEW s \in Seq(S), NEW x \in S, Distinct(s), x \notin T!Members(s)
  PROVE  LET r == <<x>> \o s
         IN r \in Seq(S) /\ T!Members(r) = T!Members(s) \cup {x} /\ Distinct(r)
<1>0. PICK r : r = <<x>> \o s
  OBVIOUS
<1>1. /\ Len(s) \in Nat /\ <<x>> \in Seq(S) /\ Len(<<x>>) = 1 /\ <<x>>[1] = x
      /\ DOMAIN s = 1..Len(s)
  OBVIOUS
<1>2. /\ r \in Seq(S) /\ Len(r) = Len(s) + 1
      /\ \A i \in 1..(Len(s) + 1) : r[i] = IF i <= 1 THEN x ELSE s[i - 1]
  BY <1>0, <1>1, ConcatProperties
<1>3. DOMAIN r = 1..(Len(s) + 1)
  BY <1>2
<1>4. r[1] = x /\ \A i \in 1..Len(s) : i + 1 \in 1..(Len(s) + 1) /\ r[i + 1] = s[i]
  BY <1>1, <1>2
<1>5. \A i \in 1..(Len(s) + 1) : i = 1 \/ (i - 1 \in 1..Len(s) /\ r[i] = s[i - 1])
  BY <1>1, <1>2
<1>6. T!Members(r) = T!Members(s) \cup {x}
  <2>1. T!Members(r) \subseteq T!Members(s) \cup {x}
    BY <1>1, <1>3, <1>4, <1>5 DEF T!Members
  <2>2. x \in T!Members(r)
    BY <1>1, <1>3, <1>4, 1 \in 1..(Len(s) + 1) DEF T!Members
  <2>3. T!Members(s) \subseteq T!Members(r)
    BY <1>1, <1>3, <1>4 DEF T!Members
  <2> QED BY <2>1, <2>2, <2>3
<1>7. Distinct(r)
  <2>1. \A i \in 1..Len(s) : s[i] # x
    BY <1>1 DEF T!Members
  <2>2. ASSUME NEW i \in 1..(Len(s) + 1), NEW j \in 1..(Len(s) + 1), r[i] = r[j] PROVE i = j
    <3>1. CASE i = 1 \/ j = 1
      BY <1>4, <1>5, <2>1, <2>2, <3>1
    <3>2. CASE i # 1 /\ j # 1
      <4>1. i - 1 = j - 1
        BY <1>1, <1>5, <2>2, <3>2 DEF Distinct
      <4> QED BY <2>2, <4>1
    <3> QED BY <3>1, <3>2
  <2> QED BY <1>3, <2>2 DEF Distinct
<1> QED BY <1>0, <1>2, <1>6, <1>7

\* Sequence r is s with an item more behind position k, or without the one at it.
Inserted(r, s, k, x) ==
  /\ Len(r) = Len(s) + 1
  /\ \A i \in 1..(Len(s) + 1) : \/ i = k + 1 /\ r[i] = x
                                \/ i <= k /\ i \in 1..Len(s) /\ r[i] = s[i]
                                \/ i > k + 1 /\ i - 1 \in 1..Len(s) /\ r[i] = s[i - 1]
Taken(r, s, k) ==
  /\ Len(r) = Len(s) - 1
  /\ \A i \in 1..(Len(s) - 1) : \/ i < k /\ i \in 1..Len(s) /\ r[i] = s[i]
                                \/ i >= k /\ i + 1 \in 1..Len(s) /\ r[i] = s[i + 1]

\* What rt_ipc_list_suspend makes of a list.
LEMMA InsertedIs ==
  ASSUME NEW S, NEW s \in Seq(S), NEW x \in S, NEW k \in 0..Len(s)
  PROVE  LET r == SubSeq(s, 1, k) \o <<x>> \o SubSeq(s, k + 1, Len(s))
         IN r \in Seq(S) /\ Inserted(r, s, k, x)
<1>1. PICK n : n = Len(s)
  OBVIOUS
<1>2. n \in Nat /\ k \in 0..n /\ \A i \in 1..n : s[i] \in S
  BY <1>1
<1>3. PICK a : a = SubSeq(s, 1, k)
  OBVIOUS
<1>4. a \in Seq(S) /\ Len(a) = k /\ \A i \in 1..k : a[i] = s[i]
  BY <1>1, <1>2, <1>3, SubSeqProperties
<1>5. PICK b : b = SubSeq(s, k + 1, n)
  OBVIOUS
<1>6. b \in Seq(S) /\ Len(b) = n - k /\ \A i \in 1..(n - k) : b[i] = s[k + i]
  <2>1. k + 1 \in Int /\ n \in Int /\ \A i \in (k + 1)..n : s[i] \in S
    BY <1>2
  <2>2. /\ b \in Seq(S) /\ Len(b) = IF k + 1 <= n THEN n - (k + 1) + 1 ELSE 0
        /\ \A i \in 1..(n - (k + 1) + 1) : b[i] = s[(k + 1) + i - 1]
    BY <1>5, <2>1, SubSeqProperties
  <2>3. n - (k + 1) + 1 = n - k /\ \A i \in 1..(n - k) : (k + 1) + i - 1 = k + i
    BY <1>2
  <2>4. Len(b) = n - k
    BY <1>2, <2>2
  <2>5. \A i \in 1..(n - k) : b[i] = s[k + i]
    BY <2>2, <2>3
  <2> QED BY <2>2, <2>4, <2>5
<1>7. PICK c : c = a \o <<x>>
  OBVIOUS
<1>8. c \in Seq(S) /\ Len(c) = k + 1 /\ \A i \in 1..(k + 1) : c[i] = IF i <= k THEN a[i] ELSE x
  <2>1. <<x>> \in Seq(S) /\ Len(<<x>>) = 1 /\ <<x>>[1] = x
    OBVIOUS
  <2> QED BY <1>2, <1>4, <1>7, <2>1, ConcatProperties
<1>9. PICK r : r = c \o b
  OBVIOUS
<1>10. /\ r \in Seq(S) /\ Len(r) = Len(c) + Len(b)
       /\ \A i \in 1..(Len(c) + Len(b)) : r[i] = IF i <= Len(c) THEN c[i] ELSE b[i - Len(c)]
  BY <1>6, <1>8, <1>9, ConcatProperties
<1>11. Len(r) = n + 1
  BY <1>2, <1>6, <1>8, <1>10
<1>12. ASSUME NEW i \in 1..(n + 1)
       PROVE  \/ i = k + 1 /\ r[i] = x
              \/ i <= k /\ i \in 1..n /\ r[i] = s[i]
              \/ i > k + 1 /\ i - 1 \in 1..n /\ r[i] = s[i - 1]
  <2>1. r[i] = IF i <= k + 1 THEN c[i] ELSE b[i - (k + 1)]
    BY <1>6, <1>8, <1>10, <1>11
  <2>2. CASE i <= k
    BY <1>2, <1>4, <1>8, <2>1, <2>2
  <2>3. CASE i = k + 1
    BY <1>2, <1>8, <2>1, <2>3
  <2>4. CASE i > k + 1
    <3>1. i - (k + 1) \in 1..(n - k) /\ k + (i - (k + 1)) = i - 1 /\ i - 1 \in 1..n
      BY <1>2, <2>4
    <3>2. b[i - (k + 1)] = s[i - 1]
      BY <1>6, <3>1
    <3> QED BY <1>2, <2>1, <2>4, <3>1, <3>2
  <2> QED BY <1>2, <2>2, <2>3, <2>4
<1>13. Inserted(r, s, k, x)
  <2>1. Len(r) = Len(s) + 1
    BY <1>1, <1>11
  <2>2. ASSUME NEW i \in 1..(Len(s) + 1)
        PROVE  \/ i = k + 1 /\ r[i] = x
               \/ i <= k /\ i \in 1..Len(s) /\ r[i] = s[i]
               \/ i > k + 1 /\ i - 1 \in 1..Len(s) /\ r[i] = s[i - 1]
    <3>1. i \in 1..(n + 1)
      BY <1>1
    <3> QED BY <1>1, <1>12, <3>1
  <2> QED BY <2>1, <2>2 DEF Inserted
<1> QED BY <1>1, <1>3, <1>5, <1>7, <1>9, <1>10, <1>13

\* A thread linked between two others, or at an end.
LEMMA Linked ==
  ASSUME NEW S, NEW s \in Seq(S), NEW x \in S, NEW k \in 0..Len(s),
         NEW r \in Seq(S), Inserted(r, s, k, x), Distinct(s), x \notin T!Members(s)
  PROVE  T!Members(r) = T!Members(s) \cup {x} /\ Distinct(r)
<1>1. PICK n : n = Len(s)
  OBVIOUS
<1>2. n \in Nat /\ DOMAIN s = 1..n /\ k \in 0..n /\ \A i \in 1..n : s[i] \in S /\ s[i] # x
  BY <1>1 DEF T!Members
<1>11. Len(r) = n + 1 /\ DOMAIN r = 1..(n + 1)
  BY <1>1, <1>2 DEF Inserted
<1>12. \A i \in 1..(n + 1) : \/ i = k + 1 /\ r[i] = x
                             \/ i <= k /\ i \in 1..n /\ r[i] = s[i]
                             \/ i > k + 1 /\ i - 1 \in 1..n /\ r[i] = s[i - 1]
  BY <1>1 DEF Inserted
<1>13. \A i, j \in 1..n : s[i] = s[j] => i = j
  BY <1>2 DEF Distinct
<1>14. ASSUME NEW i \in 1..(n + 1), NEW j \in 1..(n + 1), r[i] = r[j] PROVE i = j
  <2>1. CASE i = k + 1 /\ r[i] = x
    <3>1. j = k + 1
      BY <1>2, <1>12, <1>14, <2>1
    <3> QED BY <2>1, <3>1
  <2>2. CASE i <= k /\ i \in 1..n /\ r[i] = s[i]
    <3>1. CASE j = k + 1 /\ r[j] = x
      BY <1>2, <1>14, <2>2, <3>1
    <3>2. CASE j <= k /\ j \in 1..n /\ r[j] = s[j]
      BY <1>13, <1>14, <2>2, <3>2
    <3>3. CASE j > k + 1 /\ j - 1 \in 1..n /\ r[j] = s[j - 1]
      <4>1. i = j - 1
        BY <1>13, <1>14, <2>2, <3>3
      <4> QED BY <1>2, <2>2, <3>3, <4>1
    <3> QED BY <1>12, <3>1, <3>2, <3>3
  <2>3. CASE i > k + 1 /\ i - 1 \in 1..n /\ r[i] = s[i - 1]
    <3>1. CASE j = k + 1 /\ r[j] = x
      BY <1>2, <1>14, <2>3, <3>1
    <3>2. CASE j <= k /\ j \in 1..n /\ r[j] = s[j]
      <4>1. i - 1 = j
        BY <1>13, <1>14, <2>3, <3>2
      <4> QED BY <1>2, <2>3, <3>2, <4>1
    <3>3. CASE j > k + 1 /\ j - 1 \in 1..n /\ r[j] = s[j - 1]
      <4>1. i - 1 = j - 1
        BY <1>13, <1>14, <2>3, <3>3
      <4> QED BY <1>14, <4>1
    <3> QED BY <1>12, <3>1, <3>2, <3>3
  <2> QED BY <1>12, <2>1, <2>2, <2>3
<1>15. Distinct(r)
  BY <1>11, <1>14 DEF Distinct
<1>16. T!Members(r) \subseteq T!Members(s) \cup {x}
  <2>1. ASSUME NEW i \in 1..(n + 1) PROVE r[i] \in T!Members(s) \cup {x}
    BY <1>2, <1>12 DEF T!Members
  <2> QED BY <1>11, <2>1 DEF T!Members
<1>17. x \in T!Members(r)
  <2>1. k + 1 \in 1..(n + 1)
    BY <1>2
  <2>2. r[k + 1] = x
    BY <1>2, <1>12, <2>1
  <2> QED BY <1>11, <2>1, <2>2 DEF T!Members
<1>18. T!Members(s) \subseteq T!Members(r)
  <2>1. ASSUME NEW i \in 1..n PROVE s[i] \in T!Members(r)
    <3>1. CASE i <= k
      <4>1. i \in 1..(n + 1)
        BY <1>2
      <4>2. r[i] = s[i]
        BY <1>2, <1>12, <3>1, <4>1
      <4> QED BY <1>11, <4>1, <4>2 DEF T!Members
    <3>2. CASE i > k
      <4>1. i + 1 \in 1..(n + 1) /\ i + 1 > k + 1 /\ (i + 1) - 1 = i
        BY <1>2, <3>2
      <4>2. r[i + 1] = s[i]
        BY <1>2, <1>12, <4>1
      <4> QED BY <1>11, <4>1, <4>2 DEF T!Members
    <3> QED BY <1>2, <3>1, <3>2
  <2> QED BY <1>2, <2>1 DEF T!Members
<1> QED BY <1>15, <1>16, <1>17, <1>18

\* What rt_list_remove makes of a list.
LEMMA TakenIs ==
  ASSUME NEW S, NEW s \in Seq(S), NEW k \in 1..Len(s)
  PROVE  LET r == SubSeq(s, 1, k - 1) \o SubSeq(s, k + 1, Len(s))
         IN r \in Seq(S) /\ Taken(r, s, k)
<1>1. PICK n : n = Len(s)
  OBVIOUS
<1>2. n \in Nat /\ k \in 1..n /\ \A i \in 1..n : s[i] \in S
  BY <1>1
<1>3. PICK a : a = SubSeq(s, 1, k - 1)
  OBVIOUS
<1>4. a \in Seq(S) /\ Len(a) = k - 1 /\ \A i \in 1..(k - 1) : a[i] = s[i]
  BY <1>1, <1>2, <1>3, SubSeqProperties
<1>5. PICK b : b = SubSeq(s, k + 1, n)
  OBVIOUS
<1>6. b \in Seq(S) /\ Len(b) = n - k /\ \A i \in 1..(n - k) : b[i] = s[k + i]
  BY <1>1, <1>2, <1>5, SubSeqProperties
<1>7. PICK r : r = a \o b
  OBVIOUS
<1>8. /\ r \in Seq(S) /\ Len(r) = Len(a) + Len(b)
      /\ \A i \in 1..(Len(a) + Len(b)) : r[i] = IF i <= Len(a) THEN a[i] ELSE b[i - Len(a)]
  BY <1>4, <1>6, <1>7, ConcatProperties
<1>9. Len(r) = n - 1
  BY <1>2, <1>4, <1>6, <1>8
<1>10. ASSUME NEW i \in 1..(n - 1)
       PROVE  \/ i < k /\ i \in 1..n /\ r[i] = s[i]
              \/ i >= k /\ i + 1 \in 1..n /\ r[i] = s[i + 1]
  <2>1. r[i] = IF i <= k - 1 THEN a[i] ELSE b[i - (k - 1)]
    BY <1>4, <1>6, <1>8, <1>9
  <2>2. CASE i < k
    BY <1>2, <1>4, <2>1, <2>2
  <2>3. CASE i >= k
    <3>1. i - (k - 1) \in 1..(n - k) /\ k + (i - (k - 1)) = i + 1 /\ i + 1 \in 1..n
      BY <1>2, <2>3
    <3>2. b[i - (k - 1)] = s[i + 1]
      BY <1>6, <3>1
    <3> QED BY <1>2, <2>1, <2>3, <3>1, <3>2
  <2> QED BY <1>2, <2>2, <2>3
<1>11. Taken(r, s, k)
  <2>1. Len(r) = Len(s) - 1
    BY <1>1, <1>9
  <2>2. ASSUME NEW i \in 1..(Len(s) - 1)
        PROVE  \/ i < k /\ i \in 1..Len(s) /\ r[i] = s[i]
               \/ i >= k /\ i + 1 \in 1..Len(s) /\ r[i] = s[i + 1]
    <3>1. i \in 1..(n - 1)
      BY <1>1
    <3> QED BY <1>1, <1>10, <3>1
  <2> QED BY <2>1, <2>2 DEF Taken
<1> QED BY <1>1, <1>3, <1>5, <1>7, <1>8, <1>11

\* The members of a sequence that lacks one position.
LEMMA TakenOut ==
  ASSUME NEW S, NEW s \in Seq(S), NEW k \in 1..Len(s), NEW r \in Seq(S), Taken(r, s, k), Distinct(s)
  PROVE  T!Members(r) = T!Members(s) \ {s[k]} /\ Distinct(r)
<1>1. PICK n, x : n = Len(s) /\ x = s[k]
  OBVIOUS
<1>2. n \in Nat /\ DOMAIN s = 1..n /\ \A i \in 1..n : s[i] \in S
  BY <1>1
<1>4. k \in 1..n /\ s[k] = x
  BY <1>1
<1>5. \A i, j \in 1..n : s[i] = s[j] => i = j
  BY <1>2 DEF Distinct
<1>12. Len(r) = n - 1 /\ DOMAIN r = 1..(n - 1)
  BY <1>1, <1>2, <1>4 DEF Taken
<1>13. \A i \in 1..(n - 1) : \/ i < k /\ i \in 1..n /\ r[i] = s[i]
                             \/ i >= k /\ i + 1 \in 1..n /\ r[i] = s[i + 1]
  BY <1>1 DEF Taken
<1>14. ASSUME NEW i \in 1..(n - 1), NEW j \in 1..(n - 1), r[i] = r[j] PROVE i = j
  <2>1. CASE i < k /\ i \in 1..n /\ r[i] = s[i]
    <3>1. CASE j < k /\ j \in 1..n /\ r[j] = s[j]
      BY <1>5, <1>14, <2>1, <3>1
    <3>2. CASE j >= k /\ j + 1 \in 1..n /\ r[j] = s[j + 1]
      <4>1. i = j + 1
        BY <1>5, <1>14, <2>1, <3>2
      <4> QED BY <1>4, <2>1, <3>2, <4>1
    <3> QED BY <1>13, <3>1, <3>2
  <2>2. CASE i >= k /\ i + 1 \in 1..n /\ r[i] = s[i + 1]
    <3>1. CASE j < k /\ j \in 1..n /\ r[j] = s[j]
      <4>1. i + 1 = j
        BY <1>5, <1>14, <2>2, <3>1
      <4> QED BY <1>4, <2>2, <3>1, <4>1
    <3>2. CASE j >= k /\ j + 1 \in 1..n /\ r[j] = s[j + 1]
      <4>1. i + 1 = j + 1
        BY <1>5, <1>14, <2>2, <3>2
      <4> QED BY <1>14, <4>1
    <3> QED BY <1>13, <3>1, <3>2
  <2> QED BY <1>13, <2>1, <2>2
<1>15. Distinct(r)
  BY <1>12, <1>14 DEF Distinct
<1>16. ASSUME NEW i \in 1..(n - 1) PROVE r[i] \in T!Members(s) \ {x}
  <2>1. CASE i < k /\ i \in 1..n /\ r[i] = s[i]
    BY <1>2, <1>4, <1>5, <2>1 DEF T!Members
  <2>2. CASE i >= k /\ i + 1 \in 1..n /\ r[i] = s[i + 1]
    <3>1. i + 1 # k
      BY <1>4, <2>2
    <3> QED BY <1>2, <1>4, <1>5, <2>2, <3>1 DEF T!Members
  <2> QED BY <1>13, <2>1, <2>2
<1>17. ASSUME NEW i \in 1..n, s[i] # x PROVE s[i] \in T!Members(r)
  <2>1. CASE i < k
    <3>1. i \in 1..(n - 1)
      BY <1>2, <1>4, <2>1
    <3>2. r[i] = s[i]
      BY <1>2, <1>4, <1>13, <2>1, <3>1
    <3> QED BY <1>12, <3>1, <3>2 DEF T!Members
  <2>2. CASE i > k
    <3>1. i - 1 \in 1..(n - 1) /\ i - 1 >= k /\ (i - 1) + 1 = i
      BY <1>2, <1>4, <2>2
    <3>2. r[i - 1] = s[i]
      BY <1>2, <1>4, <1>13, <3>1
    <3> QED BY <1>12, <3>1, <3>2 DEF T!Members
  <2> QED BY <1>2, <1>4, <1>17, <2>1, <2>2
<1>18. T!Members(r) \subseteq T!Members(s) \ {x} /\ T!Members(s) \ {x} \subseteq T!Members(r)
  BY <1>2, <1>12, <1>16, <1>17 DEF T!Members
<1> QED BY <1>1, <1>15, <1>18

\* A member taken out; one that is not there changes nothing.
LEMMA Unlinked ==
  ASSUME NEW S, NEW s \in Seq(S), NEW x, Distinct(s)
  PROVE  LET r == T!Without(s, x)
         IN /\ r \in Seq(S) /\ T!Members(r) = T!Members(s) \ {x} /\ Distinct(r)
            /\ r = s \/ \E k \in 1..Len(s) : Taken(r, s, k)
<1>1. CASE x \notin T!Members(s)
  BY <1>1 DEF T!Without
<1>2. CASE x \in T!Members(s)
  <2>1. PICK n : n = Len(s)
    OBVIOUS
  <2>2. n \in Nat /\ DOMAIN s = 1..n
    BY <2>1
  <2>3. PICK k : k = T!Position(s, x)
    OBVIOUS
  <2>4. k \in 1..n /\ s[k] = x
    BY <1>2, <2>2, <2>3 DEF T!Position, T!Members
  <2>6. PICK r : r = T!Without(s, x)
    OBVIOUS
  <2>7. r = SubSeq(s, 1, k - 1) \o SubSeq(s, k + 1, Len(s))
    BY <1>2, <2>3, <2>6 DEF T!Without
  <2>8. r \in Seq(S) /\ Taken(r, s, k)
    BY <2>1, <2>4, <2>7, TakenIs
  <2>9. T!Members(r) = T!Members(s) \ {x} /\ Distinct(r)
    BY <2>1, <2>4, <2>8, TakenOut
  <2> QED BY <2>1, <2>4, <2>6, <2>8, <2>9
<1> QED BY <1>1, <1>2

-----------------------------------------------------------------------------
\* The invariant.

\* What the constants are.
LEMMA Apart ==
  /\ "thread" \in T!Classes /\ Kinds \subseteq T!Classes /\ "thread" \notin Kinds /\ "none" \notin Kinds
  /\ T!Null \notin Thread \cup Object /\ Thread \cap Object = {}
  /\ T!Detached \notin T!Cpus /\ CpuCount \in Nat \ {0} /\ 0 \in T!Cpus
BY TargetAssumption DEF T!RtAssumption, T!AllKinds, T!Classes, T!Detached, T!Cpus

\* The steps of a call are not the lack of one.
LEMMA StepsApart ==
  /\ T!NoStep \in Steps /\ T!NoStep.call = "none"
  /\ T!At("resume", T!Null, T!Null) # T!NoStep
  /\ \A o \in Object, f \in T!Fields : T!At("enter", o, f) # T!NoStep /\ T!At("enter", o, f) \in Steps
<1>1. T!NoStep.call = "none" /\ \A o, f, c : T!At(c, o, f).call = c
  BY DEF T!NoStep, T!At
<1>2. T!NoStep \in Steps /\ \A o \in Object, f \in T!Fields : T!At("enter", o, f) \in Steps
  BY DEF Steps
<1> QED BY <1>1, <1>2

\* The state of the rest.
LEMMA ThreadInit ==
  ASSUME T!Init
  PROVE  ThreadInv
<1>1. PICK e : e = << >>
  OBVIOUS
<1>2. (\A S : e \in Seq(S)) /\ T!Members(e) = {} /\ Distinct(e)
  BY <1>1 DEF T!Members, Distinct
<1>3. /\ registry = [c \in T!Classes |-> e]
      /\ kindOf = [o \in Object |-> "none"]
      /\ waitList = [o \in Object |-> [f \in T!Fields |-> e]]
      /\ stat = [t \in Thread |-> "Unborn"]
      /\ oncpu = [t \in Thread |-> T!Detached]
      /\ currentOf = [c \in T!Cpus |-> T!Null]
      /\ selected \in T!Cpus
      /\ handle = [h \in Handle |-> T!Null]
      /\ step = [t \in Thread |-> T!NoStep]
  BY <1>1 DEF T!Init
<1>4. ThreadsTyped
  BY <1>2, <1>3, StepsApart DEF ThreadsTyped, States
<1>5. Registries
  <2>1. \A c \in T!Classes : registry[c] = e
    BY <1>3
  <2> QED BY <1>2, <1>3, <2>1, Apart DEF Registries
<1>6. Waits
  <2>1. \A o \in Object, f \in T!Fields : waitList[o][f] = e
    BY <1>3
  <2> QED BY <1>2, <1>3, <2>1 DEF Waits, On
<1>7. RunsBorn
  BY <1>3, Apart DEF RunsBorn
<1> QED BY <1>4, <1>5, <1>6, <1>7 DEF ThreadInv

\* A step of a thread that leaves the registry alone.
LEMMA RegistriesStay ==
  ASSUME Registries, registry' = registry, kindOf' = kindOf,
         \A t \in Thread : /\ stat'[t] = "Unborn" <=> stat[t] = "Unborn"
                           /\ stat'[t] \notin {"Unborn", "Close"} => stat[t] \notin {"Unborn", "Close"}
  PROVE  Registries'
<1>1. PICK old : old = registry
  OBVIOUS
<1>2. registry' = old
  BY <1>1
<1>0. /\ \A c \in T!Classes : Distinct(old[c])
      /\ T!Members(old["thread"]) \subseteq Thread
      /\ \A k \in Kinds : T!Members(old[k]) = {o \in Object : kindOf[o] = k}
      /\ \A t \in Thread : t \in T!Members(old["thread"]) => stat[t] # "Unborn"
      /\ \A t \in Thread : stat[t] \notin {"Unborn", "Close"} => t \in T!Members(old["thread"])
  BY <1>1 DEF Registries
<1>3. /\ \A c \in T!Classes : Distinct(old[c])
      /\ T!Members(old["thread"]) \subseteq Thread
      /\ \A k \in Kinds : T!Members(old[k]) = {o \in Object : kindOf'[o] = k}
      /\ \A t \in Thread : t \in T!Members(old["thread"]) => stat'[t] # "Unborn"
      /\ \A t \in Thread : stat'[t] \notin {"Unborn", "Close"} => t \in T!Members(old["thread"])
  BY <1>0
<1> QED BY <1>2, <1>3 DEF Registries

\* A step that leaves the wait lists alone.
LEMMA WaitsStay ==
  ASSUME Waits, waitList' = waitList,
         \A t \in Thread :
           /\ stat[t] = "Suspend" /\ step[t] = T!NoStep => stat'[t] = "Suspend" /\ step'[t] = T!NoStep
           /\ step'[t] # T!NoStep => stat'[t] = "Suspend"
  PROVE  Waits'
BY DEF Waits, On, Distinct, T!Members

\* A step that leaves the CPUs alone.
LEMMA RunsStay ==
  ASSUME ThreadsTyped, RunsBorn, currentOf' = currentOf, oncpu' = oncpu,
         \A t \in Thread : stat[t] # "Unborn" => stat'[t] # "Unborn"
  PROVE  RunsBorn'
BY DEF RunsBorn, ThreadsTyped

\* A thread or an object is registered: at the head of the list of its class.
LEMMA RegisterStep ==
  ASSUME ThreadsTyped, Registries, NEW c \in T!Classes, NEW x \in T!Address,
         x \notin T!Members(registry[c]), registry' = [registry EXCEPT ![c] = <<x>> \o @]
  PROVE  /\ registry' \in [T!Classes -> Seq(T!Address)]
         /\ \A d \in T!Classes : Distinct(registry'[d])
         /\ \A d \in T!Classes :
              T!Members(registry'[d]) = T!Members(registry[d]) \cup (IF d = c THEN {x} ELSE {})
<1>1. PICK s : s = registry[c]
  OBVIOUS
<1>2. s \in Seq(T!Address) /\ x \notin T!Members(s) /\ Distinct(s)
  BY <1>1 DEF ThreadsTyped, Registries
<1>3. PICK r : r = <<x>> \o s
  OBVIOUS
<1>4. r \in Seq(T!Address) /\ Distinct(r) /\ T!Members(r) = T!Members(s) \cup {x}
  BY <1>2, <1>3, Prepended
<1>5. PICK old, new : old = registry /\ new = registry'
  OBVIOUS
<1>6. old \in [T!Classes -> Seq(T!Address)] /\ new = [old EXCEPT ![c] = r] /\ old[c] = s
      /\ \A d \in T!Classes : Distinct(old[d])
  BY <1>1, <1>3, <1>5 DEF ThreadsTyped, Registries
<1>7. /\ new \in [T!Classes -> Seq(T!Address)] /\ new[c] = r
      /\ \A d \in T!Classes : d # c => new[d] = old[d]
  BY <1>4, <1>6
<1>8. \A d \in T!Classes : Distinct(new[d])
  BY <1>4, <1>6, <1>7
<1>9. \A d \in T!Classes : T!Members(new[d]) = T!Members(old[d]) \cup (IF d = c THEN {x} ELSE {})
  BY <1>4, <1>6, <1>7
<1> QED BY <1>5, <1>7, <1>8, <1>9

\* It leaves the list.
LEMMA UnregisterStep ==
  ASSUME ThreadsTyped, Registries, NEW c \in T!Classes, NEW x,
         registry' = [registry EXCEPT ![c] = T!Without(@, x)]
  PROVE  /\ registry' \in [T!Classes -> Seq(T!Address)]
         /\ \A d \in T!Classes : Distinct(registry'[d])
         /\ \A d \in T!Classes :
              T!Members(registry'[d]) = T!Members(registry[d]) \ (IF d = c THEN {x} ELSE {})
<1>1. PICK s : s = registry[c]
  OBVIOUS
<1>2. s \in Seq(T!Address) /\ Distinct(s)
  BY <1>1 DEF ThreadsTyped, Registries
<1>3. PICK r : r = T!Without(s, x)
  OBVIOUS
<1>4. r \in Seq(T!Address) /\ Distinct(r) /\ T!Members(r) = T!Members(s) \ {x}
  BY <1>2, <1>3, Unlinked
<1>5. PICK old, new : old = registry /\ new = registry'
  OBVIOUS
<1>6. old \in [T!Classes -> Seq(T!Address)] /\ new = [old EXCEPT ![c] = r] /\ old[c] = s
      /\ \A d \in T!Classes : Distinct(old[d])
  BY <1>1, <1>3, <1>5 DEF ThreadsTyped, Registries, T!Without, T!Members, T!Position
<1>7. /\ new \in [T!Classes -> Seq(T!Address)] /\ new[c] = r
      /\ \A d \in T!Classes : d # c => new[d] = old[d]
  BY <1>4, <1>6
<1>8. \A d \in T!Classes : Distinct(new[d])
  BY <1>4, <1>6, <1>7
<1>9. \A d \in T!Classes : T!Members(new[d]) = T!Members(old[d]) \ (IF d = c THEN {x} ELSE {})
  BY <1>4, <1>6, <1>7
<1> QED BY <1>5, <1>7, <1>8, <1>9

\* rt_thread_init.
LEMMA CreateThreadInv ==
  ASSUME ThreadInv, NEW t \in Thread, T!CreateThread(t)
  PROVE  ThreadInv'
<1>0. ThreadsTyped /\ Registries /\ Waits /\ RunsBorn
  BY DEF ThreadInv
<1>1. /\ stat[t] = "Unborn" /\ stat' = [stat EXCEPT ![t] = "Init"]
      /\ registry' = [registry EXCEPT !["thread"] = <<t>> \o @]
      /\ UNCHANGED <<kindOf, waitList, oncpu, currentOf, selected, handle, step>>
  BY DEF T!CreateThread
<1>2. t \notin T!Members(registry["thread"]) /\ t \in T!Address
  BY <1>0, <1>1 DEF Registries, T!Address
<1>3. /\ registry' \in [T!Classes -> Seq(T!Address)]
      /\ \A d \in T!Classes : Distinct(registry'[d])
      /\ \A d \in T!Classes :
           T!Members(registry'[d]) = T!Members(registry[d]) \cup (IF d = "thread" THEN {t} ELSE {})
  BY <1>0, <1>1, <1>2, Apart, RegisterStep
<1>4. stat \in [Thread -> States] /\ stat' \in [Thread -> States]
  BY <1>0, <1>1 DEF ThreadsTyped, States
<1>5. stat'[t] = "Init" /\ \A u \in Thread \ {t} : stat'[u] = stat[u]
  BY <1>1, <1>4
<1>6. ThreadsTyped'
  BY <1>0, <1>1, <1>3, <1>4 DEF ThreadsTyped
<1>7. Registries'
  <2>1. T!Members(registry'["thread"]) = T!Members(registry["thread"]) \cup {t}
    BY <1>3, Apart
  <2>2. \A k \in Kinds : T!Members(registry'[k]) = T!Members(registry[k])
    BY <1>3, Apart
  <2> QED BY <1>0, <1>1, <1>3, <1>5, <2>1, <2>2 DEF Registries
<1>8. Waits'
  BY <1>0, <1>1, <1>5, WaitsStay DEF Waits
<1>9. RunsBorn'
  BY <1>0, <1>1, <1>5, RunsStay
<1> QED BY <1>6, <1>7, <1>8, <1>9 DEF ThreadInv

\* rt_sem_init and its like.
LEMMA CreateObjectInv ==
  ASSUME ThreadInv, NEW o \in Object, NEW k \in Kinds, T!CreateObject(o, k)
  PROVE  ThreadInv'
<1>0. ThreadsTyped /\ Registries /\ Waits /\ RunsBorn
  BY DEF ThreadInv
<1>1. /\ kindOf[o] = "none" /\ kindOf' = [kindOf EXCEPT ![o] = k]
      /\ registry' = [registry EXCEPT ![k] = <<o>> \o @]
      /\ UNCHANGED <<waitList, stat, oncpu, currentOf, selected, handle, step>>
  BY DEF T!CreateObject
<1>2. o \notin T!Members(registry[k]) /\ o \in T!Address /\ k \in T!Classes /\ k # "thread"
  BY <1>0, <1>1, Apart DEF Registries, T!Address
<1>3. /\ registry' \in [T!Classes -> Seq(T!Address)]
      /\ \A d \in T!Classes : Distinct(registry'[d])
      /\ \A d \in T!Classes :
           T!Members(registry'[d]) = T!Members(registry[d]) \cup (IF d = k THEN {o} ELSE {})
  BY <1>0, <1>1, <1>2, RegisterStep
<1>4. kindOf' \in [Object -> Kinds \cup {"none"}] /\ kindOf'[o] = k
      /\ \A p \in Object \ {o} : kindOf'[p] = kindOf[p]
  BY <1>0, <1>1 DEF ThreadsTyped
<1>6. ThreadsTyped'
  BY <1>0, <1>1, <1>3, <1>4 DEF ThreadsTyped
<1>7. Registries'
  <2>1. T!Members(registry'["thread"]) = T!Members(registry["thread"])
    BY <1>2, <1>3, Apart
  <2>2. ASSUME NEW j \in Kinds
        PROVE  T!Members(registry'[j]) = {p \in Object : kindOf'[p] = j}
    <3>1. T!Members(registry'[j]) = T!Members(registry[j]) \cup (IF j = k THEN {o} ELSE {})
      BY <1>3, Apart
    <3>2. T!Members(registry[j]) = {p \in Object : kindOf[p] = j}
      BY <1>0 DEF Registries
    <3> QED BY <1>1, <1>4, <3>1, <3>2, Apart
  <2> QED BY <1>0, <1>1, <1>3, <2>1, <2>2 DEF Registries
<1>8. Waits'
  BY <1>0, <1>1, WaitsStay DEF Waits
<1>9. RunsBorn'
  BY <1>0, <1>1, RunsStay
<1> QED BY <1>6, <1>7, <1>8, <1>9 DEF ThreadInv

\* rt_sem_detach and its like.
LEMMA DeleteObjectInv ==
  ASSUME ThreadInv, NEW o \in Object, T!DeleteObject(o)
  PROVE  ThreadInv'
<1>0. ThreadsTyped /\ Registries /\ Waits /\ RunsBorn
  BY DEF ThreadInv
<1>k. PICK k : k = kindOf[o]
  OBVIOUS
<1>1. /\ k # "none" /\ kindOf' = [kindOf EXCEPT ![o] = "none"]
      /\ registry' = [registry EXCEPT ![k] = T!Without(@, o)]
      /\ UNCHANGED <<waitList, stat, oncpu, currentOf, selected, handle, step>>
  BY <1>k DEF T!DeleteObject
<1>2. k \in Kinds /\ k \in T!Classes /\ k # "thread"
  BY <1>0, <1>1, <1>k, Apart DEF ThreadsTyped
<1>3. /\ registry' \in [T!Classes -> Seq(T!Address)]
      /\ \A d \in T!Classes : Distinct(registry'[d])
      /\ \A d \in T!Classes :
           T!Members(registry'[d]) = T!Members(registry[d]) \ (IF d = k THEN {o} ELSE {})
  BY <1>0, <1>1, <1>2, UnregisterStep
<1>4. kindOf' \in [Object -> Kinds \cup {"none"}] /\ kindOf'[o] = "none"
      /\ \A p \in Object \ {o} : kindOf'[p] = kindOf[p]
  BY <1>0, <1>1 DEF ThreadsTyped
<1>6. ThreadsTyped'
  BY <1>0, <1>1, <1>3, <1>4 DEF ThreadsTyped
<1>7. Registries'
  <2>1. T!Members(registry'["thread"]) = T!Members(registry["thread"])
    BY <1>2, <1>3, Apart
  <2>2. ASSUME NEW j \in Kinds
        PROVE  T!Members(registry'[j]) = {p \in Object : kindOf'[p] = j}
    <3>1. T!Members(registry'[j]) = T!Members(registry[j]) \ (IF j = k THEN {o} ELSE {})
      BY <1>3, Apart
    <3>2. T!Members(registry[j]) = {p \in Object : kindOf[p] = j}
      BY <1>0 DEF Registries
    <3> QED BY <1>1, <1>k, <1>4, <3>1, <3>2, Apart
  <2> QED BY <1>0, <1>1, <1>3, <2>1, <2>2 DEF Registries
<1>8. Waits'
  BY <1>0, <1>1, WaitsStay DEF Waits
<1>9. RunsBorn'
  BY <1>0, <1>1, RunsStay
<1> QED BY <1>6, <1>7, <1>8, <1>9 DEF ThreadInv

\* rt_thread_exit.
LEMMA ExitInv ==
  ASSUME ThreadInv, NEW t \in Thread, NEW static \in BOOLEAN, T!Exit(t, static)
  PROVE  ThreadInv'
<1>0. ThreadsTyped /\ Registries /\ Waits /\ RunsBorn
  BY DEF ThreadInv
<1>1. /\ stat[t] = "Running" /\ step[t] = T!NoStep /\ stat' = [stat EXCEPT ![t] = "Close"]
      /\ registry' = IF static THEN [registry EXCEPT !["thread"] = T!Without(@, t)] ELSE registry
      /\ UNCHANGED <<kindOf, waitList, oncpu, currentOf, selected, handle, step>>
  BY DEF T!Exit, T!NotMoving
<1>4. stat \in [Thread -> States] /\ stat' \in [Thread -> States]
  BY <1>0, <1>1 DEF ThreadsTyped, States
<1>5. stat'[t] = "Close" /\ \A u \in Thread \ {t} : stat'[u] = stat[u]
  BY <1>1, <1>4
<1>8. Waits'
  BY <1>0, <1>1, <1>5, WaitsStay DEF Waits
<1>9. RunsBorn'
  BY <1>0, <1>1, <1>5, RunsStay
<1>10. CASE static
  <2>1. registry' = [registry EXCEPT !["thread"] = T!Without(@, t)]
    BY <1>1, <1>10
  <2>2. /\ registry' \in [T!Classes -> Seq(T!Address)]
        /\ \A d \in T!Classes : Distinct(registry'[d])
        /\ \A d \in T!Classes :
             T!Members(registry'[d]) = T!Members(registry[d]) \ (IF d = "thread" THEN {t} ELSE {})
    BY <1>0, <2>1, Apart, UnregisterStep
  <2>3. ThreadsTyped'
    BY <1>0, <1>1, <1>4, <2>2 DEF ThreadsTyped
  <2>4. T!Members(registry'["thread"]) = T!Members(registry["thread"]) \ {t}
    BY <2>2, Apart
  <2>5. \A k \in Kinds : T!Members(registry'[k]) = T!Members(registry[k])
    BY <2>2, Apart
  <2>6. Registries'
    BY <1>0, <1>1, <1>5, <2>2, <2>4, <2>5 DEF Registries
  <2> QED BY <1>8, <1>9, <2>3, <2>6 DEF ThreadInv
<1>11. CASE ~static
  <2>1. registry' = registry
    BY <1>1, <1>11
  <2>2. ThreadsTyped'
    BY <1>0, <1>1, <1>4, <2>1 DEF ThreadsTyped
  <2>3. Registries'
    BY <1>0, <1>1, <1>5, <2>1, RegistriesStay
  <2> QED BY <1>8, <1>9, <2>2, <2>3 DEF ThreadInv
<1> QED BY <1>10, <1>11

\* The idle thread reaps a thread that no CPU runs.
LEMMA ReapInv ==
  ASSUME ThreadInv, NEW t \in Thread, T!Reap(t)
  PROVE  ThreadInv'
<1>0. ThreadsTyped /\ Registries /\ Waits /\ RunsBorn
  BY DEF ThreadInv
<1>1. /\ stat[t] = "Close" /\ stat' = [stat EXCEPT ![t] = "Unborn"]
      /\ \A c \in T!Cpus : currentOf[c] # t /\ oncpu[t] # c
      /\ registry' = [registry EXCEPT !["thread"] = T!Without(@, t)]
      /\ UNCHANGED <<kindOf, waitList, oncpu, currentOf, selected, handle, step>>
  BY DEF T!Reap
<1>2. /\ registry' \in [T!Classes -> Seq(T!Address)]
      /\ \A d \in T!Classes : Distinct(registry'[d])
      /\ \A d \in T!Classes :
           T!Members(registry'[d]) = T!Members(registry[d]) \ (IF d = "thread" THEN {t} ELSE {})
  BY <1>0, <1>1, Apart, UnregisterStep
<1>4. stat \in [Thread -> States] /\ stat' \in [Thread -> States]
  BY <1>0, <1>1 DEF ThreadsTyped, States
<1>5. stat'[t] = "Unborn" /\ \A u \in Thread \ {t} : stat'[u] = stat[u]
  BY <1>1, <1>4
<1>6. ThreadsTyped'
  BY <1>0, <1>1, <1>2, <1>4 DEF ThreadsTyped
<1>7. Registries'
  <2>1. T!Members(registry'["thread"]) = T!Members(registry["thread"]) \ {t}
    BY <1>2, Apart
  <2>2. \A k \in Kinds : T!Members(registry'[k]) = T!Members(registry[k])
    BY <1>2, Apart
  <2> QED BY <1>0, <1>1, <1>2, <1>5, <2>1, <2>2 DEF Registries
<1>8. Waits'
  BY <1>0, <1>1, <1>5, WaitsStay DEF Waits
<1>9. RunsBorn'
  <2>1. \A c \in T!Cpus : currentOf[c] \in Thread \cup {T!Null}
    BY <1>0 DEF ThreadsTyped
  <2> QED BY <1>0, <1>1, <1>5, <2>1 DEF RunsBorn
<1> QED BY <1>6, <1>7, <1>8, <1>9 DEF ThreadInv

\* rt_thread_startup.
LEMMA StartupInv ==
  ASSUME ThreadInv, NEW t \in Thread, T!Startup(t)
  PROVE  ThreadInv'
<1>0. ThreadsTyped /\ Registries /\ Waits /\ RunsBorn
  BY DEF ThreadInv
<1>1. /\ stat[t] = "Init" /\ stat' = [stat EXCEPT ![t] = "Ready"]
      /\ UNCHANGED <<registry, kindOf, waitList, oncpu, currentOf, selected, handle, step>>
  BY DEF T!Startup
<1>4. stat \in [Thread -> States] /\ stat' \in [Thread -> States]
  BY <1>0, <1>1 DEF ThreadsTyped, States
<1>5. stat'[t] = "Ready" /\ \A u \in Thread \ {t} : stat'[u] = stat[u]
  BY <1>1, <1>4
<1>6. ThreadsTyped'
  BY <1>0, <1>1, <1>4 DEF ThreadsTyped
<1>7. Registries'
  BY <1>0, <1>1, <1>5, RegistriesStay
<1>8. Waits'
  BY <1>0, <1>1, <1>5, WaitsStay DEF Waits
<1>9. RunsBorn'
  BY <1>0, <1>1, <1>5, RunsStay
<1> QED BY <1>6, <1>7, <1>8, <1>9 DEF ThreadInv

\* The program keeps a handle, or the user selects a CPU.
LEMMA AsideInv ==
  ASSUME ThreadInv, \/ \E h \in Handle, o \in Object : T!Keep(h, o)
                    \/ \E c \in T!Cpus : T!Select(c)
  PROVE  ThreadInv'
<1>0. ThreadsTyped /\ Registries /\ Waits /\ RunsBorn
  BY DEF ThreadInv
<1>1. UNCHANGED <<registry, kindOf, waitList, stat, oncpu, currentOf, step>>
  BY DEF T!Keep, T!Select
<1>2. selected' \in T!Cpus /\ handle' \in [Handle -> Object \cup {T!Null}]
  BY <1>0 DEF T!Keep, T!Select, ThreadsTyped
<1>6. ThreadsTyped'
  BY <1>0, <1>1, <1>2 DEF ThreadsTyped
<1>7. Registries'
  BY <1>0, <1>1, RegistriesStay
<1>8. Waits'
  BY <1>0, <1>1, WaitsStay DEF Waits
<1>9. RunsBorn'
  BY <1>0, <1>1, RunsStay
<1> QED BY <1>6, <1>7, <1>8, <1>9 DEF ThreadInv

\* A running thread is suspended, to wait for an object or for time.
LEMMA SuspendInv ==
  ASSUME ThreadInv, NEW t \in Thread,
         T!Delay(t) \/ \E o \in Object, f \in T!Fields : T!Suspend(t, o, f)
  PROVE  ThreadInv'
<1>0. ThreadsTyped /\ Registries /\ Waits /\ RunsBorn
  BY DEF ThreadInv
<1>1. /\ stat[t] = "Running" /\ stat' = [stat EXCEPT ![t] = "Suspend"]
      /\ UNCHANGED <<registry, kindOf, waitList, oncpu, currentOf, selected, handle>>
  BY DEF T!Delay, T!Suspend
<1>2. step' = step \/ \E o \in Object, f \in T!Fields : step' = [step EXCEPT ![t] = T!At("enter", o, f)]
  BY DEF T!Delay, T!Suspend
<1>3. step' \in [Thread -> Steps] /\ \A u \in Thread \ {t} : step'[u] = step[u]
  <2>1. step \in [Thread -> Steps]
    BY <1>0 DEF ThreadsTyped
  <2> QED BY <1>2, <2>1, StepsApart
<1>4. stat \in [Thread -> States] /\ stat' \in [Thread -> States]
  BY <1>0, <1>1 DEF ThreadsTyped, States
<1>5. stat'[t] = "Suspend" /\ \A u \in Thread \ {t} : stat'[u] = stat[u]
  BY <1>1, <1>4
<1>6. ThreadsTyped'
  BY <1>0, <1>1, <1>3, <1>4 DEF ThreadsTyped
<1>7. Registries'
  BY <1>0, <1>1, <1>5, RegistriesStay
<1>8. Waits'
  <2>1. \A u \in Thread : step[u] # T!NoStep => stat[u] = "Suspend"
    BY <1>0 DEF Waits
  <2> QED BY <1>0, <1>1, <1>3, <1>5, <2>1, WaitsStay
<1>9. RunsBorn'
  BY <1>0, <1>1, <1>5, RunsStay
<1> QED BY <1>6, <1>7, <1>8, <1>9 DEF ThreadInv

\* It is made ready again, off every list.
LEMMA ResumeInv ==
  ASSUME ThreadInv, NEW t \in Thread, T!Resume(t)
  PROVE  ThreadInv'
<1>0. ThreadsTyped /\ Registries /\ Waits /\ RunsBorn
  BY DEF ThreadInv
<1>1. /\ step[t].call = "resume" /\ step' = [step EXCEPT ![t] = T!NoStep]
      /\ stat' = [stat EXCEPT ![t] = IF T!Running(t) THEN "Running" ELSE "Ready"]
      /\ UNCHANGED <<registry, kindOf, waitList, oncpu, currentOf, selected, handle>>
  BY DEF T!Resume
<1>2. step[t] # T!NoStep
  BY <1>1, StepsApart
<1>3. stat[t] = "Suspend"
  BY <1>0, <1>2 DEF Waits
<1>4. stat \in [Thread -> States] /\ stat' \in [Thread -> States]
  BY <1>0, <1>1 DEF ThreadsTyped, States
<1>5. stat'[t] \in {"Running", "Ready"} /\ \A u \in Thread \ {t} : stat'[u] = stat[u]
  BY <1>1, <1>4
<1>10. /\ step \in [Thread -> Steps] /\ step' \in [Thread -> Steps] /\ step'[t] = T!NoStep
       /\ \A u \in Thread \ {t} : step'[u] = step[u]
  BY <1>0, <1>1, StepsApart DEF ThreadsTyped
<1>6. ThreadsTyped'
  BY <1>0, <1>1, <1>4, <1>10 DEF ThreadsTyped
<1>7. Registries'
  BY <1>0, <1>1, <1>3, <1>5, RegistriesStay
<1>8. Waits'
  <2>1. \A u \in Thread : step[u] # T!NoStep => stat[u] = "Suspend"
    BY <1>0 DEF Waits
  <2> QED BY <1>0, <1>1, <1>2, <1>5, <1>10, <2>1, WaitsStay
<1>9. RunsBorn'
  BY <1>0, <1>1, <1>3, <1>5, RunsStay
<1> QED BY <1>6, <1>7, <1>8, <1>9 DEF ThreadInv

\* rt_schedule writes the CPU fields.
LEMMA SwitchFieldsInv ==
  ASSUME ThreadInv, NEW t \in Thread, NEW c \in T!Cpus, T!SwitchFields(c, t)
  PROVE  ThreadInv'
<1>0. ThreadsTyped /\ Registries /\ Waits /\ RunsBorn
  BY DEF ThreadInv
<1>f. PICK from : from = currentOf[c]
  OBVIOUS
<1>1. /\ stat[t] = "Ready" /\ step[t] = T!NoStep
      /\ oncpu' = [u \in Thread |-> IF u = t THEN c ELSE IF u = from THEN T!Detached ELSE oncpu[u]]
      /\ stat' = [u \in Thread |-> IF u = t THEN "Running"
                                   ELSE IF u = from /\ stat[u] = "Running" THEN "Ready" ELSE stat[u]]
      /\ UNCHANGED <<registry, kindOf, waitList, currentOf, selected, handle, step>>
  BY <1>f DEF T!SwitchFields, T!NotMoving
<1>4. stat \in [Thread -> States] /\ stat' \in [Thread -> States]
  BY <1>0, <1>1 DEF ThreadsTyped, States
<1>5. stat'[t] = "Running"
      /\ \A u \in Thread \ {t} : stat'[u] = stat[u] \/ (stat[u] = "Running" /\ stat'[u] = "Ready")
  BY <1>1
<1>10. oncpu' \in [Thread -> T!Cpus \cup {T!Detached}]
       /\ \A u \in Thread \ {t} : oncpu'[u] = oncpu[u] \/ oncpu'[u] = T!Detached
  BY <1>0, <1>1 DEF ThreadsTyped
<1>6. ThreadsTyped'
  BY <1>0, <1>1, <1>4, <1>10 DEF ThreadsTyped
<1>7. Registries'
  BY <1>0, <1>1, <1>5, RegistriesStay
<1>8. Waits'
  <2>1. \A u \in Thread : step[u] # T!NoStep => stat[u] = "Suspend"
    BY <1>0 DEF Waits
  <2> QED BY <1>0, <1>1, <1>5, <2>1, WaitsStay
<1>9. RunsBorn'
  <2>1. \A u \in Thread : stat[u] # "Unborn" => stat'[u] # "Unborn"
    BY <1>5
  <2>2. \A d \in T!Cpus : currentOf[d] \in Thread \cup {T!Null}
    BY <1>0 DEF ThreadsTyped
  <2>3. ASSUME NEW u \in Thread, oncpu'[u] \in T!Cpus PROVE stat'[u] # "Unborn"
    <3>1. CASE u = t
      BY <1>5, <3>1
    <3>2. CASE u # t
      <4>1. oncpu[u] \in T!Cpus
        BY <1>10, <2>3, <3>2, Apart
      <4> QED BY <1>0, <2>1, <4>1 DEF RunsBorn
    <3> QED BY <3>1, <3>2
  <2> QED BY <1>0, <1>1, <2>1, <2>2, <2>3 DEF RunsBorn
<1> QED BY <1>6, <1>7, <1>8, <1>9 DEF ThreadInv

\* rt_schedule writes the current thread of the CPU.
LEMMA SwitchCurrentInv ==
  ASSUME ThreadInv, NEW c \in T!Cpus, T!SwitchCurrent(c)
  PROVE  ThreadInv'
<1>0. ThreadsTyped /\ Registries /\ Waits /\ RunsBorn
  BY DEF ThreadInv
<1>1. PICK t \in Thread :
        /\ oncpu[t] = c /\ currentOf' = [currentOf EXCEPT ![c] = t]
        /\ UNCHANGED <<registry, kindOf, waitList, stat, oncpu, selected, handle, step>>
  BY DEF T!SwitchCurrent
<1>2. currentOf' \in [T!Cpus -> Thread \cup {T!Null}] /\ currentOf'[c] = t
      /\ \A d \in T!Cpus \ {c} : currentOf'[d] = currentOf[d]
  BY <1>0, <1>1 DEF ThreadsTyped
<1>6. ThreadsTyped'
  BY <1>0, <1>1, <1>2 DEF ThreadsTyped
<1>7. Registries'
  BY <1>0, <1>1, RegistriesStay
<1>8. Waits'
  BY <1>0, <1>1, WaitsStay DEF Waits
<1>9. RunsBorn'
  <2>1. ASSUME NEW d \in T!Cpus, currentOf'[d] # T!Null PROVE stat[currentOf'[d]] # "Unborn"
    <3>1. CASE d = c
      BY <1>0, <1>1, <1>2, <3>1 DEF RunsBorn
    <3>2. CASE d # c
      BY <1>0, <1>2, <2>1, <3>2 DEF RunsBorn
    <3> QED BY <3>1, <3>2
  <2> QED BY <1>0, <1>1, <2>1 DEF RunsBorn
<1> QED BY <1>6, <1>7, <1>8, <1>9 DEF ThreadInv

\* rt_ipc_list_suspend: the thread is linked into the one list it is to wait on.
LEMMA EnterInv ==
  ASSUME ThreadInv, NEW t \in Thread, T!Enter(t)
  PROVE  ThreadInv'
<1>0. ThreadsTyped /\ Registries /\ Waits /\ RunsBorn
  BY DEF ThreadInv
<1>w. PICK old, new : old = waitList /\ new = waitList'
  OBVIOUS
<1>a. PICK o \in Object, f \in T!Fields :
        /\ step[t] = T!At("enter", o, f)
        /\ \E i \in 0..Len(old[o][f]) :
             new = [old EXCEPT ![o][f] = SubSeq(@, 1, i) \o <<t>> \o SubSeq(@, i + 1, Len(@))]
        /\ step' = [step EXCEPT ![t] = T!NoStep]
        /\ UNCHANGED <<registry, kindOf, stat, oncpu, currentOf, selected, handle>>
  BY <1>w DEF T!Enter
<1>1. PICK k \in 0..Len(old[o][f]) :
        /\ step[t] = T!At("enter", o, f)
        /\ new = [old EXCEPT ![o][f] = SubSeq(@, 1, k) \o <<t>> \o SubSeq(@, k + 1, Len(@))]
        /\ step' = [step EXCEPT ![t] = T!NoStep]
        /\ UNCHANGED <<registry, kindOf, stat, oncpu, currentOf, selected, handle>>
  BY <1>a
<1>2. old \in [Object -> [T!Fields -> Seq(Thread)]]
  BY <1>0, <1>w DEF ThreadsTyped
<1>3. PICK s : s = old[o][f]
  OBVIOUS
<1>4. s \in Seq(Thread) /\ k \in 0..Len(s) /\ Distinct(s)
  BY <1>0, <1>1, <1>2, <1>3, <1>w DEF Waits
<1>5. step[t] # T!NoStep /\ stat[t] = "Suspend"
  BY <1>0, <1>1, StepsApart DEF Waits
<1>6. \A p \in Object, g \in T!Fields : t \notin T!Members(old[p][g])
  BY <1>0, <1>5, <1>w DEF Waits, On
<1>7. PICK r : r = SubSeq(s, 1, k) \o <<t>> \o SubSeq(s, k + 1, Len(s))
  OBVIOUS
<1>8. r \in Seq(Thread) /\ Inserted(r, s, k, t)
  BY <1>4, <1>7, InsertedIs
<1>9. T!Members(r) = T!Members(s) \cup {t} /\ Distinct(r)
  BY <1>3, <1>4, <1>6, <1>8, Linked
<1>10. new = [old EXCEPT ![o][f] = r]
  BY <1>1, <1>3, <1>7
<1>11. /\ new \in [Object -> [T!Fields -> Seq(Thread)]] /\ new[o][f] = r
       /\ \A p \in Object, g \in T!Fields : p # o \/ g # f => new[p][g] = old[p][g]
  BY <1>2, <1>8, <1>10
<1>12. /\ step \in [Thread -> Steps] /\ step' \in [Thread -> Steps] /\ step'[t] = T!NoStep
       /\ \A u \in Thread \ {t} : step'[u] = step[u]
  BY <1>0, <1>1, StepsApart DEF ThreadsTyped
<1>13. ThreadsTyped'
  BY <1>0, <1>1, <1>11, <1>12, <1>w DEF ThreadsTyped
<1>14. Registries'
  BY <1>0, <1>1, RegistriesStay
<1>15. \A u \in Thread \ {t}, p \in Object, g \in T!Fields :
          u \in T!Members(new[p][g]) <=> u \in T!Members(old[p][g])
  BY <1>3, <1>9, <1>11
<1>16. \A p \in Object, g \in T!Fields : t \in T!Members(new[p][g]) => p = o /\ g = f
  BY <1>6, <1>11
<1>17. Waits'
  <2>1. \A p \in Object, g \in T!Fields : Distinct(new[p][g])
    BY <1>0, <1>9, <1>11, <1>w DEF Waits
  <2>2. ASSUME NEW u \in Thread, NEW p \in Object, NEW g \in T!Fields, u \in T!Members(new[p][g])
        PROVE  stat'[u] = "Suspend" /\ step'[u] = T!NoStep
    <3>1. CASE u = t
      BY <1>1, <1>5, <1>12, <3>1
    <3>2. CASE u # t
      <4>1. u \in T!Members(waitList[p][g])
        BY <1>15, <1>w, <2>2, <3>2
      <4> QED BY <1>0, <1>1, <1>12, <3>2, <4>1 DEF Waits, On
    <3> QED BY <3>1, <3>2
  <2>3. ASSUME NEW u \in Thread, NEW p \in Object, NEW q \in Object, NEW g \in T!Fields, NEW h \in T!Fields,
               u \in T!Members(new[p][g]), u \in T!Members(new[q][h])
        PROVE  p = q /\ g = h
    <3>1. CASE u = t
      BY <1>16, <2>3, <3>1
    <3>2. CASE u # t
      <4>1. u \in T!Members(waitList[p][g]) /\ u \in T!Members(waitList[q][h])
        BY <1>15, <1>w, <2>3, <3>2
      <4> QED BY <1>0, <4>1 DEF Waits, On
    <3> QED BY <3>1, <3>2
  <2>4. \A u \in Thread : step'[u] # T!NoStep => stat'[u] = "Suspend"
    BY <1>0, <1>1, <1>12 DEF Waits
  <2> QED BY <1>w, <2>1, <2>2, <2>3, <2>4 DEF Waits, On
<1>18. RunsBorn'
  BY <1>0, <1>1, RunsStay
<1> QED BY <1>13, <1>14, <1>17, <1>18 DEF ThreadInv

\* rt_thread_resume takes it off the list it is on.
LEMMA UnlinkInv ==
  ASSUME ThreadInv, NEW t \in Thread, T!Unlink(t)
  PROVE  ThreadInv'
<1>0. ThreadsTyped /\ Registries /\ Waits /\ RunsBorn
  BY DEF ThreadInv
<1>w. PICK old, new : old = waitList /\ new = waitList'
  OBVIOUS
<1>1. /\ stat[t] = "Suspend"
      /\ new = [o \in Object |-> [f \in T!Fields |-> T!Without(old[o][f], t)]]
      /\ step' = [step EXCEPT ![t] = T!At("resume", T!Null, T!Null)]
      /\ UNCHANGED <<registry, kindOf, stat, oncpu, currentOf, selected, handle>>
  <2>1. new = [o \in Object |-> [f \in T!Fields |-> T!Without(old[o][f], t)]]
    <3>1. waitList' = [o \in Object |-> [f \in T!Fields |-> T!Without(waitList[o][f], t)]]
      BY DEF T!Unlink
    <3> QED BY <1>w, <3>1, Zenon
  <2>2. /\ stat[t] = "Suspend" /\ step' = [step EXCEPT ![t] = T!At("resume", T!Null, T!Null)]
        /\ UNCHANGED <<registry, kindOf, stat, oncpu, currentOf, selected, handle>>
    BY DEF T!Unlink
  <2> QED BY <2>1, <2>2
<1>2. \A o \in Object, f \in T!Fields : old[o][f] \in Seq(Thread) /\ Distinct(old[o][f])
  BY <1>0, <1>w DEF ThreadsTyped, Waits
<1>3. ASSUME NEW o \in Object, NEW f \in T!Fields
      PROVE  /\ T!Without(old[o][f], t) \in Seq(Thread) /\ Distinct(T!Without(old[o][f], t))
             /\ T!Members(T!Without(old[o][f], t)) = T!Members(old[o][f]) \ {t}
  BY <1>2, Unlinked
<1>4. \A o \in Object, f \in T!Fields :
        /\ new[o][f] \in Seq(Thread) /\ Distinct(new[o][f])
        /\ T!Members(new[o][f]) = T!Members(old[o][f]) \ {t}
  BY <1>1, <1>3
<1>5. new \in [Object -> [T!Fields -> Seq(Thread)]]
  BY <1>1, <1>3
<1>12. /\ step \in [Thread -> Steps] /\ step' \in [Thread -> Steps]
       /\ \A u \in Thread \ {t} : step'[u] = step[u]
  BY <1>0, <1>1 DEF ThreadsTyped, Steps
<1>13. ThreadsTyped'
  BY <1>0, <1>1, <1>5, <1>12, <1>w DEF ThreadsTyped
<1>14. Registries'
  BY <1>0, <1>1, RegistriesStay
<1>15. \A u \in Thread, p \in Object, g \in T!Fields :
          u \in T!Members(new[p][g]) => u # t /\ u \in T!Members(waitList[p][g])
  BY <1>4, <1>w
<1>17. Waits'
  <2>2. \A u \in Thread, p \in Object, g \in T!Fields :
          u \in T!Members(new[p][g]) => stat'[u] = "Suspend" /\ step'[u] = T!NoStep
    BY <1>0, <1>1, <1>12, <1>15 DEF Waits, On
  <2>3. \A u \in Thread, p, q \in Object, g, h \in T!Fields :
          u \in T!Members(new[p][g]) /\ u \in T!Members(new[q][h]) => p = q /\ g = h
    BY <1>0, <1>15 DEF Waits, On
  <2>4. \A u \in Thread : step'[u] # T!NoStep => stat'[u] = "Suspend"
    BY <1>0, <1>1, <1>12 DEF Waits
  <2> QED BY <1>4, <1>w, <2>2, <2>3, <2>4 DEF Waits, On
<1>18. RunsBorn'
  BY <1>0, <1>1, RunsStay
<1> QED BY <1>13, <1>14, <1>17, <1>18 DEF ThreadInv

\* Every step of the kernel and of the user.
LEMMA ThreadNext ==
  ASSUME ThreadInv, T!Next
  PROVE  ThreadInv'
<1>1. \/ \E t \in Thread :
           \/ T!CreateThread(t) \/ T!Startup(t) \/ T!Enter(t) \/ T!Delay(t) \/ T!Unlink(t) \/ T!Resume(t)
           \/ T!Reap(t)
           \/ \E static \in BOOLEAN : T!Exit(t, static)
           \/ \E o \in Object, f \in T!Fields : T!Suspend(t, o, f)
           \/ \E c \in T!Cpus : T!SwitchFields(c, t)
      \/ \E o \in Object : \/ T!DeleteObject(o) \/ (\E k \in Kinds : T!CreateObject(o, k))
                           \/ \E h \in Handle : T!Keep(h, o)
      \/ \E c \in T!Cpus : T!SwitchCurrent(c) \/ T!Select(c)
  BY DEF T!Next
<1>2. ASSUME NEW t \in Thread, T!CreateThread(t) PROVE ThreadInv'
  BY <1>2, CreateThreadInv
<1>3. ASSUME NEW t \in Thread, T!Startup(t) PROVE ThreadInv'
  BY <1>3, StartupInv
<1>4. ASSUME NEW t \in Thread, T!Enter(t) PROVE ThreadInv'
  BY <1>4, EnterInv
<1>5. ASSUME NEW t \in Thread, T!Delay(t) PROVE ThreadInv'
  BY <1>5, SuspendInv
<1>6. ASSUME NEW t \in Thread, T!Unlink(t) PROVE ThreadInv'
  BY <1>6, UnlinkInv
<1>7. ASSUME NEW t \in Thread, T!Resume(t) PROVE ThreadInv'
  BY <1>7, ResumeInv
<1>8. ASSUME NEW t \in Thread, T!Reap(t) PROVE ThreadInv'
  BY <1>8, ReapInv
<1>9. ASSUME NEW t \in Thread, NEW static \in BOOLEAN, T!Exit(t, static) PROVE ThreadInv'
  BY <1>9, ExitInv
<1>10. ASSUME NEW t \in Thread, NEW o \in Object, NEW f \in T!Fields, T!Suspend(t, o, f) PROVE ThreadInv'
  BY <1>10, SuspendInv
<1>11. ASSUME NEW t \in Thread, NEW c \in T!Cpus, T!SwitchFields(c, t) PROVE ThreadInv'
  BY <1>11, SwitchFieldsInv
<1>12. ASSUME NEW o \in Object, T!DeleteObject(o) PROVE ThreadInv'
  BY <1>12, DeleteObjectInv
<1>13. ASSUME NEW o \in Object, NEW k \in Kinds, T!CreateObject(o, k) PROVE ThreadInv'
  BY <1>13, CreateObjectInv
<1>14. ASSUME NEW o \in Object, NEW h \in Handle, T!Keep(h, o) PROVE ThreadInv'
  BY <1>14, AsideInv
<1>15. ASSUME NEW c \in T!Cpus, T!SwitchCurrent(c) PROVE ThreadInv'
  BY <1>15, SwitchCurrentInv
<1>16. ASSUME NEW c \in T!Cpus, T!Select(c) PROVE ThreadInv'
  BY <1>16, AsideInv
<1> QED BY <1>1, <1>2, <1>3, <1>4, <1>5, <1>6, <1>7, <1>8, <1>9, <1>10, <1>11, <1>12, <1>13, <1>14, <1>15, <1>16

\* The rest of a target moves nothing of the threads.
LEMMA ThreadStays ==
  ASSUME ThreadInv, UNCHANGED threadVars
  PROVE  ThreadInv'
<1>0. ThreadsTyped /\ Registries /\ Waits /\ RunsBorn
  BY DEF ThreadInv
<1>1. UNCHANGED <<registry, kindOf, waitList, stat, oncpu, currentOf, selected, handle, step>>
  BY DEF threadVars
<1>2. ThreadsTyped'
  BY <1>0, <1>1 DEF ThreadsTyped
<1>3. Registries'
  BY <1>0, <1>1, RegistriesStay
<1>4. Waits'
  BY <1>0, <1>1, WaitsStay DEF Waits
<1>5. RunsBorn'
  BY <1>0, <1>1, RunsStay
<1> QED BY <1>2, <1>3, <1>4, <1>5 DEF ThreadInv

\* The inductive invariant: no object is registered twice or in two classes, and
\* a thread on a wait list is suspended, at no step of a call and on no other
\* list, whatever the kernel calls of the others are at (ipc.c, thread.c).
THEOREM TargetInvHolds == Spec => []TargetInv
<1>1. Init => TargetInv
  <2>1. ASSUME Init, part = "threads" PROVE T!Init
    BY <2>1 DEF Init
  <2> QED BY <2>1, ThreadInit DEF TargetInv
<1>2. TargetInv /\ [Next]_vars => TargetInv'
  <2>1. ASSUME TargetInv, part' = "threads", [Next]_vars PROVE ThreadInv'
    <3>1. part = "threads" /\ (T!Next \/ UNCHANGED threadVars)
      BY <2>1 DEF Next, vars
    <3>2. ThreadInv
      BY <2>1, <3>1 DEF TargetInv
    <3> QED BY <3>1, <3>2, ThreadNext, ThreadStays
  <2> QED BY <2>1 DEF TargetInv
<1> QED BY <1>1, <1>2, PTL DEF Spec

-----------------------------------------------------------------------------
\* What is shown.

\* The count of the instance is that of the library.
LEMMA SameCount ==
  ASSUME NEW S
  PROVE  T!Cardinality(S) = Cardinality(S)
BY DEF T!Cardinality, Cardinality

\* A set whose members are all the same one.
LEMMA AtMostOne ==
  ASSUME NEW S, \A x, y \in S : x = y
  PROVE  Cardinality(S) <= 1
<1>1. CASE S = {}
  <2>1. Cardinality(S) = 0
    BY <1>1, FS_EmptySet
  <2> QED BY <2>1
<1>2. CASE S # {}
  <2>1. PICK x : x \in S
    BY <1>2
  <2>2. S = {x}
    BY <2>1
  <2>3. Cardinality(S) = 1
    BY <2>2, FS_Singleton
  <2> QED BY <2>3
<1> QED BY <1>1, <1>2

\* The row of a registered thread.
LEMMA TaskRows ==
  ASSUME ThreadInv, NEW i \in DOMAIN T!TaskTable
  PROVE  /\ i \in DOMAIN registry["thread"] /\ registry["thread"][i] \in Thread
         /\ T!TaskTable[i] = T!TaskView(registry["thread"][i])
<1>1. i \in DOMAIN registry["thread"] /\ T!TaskTable[i] = T!TaskView(registry["thread"][i])
  BY DEF T!TaskTable
<1>2. registry["thread"][i] \in Thread
  BY <1>1 DEF ThreadInv, Registries, T!Members
<1> QED BY <1>1, <1>2

\* What a row says of the CPUs.
LEMMA TaskRow ==
  ASSUME ThreadInv, NEW t \in Thread
  PROVE  /\ T!TaskView(t).addr = t /\ T!TaskView(t).state = stat[t]
         /\ T!TaskView(t).core # {} <=> currentOf[selected] = t
         /\ T!TaskView(t).pc = "saved" => ~T!Running(t) \/ CpuCount = 1
         /\ T!TaskView(t).pc = "none" => currentOf[selected] # t
<1>1. t \in T!CurrentThread <=> currentOf[selected] = t
  BY Apart DEF T!CurrentThread
<1>2. PICK core : core = T!Core(t)
  OBVIOUS
<1>3. core = {} => CpuCount = 1 \/ ~T!Running(t)
  BY <1>2 DEF T!Core, T!Running
<1>4. T!TaskView(t) =
        [name |-> NameOf[t], addr |-> t, state |-> stat[t],
         core |-> IF t \notin T!CurrentThread THEN {} ELSE IF core # {} THEN core ELSE {0},
         pc |-> IF t \in T!CurrentThread THEN "frame" ELSE IF core # {} THEN "none" ELSE "saved"]
  BY <1>2 DEF T!TaskView
<1> QED BY <1>1, <1>3, <1>4

\* In every state that the invariant holds in, the current thread is one.
LEMMA CurrentFollows ==
  ASSUME ThreadInv
  PROVE  T!CurrentIsOne
<1>0. ThreadsTyped /\ Registries /\ RunsBorn
  BY DEF ThreadInv
<1>1. PICK rows : rows = T!TaskTable
  OBVIOUS
<1>2. PICK cur : cur = currentOf[selected]
  OBVIOUS
<1>3. cur \in Thread \cup {T!Null}
  BY <1>0, <1>2 DEF ThreadsTyped
<1>4. ASSUME NEW i \in DOMAIN rows
      PROVE  /\ i \in DOMAIN registry["thread"] /\ rows[i].addr = registry["thread"][i]
             /\ rows[i].core # {} <=> cur = rows[i].addr
             /\ rows[i].pc = "saved" => ~T!Running(rows[i].addr) \/ CpuCount = 1
             /\ rows[i].pc = "none" => cur # rows[i].addr
  <2>1. PICK t : t = registry["thread"][i]
    OBVIOUS
  <2>2. i \in DOMAIN registry["thread"] /\ t \in Thread /\ rows[i] = T!TaskView(t)
    BY <1>1, <2>1, TaskRows
  <2> QED BY <1>2, <2>1, <2>2, TaskRow
<1>5. Cardinality({i \in DOMAIN rows : rows[i].core # {}}) <= 1
  <2>1. Distinct(registry["thread"])
    BY <1>0, Apart DEF Registries
  <2>2. \A i, j \in {k \in DOMAIN rows : rows[k].core # {}} : i = j
    BY <1>4, <2>1 DEF Distinct
  <2> QED BY <2>2, AtMostOne
<1>6. \A r \in T!Members(rows) :
        /\ r.core # {} <=> cur = r.addr
        /\ r.pc = "saved" => ~T!Running(r.addr) \/ CpuCount = 1
        /\ r.pc = "none" => oncpu[r.addr] # selected \/ cur # r.addr
  BY <1>4 DEF T!Members
<1>7. cur = T!Null => T!CurrentThreadCheck = "fail"
  BY <1>2 DEF T!CurrentThreadCheck, T!CurrentThread
<1>8. ASSUME T!CurrentThreadCheck = "fail", cur # T!Null PROVE stat[cur] = "Close"
  <2>1. cur \in Thread /\ T!CurrentThread = {cur}
    BY <1>2, <1>3, <1>8 DEF T!CurrentThread
  <2>2. cur \notin T!Members(registry["thread"])
    BY <1>8, <2>1 DEF T!CurrentThreadCheck, T!Registered
  <2>3. stat[cur] # "Unborn"
    BY <1>0, <1>2, <1>8 DEF RunsBorn, ThreadsTyped
  <2> QED BY <1>0, <2>1, <2>2, <2>3 DEF Registries
<1> QED BY <1>1, <1>2, <1>5, <1>6, <1>7, <1>8, SameCount DEF T!CurrentIsOne, T!Members

\* At every halt, also between the two stores of a switch, one thread at most is
\* current and it is that of the selected CPU (adapter.py _task_view, _thread_pc,
\* diagnostics.py system_checks).
THEOREM CurrentIsOneHolds == Spec => []CurrentIsOne
<1>1. TargetInv => CurrentIsOne
  BY CurrentFollows DEF TargetInv, CurrentIsOne
<1> QED BY <1>1, TargetInvHolds, PTL

\* The row of an object, by its address.
Row(o) == [name |-> NameOf[o], waiters |-> [f \in T!Fields |-> T!WaiterCell(o, f)], addr |-> o]

\* The rows of a class are those of the live objects of it, at their positions.
LEMMA ObjectRows ==
  ASSUME ThreadInv, NEW k \in Kinds
  PROVE  /\ DOMAIN T!ObjectTable(k) = DOMAIN registry[k]
         /\ \A i \in DOMAIN registry[k] :
              /\ registry[k][i] \in Object /\ kindOf[registry[k][i]] = k
              /\ T!ObjectTable(k)[i] = Row(registry[k][i])
<1>1. T!ObjectTable(k) = [i \in DOMAIN registry[k] |-> Row(registry[k][i])]
  BY DEF T!ObjectTable, Row
<1>2. T!Members(registry[k]) = {o \in Object : kindOf[o] = k}
  BY DEF ThreadInv, Registries
<1>3. \A i \in DOMAIN registry[k] : registry[k][i] \in Object /\ kindOf[registry[k][i]] = k
  BY <1>2 DEF T!Members
<1> QED BY <1>1, <1>3

\* A waiter of a cell is on the list of that object and field.
LEMMA CellIsList ==
  ASSUME ThreadInv, NEW o \in Object, NEW f \in T!Fields, NEW t,
         Row(o).waiters[f] # << >>, t \in T!Members(Row(o).waiters[f][2])
  PROVE  On(t, o, f)
<1>1. Row(o).waiters[f] = T!WaiterCell(o, f)
  BY DEF Row
<1>2. T!WaiterCell(o, f) # << >> => T!WaiterCell(o, f) = <<Len(waitList[o][f]), waitList[o][f]>>
  <2>1. CASE f \in T!FieldsOf(kindOf[o])
    BY <2>1 DEF T!WaiterCell, T!Waiters
  <2>2. CASE f \notin T!FieldsOf(kindOf[o])
    BY <2>2 DEF T!WaiterCell, T!Waiters
  <2> QED BY <2>1, <2>2
<1> QED BY <1>1, <1>2 DEF On

\* In every state that the invariant holds in, a thread waits once.
LEMMA WaitsFollow ==
  ASSUME ThreadInv
  PROVE  T!WaitsOnce
<1>0. ThreadsTyped /\ Registries /\ Waits
  BY DEF ThreadInv
<1> DEFINE shown == UNION {T!Rows(k) : k \in Kinds}
<1>2. \A c \in shown : \E o \in Object : c = Row(o)
  <2>1. ASSUME NEW k \in Kinds, NEW c \in T!Rows(k) PROVE \E o \in Object : c = Row(o)
    <3>1. c \in T!Members(T!ObjectTable(k))
      BY <2>1 DEF T!Rows
    <3>2. \A i \in DOMAIN T!ObjectTable(k) : \E o \in Object : T!ObjectTable(k)[i] = Row(o)
      BY ObjectRows
    <3> QED BY <3>1, <3>2 DEF T!Members
  <2> QED BY <2>1
<1> HIDE DEF shown
<1>3. ASSUME NEW t \in Thread
      PROVE  LET cells == {c \in shown \X T!Fields :
                             c[1].waiters[c[2]] # << >> /\ t \in T!Members(c[1].waiters[c[2]][2])}
             IN /\ Cardinality(cells) <= 1
                /\ cells # {} => \E r \in T!Members(T!TaskTable) : r.addr = t /\ r.state = "Suspend"
  <2> DEFINE cells == {c \in shown \X T!Fields :
                         c[1].waiters[c[2]] # << >> /\ t \in T!Members(c[1].waiters[c[2]][2])}
  <2>1. ASSUME NEW c \in cells
        PROVE  \E o \in Object, f \in T!Fields : c = <<Row(o), f>> /\ On(t, o, f)
    <3>1. PICK r \in shown, f \in T!Fields : c = <<r, f>>
      BY <2>1
    <3>2. PICK o \in Object : r = Row(o)
      BY <1>2
    <3>3. Row(o).waiters[f] # << >> /\ t \in T!Members(Row(o).waiters[f][2])
      BY <2>1, <3>1, <3>2
    <3>4. On(t, o, f)
      BY <3>3, CellIsList
    <3> QED BY <3>1, <3>2, <3>4
  <2>2. \A c, d \in cells : c = d
    <3>1. ASSUME NEW c \in cells, NEW d \in cells PROVE c = d
      <4>1. PICK o \in Object, f \in T!Fields : c = <<Row(o), f>> /\ On(t, o, f)
        BY <2>1
      <4>2. PICK p \in Object, g \in T!Fields : d = <<Row(p), g>> /\ On(t, p, g)
        BY <2>1
      <4>3. o = p /\ f = g
        BY <1>0, <4>1, <4>2 DEF Waits
      <4> QED BY <4>1, <4>2, <4>3
    <3> QED BY <3>1
  <2>3. Cardinality(cells) <= 1
    <3> HIDE DEF cells
    <3> QED BY <2>2, AtMostOne
  <2>4. ASSUME NEW c \in cells
        PROVE  \E r \in T!Members(T!TaskTable) : r.addr = t /\ r.state = "Suspend"
    <3>1. \E o \in Object, f \in T!Fields : On(t, o, f)
      BY <2>1, <2>4
    <3>2. stat[t] = "Suspend"
      BY <1>0, <3>1 DEF Waits
    <3>3. t \in T!Members(registry["thread"])
      BY <1>0, <3>2 DEF Registries
    <3>4. PICK i \in DOMAIN registry["thread"] : registry["thread"][i] = t
      BY <3>3 DEF T!Members
    <3>5. i \in DOMAIN T!TaskTable /\ T!TaskTable[i] = T!TaskView(t)
      BY <3>4 DEF T!TaskTable
    <3>6. T!TaskTable[i] \in T!Members(T!TaskTable)
      BY <3>5 DEF T!Members
    <3>7. T!TaskView(t).addr = t /\ T!TaskView(t).state = stat[t]
      BY TaskRow
    <3> QED BY <3>2, <3>5, <3>6, <3>7
  <2> HIDE DEF cells
  <2>5. cells # {} => \E r \in T!Members(T!TaskTable) : r.addr = t /\ r.state = "Suspend"
    BY <2>4
  <2> QED BY <2>3, <2>5 DEF cells
<1> QED BY <1>3, SameCount DEF T!WaitsOnce, shown

\* At every halt, also between the steps of a suspension or a resumption, a
\* thread is in one cell of the tables at most, and its own row is of a
\* suspended thread (adapter.py _waiter_cell, _waiter_detail_pairs).
THEOREM WaitsOnceHolds == Spec => []WaitsOnce
<1>1. TargetInv => WaitsOnce
  BY WaitsFollow DEF TargetInv, WaitsOnce
<1> QED BY <1>1, TargetInvHolds, PTL

\* A sequence without repetition is as long as it has members.
LEMMA LengthCounts ==
  ASSUME NEW S, NEW s \in Seq(S), Distinct(s)
  PROVE  Len(s) = Cardinality(T!Members(s))
<1>1. PICK n : n = Len(s)
  OBVIOUS
<1>2. n \in Nat /\ DOMAIN s = 1..n
  BY <1>1
<1>3. PICK m : m = T!Members(s)
  OBVIOUS
<1>4. m = {s[i] : i \in 1..n}
  BY <1>2, <1>3 DEF T!Members
<1>5. PICK f : f = [i \in 1..n |-> s[i]]
  OBVIOUS
<1>6. f \in [1..n -> m] /\ \A i \in 1..n : f[i] = s[i]
  BY <1>4, <1>5
<1>7. \A i, j \in 1..n : f[i] = f[j] => i = j
  BY <1>2, <1>6 DEF Distinct
<1>8. \A x \in m : \E i \in 1..n : f[i] = x
  BY <1>4, <1>6
<1>9. f \in Bijection(1..n, m)
  BY <1>6, <1>7, <1>8 DEF Bijection, Injection, Surjection, IsInjective
<1>10. Cardinality(m) = n
  BY <1>2, <1>9, FS_CountingElements DEF ExistsBijection
<1> QED BY <1>1, <1>3, <1>10

\* No address reads as a name or as a variable.
LEMMA NotAName ==
  ASSUME NEW a \in T!Address
  PROVE  a \notin Handle /\ a # T!All /\ \A b \in T!Address : NameOf[b] # a
BY TargetAssumption DEF T!RtAssumption, T!Address

\* What a name selects bears it.
LEMMA FirstIsNamed ==
  ASSUME NEW s, NEW name, NEW a \in T!First(s, LAMBDA b : NameOf[b] = name)
  PROVE  a \in T!Members(s) /\ NameOf[a] = name
BY DEF T!First, T!Members

\* An address selects the object at it, when that is of the class.
LEMMA AddressFinds ==
  ASSUME ThreadInv, NEW k \in Kinds, NEW o \in T!Registered(k)
  PROVE  T!FindObject(k, o) = {o}
<1>1. PICK s : s = registry[k]
  OBVIOUS
<1>2. T!Members(s) = {p \in Object : kindOf[p] = k}
  BY <1>1 DEF ThreadInv, Registries
<1>3. T!Registered(k) = T!Members(s)
  BY <1>1 DEF T!Registered
<1>4. o \in T!Address /\ \A a \in T!Members(s) : a \in T!Address
  BY <1>2, <1>3 DEF T!Address
<1>5. T!First(s, LAMBDA a : NameOf[a] = o) = {}
  <2>1. \A a \in T!First(s, LAMBDA b : NameOf[b] = o) : a \in T!Members(s) /\ NameOf[a] = o
    BY FirstIsNamed
  <2> QED BY <1>4, <2>1, NotAName
<1>6. o \notin Handle
  BY <1>4, NotAName
<1>7. T!FindObject(k, o) = {a \in T!Members(s) : a = o}
  BY <1>1, <1>3, <1>5, <1>6 DEF T!FindObject
<1> QED BY <1>3, <1>7

\* A variable selects a live object of the class, and what it holds unless one has its name.
LEMMA HandleFinds ==
  ASSUME ThreadInv, NEW k \in Kinds, NEW h \in Handle, NEW a \in T!FindObject(k, h)
  PROVE  kindOf[a] = k /\ (NameOf[a] # h => handle[h] = a)
<1>1. PICK s : s = registry[k]
  OBVIOUS
<1>2. T!Members(s) = {p \in Object : kindOf[p] = k}
  BY <1>1 DEF ThreadInv, Registries
<1>3. T!Registered(k) = T!Members(s)
  BY <1>1 DEF T!Registered
<1>4. \A b \in T!First(s, LAMBDA b : NameOf[b] = h) : b \in T!Members(s) /\ NameOf[b] = h
  BY FirstIsNamed
<1>5. \/ a \in T!First(s, LAMBDA b : NameOf[b] = h)
      \/ a \in T!Members(s) /\ a = handle[h]
  BY <1>1, <1>3 DEF T!FindObject
<1> QED BY <1>2, <1>4, <1>5

\* In every state that the invariant holds in, the tables are the live objects
\* and every row is selected by its address.
LEMMA RowsFollow ==
  ASSUME ThreadInv
  PROVE  T!RowsSelect
<1>0. ThreadsTyped /\ Registries
  BY DEF ThreadInv
<1>1. T!RegistryTypes
  BY <1>0 DEF Registries, T!RegistryTypes, T!Registered
<1>2. ASSUME NEW k \in Kinds
      PROVE  LET table == T!ObjectTable(k)
             IN /\ \A o \in Object :
                     Cardinality({i \in DOMAIN table : table[i].addr = o}) = IF kindOf[o] = k THEN 1 ELSE 0
                /\ \A r \in T!Members(table) : T!ObjectDetail(k, r.addr) = {r}
  <2>1. PICK table : table = T!ObjectTable(k)
    OBVIOUS
  <2>2. PICK s : s = registry[k]
    OBVIOUS
  <2>3. /\ DOMAIN table = DOMAIN s
        /\ \A i \in DOMAIN s : s[i] \in Object /\ kindOf[s[i]] = k /\ table[i] = Row(s[i])
    BY <2>1, <2>2, ObjectRows
  <2>4. T!Members(s) = {o \in Object : kindOf[o] = k} /\ Distinct(s)
    BY <1>0, <2>2, Apart DEF Registries
  <2>5. \A o : Row(o).addr = o
    BY DEF Row
  <2>6. ASSUME NEW o \in Object
        PROVE  Cardinality({i \in DOMAIN table : table[i].addr = o}) = IF kindOf[o] = k THEN 1 ELSE 0
    <3>1. {i \in DOMAIN table : table[i].addr = o} = {i \in DOMAIN s : s[i] = o}
      BY <2>3, <2>5
    <3>2. CASE kindOf[o] = k
      <4>1. PICK i \in DOMAIN s : s[i] = o
        BY <2>4, <3>2 DEF T!Members
      <4>2. {j \in DOMAIN s : s[j] = o} = {i}
        BY <2>4, <4>1 DEF Distinct
      <4> QED BY <3>1, <3>2, <4>2, FS_Singleton
    <3>3. CASE kindOf[o] # k
      <4>1. {j \in DOMAIN s : s[j] = o} = {}
        BY <2>3, <3>3
      <4> QED BY <3>1, <3>3, <4>1, FS_EmptySet
    <3> QED BY <3>2, <3>3
  <2>7. ASSUME NEW r \in T!Members(table) PROVE T!ObjectDetail(k, r.addr) = {r}
    <3>1. PICK i \in DOMAIN s : r = Row(s[i])
      BY <2>3 DEF T!Members
    <3>2. PICK o : o = s[i]
      OBVIOUS
    <3>3. r = Row(o) /\ r.addr = o /\ o \in T!Registered(k)
      BY <2>2, <2>5, <3>1, <3>2 DEF T!Registered, T!Members
    <3>4. T!FindObject(k, o) = {o}
      BY <3>3, AddressFinds
    <3>5. T!ObjectDetail(k, o) = {Row(a) : a \in T!FindObject(k, o)}
      BY DEF T!ObjectDetail, T!WaiterPairs, Row
    <3> QED BY <3>3, <3>4, <3>5
  <2> QED BY <2>1, <2>6, <2>7
<1>3. \A k \in Kinds : \A h \in Handle : \A a \in T!FindObject(k, h) :
        kindOf[a] = k /\ (NameOf[a] # h => handle[h] = a)
  BY HandleFinds
<1>4. \A c \in T!Classes : T!SystemSummary.objects[c] = Cardinality(T!Registered(c))
  <2>1. T!SystemSummary.objects = T!ObjectCounts
    BY DEF T!SystemSummary
  <2>2. ASSUME NEW c \in T!Classes PROVE T!ObjectCounts[c] = Cardinality(T!Registered(c))
    <3>1. PICK s : s = registry[c]
      OBVIOUS
    <3>2. s \in Seq(T!Address) /\ Distinct(s)
      BY <1>0, <3>1 DEF ThreadsTyped, Registries
    <3>3. Len(s) = Cardinality(T!Members(s))
      BY <3>2, LengthCounts
    <3> QED BY <3>1, <3>3 DEF T!ObjectCounts, T!Registered
  <2> QED BY <2>1, <2>2
<1> QED BY <1>1, <1>2, <1>3, <1>4, SameCount DEF T!RowsSelect

\* The row of a checked object, by its address.
CheckRow(s, a) == [addr |-> a, ObjectType |-> T!ObjectType(s, a), NameUnique |-> T!NameUnique(s, a)]

\* What a target of a scope selects, when it matches anything.
LEMMA ChecksMatch ==
  ASSUME NEW s \in T!CheckScopes \cap T!Classes, NEW target,
         NEW m, m = {a \in T!Registered(s) : target \in {T!All, NameOf[a], a}},
         m # {} \/ target = T!All
  PROVE  T!CheckRows(s, target) = {CheckRow(s, a) : a \in m}
<1>1. T!CheckedObjects(s, target) = m
  BY DEF T!CheckedObjects
<1> QED BY <1>1 DEF T!CheckRows, CheckRow

\* In every state that the invariant holds in, the checks are of what they are asked for.
LEMMA ChecksFollow ==
  ASSUME ThreadInv
  PROVE  T!ChecksSelect
<1>0. Registries
  BY DEF ThreadInv
<1>1. ASSUME NEW s \in T!CheckScopes \cap T!Classes
      PROVE  LET all == T!CheckRows(s, T!All)
             IN /\ {r.addr : r \in all} = T!Registered(s) /\ \A r \in all : r.ObjectType = "ok"
                /\ \A r \in all : T!CheckRows(s, r.addr) = {r}
                /\ \A r \in all : NameOf[r.addr] # "" =>
                                  LET same == T!CheckRows(s, NameOf[r.addr])
                                  IN r \in same /\ (r.NameUnique = "ok" <=> same = {r})
  <2>1. PICK reg : reg = T!Registered(s)
    OBVIOUS
  <2>2. \A a \in reg : a \in T!Address
    BY <1>0, <2>1, Apart DEF Registries, T!Registered, T!Address, T!Classes
  <2>3. PICK all : all = T!CheckRows(s, T!All)
    OBVIOUS
  <2>4. all = {CheckRow(s, a) : a \in reg}
    <3>1. reg = {a \in T!Registered(s) : T!All \in {T!All, NameOf[a], a}}
      BY <2>1
    <3> QED BY <2>3, <3>1, ChecksMatch
  <2>5. \A a : CheckRow(s, a).addr = a /\ CheckRow(s, a).ObjectType = T!ObjectType(s, a)
               /\ CheckRow(s, a).NameUnique = T!NameUnique(s, a)
    BY DEF CheckRow
  <2>6. \A a \in reg : T!ObjectType(s, a) = "ok"
    <3>1. CASE s = "thread"
      BY <3>1 DEF T!ObjectType
    <3>2. CASE s # "thread"
      <4>1. s \in Kinds
        BY <3>2 DEF T!Classes
      <4>2. \A a \in reg : kindOf[a] = s
        BY <1>0, <2>1, <4>1 DEF Registries, T!Registered
      <4> QED BY <4>2 DEF T!ObjectType
    <3> QED BY <3>1, <3>2
  <2>7. {r.addr : r \in all} = reg /\ \A r \in all : r.ObjectType = "ok"
    BY <2>4, <2>5, <2>6
  <2>8. ASSUME NEW a \in reg PROVE T!CheckRows(s, a) = {CheckRow(s, a)}
    <3>1. PICK m : m = {b \in T!Registered(s) : a \in {T!All, NameOf[b], b}}
      OBVIOUS
    <3>2. m = {a}
      BY <2>1, <2>2, <3>1, NotAName
    <3>3. T!CheckRows(s, a) = {CheckRow(s, b) : b \in m}
      BY <3>1, <3>2, ChecksMatch
    <3> QED BY <3>2, <3>3
  <2>9. ASSUME NEW a \in reg, NameOf[a] # ""
        PROVE  /\ CheckRow(s, a) \in T!CheckRows(s, NameOf[a])
               /\ T!NameUnique(s, a) = "ok" <=> T!CheckRows(s, NameOf[a]) = {CheckRow(s, a)}
    <3>1. PICK m : m = {b \in reg : NameOf[b] = NameOf[a]}
      OBVIOUS
    <3>2. m = {b \in T!Registered(s) : NameOf[a] \in {T!All, NameOf[b], b}}
      BY <2>1, <2>2, <2>9, <3>1, NotAName DEF T!All
    <3>3. a \in m
      BY <3>1
    <3>4. PICK same : same = T!CheckRows(s, NameOf[a])
      OBVIOUS
    <3>5. same = {CheckRow(s, b) : b \in m}
      BY <3>2, <3>3, <3>4, ChecksMatch
    <3>6. same = {CheckRow(s, a)} <=> m = {a}
      BY <2>5, <3>3, <3>5
    <3>7. T!NameUnique(s, a) = "ok" <=> m = {a}
      BY <2>1, <2>9, <3>1 DEF T!NameUnique
    <3> QED BY <3>3, <3>4, <3>5, <3>6, <3>7
  <2>10. \A r \in all : T!CheckRows(s, r.addr) = {r}
    BY <2>4, <2>5, <2>8
  <2>11. ASSUME NEW r \in all, NameOf[r.addr] # ""
         PROVE  LET same == T!CheckRows(s, NameOf[r.addr])
                IN r \in same /\ (r.NameUnique = "ok" <=> same = {r})
    <3>1. PICK a \in reg : r = CheckRow(s, a)
      BY <2>4
    <3> QED BY <2>5, <2>9, <2>11, <3>1
  <2> QED BY <2>1, <2>3, <2>7, <2>10, <2>11
<1> QED BY <1>1 DEF T!ChecksSelect

\* At every halt the tables of the threads and the objects are the live ones,
\* every row is selected by the address it shows, a variable selects what it
\* holds while that is live, and the checks of a class, an address or a name are
\* of exactly those (navigation.py find_object, checks.py render_check).
THEOREM ThreadsAreListed == Spec => [](part = "threads" => T!RowsSelect /\ T!ChecksSelect)
<1>1. TargetInv => (part = "threads" => T!RowsSelect /\ T!ChecksSelect)
  BY RowsFollow, ChecksFollow DEF TargetInv
<1> QED BY <1>1, TargetInvHolds, PTL

-----------------------------------------------------------------------------
\* The timers.

\* A time that ran past either end of the tick, at most once.
Wrap(x) == IF x < 0 THEN x + Ticks ELSE IF x >= Ticks THEN x - Ticks ELSE x

TimerRecords == [active : BOOLEAN, periodic : BOOLEAN, soft : BOOLEAN, init : Nat, timeout : Nat]
Calls == {C!NoOp} \cup [call : {"start", "stop", "detach"} \cup C!Hooks,
                        at : {"clear", "place", "activate", "fire"}, timer : {{t} : t \in Timer}]

TimersTyped ==
  /\ tick \in 0..(Ticks - 1)
  /\ timer \in [Timer -> TimerRecords]
  /\ timers \in Seq(Timer) /\ Distinct(timers)
  /\ lists \in [C!Hooks -> Seq(Timer)]
  /\ firing \in [C!Hooks -> Timer \cup {"none", "taken"}]
  /\ call \in Calls
  /\ left \in [Timer -> Int]

\* What is linked is registered, is on the list of its kind, and its timeout is
\* so many ticks ahead as are left, less than half of the range either way; the
\* list is in the order of the ticks left.
In(t, h) == t \in T!Members(lists[h])
IsLinked(t) == \E h \in C!Hooks : In(t, h)
Ordered(s, n) == \A i, j \in DOMAIN s : i < j => n[s[i]] <= n[s[j]]
Listed ==
  /\ \A h \in C!Hooks : Distinct(lists[h]) /\ Ordered(lists[h], left)
  /\ \A h \in C!Hooks, t \in Timer : In(t, h) =>
       /\ t \in T!Members(timers) /\ C!HookOf(t) = h
       /\ left[t] \in -MaxLag..timer[t].init /\ timer[t].timeout = Wrap(tick + left[t])
  /\ \A t \in T!Members(timers) : timer[t].init > 0 /\ timer[t].init + MaxLag < Ticks \div 2

\* A timer of a callback is on no list, and of no call.
Held ==
  \A h \in C!Hooks, t \in Timer : firing[h] = t =>
    /\ t \in T!Members(timers) /\ C!HookOf(t) = h /\ ~IsLinked(t) /\ t \notin call.timer
    /\ timer[t].active => timer[t].periodic

\* The flag is that of the lists but for the timer of a call or a callback.
Flagged ==
  /\ \A t \in Timer \ call.timer :
       /\ IsLinked(t) => timer[t].active
       /\ timer[t].active => IsLinked(t) \/ \E h \in C!Hooks : firing[h] = t
  /\ \A t \in call.timer :
       /\ t \in T!Members(timers) /\ (IsLinked(t) <=> call.at = "activate")
       /\ call.at = "fire" => call.call \in C!Hooks /\ C!HookOf(t) = call.call /\ firing[call.call] = "none"

TimerInv == TimersTyped /\ Listed /\ Held /\ Flagged
TicksInv == part = "timers" => TimerInv

\* The order stays when an item leaves.
LEMMA OrderedTaken ==
  ASSUME NEW S, NEW s \in Seq(S), NEW k \in 1..Len(s), NEW r \in Seq(S), Taken(r, s, k),
         NEW m \in [S -> Int], Ordered(s, m)
  PROVE  Ordered(r, m)
<1>1. PICK n : n = Len(s)
  OBVIOUS
<1>6. n \in Nat /\ k \in 1..n /\ DOMAIN s = 1..n
  BY <1>1
<1>2. n \in Nat /\ k \in 1..n /\ \A i, j \in 1..n : i < j => m[s[i]] <= m[s[j]]
  BY <1>6 DEF Ordered
<1>3. Len(r) = n - 1 /\ DOMAIN r = 1..(n - 1)
  BY <1>1, <1>2 DEF Taken
<1>4. \A i \in 1..(n - 1) : \/ i < k /\ i \in 1..n /\ r[i] = s[i]
                            \/ i >= k /\ i + 1 \in 1..n /\ r[i] = s[i + 1]
  BY <1>1 DEF Taken
<1>5. ASSUME NEW i \in 1..(n - 1), NEW j \in 1..(n - 1), i < j PROVE m[r[i]] <= m[r[j]]
  <2>1. CASE i < k /\ i \in 1..n /\ r[i] = s[i]
    <3>1. CASE j < k /\ j \in 1..n /\ r[j] = s[j]
      BY <1>2, <1>5, <2>1, <3>1
    <3>2. CASE j >= k /\ j + 1 \in 1..n /\ r[j] = s[j + 1]
      <4>1. i < j + 1
        BY <1>5
      <4> QED BY <1>2, <2>1, <3>2, <4>1
    <3> QED BY <1>4, <3>1, <3>2
  <2>2. CASE i >= k /\ i + 1 \in 1..n /\ r[i] = s[i + 1]
    <3>1. j >= k /\ j + 1 \in 1..n /\ r[j] = s[j + 1] /\ i + 1 < j + 1
      BY <1>2, <1>4, <1>5, <2>2
    <3> QED BY <1>2, <2>2, <3>1
  <2> QED BY <1>4, <2>1, <2>2
<1> QED BY <1>3, <1>5 DEF Ordered

\* It stays when an item is put behind those that are not above it and before
\* the others.
LEMMA OrderedInserted ==
  ASSUME NEW S, NEW s \in Seq(S), NEW x \in S, NEW k \in 0..Len(s), NEW r \in Seq(S), Inserted(r, s, k, x),
         NEW m \in [S -> Int], Ordered(s, m),
         \A i \in 1..Len(s) : IF i <= k THEN m[s[i]] <= m[x] ELSE m[x] <= m[s[i]]
  PROVE  Ordered(r, m)
<1>1. PICK n : n = Len(s)
  OBVIOUS
<1>6. n \in Nat /\ k \in 0..n /\ DOMAIN s = 1..n
  BY <1>1
<1>2. /\ n \in Nat /\ k \in 0..n /\ \A i, j \in 1..n : i < j => m[s[i]] <= m[s[j]]
      /\ \A i \in 1..n : IF i <= k THEN m[s[i]] <= m[x] ELSE m[x] <= m[s[i]]
  BY <1>1, <1>6 DEF Ordered
<1>3. Len(r) = n + 1 /\ DOMAIN r = 1..(n + 1)
  BY <1>1, <1>2 DEF Inserted
<1>4. \A i \in 1..(n + 1) : \/ i = k + 1 /\ r[i] = x
                            \/ i <= k /\ i \in 1..n /\ r[i] = s[i]
                            \/ i > k + 1 /\ i - 1 \in 1..n /\ r[i] = s[i - 1]
  BY <1>1 DEF Inserted
<1>5. ASSUME NEW i \in 1..(n + 1), NEW j \in 1..(n + 1), i < j PROVE m[r[i]] <= m[r[j]]
  <2>1. CASE i = k + 1 /\ r[i] = x
    <3>1. j > k + 1 /\ j - 1 \in 1..n /\ r[j] = s[j - 1] /\ ~(j - 1 <= k)
      BY <1>2, <1>4, <1>5, <2>1
    <3> QED BY <1>2, <2>1, <3>1
  <2>2. CASE i <= k /\ i \in 1..n /\ r[i] = s[i]
    <3>1. CASE j = k + 1 /\ r[j] = x
      BY <1>2, <2>2, <3>1
    <3>2. CASE j <= k /\ j \in 1..n /\ r[j] = s[j]
      BY <1>2, <1>5, <2>2, <3>2
    <3>3. CASE j > k + 1 /\ j - 1 \in 1..n /\ r[j] = s[j - 1]
      <4>1. i < j - 1
        BY <1>2, <2>2, <3>3
      <4> QED BY <1>2, <2>2, <3>3, <4>1
    <3> QED BY <1>4, <3>1, <3>2, <3>3
  <2>3. CASE i > k + 1 /\ i - 1 \in 1..n /\ r[i] = s[i - 1]
    <3>1. j > k + 1 /\ j - 1 \in 1..n /\ r[j] = s[j - 1] /\ i - 1 < j - 1
      <4>1. j > k + 1 /\ i - 1 < j - 1
        BY <1>2, <1>5, <2>3
      <4>2. ~(j = k + 1) /\ ~(j <= k)
        BY <1>2, <4>1
      <4>3. j - 1 \in 1..n /\ r[j] = s[j - 1]
        BY <1>4, <4>2
      <4> QED BY <4>1, <4>3
    <3> QED BY <1>2, <2>3, <3>1
  <2> QED BY <1>4, <2>1, <2>2, <2>3
<1> QED BY <1>3, <1>5 DEF Ordered

\* The head taken off.
LEMMA TailTaken ==
  ASSUME NEW S, NEW s \in Seq(S), s # << >>
  PROVE  Tail(s) \in Seq(S) /\ Taken(Tail(s), s, 1) /\ 1 \in 1..Len(s) /\ Head(s) = s[1]
<1>1. PICK n : n = Len(s)
  OBVIOUS
<1>2. n \in Nat \ {0}
  BY <1>1
<1>3. PICK r : r = Tail(s)
  OBVIOUS
<1>4. r \in Seq(S) /\ Len(r) = n - 1 /\ \A i \in 1..(n - 1) : r[i] = s[i + 1]
  BY <1>1, <1>2, <1>3, HeadTailProperties
<1>5. Taken(r, s, 1)
  <2>1. Len(r) = Len(s) - 1
    BY <1>1, <1>4
  <2>2. ASSUME NEW i \in 1..(Len(s) - 1)
        PROVE  \/ i < 1 /\ i \in 1..Len(s) /\ r[i] = s[i]
               \/ i >= 1 /\ i + 1 \in 1..Len(s) /\ r[i] = s[i + 1]
    BY <1>1, <1>2, <1>4
  <2> QED BY <2>1, <2>2 DEF Taken
<1>6. 1 \in 1..Len(s) /\ Head(s) = s[1]
  BY <1>1, <1>2
<1> QED BY <1>3, <1>4, <1>5, <1>6

\* An item put at the end.
LEMMA Appended ==
  ASSUME NEW S, NEW s \in Seq(S), NEW x \in S, Distinct(s), x \notin T!Members(s)
  PROVE  LET r == Append(s, x)
         IN /\ r \in Seq(S) /\ T!Members(r) = T!Members(s) \cup {x} /\ Distinct(r)
            /\ Len(r) = Len(s) + 1 /\ \A i \in 1..Len(s) : r[i] = s[i]
<1>1. PICK n, r : n = Len(s) /\ r = Append(s, x)
  OBVIOUS
<1>2. n \in Nat /\ n \in 0..Len(s) /\ DOMAIN s = 1..n
  BY <1>1
<1>3. r \in Seq(S) /\ Len(r) = n + 1 /\ r[n + 1] = x /\ \A i \in 1..n : r[i] = s[i]
  BY <1>1, <1>2, AppendProperties
<1>4. Inserted(r, s, n, x)
  <2>1. Len(r) = Len(s) + 1
    BY <1>1, <1>3
  <2>2. ASSUME NEW i \in 1..(Len(s) + 1)
        PROVE  \/ i = n + 1 /\ r[i] = x
               \/ i <= n /\ i \in 1..Len(s) /\ r[i] = s[i]
               \/ i > n + 1 /\ i - 1 \in 1..Len(s) /\ r[i] = s[i - 1]
    BY <1>1, <1>2, <1>3
  <2> QED BY <2>1, <2>2 DEF Inserted
<1>5. T!Members(r) = T!Members(s) \cup {x} /\ Distinct(r)
  BY <1>2, <1>3, <1>4, Linked
<1> QED BY <1>1, <1>3, <1>5

\* Induction: of the numbers that a set lacks the least is not 0 and does not
\* follow one that it has.
LEMMA UpTo ==
  ASSUME NEW n \in Nat, NEW G, 0 \in G, \A m \in 1..n : m - 1 \in G => m \in G
  PROVE  0..n \subseteq G
<1>1. PICK lacking : lacking = {m \in 0..n : m \notin G}
  OBVIOUS
<1>2. SUFFICES ASSUME lacking # {} PROVE FALSE
  BY <1>1
<1>3. lacking \subseteq Nat
  BY <1>1
<1>4. \E m \in lacking : \A k \in lacking : ~(<<k, m>> \in OpToRel(<, Nat))
  BY <1>2, <1>3, NatLessThanWellFounded, WFMin
<1>5. PICK m \in lacking : \A k \in lacking : ~(k < m)
  BY <1>3, <1>4 DEF OpToRel
<1>6. m \in 1..n /\ m - 1 \in 0..n /\ m - 1 < m
  BY <1>1, <1>5
<1>7. m - 1 \in G
  BY <1>1, <1>5, <1>6
<1> QED BY <1>1, <1>5, <1>6, <1>7

\* A recursion over the numbers up to n has a function.
IsStep(next, V, n) == next \in [V \X (1..n) -> V]
Recurs(f, V, n, first, next) ==
  f \in [0..n -> V] /\ f[0] = first /\ \A i \in 1..n : f[i] = next[<<f[i - 1], i>>]
LEMMA RecursionExists ==
  ASSUME NEW V, NEW n \in Nat, NEW first \in V, NEW next, IsStep(next, V, n)
  PROVE  \E f : Recurs(f, V, n, first, next)
<1>0. next \in [V \X (1..n) -> V]
  BY DEF IsStep
<1> DEFINE Has(m) == \E f \in [0..m -> V] : f[0] = first /\ \A i \in 1..m : f[i] = next[<<f[i - 1], i>>]
           G == {m \in 0..n : Has(m)}
<1>1. Has(0)
  <2>1. PICK f : f = [i \in 0..0 |-> first]
    OBVIOUS
  <2>2. f \in [0..0 -> V] /\ f[0] = first
    BY <2>1
  <2> QED BY <2>2
<1>2. ASSUME NEW m \in 1..n, m - 1 \in G PROVE m \in G
  <2>1. PICK g \in [0..(m - 1) -> V] : g[0] = first /\ \A i \in 1..(m - 1) : g[i] = next[<<g[i - 1], i>>]
    BY <1>2
  <2>2. next[<<g[m - 1], m>>] \in V
    BY <1>0, <2>1
  <2>3. PICK f : f = [i \in 0..m |-> IF i = m THEN next[<<g[m - 1], m>>] ELSE g[i]]
    OBVIOUS
  <2>4. f \in [0..m -> V] /\ f[m] = next[<<g[m - 1], m>>] /\ \A i \in 0..(m - 1) : f[i] = g[i]
    BY <2>1, <2>2, <2>3
  <2>5. ASSUME NEW i \in 1..m PROVE f[i] = next[<<f[i - 1], i>>]
    <3>1. i - 1 \in 0..(m - 1)
      OBVIOUS
    <3>2. f[i - 1] = g[i - 1]
      BY <2>4, <3>1
    <3>3. CASE i = m
      BY <2>4, <3>2, <3>3
    <3>4. CASE i # m
      <4>1. i \in 1..(m - 1) /\ i \in 0..(m - 1)
        BY <3>4
      <4> QED BY <2>1, <2>4, <3>2, <4>1
    <3> QED BY <3>3, <3>4
  <2>6. f[0] = first
    BY <2>1, <2>4
  <2>7. Has(m)
    BY <2>4, <2>5, <2>6
  <2> QED BY <2>7
<1>3. 0..n \subseteq G
  <2>1. 0 \in G
    BY <1>1
  <2> HIDE DEF G
  <2> QED BY <1>2, <2>1, UpTo
<1>4. n \in G
  BY <1>3
<1> QED BY <1>4 DEF Recurs

\* iter_timers: what it has seen, then the rest, without repetition.
LEMMA ThenIs ==
  ASSUME NEW S, NEW a \in Seq(S), NEW b \in Seq(S), Distinct(a), Distinct(b)
  PROVE  LET r == C!Then(a, b)
         IN /\ r \in Seq(S) /\ Distinct(r) /\ T!Members(r) = T!Members(a) \cup T!Members(b)
            /\ Len(a) <= Len(r) /\ \A i \in 1..Len(a) : r[i] = a[i]
<1>1. PICK n : n = Len(b)
  OBVIOUS
<1>2. n \in Nat /\ DOMAIN b = 1..n /\ \A i \in 1..n : b[i] \in S
  BY <1>1
<1>3. PICK m : m = T!Members(a)
  OBVIOUS
<1>4. C!Members(a) = m
  BY <1>3 DEF C!Members, T!Members
<1> DEFINE Is(g) == g = [i \in 0..n |-> IF i = 0 THEN a
                                       ELSE IF b[i] \in m THEN g[i - 1] ELSE Append(g[i - 1], b[i])]
<1>5. C!Then(a, b) = (CHOOSE g : Is(g))[n]
  BY <1>1, <1>4 DEF C!Then
<1>6. \E g : Is(g)
  <2>1. PICK next : next = [p \in Seq(S) \X (1..n) |-> IF b[p[2]] \in m THEN p[1] ELSE Append(p[1], b[p[2]])]
    OBVIOUS
  <2>2. next \in [Seq(S) \X (1..n) -> Seq(S)]
    <3>1. ASSUME NEW p \in Seq(S) \X (1..n)
          PROVE  (IF b[p[2]] \in m THEN p[1] ELSE Append(p[1], b[p[2]])) \in Seq(S)
      <4>1. p[1] \in Seq(S) /\ b[p[2]] \in S
        BY <1>2
      <4>2. Append(p[1], b[p[2]]) \in Seq(S)
        BY <4>1, AppendProperties
      <4> QED BY <4>1, <4>2
    <3> QED BY <2>1, <3>1
  <2>3. PICK f \in [0..n -> Seq(S)] : f[0] = a /\ \A i \in 1..n : f[i] = next[<<f[i - 1], i>>]
    <3>1. PICK V : V = Seq(S)
      OBVIOUS
    <3>2. a \in V /\ IsStep(next, V, n)
      BY <2>2, <3>1 DEF IsStep
    <3>3. \E f : Recurs(f, V, n, a, next)
      BY <1>2, <3>2, RecursionExists
    <3> QED BY <3>1, <3>3 DEF Recurs
  <2>4. \A i \in 1..n : f[i] = IF b[i] \in m THEN f[i - 1] ELSE Append(f[i - 1], b[i])
    <3>1. ASSUME NEW i \in 1..n PROVE f[i] = IF b[i] \in m THEN f[i - 1] ELSE Append(f[i - 1], b[i])
      <4>1. f[i - 1] \in Seq(S)
        BY <1>2, <2>3
      <4>2. next[<<f[i - 1], i>>] = IF b[i] \in m THEN f[i - 1] ELSE Append(f[i - 1], b[i])
        BY <2>1, <4>1
      <4> QED BY <2>3, <4>2
    <3> QED BY <3>1
  <2>5. PICK g : g = [i \in 0..n |-> IF i = 0 THEN a
                                     ELSE IF b[i] \in m THEN f[i - 1] ELSE Append(f[i - 1], b[i])]
    OBVIOUS
  <2>6. ASSUME NEW i \in 0..n PROVE f[i] = g[i]
    <3>1. CASE i = 0
      BY <2>3, <2>5, <3>1
    <3>2. CASE i # 0
      <4>1. i \in 1..n
        BY <1>2, <3>2
      <4> QED BY <2>4, <2>5, <3>2, <4>1
    <3> QED BY <3>1, <3>2
  <2>7. f = g
    BY <2>3, <2>5, <2>6
  <2>8. Is(f)
    BY <2>5, <2>7
  <2> QED BY <2>8
<1>7. PICK g : Is(g) /\ C!Then(a, b) = g[n]
  BY <1>5, <1>6
<1>8. /\ g[0] = a
      /\ \A i \in 1..n : g[i] = IF b[i] \in m THEN g[i - 1] ELSE Append(g[i - 1], b[i])
  <2>1. PICK v : v = [i \in 0..n |-> IF i = 0 THEN a
                                     ELSE IF b[i] \in m THEN g[i - 1] ELSE Append(g[i - 1], b[i])]
    OBVIOUS
  <2>2. g = v
    BY <1>7, <2>1
  <2>3. v[0] = a /\ \A i \in 1..n : v[i] = IF b[i] \in m THEN g[i - 1] ELSE Append(g[i - 1], b[i])
    BY <1>2, <2>1
  <2> QED BY <2>2, <2>3
<1> HIDE DEF Is
<1> DEFINE Good(s, i) == /\ s \in Seq(S) /\ Distinct(s) /\ T!Members(s) = m \cup {b[j] : j \in 1..i}
                         /\ Len(a) <= Len(s) /\ \A j \in 1..Len(a) : s[j] = a[j]
           G == {i \in 0..n : Good(g[i], i)}
<1>9. Good(a, 0)
  BY <1>3
<1>10. ASSUME NEW i \in 1..n, i - 1 \in G PROVE i \in G
  <2>1. PICK s : s = g[i - 1]
    OBVIOUS
  <2>2. Good(s, i - 1)
    BY <1>10, <2>1
  <2>3. {b[j] : j \in 1..i} = {b[j] : j \in 1..(i - 1)} \cup {b[i]}
    <3>1. 1..i = (1..(i - 1)) \cup {i}
      OBVIOUS
    <3> QED BY <3>1
  <2>4. CASE b[i] \in m
    <3>1. g[i] = s
      BY <1>8, <2>1, <2>4
    <3>2. Good(s, i)
      BY <2>2, <2>3, <2>4
    <3> QED BY <3>1, <3>2
  <2>5. CASE b[i] \notin m
    <3>1. PICK r : r = Append(s, b[i])
      OBVIOUS
    <3>2. g[i] = r
      BY <1>8, <2>1, <2>5, <3>1
    <3>3. s \in Seq(S) /\ Distinct(s) /\ T!Members(s) = m \cup {b[j] : j \in 1..(i - 1)}
      BY <2>2
    <3>4. b[i] \notin T!Members(s) /\ b[i] \in S
      BY <1>2, <2>5, <3>3 DEF Distinct
    <3>5. r \in Seq(S) /\ T!Members(r) = T!Members(s) \cup {b[i]} /\ Distinct(r) /\ Len(r) = Len(s) + 1
          /\ \A j \in 1..Len(s) : r[j] = s[j]
      BY <3>1, <3>3, <3>4, Appended
    <3>6. Len(a) \in Nat /\ Len(s) \in Nat /\ Len(a) <= Len(s) /\ \A j \in 1..Len(a) : s[j] = a[j]
      BY <2>2, <3>3
    <3>7. Len(a) <= Len(r) /\ \A j \in 1..Len(a) : r[j] = a[j]
      BY <3>5, <3>6
    <3>8. T!Members(r) = m \cup {b[j] : j \in 1..i}
      BY <2>3, <3>3, <3>5
    <3>9. Good(r, i)
      BY <3>5, <3>7, <3>8
    <3> QED BY <3>2, <3>9
  <2> QED BY <2>4, <2>5
<1>11. n \in G
  <2>1. 0 \in G
    BY <1>2, <1>8, <1>9
  <2> HIDE DEF G
  <2>2. 0..n \subseteq G
    BY <1>2, <1>10, <2>1, UpTo
  <2> QED BY <1>2, <2>2
<1>12. Good(g[n], n)
  BY <1>11
<1>13. T!Members(b) = {b[j] : j \in 1..n}
  BY <1>2 DEF T!Members
<1> QED BY <1>3, <1>7, <1>12, <1>13

\* What the constants are.
LEMMA TimerConstants ==
  /\ Timer \cap {"none", "taken", Name} = {} /\ MaxLag \in Nat
  /\ \E half \in Nat \ {0} : Ticks = half + half /\ Ticks \div 2 = half
  /\ \A s \in Shapes : /\ s.periodic \in BOOLEAN /\ s.soft \in BOOLEAN
                       /\ s.init \in Nat \ {0} /\ s.init + MaxLag < Ticks \div 2
  /\ C!Hooks = {"timer_list", "soft_timer_list"} /\ "timer_list" # "soft_timer_list"
<1>1. C!RtTimerAssumption
  BY TargetAssumption
<1>2. Ticks \in Nat \ {0} /\ Ticks % 2 = 0
  BY <1>1 DEF C!RtTimerAssumption
<1>3. PICK half : half = Ticks \div 2
  OBVIOUS
<1>4. half \in Nat \ {0} /\ Ticks = half + half
  BY <1>2, <1>3
<1> QED BY <1>1, <1>3, <1>4 DEF C!RtTimerAssumption, C!Hooks

\* A difference of two ticks.
LEMMA Difference ==
  ASSUME NEW a \in 0..(Ticks - 1), NEW b \in 0..(Ticks - 1)
  PROVE  C!Minus(a, b) = IF a >= b THEN a - b ELSE a - b + Ticks
<1>1. PICK n : n = Ticks
  OBVIOUS
<1>2. n \in Nat \ {0} /\ a \in 0..(n - 1) /\ b \in 0..(n - 1)
  BY <1>1, TimerConstants
<1>3. a >= b => (a - b) % n = a - b
  BY <1>2
<1>4. a < b => (a - b) % n = a - b + n
  BY <1>2
<1> QED BY <1>1, <1>2, <1>3, <1>4 DEF C!Minus

\* A time less than half of the range away, either way, and how it is seen.
LEMMA Away ==
  ASSUME NEW now \in 0..(Ticks - 1), NEW l \in Int, l < Ticks \div 2, -l < Ticks \div 2
  PROVE  /\ Wrap(now + l) \in 0..(Ticks - 1)
         /\ C!Minus(Wrap(now + l), now) = IF l >= 0 THEN l ELSE l + Ticks
         /\ C!Minus(now, Wrap(now + l)) = IF l <= 0 THEN -l ELSE Ticks - l
<1>1. PICK half \in Nat \ {0} : Ticks = half + half /\ Ticks \div 2 = half
  BY TimerConstants
<1>2. PICK w : w = Wrap(now + l)
  OBVIOUS
<1>3. w = IF now + l < 0 THEN now + l + Ticks ELSE IF now + l >= Ticks THEN now + l - Ticks ELSE now + l
  BY <1>1, <1>2 DEF Wrap
<1>4. w \in 0..(Ticks - 1)
  BY <1>1, <1>3
<1>5. C!Minus(w, now) = IF w >= now THEN w - now ELSE w - now + Ticks
  BY <1>4, Difference
<1>6. C!Minus(now, w) = IF now >= w THEN now - w ELSE now - w + Ticks
  BY <1>4, Difference
<1>7. C!Minus(w, now) = IF l >= 0 THEN l ELSE l + Ticks
  BY <1>1, <1>3, <1>5
<1>8. C!Minus(now, w) = IF l <= 0 THEN -l ELSE Ticks - l
  BY <1>1, <1>3, <1>6
<1> QED BY <1>2, <1>4, <1>7, <1>8

\* Two such times, less than half of the range apart.
LEMMA Between ==
  ASSUME NEW now \in 0..(Ticks - 1), NEW l \in Int, l < Ticks \div 2, -l < Ticks \div 2,
         NEW d \in Int, d < Ticks \div 2, -d < Ticks \div 2, l - d < Ticks \div 2, d - l < Ticks \div 2
  PROVE  C!Minus(Wrap(now + l), Wrap(now + d)) = IF l >= d THEN l - d ELSE l - d + Ticks
<1>1. PICK half \in Nat \ {0} : Ticks = half + half /\ Ticks \div 2 = half
  BY TimerConstants
<1>2. PICK w, v : w = Wrap(now + l) /\ v = Wrap(now + d)
  OBVIOUS
<1>3. w = IF now + l < 0 THEN now + l + Ticks ELSE IF now + l >= Ticks THEN now + l - Ticks ELSE now + l
  BY <1>1, <1>2 DEF Wrap
<1>4. v = IF now + d < 0 THEN now + d + Ticks ELSE IF now + d >= Ticks THEN now + d - Ticks ELSE now + d
  BY <1>1, <1>2 DEF Wrap
<1>5. w \in 0..(Ticks - 1) /\ v \in 0..(Ticks - 1)
  BY <1>1, <1>3, <1>4
<1>6. C!Minus(w, v) = IF w >= v THEN w - v ELSE w - v + Ticks
  BY <1>5, Difference
<1>7. C!Minus(w, v) = IF l >= d THEN l - d ELSE l - d + Ticks
  BY <1>1, <1>3, <1>4, <1>6
<1> QED BY <1>2, <1>7

\* A tick later one less is left of the same time.
LEMMA Later ==
  ASSUME NEW now \in 0..(Ticks - 1), NEW l \in Int, l < Ticks \div 2, -(l - 1) < Ticks \div 2
  PROVE  /\ (now + 1) % Ticks \in 0..(Ticks - 1)
         /\ Wrap(((now + 1) % Ticks) + (l - 1)) = Wrap(now + l)
<1>1. PICK half \in Nat \ {0} : Ticks = half + half /\ Ticks \div 2 = half
  BY TimerConstants
<1>2. PICK n : n = Ticks
  OBVIOUS
<1>3. n \in Nat \ {0} /\ now \in 0..(n - 1) /\ now + 1 \in Nat
  BY <1>1, <1>2
<1>4. now + 1 < n => (now + 1) % n = now + 1
  BY <1>3
<1>5. ~(now + 1 < n) => now + 1 = n /\ n % n = 0
  BY <1>3
<1>6. PICK next : next = (now + 1) % Ticks
  OBVIOUS
<1>7. next = IF now + 1 < Ticks THEN now + 1 ELSE 0
  BY <1>2, <1>4, <1>5, <1>6
<1>8. next \in 0..(Ticks - 1)
  BY <1>1, <1>7
<1>9. Wrap(next + (l - 1)) = Wrap(now + l)
  BY <1>1, <1>7 DEF Wrap
<1> QED BY <1>6, <1>8, <1>9

\* A time ahead is one of the ticks.
LEMMA AheadIs ==
  ASSUME NEW now \in 0..(Ticks - 1), NEW l \in Nat, l < Ticks \div 2
  PROVE  (now + l) % Ticks = Wrap(now + l)
<1>1. PICK half \in Nat \ {0} : Ticks = half + half /\ Ticks \div 2 = half
  BY TimerConstants
<1>2. PICK n, x : n = Ticks /\ x = now + l
  OBVIOUS
<1>3. n \in Nat \ {0} /\ x \in 0..(n + n - 1)
  BY <1>1, <1>2
<1>4. x < n => x % n = x
  BY <1>3
<1>5. x >= n => x % n = x - n
  BY <1>3
<1>6. x % n = IF x >= n THEN x - n ELSE x
  BY <1>3, <1>4, <1>5
<1> QED BY <1>2, <1>3, <1>6 DEF Wrap

\* The helpers of the two instances are the same.
LEMMA SameLists ==
  ASSUME NEW s, NEW x
  PROVE  C!Members(s) = T!Members(s) /\ C!Without(s, x) = T!Without(s, x)
BY DEF C!Members, T!Members, C!Without, T!Without, C!Position, T!Position

\* The timer of a call.
LEMMA InCall ==
  ASSUME TimersTyped
  PROVE  /\ C!Idle => call = C!NoOp /\ call.timer = {}
         /\ \A t \in call.timer :
              /\ t \in Timer /\ call.timer = {t}
              /\ call.call \in {"start", "stop", "detach"} \cup C!Hooks
              /\ call.at \in {"clear", "place", "activate", "fire"}
              /\ call = [call |-> call.call, at |-> call.at, timer |-> {t}]
<1>1. C!NoOp.timer = {}
  BY DEF C!NoOp
<1>2. call = C!NoOp \/ call \in [call : {"start", "stop", "detach"} \cup C!Hooks,
                               at : {"clear", "place", "activate", "fire"}, timer : {{t} : t \in Timer}]
  BY DEF TimersTyped, Calls
<1> QED BY <1>1, <1>2 DEF C!Idle

\* _rt_timer_remove.
LEMMA RemovedLists ==
  ASSUME TimersTyped, Listed, NEW t \in Timer, C!Removed(t)
  PROVE  /\ lists' \in [C!Hooks -> Seq(Timer)]
         /\ \A h \in C!Hooks : /\ Distinct(lists'[h]) /\ Ordered(lists'[h], left')
                               /\ T!Members(lists'[h]) = T!Members(lists[h]) \ {t}
         /\ left' \in [Timer -> Int] /\ \A u \in Timer \ {t} : left'[u] = left[u]
         /\ firing' \in [C!Hooks -> Timer \cup {"none", "taken"}]
         /\ \A h \in C!Hooks : firing'[h] = IF firing[h] = t THEN "taken" ELSE firing[h]
<1>1. PICK old, new : old = lists /\ new = lists'
  OBVIOUS
<1>2. PICK m, n : m = left /\ n = left'
  OBVIOUS
<1>3. new = [h \in C!Hooks |-> C!Without(old[h], t)]
  BY <1>1 DEF C!Removed, C!Without, C!Members, C!Position
<1>4. m \in [Timer -> Int] /\ n = [m EXCEPT ![t] = 0]
  BY <1>2 DEF C!Removed, TimersTyped
<1>5. n \in [Timer -> Int] /\ \A u \in Timer \ {t} : n[u] = m[u]
  BY <1>4
<1>6. \A h \in C!Hooks : old[h] \in Seq(Timer) /\ Distinct(old[h]) /\ Ordered(old[h], m)
  BY <1>1, <1>2 DEF TimersTyped, Listed
<1>7. ASSUME NEW h \in C!Hooks
      PROVE  /\ new[h] \in Seq(Timer) /\ Distinct(new[h]) /\ Ordered(new[h], n)
             /\ T!Members(new[h]) = T!Members(old[h]) \ {t}
  <2>1. PICK s, r : s = old[h] /\ r = new[h]
    OBVIOUS
  <2>2. s \in Seq(Timer) /\ Distinct(s) /\ Ordered(s, m)
    BY <1>6, <2>1
  <2>3. r = T!Without(s, t)
    BY <1>3, <2>1, SameLists
  <2>4. /\ r \in Seq(Timer) /\ T!Members(r) = T!Members(s) \ {t} /\ Distinct(r)
        /\ r = s \/ \E k \in 1..Len(s) : Taken(r, s, k)
    BY <2>2, <2>3, Unlinked
  <2>5. Ordered(r, m)
    <3>1. CASE r = s
      BY <2>2, <3>1
    <3>2. CASE \E k \in 1..Len(s) : Taken(r, s, k)
      BY <1>4, <2>2, <2>4, <3>2, OrderedTaken
    <3> QED BY <2>4, <3>1, <3>2
  <2>6. \A i \in DOMAIN r : n[r[i]] = m[r[i]]
    <3>1. \A i \in DOMAIN r : r[i] \in Timer \ {t}
      BY <2>4 DEF T!Members
    <3> QED BY <1>5, <3>1
  <2>7. Ordered(r, n)
    BY <2>5, <2>6 DEF Ordered
  <2> QED BY <2>1, <2>4, <2>7
<1>8. new \in [C!Hooks -> Seq(Timer)]
  BY <1>3, <1>7
<1>9. /\ firing' \in [C!Hooks -> Timer \cup {"none", "taken"}]
      /\ \A h \in C!Hooks : firing'[h] = IF firing[h] = t THEN "taken" ELSE firing[h]
  BY DEF C!Removed, TimersTyped
<1> QED BY <1>1, <1>2, <1>5, <1>7, <1>8, <1>9

\* Whatever is on a list was on it before, and nothing of it moved.
LEMMA ListedStep ==
  ASSUME Listed, tick' = tick,
         \A h \in C!Hooks : Distinct(lists'[h]) /\ Ordered(lists'[h], left'),
         \A h \in C!Hooks, t \in Timer : In(t, h)' =>
           /\ In(t, h) /\ t \in T!Members(timers') /\ left'[t] = left[t] /\ timer'[t].soft = timer[t].soft
           /\ timer'[t].init = timer[t].init /\ timer'[t].timeout = timer[t].timeout,
         \A t \in T!Members(timers') : timer'[t].init > 0 /\ timer'[t].init + MaxLag < Ticks \div 2
  PROVE  Listed'
<1>1. ASSUME NEW h \in C!Hooks, NEW t \in Timer, In(t, h)'
      PROVE  /\ t \in T!Members(timers') /\ C!HookOf(t)' = h
             /\ left'[t] \in -MaxLag..timer'[t].init /\ timer'[t].timeout = Wrap(tick' + left'[t])
  <2>1. /\ In(t, h) /\ t \in T!Members(timers') /\ left'[t] = left[t] /\ timer'[t].soft = timer[t].soft
        /\ timer'[t].init = timer[t].init /\ timer'[t].timeout = timer[t].timeout
    BY <1>1
  <2>2. C!HookOf(t) = h /\ left[t] \in -MaxLag..timer[t].init /\ timer[t].timeout = Wrap(tick + left[t])
    BY <2>1 DEF Listed
  <2>3. C!HookOf(t)' = C!HookOf(t)
    BY <2>1 DEF C!HookOf
  <2> QED BY <2>1, <2>2, <2>3
<1>2. T!Members(timers)' = T!Members(timers')
  OBVIOUS
<1> QED BY <1>1, <1>2 DEF Listed

\* Whatever is held was held before, by no call, and nothing of it moved.
LEMMA HeldStep ==
  ASSUME Held,
         \A h \in C!Hooks, t \in Timer : firing'[h] = t =>
           /\ firing[h] = t /\ timer'[t] = timer[t] /\ t \in T!Members(timers') /\ t \notin call'.timer
           /\ \A g \in C!Hooks : In(t, g)' => In(t, g)
  PROVE  Held'
<1>1. ASSUME NEW h \in C!Hooks, NEW t \in Timer, firing'[h] = t
      PROVE  /\ t \in T!Members(timers)' /\ C!HookOf(t)' = h /\ ~IsLinked(t)' /\ t \notin call'.timer
             /\ timer'[t].active => timer'[t].periodic
  <2>1. /\ firing[h] = t /\ timer'[t] = timer[t] /\ t \in T!Members(timers') /\ t \notin call'.timer
        /\ \A g \in C!Hooks : In(t, g)' => In(t, g)
    BY <1>1
  <2>2. C!HookOf(t) = h /\ ~IsLinked(t) /\ (timer[t].active => timer[t].periodic)
    BY <2>1 DEF Held
  <2>3. C!HookOf(t)' = C!HookOf(t)
    BY <2>1 DEF C!HookOf
  <2> QED BY <2>1, <2>2, <2>3 DEF IsLinked
<1> QED BY <1>1 DEF Held

\* The lists and what is left are the same.
LEMMA ListsStay ==
  ASSUME Listed, lists' = lists, left' = left
  PROVE  /\ \A h \in C!Hooks : Distinct(lists'[h]) /\ Ordered(lists'[h], left')
         /\ \A h \in C!Hooks, t \in Timer : In(t, h)' <=> In(t, h)
         /\ \A t \in Timer : IsLinked(t)' <=> IsLinked(t)
<1>1. PICK old, m : old = lists /\ m = left
  OBVIOUS
<1>2. \A h \in C!Hooks : Distinct(old[h]) /\ Ordered(old[h], m)
  BY <1>1 DEF Listed
<1>3. \A h \in C!Hooks, t \in Timer : In(t, h)' <=> In(t, h)
  BY DEF In
<1> QED BY <1>1, <1>2, <1>3 DEF IsLinked

\* A flag is all that changes of a timer.
LEMMA FlagIs ==
  ASSUME TimersTyped, NEW t \in Timer, NEW v \in BOOLEAN, timer' = [timer EXCEPT ![t].active = v]
  PROVE  /\ timer' \in [Timer -> TimerRecords] /\ timer'[t].active = v
         /\ \A u \in Timer : /\ timer'[u].init = timer[u].init /\ timer'[u].timeout = timer[u].timeout
                             /\ timer'[u].soft = timer[u].soft /\ timer'[u].periodic = timer[u].periodic
         /\ \A u \in Timer \ {t} : timer'[u] = timer[u]
<1>1. PICK old, new : old = timer /\ new = timer'
  OBVIOUS
<1>2. old \in [Timer -> TimerRecords] /\ new = [old EXCEPT ![t].active = v]
  BY <1>1 DEF TimersTyped
<1>3. PICK r : r = old[t]
  OBVIOUS
<1>4. r \in TimerRecords
  BY <1>2, <1>3
<1>5. PICK q : q = [r EXCEPT !.active = v]
  OBVIOUS
<1>6. /\ q \in TimerRecords /\ q.active = v /\ q.init = r.init /\ q.timeout = r.timeout
      /\ q.soft = r.soft /\ q.periodic = r.periodic
  BY <1>4, <1>5 DEF TimerRecords
<1>7. new = [old EXCEPT ![t] = q]
  BY <1>2, <1>3, <1>5
<1>8. new \in [Timer -> TimerRecords] /\ new[t] = q /\ \A u \in Timer \ {t} : new[u] = old[u]
  BY <1>2, <1>6, <1>7
<1>9. ASSUME NEW u \in Timer
      PROVE  new[u].init = old[u].init /\ new[u].timeout = old[u].timeout /\ new[u].soft = old[u].soft
             /\ new[u].periodic = old[u].periodic
  <2>1. CASE u = t
    BY <1>3, <1>6, <1>8, <2>1
  <2>2. CASE u # t
    BY <1>8, <2>2
  <2> QED BY <2>1, <2>2
<1> QED BY <1>1, <1>6, <1>8, <1>9

\* rt_timer_start, rt_timer_stop, rt_timer_detach take the timer off.
LEMMA CallInv ==
  ASSUME TimerInv, NEW t \in Timer, NEW c \in {"start", "stop", "detach"}, C!Call(t, c)
  PROVE  TimerInv'
<1>0. TimersTyped /\ Listed /\ Held /\ Flagged
  BY DEF TimerInv
<1>1. /\ C!Idle /\ C!Removed(t) /\ t \in T!Members(timers)
      /\ call' = [call |-> c, at |-> "clear", timer |-> {t}]
      /\ tick' = tick /\ timer' = timer /\ timers' = timers
  BY DEF C!Call, C!Members, T!Members
<1>2. call.timer = {}
  BY <1>0, <1>1, InCall
<1>3. /\ lists' \in [C!Hooks -> Seq(Timer)]
      /\ \A h \in C!Hooks : /\ Distinct(lists'[h]) /\ Ordered(lists'[h], left')
                            /\ T!Members(lists'[h]) = T!Members(lists[h]) \ {t}
      /\ left' \in [Timer -> Int] /\ \A u \in Timer \ {t} : left'[u] = left[u]
      /\ firing' \in [C!Hooks -> Timer \cup {"none", "taken"}]
      /\ \A h \in C!Hooks : firing'[h] = IF firing[h] = t THEN "taken" ELSE firing[h]
  BY <1>0, <1>1, RemovedLists
<1>4. call' \in Calls /\ call'.timer = {t} /\ call'.at = "clear"
  BY <1>1 DEF Calls
<1>5. TimersTyped'
  BY <1>0, <1>1, <1>3, <1>4 DEF TimersTyped, Distinct
<1>6. \A u \in Timer, h \in C!Hooks : In(u, h)' <=> In(u, h) /\ u # t
  BY <1>3 DEF In
<1>7. \A u \in Timer : IsLinked(u)' <=> IsLinked(u) /\ u # t
  BY <1>6 DEF IsLinked
<1>8. T!Members(timers') = T!Members(timers)
  BY <1>1
<1>9. Listed'
  <2>1. \A u \in T!Members(timers') : timer'[u].init > 0 /\ timer'[u].init + MaxLag < Ticks \div 2
    BY <1>0, <1>1, <1>8 DEF Listed
  <2>2. \A h \in C!Hooks, u \in Timer : In(u, h)' => In(u, h) /\ u \in T!Members(timers') /\ left'[u] = left[u]
    BY <1>0, <1>3, <1>6, <1>8 DEF Listed
  <2> QED BY <1>0, <1>1, <1>3, <2>1, <2>2, ListedStep
<1>10. \A h \in C!Hooks, u \in Timer : firing'[h] = u <=> firing[h] = u /\ u # t
  BY <1>3, TimerConstants
<1>11. Held'
  <2>1. \A h \in C!Hooks, u \in Timer : firing'[h] = u =>
          firing[h] = u /\ u \in T!Members(timers') /\ u \notin call'.timer
    BY <1>0, <1>4, <1>8, <1>10 DEF Held
  <2> QED BY <1>0, <1>1, <1>6, <2>1, HeldStep
<1>12. Flagged'
  <2>1. ASSUME NEW u \in Timer \ {t}
        PROVE  /\ IsLinked(u)' => timer[u].active
               /\ timer[u].active => IsLinked(u)' \/ \E h \in C!Hooks : firing'[h] = u
    BY <1>0, <1>2, <1>7, <1>10 DEF Flagged
  <2>2. t \in T!Members(timers)' /\ ~IsLinked(t)'
    BY <1>1, <1>7, <1>8
  <2> QED BY <1>1, <1>4, <2>1, <2>2 DEF Flagged
<1> QED BY <1>5, <1>9, <1>11, <1>12 DEF TimerInv

\* rt_timer_init.
LEMMA InitTimerInv ==
  ASSUME TimerInv, NEW t \in Timer, NEW s \in Shapes, C!InitTimer(t, s)
  PROVE  TimerInv'
<1>0. TimersTyped /\ Listed /\ Held /\ Flagged
  BY DEF TimerInv
<1>r. PICK old : old = timers
  OBVIOUS
<1>1. /\ C!Idle /\ t \notin T!Members(old) /\ timers' = <<t>> \o old
      /\ timer' = [timer EXCEPT ![t] = [C!Unborn EXCEPT !.periodic = s.periodic, !.soft = s.soft, !.init = s.init]]
      /\ UNCHANGED <<tick, lists, firing, call, left>>
  BY <1>r DEF C!InitTimer, C!Members, T!Members
<1>2. call.timer = {}
  BY <1>0, <1>1, InCall
<1>3. timers' \in Seq(Timer) /\ T!Members(timers') = T!Members(timers) \cup {t} /\ Distinct(timers')
  <2>1. PICK new : new = <<t>> \o old
    OBVIOUS
  <2>2. old \in Seq(Timer) /\ Distinct(old)
    BY <1>0, <1>r DEF TimersTyped
  <2>3. new \in Seq(Timer) /\ T!Members(new) = T!Members(old) \cup {t} /\ Distinct(new)
    BY <1>1, <2>1, <2>2, Prepended
  <2>4. timers' = new
    BY <1>1, <2>1
  <2> QED BY <1>r, <2>3, <2>4
<1>4. /\ timer' \in [Timer -> TimerRecords] /\ ~timer'[t].active /\ timer'[t].init = s.init
      /\ \A u \in Timer \ {t} : timer'[u] = timer[u]
  <2>1. C!Unborn \in [active : {FALSE}, periodic : BOOLEAN, soft : BOOLEAN, init : Nat, timeout : Nat]
    BY DEF C!Unborn
  <2>2. PICK r : r = [C!Unborn EXCEPT !.periodic = s.periodic, !.soft = s.soft, !.init = s.init]
    OBVIOUS
  <2>3. r \in TimerRecords /\ r.active = FALSE /\ r.init = s.init
    BY <2>1, <2>2, TimerConstants DEF TimerRecords
  <2>4. timer' = [timer EXCEPT ![t] = r] /\ timer \in [Timer -> TimerRecords]
    BY <1>0, <1>1, <2>2 DEF TimersTyped
  <2> QED BY <2>3, <2>4
<1>5. TimersTyped'
  BY <1>0, <1>1, <1>3, <1>4 DEF TimersTyped
<1>6. /\ \A h \in C!Hooks : Distinct(lists'[h]) /\ Ordered(lists'[h], left')
      /\ \A h \in C!Hooks, u \in Timer : In(u, h)' <=> In(u, h)
      /\ \A u \in Timer : IsLinked(u)' <=> IsLinked(u)
  BY <1>0, <1>1, ListsStay
<1>7. ~IsLinked(t) /\ \A h \in C!Hooks : firing[h] # t /\ ~In(t, h)
  BY <1>0, <1>1, <1>r DEF IsLinked, Listed, Held
<1>9. Listed'
  <2>1. \A u \in T!Members(timers') : timer'[u].init > 0 /\ timer'[u].init + MaxLag < Ticks \div 2
    <3>1. T!Members(timers) \subseteq Timer
      BY <1>0 DEF TimersTyped, T!Members
    <3> QED BY <1>0, <1>3, <1>4, <3>1, TimerConstants DEF Listed
  <2>2. ASSUME NEW h \in C!Hooks, NEW u \in Timer, In(u, h)'
        PROVE  In(u, h) /\ u \in T!Members(timers') /\ timer'[u] = timer[u]
    BY <1>0, <1>3, <1>4, <1>6, <1>7, <2>2 DEF Listed
  <2> QED BY <1>0, <1>1, <1>6, <2>1, <2>2, ListedStep
<1>11. Held'
  <2>1. ASSUME NEW h \in C!Hooks, NEW u \in Timer, firing'[h] = u
        PROVE  firing[h] = u /\ timer'[u] = timer[u] /\ u \in T!Members(timers') /\ u \notin call'.timer
    BY <1>0, <1>1, <1>2, <1>3, <1>4, <1>7, <2>1 DEF Held
  <2> QED BY <1>0, <1>6, <2>1, HeldStep
<1>12. Flagged'
  BY <1>0, <1>1, <1>2, <1>4, <1>6, <1>7 DEF Flagged
<1> QED BY <1>5, <1>9, <1>11, <1>12 DEF TimerInv

\* The flag of the timer of a call is written, once it is off the lists.
LEMMA ClearInv ==
  ASSUME TimerInv, C!Clear
  PROVE  TimerInv'
<1>0. TimersTyped /\ Listed /\ Held /\ Flagged
  BY DEF TimerInv
<1>1. PICK t \in call.timer :
        /\ call.at = "clear" /\ timer' = [timer EXCEPT ![t].active = FALSE]
        /\ call' = IF call.call = "stop" THEN C!NoOp ELSE [call EXCEPT !.at = "place"]
        /\ UNCHANGED <<tick, timers, lists, firing, left>>
  BY DEF C!Clear
<1>2. /\ t \in Timer /\ call.timer = {t} /\ call.call \in {"start", "stop", "detach"} \cup C!Hooks
      /\ call = [call |-> call.call, at |-> call.at, timer |-> {t}]
  BY <1>0, InCall
<1>3. /\ call' \in Calls
      /\ call'.timer = {} \/ (call'.timer = {t} /\ call'.at = "place")
  BY <1>1, <1>2 DEF Calls, C!NoOp
<1>4. /\ timer' \in [Timer -> TimerRecords] /\ ~timer'[t].active
      /\ \A u \in Timer : /\ timer'[u].init = timer[u].init /\ timer'[u].timeout = timer[u].timeout
                          /\ timer'[u].soft = timer[u].soft
      /\ \A u \in Timer \ {t} : timer'[u] = timer[u]
  BY <1>0, <1>1, <1>2, FlagIs
<1>5. TimersTyped'
  BY <1>0, <1>1, <1>3, <1>4 DEF TimersTyped, Distinct
<1>6. /\ \A h \in C!Hooks : Distinct(lists'[h]) /\ Ordered(lists'[h], left')
      /\ \A h \in C!Hooks, u \in Timer : In(u, h)' <=> In(u, h)
      /\ \A u \in Timer : IsLinked(u)' <=> IsLinked(u)
  BY <1>0, <1>1, ListsStay
<1>7. ~IsLinked(t) /\ t \in T!Members(timers) /\ \A h \in C!Hooks : firing[h] # t
  BY <1>0, <1>1, <1>2 DEF Flagged, Held
<1>8. T!Members(timers') = T!Members(timers) /\ T!Members(timers) \subseteq Timer
  BY <1>0, <1>1 DEF TimersTyped, T!Members
<1>9. Listed'
  <2>1. \A u \in T!Members(timers') : timer'[u].init > 0 /\ timer'[u].init + MaxLag < Ticks \div 2
    BY <1>0, <1>4, <1>8 DEF Listed
  <2>2. ASSUME NEW h \in C!Hooks, NEW u \in Timer, In(u, h)'
        PROVE  In(u, h) /\ u \in T!Members(timers')
    BY <1>0, <1>6, <1>8, <2>2 DEF Listed
  <2> QED BY <1>0, <1>1, <1>4, <1>6, <2>1, <2>2, ListedStep
<1>11. Held'
  <2>1. ASSUME NEW h \in C!Hooks, NEW u \in Timer, firing'[h] = u
        PROVE  firing[h] = u /\ timer'[u] = timer[u] /\ u \in T!Members(timers') /\ u \notin call'.timer
    BY <1>0, <1>1, <1>3, <1>4, <1>7, <1>8, <2>1 DEF Held
  <2> QED BY <1>0, <1>6, <2>1, HeldStep
<1>12. Flagged'
  <2>1. ASSUME NEW u \in Timer \ call'.timer
        PROVE  /\ IsLinked(u)' => timer'[u].active
               /\ timer'[u].active => IsLinked(u)' \/ \E h \in C!Hooks : firing'[h] = u
    <3>1. CASE u = t
      BY <1>4, <1>6, <1>7, <3>1
    <3>2. CASE u # t
      BY <1>0, <1>1, <1>2, <1>4, <1>6, <3>2 DEF Flagged
    <3> QED BY <3>1, <3>2
  <2>2. \A u \in call'.timer : /\ u \in T!Members(timers') /\ ~IsLinked(u)' /\ call'.at = "place"
    BY <1>3, <1>6, <1>7, <1>8
  <2> QED BY <2>1, <2>2 DEF Flagged
<1> QED BY <1>5, <1>9, <1>11, <1>12 DEF TimerInv

\* The flag is set, once it is on its list.
LEMMA ActivateInv ==
  ASSUME TimerInv, C!Activate
  PROVE  TimerInv'
<1>0. TimersTyped /\ Listed /\ Held /\ Flagged
  BY DEF TimerInv
<1>1. PICK t \in call.timer :
        /\ call.at = "activate" /\ timer' = [timer EXCEPT ![t].active = TRUE] /\ call' = C!NoOp
        /\ UNCHANGED <<tick, timers, lists, firing, left>>
  BY DEF C!Activate
<1>2. t \in Timer /\ call.timer = {t}
  BY <1>0, InCall
<1>3. call' \in Calls /\ call'.timer = {}
  BY <1>1 DEF Calls, C!NoOp
<1>4. /\ timer' \in [Timer -> TimerRecords] /\ timer'[t].active
      /\ \A u \in Timer : /\ timer'[u].init = timer[u].init /\ timer'[u].timeout = timer[u].timeout
                          /\ timer'[u].soft = timer[u].soft
      /\ \A u \in Timer \ {t} : timer'[u] = timer[u]
  BY <1>0, <1>1, <1>2, FlagIs
<1>5. TimersTyped'
  BY <1>0, <1>1, <1>3, <1>4 DEF TimersTyped, Distinct
<1>6. /\ \A h \in C!Hooks : Distinct(lists'[h]) /\ Ordered(lists'[h], left')
      /\ \A h \in C!Hooks, u \in Timer : In(u, h)' <=> In(u, h)
      /\ \A u \in Timer : IsLinked(u)' <=> IsLinked(u)
  BY <1>0, <1>1, ListsStay
<1>7. IsLinked(t) /\ \A h \in C!Hooks : firing[h] # t
  BY <1>0, <1>1, <1>2 DEF Flagged, Held
<1>8. T!Members(timers') = T!Members(timers) /\ T!Members(timers) \subseteq Timer
  BY <1>0, <1>1 DEF TimersTyped, T!Members
<1>9. Listed'
  <2>1. \A u \in T!Members(timers') : timer'[u].init > 0 /\ timer'[u].init + MaxLag < Ticks \div 2
    BY <1>0, <1>4, <1>8 DEF Listed
  <2>2. ASSUME NEW h \in C!Hooks, NEW u \in Timer, In(u, h)'
        PROVE  In(u, h) /\ u \in T!Members(timers')
    BY <1>0, <1>6, <1>8, <2>2 DEF Listed
  <2> QED BY <1>0, <1>1, <1>4, <1>6, <2>1, <2>2, ListedStep
<1>11. Held'
  <2>1. ASSUME NEW h \in C!Hooks, NEW u \in Timer, firing'[h] = u
        PROVE  firing[h] = u /\ timer'[u] = timer[u] /\ u \in T!Members(timers') /\ u \notin call'.timer
    BY <1>0, <1>1, <1>3, <1>4, <1>7, <1>8, <2>1 DEF Held
  <2> QED BY <1>0, <1>6, <2>1, HeldStep
<1>12. Flagged'
  <2>1. ASSUME NEW u \in Timer
        PROVE  /\ IsLinked(u)' => timer'[u].active
               /\ timer'[u].active => IsLinked(u)' \/ \E h \in C!Hooks : firing'[h] = u
    <3>1. CASE u = t
      BY <1>4, <1>6, <1>7, <3>1
    <3>2. CASE u # t
      BY <1>0, <1>1, <1>2, <1>4, <1>6, <3>2 DEF Flagged
    <3> QED BY <3>1, <3>2
  <2> QED BY <1>3, <2>1 DEF Flagged
<1> QED BY <1>5, <1>9, <1>11, <1>12 DEF TimerInv

\* rt_object_detach.
LEMMA UnregisterInv ==
  ASSUME TimerInv, C!Unregister
  PROVE  TimerInv'
<1>0. TimersTyped /\ Listed /\ Held /\ Flagged
  BY DEF TimerInv
<1>r. PICK old : old = timers
  OBVIOUS
<1>1. PICK t \in call.timer :
        /\ call.at = "place" /\ timers' = C!Without(old, t)
        /\ timer' = [timer EXCEPT ![t] = C!Unborn] /\ call' = C!NoOp
        /\ UNCHANGED <<tick, lists, firing, left>>
  <2>1. PICK t \in call.timer :
          /\ call.at = "place" /\ timers' = C!Without(timers, t)
          /\ timer' = [timer EXCEPT ![t] = C!Unborn] /\ call' = C!NoOp
          /\ UNCHANGED <<tick, lists, firing, left>>
    BY DEF C!Unregister
  <2> QED BY <1>r, <2>1
<1>2. t \in Timer /\ call.timer = {t}
  BY <1>0, InCall
<1>3. call' \in Calls /\ call'.timer = {}
  BY <1>1 DEF Calls, C!NoOp
<1>4. /\ timer' \in [Timer -> TimerRecords] /\ ~timer'[t].active
      /\ \A u \in Timer \ {t} : timer'[u] = timer[u]
  BY <1>0, <1>1, <1>2 DEF TimersTyped, TimerRecords, C!Unborn
<1>8. timers' \in Seq(Timer) /\ T!Members(timers') = T!Members(timers) \ {t} /\ Distinct(timers')
  <2>1. PICK new : new = T!Without(old, t)
    OBVIOUS
  <2>2. old \in Seq(Timer) /\ Distinct(old)
    BY <1>0, <1>r DEF TimersTyped
  <2>3. new \in Seq(Timer) /\ T!Members(new) = T!Members(old) \ {t} /\ Distinct(new)
    BY <2>1, <2>2, Unlinked
  <2>4. timers' = new
    BY <1>1, <2>1, SameLists
  <2> QED BY <1>r, <2>3, <2>4
<1>5. TimersTyped'
  BY <1>0, <1>1, <1>3, <1>4, <1>8 DEF TimersTyped
<1>6. /\ \A h \in C!Hooks : Distinct(lists'[h]) /\ Ordered(lists'[h], left')
      /\ \A h \in C!Hooks, u \in Timer : In(u, h)' <=> In(u, h)
      /\ \A u \in Timer : IsLinked(u)' <=> IsLinked(u)
  BY <1>0, <1>1, ListsStay
<1>7. ~IsLinked(t) /\ \A h \in C!Hooks : firing[h] # t /\ ~In(t, h)
  BY <1>0, <1>1, <1>2 DEF Flagged, Held, IsLinked
<1>9. Listed'
  <2>1. \A u \in T!Members(timers') : timer'[u].init > 0 /\ timer'[u].init + MaxLag < Ticks \div 2
    <3>1. T!Members(timers) \subseteq Timer
      BY <1>0 DEF TimersTyped, T!Members
    <3> QED BY <1>0, <1>4, <1>8, <3>1 DEF Listed
  <2>2. ASSUME NEW h \in C!Hooks, NEW u \in Timer, In(u, h)'
        PROVE  In(u, h) /\ u \in T!Members(timers') /\ timer'[u] = timer[u]
    BY <1>0, <1>4, <1>6, <1>7, <1>8, <2>2 DEF Listed
  <2> QED BY <1>0, <1>1, <1>6, <2>1, <2>2, ListedStep
<1>11. Held'
  <2>1. ASSUME NEW h \in C!Hooks, NEW u \in Timer, firing'[h] = u
        PROVE  firing[h] = u /\ timer'[u] = timer[u] /\ u \in T!Members(timers') /\ u \notin call'.timer
    BY <1>0, <1>1, <1>3, <1>4, <1>7, <1>8, <2>1 DEF Held
  <2> QED BY <1>0, <1>6, <2>1, HeldStep
<1>12. Flagged'
  <2>1. ASSUME NEW u \in Timer
        PROVE  /\ IsLinked(u)' => timer'[u].active
               /\ timer'[u].active => IsLinked(u)' \/ \E h \in C!Hooks : firing'[h] = u
    <3>1. CASE u = t
      BY <1>4, <1>6, <1>7, <3>1
    <3>2. CASE u # t
      BY <1>0, <1>1, <1>2, <1>4, <1>6, <3>2 DEF Flagged
    <3> QED BY <3>1, <3>2
  <2> QED BY <1>3, <2>1 DEF Flagged
<1> QED BY <1>5, <1>9, <1>11, <1>12 DEF TimerInv

\* The timer is put where its callback has it.
LEMMA FireInv ==
  ASSUME TimerInv, C!Fire
  PROVE  TimerInv'
<1>0. TimersTyped /\ Listed /\ Held /\ Flagged
  BY DEF TimerInv
<1>1. PICK t \in call.timer :
        /\ call.at = "fire" /\ timer' = [timer EXCEPT ![t].active = @ /\ timer[t].periodic]
        /\ firing' = [firing EXCEPT ![call.call] = t] /\ call' = C!NoOp
        /\ UNCHANGED <<tick, timers, lists, left>>
  BY DEF C!Fire
<1>2. t \in Timer /\ call.timer = {t}
  BY <1>0, InCall
<1>3. call' \in Calls /\ call'.timer = {}
  BY <1>1 DEF Calls, C!NoOp
<1>4. /\ timer' \in [Timer -> TimerRecords] /\ (timer'[t].active => timer'[t].periodic)
      /\ \A u \in Timer : /\ timer'[u].init = timer[u].init /\ timer'[u].timeout = timer[u].timeout
                          /\ timer'[u].soft = timer[u].soft
      /\ \A u \in Timer \ {t} : timer'[u] = timer[u]
  <2>1. PICK v : v = (timer[t].active /\ timer[t].periodic)
    OBVIOUS
  <2>2. v \in BOOLEAN
    BY <2>1
  <2>3. timer' = [timer EXCEPT ![t].active = v]
    BY <1>1, <2>1
  <2> QED BY <1>0, <1>2, <2>1, <2>2, <2>3, FlagIs
<1>h. PICK h : h = call.call
  OBVIOUS
<1>7. /\ ~IsLinked(t) /\ t \in T!Members(timers) /\ \A g \in C!Hooks : firing[g] # t
      /\ h \in C!Hooks /\ C!HookOf(t) = h /\ firing[h] = "none"
  BY <1>0, <1>1, <1>2, <1>h DEF Flagged, Held
<1>10. /\ firing' \in [C!Hooks -> Timer \cup {"none", "taken"}] /\ firing'[h] = t
       /\ \A g \in C!Hooks \ {h} : firing'[g] = firing[g]
  BY <1>0, <1>1, <1>2, <1>7, <1>h DEF TimersTyped
<1>5. TimersTyped'
  BY <1>0, <1>1, <1>3, <1>4, <1>10 DEF TimersTyped, Distinct
<1>6. /\ \A g \in C!Hooks : Distinct(lists'[g]) /\ Ordered(lists'[g], left')
      /\ \A g \in C!Hooks, u \in Timer : In(u, g)' <=> In(u, g)
      /\ \A u \in Timer : IsLinked(u)' <=> IsLinked(u)
  BY <1>0, <1>1, ListsStay
<1>8. T!Members(timers') = T!Members(timers) /\ T!Members(timers) \subseteq Timer
  BY <1>0, <1>1 DEF TimersTyped, T!Members
<1>9. Listed'
  <2>1. \A u \in T!Members(timers') : timer'[u].init > 0 /\ timer'[u].init + MaxLag < Ticks \div 2
    BY <1>0, <1>4, <1>8 DEF Listed
  <2>2. ASSUME NEW g \in C!Hooks, NEW u \in Timer, In(u, g)'
        PROVE  In(u, g) /\ u \in T!Members(timers')
    BY <1>0, <1>6, <1>8, <2>2 DEF Listed
  <2> QED BY <1>0, <1>1, <1>4, <1>6, <2>1, <2>2, ListedStep
<1>11. Held'
  <2>1. ASSUME NEW g \in C!Hooks, NEW u \in Timer, firing'[g] = u
        PROVE  /\ u \in T!Members(timers)' /\ C!HookOf(u)' = g /\ ~IsLinked(u)' /\ u \notin call'.timer
               /\ timer'[u].active => timer'[u].periodic
    <3>1. C!HookOf(u)' = C!HookOf(u)
      BY <1>4 DEF C!HookOf
    <3>2. CASE g = h
      BY <1>3, <1>4, <1>6, <1>7, <1>8, <1>10, <2>1, <3>1, <3>2
    <3>3. CASE g # h
      <4>1. firing[g] = u /\ u # t
        BY <1>7, <1>10, <2>1, <3>3
      <4> QED BY <1>0, <1>3, <1>4, <1>6, <1>8, <3>1, <4>1 DEF Held
    <3> QED BY <3>2, <3>3
  <2> QED BY <2>1 DEF Held
<1>12. Flagged'
  <2>1. ASSUME NEW u \in Timer
        PROVE  /\ IsLinked(u)' => timer'[u].active
               /\ timer'[u].active => IsLinked(u)' \/ \E g \in C!Hooks : firing'[g] = u
    <3>1. CASE u = t
      BY <1>6, <1>7, <1>10, <3>1
    <3>2. CASE u # t
      <4>1. /\ IsLinked(u) => timer[u].active
            /\ timer[u].active => IsLinked(u) \/ \E g \in C!Hooks : firing[g] = u
        BY <1>0, <1>2, <3>2 DEF Flagged
      <4>2. \A g \in C!Hooks : firing[g] = u => firing'[g] = u
        BY <1>7, <1>10, TimerConstants
      <4> QED BY <1>4, <1>6, <3>2, <4>1, <4>2
    <3> QED BY <3>1, <3>2
  <2> QED BY <1>3, <2>1 DEF Flagged
<1> QED BY <1>5, <1>9, <1>11, <1>12 DEF TimerInv

\* A callback returns: a periodic timer that is still held is started again.
LEMMA ReturnInv ==
  ASSUME TimerInv, NEW h \in C!Hooks, C!Return(h)
  PROVE  TimerInv'
<1>0. TimersTyped /\ Listed /\ Held /\ Flagged
  BY DEF TimerInv
<1>v. PICK v : v = firing[h]
  OBVIOUS
<1>1. /\ C!Idle /\ v # "none" /\ firing' = [firing EXCEPT ![h] = "none"]
      /\ call' = IF v # "taken" /\ timer[v].active /\ timer[v].periodic
                 THEN [call |-> "start", at |-> "clear", timer |-> {v}] ELSE C!NoOp
      /\ UNCHANGED <<tick, timer, timers, lists, left>>
  BY <1>v DEF C!Return
<1>2. call.timer = {}
  BY <1>0, <1>1, InCall
<1>3. v = "taken" \/ v \in Timer
  BY <1>0, <1>1, <1>v DEF TimersTyped
<1>7. v \in Timer => /\ ~IsLinked(v) /\ v \in T!Members(timers) /\ C!HookOf(v) = h
                     /\ (timer[v].active => timer[v].periodic)
  BY <1>0, <1>v DEF Held
<1>4. /\ call' \in Calls
      /\ \/ call'.timer = {} /\ (v \in Timer => ~timer[v].active)
         \/ call'.timer = {v} /\ call'.at = "clear" /\ v \in Timer
  <2>1. CASE v # "taken" /\ timer[v].active /\ timer[v].periodic
    BY <1>1, <1>3, <2>1 DEF Calls
  <2>2. CASE ~(v # "taken" /\ timer[v].active /\ timer[v].periodic)
    BY <1>1, <1>7, <2>2, TimerConstants DEF Calls, C!NoOp
  <2> QED BY <2>1, <2>2
<1>10. /\ firing' \in [C!Hooks -> Timer \cup {"none", "taken"}]
       /\ \A g \in C!Hooks, u \in Timer : firing'[g] = u <=> firing[g] = u /\ g # h
  BY <1>0, <1>1, TimerConstants DEF TimersTyped
<1>5. TimersTyped'
  BY <1>0, <1>1, <1>4, <1>10 DEF TimersTyped, Distinct
<1>6. /\ \A g \in C!Hooks : Distinct(lists'[g]) /\ Ordered(lists'[g], left')
      /\ \A g \in C!Hooks, u \in Timer : In(u, g)' <=> In(u, g)
      /\ \A u \in Timer : IsLinked(u)' <=> IsLinked(u)
  BY <1>0, <1>1, ListsStay
<1>8. T!Members(timers') = T!Members(timers)
  BY <1>1
<1>9. Listed'
  <2>1. \A u \in T!Members(timers') : timer'[u].init > 0 /\ timer'[u].init + MaxLag < Ticks \div 2
    BY <1>0, <1>1, <1>8 DEF Listed
  <2>2. \A g \in C!Hooks, u \in Timer : In(u, g)' => In(u, g) /\ u \in T!Members(timers')
    BY <1>0, <1>6, <1>8 DEF Listed
  <2> QED BY <1>0, <1>1, <1>6, <2>1, <2>2, ListedStep
<1>11. Held'
  <2>1. ASSUME NEW g \in C!Hooks, NEW u \in Timer, firing'[g] = u
        PROVE  firing[g] = u /\ u \in T!Members(timers') /\ u \notin call'.timer
    <3>1. firing[g] = u /\ g # h /\ C!HookOf(u) = g
      BY <1>0, <1>10, <2>1 DEF Held
    <3> QED BY <1>0, <1>4, <1>7, <1>8, <3>1 DEF Held
  <2> QED BY <1>0, <1>1, <1>6, <2>1, HeldStep
<1>12. Flagged'
  <2>1. ASSUME NEW u \in Timer \ call'.timer
        PROVE  /\ IsLinked(u)' => timer[u].active
               /\ timer[u].active => IsLinked(u)' \/ \E g \in C!Hooks : firing'[g] = u
    <3>1. /\ IsLinked(u) => timer[u].active
          /\ timer[u].active => IsLinked(u) \/ \E g \in C!Hooks : firing[g] = u
      BY <1>0, <1>2 DEF Flagged
    <3>2. CASE u = v
      BY <1>4, <1>6, <1>7, <2>1, <3>2
    <3>3. CASE u # v
      BY <1>6, <1>10, <1>v, <3>1, <3>3
    <3> QED BY <3>2, <3>3
  <2>2. \A u \in call'.timer : u \in T!Members(timers') /\ ~IsLinked(u)' /\ call'.at = "clear"
    BY <1>4, <1>6, <1>7, <1>8
  <2> QED BY <1>1, <2>1, <2>2 DEF Flagged
<1> QED BY <1>5, <1>9, <1>11, <1>12 DEF TimerInv

\* rt_timer_check takes the first timer off its list.
LEMMA ExpireInv ==
  ASSUME TimerInv, NEW h \in C!Hooks, C!Expire(h)
  PROVE  TimerInv'
<1>0. TimersTyped /\ Listed /\ Held /\ Flagged
  BY DEF TimerInv
<1>a. PICK old, new : old = lists /\ new = lists'
  OBVIOUS
<1>b. PICK m, n : m = left /\ n = left'
  OBVIOUS
<1>s. PICK s : s = old[h]
  OBVIOUS
<1>c. PICK t : t = Head(s)
  OBVIOUS
<1>1. /\ C!Idle /\ firing[h] = "none" /\ s # << >>
      /\ new = [old EXCEPT ![h] = Tail(@)] /\ n = [m EXCEPT ![t] = 0]
      /\ call' = [call |-> h, at |-> "fire", timer |-> {t}]
      /\ UNCHANGED <<tick, timer, timers, firing>>
  BY <1>a, <1>b, <1>s, <1>c DEF C!Expire, C!Due
<1>2. call.timer = {}
  BY <1>0, <1>1, InCall
<1>3. /\ \A g \in C!Hooks : old[g] \in Seq(Timer) /\ Distinct(old[g]) /\ Ordered(old[g], m)
      /\ m \in [Timer -> Int] /\ old \in [C!Hooks -> Seq(Timer)]
  BY <1>0, <1>a, <1>b DEF TimersTyped, Listed
<1>4. s \in Seq(Timer) /\ Distinct(s) /\ Ordered(s, m)
  BY <1>3, <1>s
<1>r. PICK r : r = Tail(s)
  OBVIOUS
<1>5. r \in Seq(Timer) /\ Taken(r, s, 1) /\ 1 \in 1..Len(s) /\ t = s[1]
  BY <1>1, <1>4, <1>r, <1>c, TailTaken
<1>6. T!Members(r) = T!Members(s) \ {t} /\ Distinct(r) /\ Ordered(r, m)
  <2>1. T!Members(r) = T!Members(s) \ {s[1]} /\ Distinct(r)
    BY <1>4, <1>5, TakenOut
  <2>2. Ordered(r, m)
    BY <1>3, <1>4, <1>5, OrderedTaken
  <2> QED BY <1>5, <2>1, <2>2
<1>7. t \in Timer /\ t \in T!Members(s)
  BY <1>4, <1>5 DEF T!Members
<1>8. In(t, h)
  BY <1>7, <1>a, <1>s DEF In
<1>9. t \in T!Members(timers) /\ C!HookOf(t) = h /\ IsLinked(t)
  <2>1. t \in T!Members(timers) /\ C!HookOf(t) = h
    BY <1>0, <1>7, <1>8 DEF Listed
  <2>2. IsLinked(t)
    BY <1>8 DEF IsLinked
  <2> QED BY <2>1, <2>2
<1>10. n \in [Timer -> Int] /\ \A u \in Timer \ {t} : n[u] = m[u]
  <2>1. n = [m EXCEPT ![t] = 0] /\ m \in [Timer -> Int] /\ t \in Timer
    BY <1>1, <1>3, <1>7
  <2> QED BY <2>1
<1>13. /\ new \in [C!Hooks -> Seq(Timer)] /\ new[h] = r
       /\ \A g \in C!Hooks \ {h} : new[g] = old[g]
  BY <1>1, <1>3, <1>5, <1>r, <1>s
<1>14. \A g \in C!Hooks : T!Members(new[g]) = T!Members(old[g]) \ {t}
  <2>1. ASSUME NEW g \in C!Hooks PROVE T!Members(new[g]) = T!Members(old[g]) \ {t}
    <3>1. CASE g = h
      BY <1>6, <1>13, <1>s, <3>1
    <3>2. CASE g # h
      <4>1. ~In(t, g)
        BY <1>0, <1>7, <1>9, <3>2 DEF Listed
      <4>2. t \notin T!Members(old[g])
        BY <1>a, <4>1 DEF In
      <4> QED BY <1>13, <3>2, <4>2
    <3> QED BY <3>1, <3>2
  <2> QED BY <2>1
<1>15. \A g \in C!Hooks : Distinct(new[g]) /\ Ordered(new[g], n)
  <2>1. ASSUME NEW g \in C!Hooks PROVE Distinct(new[g]) /\ Ordered(new[g], n)
    <3>1. PICK q : q = new[g]
      OBVIOUS
    <3>2. Distinct(q) /\ Ordered(q, m)
      BY <1>3, <1>6, <1>13, <3>1
    <3>3. \A i \in DOMAIN q : q[i] \in Timer \ {t}
      <4>1. T!Members(q) \subseteq Timer \ {t}
        <5>1. T!Members(old[g]) \subseteq Timer
          BY <1>3 DEF T!Members
        <5> QED BY <1>14, <3>1, <5>1
      <4> QED BY <4>1 DEF T!Members
    <3>4. Ordered(q, n)
      BY <1>10, <3>2, <3>3 DEF Ordered
    <3> QED BY <3>1, <3>2, <3>4
  <2> QED BY <2>1
<1>16. call' \in Calls /\ call'.timer = {t} /\ call'.at = "fire" /\ call'.call = h
  BY <1>1, <1>7 DEF Calls
<1>17. TimersTyped'
  BY <1>0, <1>1, <1>10, <1>13, <1>16, <1>a, <1>b DEF TimersTyped, Distinct
<1>18. \A u \in Timer, g \in C!Hooks : In(u, g)' <=> In(u, g) /\ u # t
  BY <1>14, <1>a DEF In
<1>19. \A u \in Timer : IsLinked(u)' <=> IsLinked(u) /\ u # t
  BY <1>18 DEF IsLinked
<1>20. T!Members(timers') = T!Members(timers)
  BY <1>1
<1>21. Listed'
  <2>1. \A u \in T!Members(timers') : timer'[u].init > 0 /\ timer'[u].init + MaxLag < Ticks \div 2
    BY <1>0, <1>1, <1>20 DEF Listed
  <2>2. \A g \in C!Hooks, u \in Timer : In(u, g)' => In(u, g) /\ u \in T!Members(timers') /\ left'[u] = left[u]
    BY <1>0, <1>10, <1>18, <1>20, <1>b DEF Listed
  <2>3. \A g \in C!Hooks : Distinct(lists'[g]) /\ Ordered(lists'[g], left')
    BY <1>15, <1>a, <1>b
  <2> QED BY <1>0, <1>1, <2>1, <2>2, <2>3, ListedStep
<1>22. \A g \in C!Hooks : firing[g] # t
  BY <1>0, <1>7, <1>9 DEF Held
<1>23. Held'
  <2>1. \A g \in C!Hooks, u \in Timer : firing'[g] = u =>
          firing[g] = u /\ u \in T!Members(timers') /\ u \notin call'.timer
    BY <1>0, <1>1, <1>16, <1>20, <1>22 DEF Held
  <2> QED BY <1>0, <1>1, <1>18, <2>1, HeldStep
<1>24. Flagged'
  <2>1. ASSUME NEW u \in Timer \ {t}
        PROVE  /\ IsLinked(u)' => timer[u].active
               /\ timer[u].active => IsLinked(u)' \/ \E g \in C!Hooks : firing[g] = u
    BY <1>0, <1>2, <1>19 DEF Flagged
  <2>2. t \in T!Members(timers') /\ ~IsLinked(t)'
    BY <1>7, <1>9, <1>19, <1>20
  <2>3. C!HookOf(t)' = h
    BY <1>1, <1>9 DEF C!HookOf
  <2> QED BY <1>1, <1>16, <2>1, <2>2, <2>3 DEF Flagged
<1> QED BY <1>17, <1>21, <1>23, <1>24 DEF TimerInv

\* Two sequences, one behind the other.
LEMMA Joined ==
  ASSUME NEW S, NEW a \in Seq(S), NEW b \in Seq(S)
  PROVE  LET r == a \o b
         IN /\ r \in Seq(S) /\ T!Members(r) = T!Members(a) \cup T!Members(b) /\ Len(r) = Len(a) + Len(b)
            /\ \A i \in 1..Len(r) : \/ i \in 1..Len(a) /\ r[i] = a[i]
                                    \/ i > Len(a) /\ i - Len(a) \in 1..Len(b) /\ r[i] = b[i - Len(a)]
<1>1. PICK n, m, r : n = Len(a) /\ m = Len(b) /\ r = a \o b
  OBVIOUS
<1>2. n \in Nat /\ m \in Nat /\ DOMAIN a = 1..n /\ DOMAIN b = 1..m
  BY <1>1
<1>3. r \in Seq(S) /\ Len(r) = n + m /\ \A i \in 1..(n + m) : r[i] = IF i <= n THEN a[i] ELSE b[i - n]
  BY <1>1, ConcatProperties
<1>4. DOMAIN r = 1..(n + m)
  BY <1>3
<1>5. ASSUME NEW i \in 1..(n + m)
      PROVE  \/ i \in 1..n /\ r[i] = a[i]
             \/ i > n /\ i - n \in 1..m /\ r[i] = b[i - n]
  BY <1>2, <1>3
<1>6. T!Members(r) \subseteq T!Members(a) \cup T!Members(b)
  BY <1>2, <1>4, <1>5 DEF T!Members
<1>7. T!Members(a) \subseteq T!Members(r)
  <2>1. \A i \in 1..n : i \in 1..(n + m) /\ r[i] = a[i]
    BY <1>2, <1>3
  <2> QED BY <1>2, <1>4, <2>1 DEF T!Members
<1>8. T!Members(b) \subseteq T!Members(r)
  <2>1. \A i \in 1..m : i + n \in 1..(n + m) /\ r[i + n] = b[i]
    BY <1>2, <1>3
  <2> QED BY <1>2, <1>4, <2>1 DEF T!Members
<1> QED BY <1>1, <1>3, <1>5, <1>6, <1>7, <1>8

\* The active timers are what is linked, the hard ones first, once each.
LEMMA ActiveIs ==
  ASSUME TimersTyped, Listed
  PROVE  /\ C!ActiveTimers \in Seq(Timer) /\ Distinct(C!ActiveTimers)
         /\ \A t \in Timer : t \in T!Members(C!ActiveTimers) <=> IsLinked(t)
         /\ \A i, j \in 1..Len(C!ActiveTimers) :
              /\ i < j /\ timer[C!ActiveTimers[i]].soft = timer[C!ActiveTimers[j]].soft =>
                   left[C!ActiveTimers[i]] <= left[C!ActiveTimers[j]]
<1>1. PICK a, b, r : a = lists["timer_list"] /\ b = lists["soft_timer_list"] /\ r = C!ActiveTimers
  OBVIOUS
<1>2. a \in Seq(Timer) /\ b \in Seq(Timer)
  BY <1>1, TimerConstants DEF TimersTyped
<1>3. /\ Distinct(a) /\ Distinct(b)
      /\ \A i, j \in DOMAIN a : i < j => left[a[i]] <= left[a[j]]
      /\ \A i, j \in DOMAIN b : i < j => left[b[i]] <= left[b[j]]
  <2>1. PICK m : m = left
    OBVIOUS
  <2>2. Ordered(a, m) /\ Ordered(b, m) /\ Distinct(a) /\ Distinct(b)
    BY <1>1, <2>1, TimerConstants DEF Listed
  <2> QED BY <2>1, <2>2 DEF Ordered
<1>4. r = a \o b
  BY <1>1 DEF C!ActiveTimers
<1>5. PICK n, m : n = Len(a) /\ m = Len(b)
  OBVIOUS
<1>6. n \in Nat /\ m \in Nat /\ DOMAIN a = 1..n /\ DOMAIN b = 1..m
  BY <1>2, <1>5
<1>7. /\ r \in Seq(Timer) /\ T!Members(r) = T!Members(a) \cup T!Members(b) /\ Len(r) = n + m
      /\ \A i \in 1..Len(r) : \/ i \in 1..n /\ r[i] = a[i]
                              \/ i > n /\ i - n \in 1..m /\ r[i] = b[i - n]
  BY <1>2, <1>4, <1>5, Joined
<1>8. \A t \in Timer : t \in T!Members(r) <=> IsLinked(t)
  BY <1>1, <1>7, TimerConstants DEF IsLinked, In
<1>9. /\ \A t \in T!Members(a) : ~timer[t].soft
      /\ \A t \in T!Members(b) : timer[t].soft
  <2>1. T!Members(a) \subseteq Timer /\ T!Members(b) \subseteq Timer
    BY <1>2 DEF T!Members
  <2>2. \A t \in T!Members(a) : C!HookOf(t) = "timer_list"
    BY <1>1, <2>1, TimerConstants DEF Listed, In
  <2>3. \A t \in T!Members(b) : C!HookOf(t) = "soft_timer_list"
    BY <1>1, <2>1, TimerConstants DEF Listed, In
  <2> QED BY <2>2, <2>3 DEF C!HookOf
<1>10. /\ \A i \in 1..n : ~timer[a[i]].soft
       /\ \A i \in 1..m : timer[b[i]].soft
  BY <1>6, <1>9 DEF T!Members
<1>11. ASSUME NEW i \in 1..Len(r), NEW j \in 1..Len(r)
       PROVE  /\ r[i] = r[j] => i = j
              /\ i < j /\ timer[r[i]].soft = timer[r[j]].soft => left[r[i]] <= left[r[j]]
  <2>1. CASE i \in 1..n /\ r[i] = a[i]
    <3>1. CASE j \in 1..n /\ r[j] = a[j]
      BY <1>3, <1>6, <2>1, <3>1 DEF Distinct
    <3>2. CASE j > n /\ j - n \in 1..m /\ r[j] = b[j - n]
      BY <1>10, <2>1, <3>2
    <3> QED BY <1>7, <3>1, <3>2
  <2>2. CASE i > n /\ i - n \in 1..m /\ r[i] = b[i - n]
    <3>1. CASE j \in 1..n /\ r[j] = a[j]
      BY <1>10, <2>2, <3>1
    <3>2. CASE j > n /\ j - n \in 1..m /\ r[j] = b[j - n]
      <4>1. i < j => i - n < j - n
        BY <1>6
      <4>2. i - n = j - n => i = j
        BY <1>6
      <4> QED BY <1>3, <1>6, <2>2, <3>2, <4>1, <4>2 DEF Distinct
    <3> QED BY <1>7, <3>1, <3>2
  <2> QED BY <1>7, <2>1, <2>2
<1>12. DOMAIN r = 1..Len(r)
  BY <1>7
<1>13. Distinct(r)
  BY <1>11, <1>12 DEF Distinct
<1> QED BY <1>1, <1>7, <1>8, <1>11, <1>13
\* What is left of a linked timer is less than half of the range away.
LEMMA LinkedLeft ==
  ASSUME TimersTyped, Listed, NEW h \in C!Hooks, NEW t \in Timer, In(t, h)
  PROVE  /\ left[t] \in Int /\ timer[t].init \in Nat /\ left[t] <= timer[t].init
         /\ left[t] < Ticks \div 2 /\ -left[t] < Ticks \div 2 /\ -(left[t] - 1) < Ticks \div 2
         /\ -MaxLag <= left[t] /\ timer[t].init + MaxLag < Ticks \div 2 /\ timer[t].timeout = Wrap(tick + left[t])
<1>1. left[t] \in Int /\ timer[t].init \in Nat
  BY DEF TimersTyped, TimerRecords
<1>2. left[t] \in -MaxLag..timer[t].init /\ timer[t].timeout = Wrap(tick + left[t]) /\ t \in T!Members(timers)
  BY DEF Listed
<1>3. timer[t].init > 0 /\ timer[t].init + MaxLag < Ticks \div 2
  BY <1>2 DEF Listed
<1>4. PICK half \in Nat \ {0} : Ticks \div 2 = half
  BY TimerConstants
<1>5. MaxLag \in Nat
  BY TimerConstants
<1>6. PICK l, n, lag : l = left[t] /\ n = timer[t].init /\ lag = MaxLag
  OBVIOUS
<1>7. l \in Int /\ n \in Nat /\ lag \in Nat /\ l \in -lag..n /\ n > 0 /\ n + lag < half
  BY <1>1, <1>2, <1>3, <1>4, <1>5, <1>6
<1>8. l <= n /\ l < half /\ -l < half /\ -(l - 1) < half /\ -lag <= l
  BY <1>7
<1> QED BY <1>1, <1>2, <1>3, <1>4, <1>6, <1>8

\* The tick interrupt: no hard timer is due, none of the soft ones is too late,
\* and one tick less is left of each.
LEMMA TickInv ==
  ASSUME TimerInv, C!Tick
  PROVE  TimerInv'
<1>0. TimersTyped /\ Listed /\ Held /\ Flagged
  BY DEF TimerInv
<1>1. /\ C!Idle /\ ~C!Due("timer_list") /\ tick' = (tick + 1) % Ticks
      /\ \A t \in T!Members(lists["soft_timer_list"]) : left[t] > -MaxLag
      /\ left' = [t \in Timer |-> IF t \in T!Members(C!ActiveTimers) THEN left[t] - 1 ELSE 0]
      /\ UNCHANGED <<timer, timers, lists, firing, call>>
  BY DEF C!Tick, C!Members, T!Members
<1>2. tick \in 0..(Ticks - 1) /\ left \in [Timer -> Int]
  BY <1>0 DEF TimersTyped
<1>3. /\ left' \in [Timer -> Int]
      /\ \A t \in Timer : IsLinked(t) => left'[t] = left[t] - 1
  <2>1. \A t \in Timer : t \in T!Members(C!ActiveTimers) <=> IsLinked(t)
    BY <1>0, ActiveIs
  <2> QED BY <1>1, <1>2, <2>1
<1>4. ASSUME NEW t \in Timer, In(t, "timer_list") PROVE left[t] > 0
  <2>1. PICK s, m : s = lists["timer_list"] /\ m = left
    OBVIOUS
  <2>2. s \in Seq(Timer) /\ Ordered(s, m) /\ m \in [Timer -> Int]
    BY <1>0, <2>1, TimerConstants DEF TimersTyped, Listed
  <2>3. PICK i \in DOMAIN s : s[i] = t
    BY <1>4, <2>1 DEF In, T!Members
  <2>4. PICK n : n = Len(s)
    OBVIOUS
  <2>5. n \in Nat \ {0} /\ DOMAIN s = 1..n /\ i \in 1..n /\ 1 \in 1..n /\ s # << >> /\ Head(s) = s[1]
    BY <2>2, <2>3, <2>4
  <2>6. PICK u : u = s[1]
    OBVIOUS
  <2>7. u \in Timer /\ In(u, "timer_list")
    BY <2>1, <2>2, <2>5, <2>6 DEF In, T!Members
  <2>8. m[u] <= m[t]
    <3>1. CASE i = 1
      BY <2>2, <2>3, <2>6, <2>7, <3>1
    <3>2. CASE i # 1
      BY <2>2, <2>3, <2>5, <2>6, <3>2 DEF Ordered
    <3> QED BY <3>1, <3>2
  <2>9. ~(C!Minus(tick, timer[u].timeout) < Ticks \div 2)
    BY <1>1, <2>1, <2>5, <2>6 DEF C!Due
  <2>10. PICK l : l = left[u]
    OBVIOUS
  <2>11. l \in Int /\ l < Ticks \div 2 /\ -l < Ticks \div 2 /\ timer[u].timeout = Wrap(tick + l)
    BY <1>0, <2>7, <2>10, LinkedLeft, TimerConstants
  <2>12. C!Minus(tick, Wrap(tick + l)) = IF l <= 0 THEN -l ELSE Ticks - l
    BY <1>2, <2>11, Away
  <2>13. l > 0
    BY <2>9, <2>11, <2>12
  <2>14. l \in Int /\ m[t] \in Int /\ l <= m[t]
    BY <2>1, <2>2, <2>8, <2>10, <2>11
  <2> QED BY <2>1, <2>13, <2>14
<1>5. ASSUME NEW h \in C!Hooks, NEW t \in Timer, In(t, h)
      PROVE  left'[t] \in -MaxLag..timer[t].init /\ timer[t].timeout = Wrap(tick' + left'[t])
  <2>1. PICK l : l = left[t]
    OBVIOUS
  <2>2. /\ l \in Int /\ l < Ticks \div 2 /\ -(l - 1) < Ticks \div 2 /\ -MaxLag <= l
        /\ timer[t].init \in Nat /\ l <= timer[t].init /\ timer[t].timeout = Wrap(tick + l)
    BY <1>0, <1>5, <2>1, LinkedLeft
  <2>3. l > -MaxLag
    <3>1. CASE h = "timer_list"
      <4>1. l > 0
        BY <1>4, <1>5, <2>1, <3>1
      <4>2. MaxLag \in Nat
        BY TimerConstants
      <4> QED BY <2>2, <4>1, <4>2
    <3>2. CASE h = "soft_timer_list"
      BY <1>1, <1>5, <2>1, <3>2 DEF In
    <3> QED BY <3>1, <3>2, TimerConstants
  <2>4. left'[t] = l - 1
    BY <1>3, <1>5, <2>1 DEF IsLinked
  <2>5. Wrap(((tick + 1) % Ticks) + (l - 1)) = Wrap(tick + l)
    BY <1>2, <2>2, Later
  <2>6. l - 1 \in -MaxLag..timer[t].init
    <3>1. PICK n, lag : n = timer[t].init /\ lag = MaxLag
      OBVIOUS
    <3>2. n \in Nat /\ lag \in Nat /\ l \in Int /\ l > -lag /\ l <= n
      BY <2>2, <2>3, <3>1, TimerConstants
    <3>3. l - 1 \in -lag..n
      BY <3>2
    <3> QED BY <3>1, <3>3
  <2> QED BY <1>1, <2>2, <2>4, <2>5, <2>6
<1>6. tick' \in 0..(Ticks - 1)
  <2>1. PICK x, n : x = tick /\ n = Ticks
    OBVIOUS
  <2>2. n \in Nat \ {0} /\ x \in 0..(n - 1) /\ x + 1 \in Int
    BY <1>2, <2>1, TimerConstants
  <2>3. (x + 1) % n \in 0..(n - 1)
    BY <2>2
  <2> QED BY <1>1, <2>1, <2>3
<1>7. TimersTyped'
  BY <1>0, <1>1, <1>3, <1>6 DEF TimersTyped, Distinct
<1>8. \A h \in C!Hooks, t \in Timer : In(t, h)' <=> In(t, h)
  BY <1>1 DEF In
<1>9. \A t \in Timer : IsLinked(t)' <=> IsLinked(t)
  BY <1>8 DEF IsLinked
<1>10. ASSUME NEW h \in C!Hooks PROVE Distinct(lists'[h]) /\ Ordered(lists'[h], left')
  <2>1. PICK s, m, n : s = lists[h] /\ m = left /\ n = left'
    OBVIOUS
  <2>2. s \in Seq(Timer) /\ Distinct(s) /\ Ordered(s, m)
    BY <1>0, <2>1 DEF TimersTyped, Listed
  <2>3. \A i \in DOMAIN s : s[i] \in Timer /\ In(s[i], h)
    BY <2>1, <2>2 DEF In, T!Members
  <2>4. \A i \in DOMAIN s : n[s[i]] = m[s[i]] - 1 /\ m[s[i]] \in Int
    BY <1>2, <1>3, <2>1, <2>3 DEF IsLinked
  <2>5. Ordered(s, n)
    BY <2>2, <2>4 DEF Ordered
  <2>6. s = lists'[h]
    BY <1>1, <2>1
  <2> QED BY <2>1, <2>2, <2>5, <2>6
<1>11. T!Members(timers') = T!Members(timers) /\ T!Members(timers)' = T!Members(timers)
  BY <1>1
<1>12. Listed'
  <2>1. ASSUME NEW h \in C!Hooks, NEW t \in Timer, In(t, h)'
        PROVE  /\ t \in T!Members(timers)' /\ C!HookOf(t)' = h
               /\ left'[t] \in -MaxLag..timer'[t].init /\ timer'[t].timeout = Wrap(tick' + left'[t])
    <3>1. In(t, h) /\ C!HookOf(t) = h /\ t \in T!Members(timers)
      BY <1>0, <1>8, <2>1 DEF Listed
    <3>2. C!HookOf(t)' = C!HookOf(t)
      BY <1>1 DEF C!HookOf
    <3> QED BY <1>1, <1>5, <1>11, <3>1, <3>2
  <2>2. \A t \in T!Members(timers)' : timer'[t].init > 0 /\ timer'[t].init + MaxLag < Ticks \div 2
    BY <1>0, <1>1, <1>11 DEF Listed
  <2> QED BY <1>10, <2>1, <2>2 DEF Listed
<1>13. Held'
  <2>1. \A h \in C!Hooks, t \in Timer : firing'[h] = t =>
          firing[h] = t /\ t \in T!Members(timers') /\ t \notin call'.timer
    BY <1>0, <1>1, <1>11 DEF Held
  <2> QED BY <1>0, <1>1, <1>8, <2>1, HeldStep
<1>14. Flagged'
  <2>1. call.timer = {}
    BY <1>0, <1>1, InCall
  <2> QED BY <1>0, <1>1, <1>9, <2>1 DEF Flagged
<1> QED BY <1>7, <1>12, <1>13, <1>14 DEF TimerInv
\* Of the places that hold for a timer due at a time, the first.
LEMMA FirstPlace ==
  ASSUME NEW n \in Nat, NEW before \in SUBSET (1..n)
  PROVE  LET at == CHOOSE i \in 1..(n + 1) : (i \in before \/ i = n + 1) /\ \A j \in before : i <= j
         IN /\ at \in 1..(n + 1) /\ (at \in before \/ at = n + 1) /\ \A j \in before : at <= j
<1> DEFINE Ok(i) == (i \in before \/ i = n + 1) /\ \A j \in before : i <= j
<1>1. \E i \in 1..(n + 1) : Ok(i)
  <2>1. CASE before = {}
    BY <2>1
  <2>2. CASE before # {}
    <3>1. before \subseteq Nat
      OBVIOUS
    <3>2. \E m \in before : \A k \in before : ~(<<k, m>> \in OpToRel(<, Nat))
      BY <2>2, <3>1, NatLessThanWellFounded, WFMin
    <3>3. PICK m \in before : \A k \in before : ~(k < m)
      BY <3>1, <3>2 DEF OpToRel
    <3>4. m \in 1..(n + 1) /\ \A k \in before : m <= k
      BY <3>1, <3>3
    <3> QED BY <3>4
  <2> QED BY <2>1, <2>2
<1> QED BY <1>1

\* rt_timer_start links the timer behind those that expire no later.
LEMMA LinkInv ==
  ASSUME TimerInv, C!Link
  PROVE  TimerInv'
<1>0. TimersTyped /\ Listed /\ Held /\ Flagged
  BY DEF TimerInv
<1>a. PICK old, new : old = lists /\ new = lists'
  OBVIOUS
<1>b. PICK m, n : m = left /\ n = left'
  OBVIOUS
<1>1. PICK t \in call.timer :
        /\ call.at = "place" /\ call.call = "start"
        /\ LET due == (tick + timer[t].init) % Ticks
               h == C!HookOf(t)
               before == {i \in DOMAIN lists[h] : C!Minus(timer[lists[h][i]].timeout, due) \in 1..(Ticks \div 2 - 1)}
               at == CHOOSE i \in 1..(Len(lists[h]) + 1) :
                       (i \in before \/ i = Len(lists[h]) + 1) /\ \A j \in before : i <= j
           IN /\ timer' = [timer EXCEPT ![t].timeout = due]
              /\ lists' = [lists EXCEPT ![h] = SubSeq(@, 1, at - 1) \o <<t>> \o SubSeq(@, at, Len(@))]
        /\ left' = [left EXCEPT ![t] = timer[t].init]
        /\ call' = [call EXCEPT !.at = "activate"]
        /\ UNCHANGED <<tick, timers, firing>>
  BY DEF C!Link
<1>l. /\ call.at = "place" /\ call.call = "start" /\ call' = [call EXCEPT !.at = "activate"]
      /\ UNCHANGED <<tick, timers, firing>>
  BY <1>1, Zenon
<1>2. t \in Timer /\ call.timer = {t} /\ call' = [call |-> "start", at |-> "activate", timer |-> {t}]
  <2>1. t \in Timer /\ call.timer = {t} /\ call = [call |-> call.call, at |-> call.at, timer |-> {t}]
    BY <1>0, InCall
  <2> QED BY <1>l, <2>1
<1>3. call' \in Calls /\ call'.timer = {t} /\ call'.at = "activate"
  BY <1>2 DEF Calls
<1>h. PICK h : h = C!HookOf(t)
  OBVIOUS
<1>4. h \in C!Hooks
  BY <1>h, TimerConstants DEF C!HookOf
<1>s. PICK s, len : s = old[h] /\ len = Len(old[h])
  OBVIOUS
<1>5. /\ old \in [C!Hooks -> Seq(Timer)] /\ m \in [Timer -> Int] /\ s \in Seq(Timer) /\ len \in Nat /\ DOMAIN s = 1..len
      /\ \A g \in C!Hooks : Distinct(old[g]) /\ Ordered(old[g], m)
  <2>1. old \in [C!Hooks -> Seq(Timer)] /\ m \in [Timer -> Int]
    BY <1>0, <1>a, <1>b DEF TimersTyped
  <2>2. s \in Seq(Timer) /\ len = Len(s)
    BY <1>4, <1>s, <2>1
  <2>3. \A g \in C!Hooks : Distinct(old[g]) /\ Ordered(old[g], m)
    BY <1>0, <1>a, <1>b DEF Listed
  <2> QED BY <2>1, <2>2, <2>3
<1>6. /\ t \in T!Members(timers) /\ ~IsLinked(t)
      /\ timer[t].init \in Nat /\ timer[t].init > 0 /\ timer[t].init + MaxLag < Ticks \div 2
  <2>1. t \in T!Members(timers) /\ ~IsLinked(t)
    BY <1>0, <1>l, <1>2 DEF Flagged
  <2>2. timer[t].init > 0 /\ timer[t].init + MaxLag < Ticks \div 2
    BY <1>0, <2>1 DEF Listed
  <2>3. timer[t].init \in Nat
    BY <1>0, <1>2 DEF TimersTyped, TimerRecords
  <2> QED BY <2>1, <2>2, <2>3
<1>7. PICK init, due : init = timer[t].init /\ due = (tick + timer[t].init) % Ticks
  OBVIOUS
<1>8. tick \in 0..(Ticks - 1) /\ init \in Nat /\ init < Ticks \div 2 /\ -init < Ticks \div 2 /\ init + MaxLag < Ticks \div 2
  <2>1. PICK half \in Nat \ {0} : Ticks \div 2 = half
    BY TimerConstants
  <2>2. MaxLag \in Nat /\ tick \in 0..(Ticks - 1)
    BY <1>0, TimerConstants DEF TimersTyped
  <2> QED BY <1>6, <1>7, <2>1, <2>2
<1>9. due = Wrap(tick + init) /\ due \in 0..(Ticks - 1)
  BY <1>7, <1>8, AheadIs, Away
<1>10. PICK before : before = {i \in DOMAIN s : C!Minus(timer[s[i]].timeout, due) \in 1..(Ticks \div 2 - 1)}
  OBVIOUS
<1>11. \A i \in 1..len : i \in before <=> m[s[i]] > init
  <2>1. ASSUME NEW i \in 1..len PROVE C!Minus(timer[s[i]].timeout, due) \in 1..(Ticks \div 2 - 1) <=> m[s[i]] > init
    <3>1. PICK u, l : u = s[i] /\ l = left[s[i]]
      OBVIOUS
    <3>2. u \in Timer /\ In(u, h)
      BY <1>5, <1>a, <1>s, <3>1 DEF In, T!Members
    <3>3. /\ l \in Int /\ l < Ticks \div 2 /\ -l < Ticks \div 2 /\ -MaxLag <= l
          /\ timer[u].timeout = Wrap(tick + l)
      BY <1>0, <1>4, <3>1, <3>2, LinkedLeft
    <3>4. PICK half \in Nat \ {0} : Ticks = half + half /\ Ticks \div 2 = half
      BY TimerConstants
    <3>5. MaxLag \in Nat
      BY TimerConstants
    <3>6. l - init < Ticks \div 2 /\ init - l < Ticks \div 2
      BY <1>8, <3>3, <3>4, <3>5
    <3>7. C!Minus(Wrap(tick + l), Wrap(tick + init)) = IF l >= init THEN l - init ELSE l - init + Ticks
      BY <1>8, <3>3, <3>6, Between
    <3>8. PICK d : d = C!Minus(timer[u].timeout, due)
      OBVIOUS
    <3>9. d = IF l >= init THEN l - init ELSE l - init + (half + half)
      BY <1>9, <3>3, <3>4, <3>7, <3>8
    <3>10. d \in 1..(half - 1) <=> l > init
      BY <1>8, <3>3, <3>4, <3>6, <3>9
    <3> QED BY <1>b, <3>1, <3>4, <3>8, <3>10
  <2> QED BY <1>5, <1>10, <2>1
<1>12. PICK at : at = CHOOSE i \in 1..(len + 1) : (i \in before \/ i = len + 1) /\ \A j \in before : i <= j
  OBVIOUS
<1>13. at \in 1..(len + 1) /\ (at \in before \/ at = len + 1) /\ \A j \in before : at <= j
  <2>1. before \in SUBSET (1..len)
    BY <1>5, <1>10
  <2> QED BY <1>5, <1>12, <2>1, FirstPlace
<1>14. /\ timer' = [timer EXCEPT ![t].timeout = due] /\ n = [m EXCEPT ![t] = init]
       /\ new = [old EXCEPT ![h] = SubSeq(s, 1, at - 1) \o <<t>> \o SubSeq(s, at, len)]
  BY <1>1, <1>7, <1>10, <1>12, <1>a, <1>b, <1>h, <1>s
<1>r. PICK r, k : r = SubSeq(s, 1, at - 1) \o <<t>> \o SubSeq(s, at, len) /\ k = at - 1
  OBVIOUS
<1>15. k \in 0..Len(s) /\ r \in Seq(Timer) /\ Inserted(r, s, k, t)
  <2>1. Len(s) = len
    BY <1>4, <1>5, <1>s
  <2>2. k \in 0..Len(s) /\ k + 1 = at
    BY <1>5, <1>13, <1>r, <2>1
  <2>3. r = SubSeq(s, 1, k) \o <<t>> \o SubSeq(s, k + 1, Len(s))
    BY <1>r, <2>1, <2>2
  <2> QED BY <1>2, <1>5, <2>2, <2>3, InsertedIs
<1>16. n \in [Timer -> Int] /\ n[t] = init /\ \A u \in Timer \ {t} : n[u] = m[u]
  <2>1. n = [m EXCEPT ![t] = init] /\ m \in [Timer -> Int] /\ init \in Int
    BY <1>5, <1>8, <1>14
  <2> QED BY <1>2, <2>1
<1>17. \A g \in C!Hooks : ~In(t, g)
  BY <1>6 DEF IsLinked
<1>18. \A g \in C!Hooks : /\ T!Members(old[g]) \subseteq Timer /\ t \notin T!Members(old[g])
                         /\ \A i \in DOMAIN old[g] : old[g][i] \in Timer \ {t}
  <2>1. \A g \in C!Hooks : t \notin T!Members(old[g])
    BY <1>17, <1>a DEF In
  <2> QED BY <1>5, <2>1 DEF T!Members
<1>19. \A g \in C!Hooks : Ordered(old[g], n)
  <2>1. ASSUME NEW g \in C!Hooks PROVE Ordered(old[g], n)
    <3>1. PICK q : q = old[g]
      OBVIOUS
    <3>2. Ordered(q, m) /\ \A i \in DOMAIN q : n[q[i]] = m[q[i]]
      BY <1>5, <1>16, <1>18, <3>1
    <3> QED BY <3>1, <3>2 DEF Ordered
  <2> QED BY <2>1
<1>20. T!Members(r) = T!Members(s) \cup {t} /\ Distinct(r) /\ Ordered(r, n)
  <2>1. t \notin T!Members(s) /\ Distinct(s) /\ Ordered(s, n)
    BY <1>4, <1>5, <1>18, <1>19, <1>s
  <2>2. T!Members(r) = T!Members(s) \cup {t} /\ Distinct(r)
    BY <1>2, <1>5, <1>15, <2>1, Linked
  <2>3. \A i \in 1..Len(s) : IF i <= k THEN n[s[i]] <= n[t] ELSE n[t] <= n[s[i]]
    <3>1. ASSUME NEW i \in 1..Len(s) PROVE IF i <= k THEN n[s[i]] <= n[t] ELSE n[t] <= n[s[i]]
      <4>1. Len(s) = len /\ i \in 1..len /\ k = at - 1 /\ s[i] \in Timer \ {t}
        BY <1>4, <1>5, <1>18, <1>r, <1>s
      <4>2. n[s[i]] = m[s[i]] /\ m[s[i]] \in Int
        BY <1>5, <1>16, <4>1
      <4>3. CASE i <= k
        <5>1. i \notin before
          BY <1>13, <4>1, <4>3
        <5>2. ~(m[s[i]] > init)
          BY <1>11, <4>1, <5>1
        <5> QED BY <1>8, <1>16, <4>2, <4>3, <5>2
      <4>4. CASE ~(i <= k)
        <5>1. at <= len /\ at \in before /\ at \in 1..len
          BY <1>5, <1>13, <4>1, <4>4
        <5>2. m[s[at]] > init
          BY <1>11, <5>1
        <5>3. m[s[at]] <= m[s[i]] /\ m[s[at]] \in Int
          <6>1. s[at] \in Timer
            BY <1>5, <5>1
          <6>2. CASE at = i
            BY <1>5, <4>2, <6>1, <6>2
          <6>3. CASE at # i
            <7>1. at < i /\ at \in DOMAIN s /\ i \in DOMAIN s
              BY <1>5, <4>1, <4>4, <5>1, <6>3
            <7>2. Ordered(s, m)
              BY <1>4, <1>5, <1>s
            <7> QED BY <1>5, <6>1, <7>1, <7>2 DEF Ordered
          <6> QED BY <6>2, <6>3
        <5> QED BY <1>8, <1>16, <4>2, <4>4, <5>2, <5>3
      <4> QED BY <4>3, <4>4
    <3> QED BY <3>1
  <2>4. Ordered(r, n)
    <3>1. /\ s \in Seq(Timer) /\ t \in Timer /\ k \in 0..Len(s) /\ r \in Seq(Timer)
          /\ Inserted(r, s, k, t) /\ n \in [Timer -> Int] /\ Ordered(s, n)
      BY <1>2, <1>5, <1>15, <1>16, <2>1
    <3> QED BY <2>3, <3>1, OrderedInserted
  <2> QED BY <2>2, <2>4
<1>21. new \in [C!Hooks -> Seq(Timer)] /\ new[h] = r /\ \A g \in C!Hooks \ {h} : new[g] = old[g]
  <2>1. new = [old EXCEPT ![h] = r]
    BY <1>14, <1>r
  <2> QED BY <1>4, <1>5, <1>15, <2>1
<1>22. \A g \in C!Hooks : Distinct(new[g]) /\ Ordered(new[g], n)
  BY <1>5, <1>19, <1>20, <1>21
<1>23. \A g \in C!Hooks, u \in Timer : In(u, g)' <=> In(u, g) \/ (u = t /\ g = h)
  <2>1. \A g \in C!Hooks, u \in Timer : u \in T!Members(new[g]) <=> u \in T!Members(old[g]) \/ (u = t /\ g = h)
    BY <1>20, <1>21, <1>s
  <2> QED BY <1>a, <2>1 DEF In
<1>24. \A u \in Timer : IsLinked(u)' <=> IsLinked(u) \/ u = t
  BY <1>4, <1>23 DEF IsLinked
<1>25. /\ timer' \in [Timer -> TimerRecords] /\ timer'[t].timeout = due
       /\ \A u \in Timer : timer'[u].init = timer[u].init /\ timer'[u].soft = timer[u].soft /\ timer'[u].active = timer[u].active
       /\ \A u \in Timer \ {t} : timer'[u] = timer[u]
  <2>1. timer' = [timer EXCEPT ![t].timeout = due] /\ timer \in [Timer -> TimerRecords] /\ due \in Nat
    <3>1. due \in Nat
      <4>1. PICK half \in Nat \ {0} : Ticks = half + half
        BY TimerConstants
      <4> QED BY <1>9, <4>1
    <3> QED BY <1>0, <1>14, <3>1 DEF TimersTyped
  <2> QED BY <1>2, <2>1 DEF TimerRecords
<1>26. TimersTyped'
  BY <1>0, <1>l, <1>3, <1>16, <1>21, <1>25, <1>a, <1>b DEF TimersTyped, Distinct
<1>27. T!Members(timers') = T!Members(timers) /\ T!Members(timers)' = T!Members(timers) /\ T!Members(timers) \subseteq Timer
  BY <1>0, <1>l DEF TimersTyped, T!Members
<1>28. Listed'
  <2>1. \A u \in T!Members(timers)' : timer'[u].init > 0 /\ timer'[u].init + MaxLag < Ticks \div 2
    BY <1>0, <1>25, <1>27 DEF Listed
  <2>2. ASSUME NEW g \in C!Hooks, NEW u \in Timer, In(u, g)'
        PROVE  /\ u \in T!Members(timers)' /\ C!HookOf(u)' = g
               /\ left'[u] \in -MaxLag..timer'[u].init /\ timer'[u].timeout = Wrap(tick' + left'[u])
    <3>0. C!HookOf(u)' = C!HookOf(u)
      BY <1>25 DEF C!HookOf
    <3>1. CASE u = t
      <4>1. g = h
        BY <1>17, <1>23, <2>2, <3>1
      <4>2. init \in -MaxLag..init
        BY <1>8, TimerConstants
      <4> QED BY <1>6, <1>7, <1>9, <1>16, <1>25, <1>27, <1>b, <1>h, <1>l, <3>0, <3>1, <4>1, <4>2
    <3>2. CASE u # t
      <4>1. In(u, g)
        BY <1>23, <2>2, <3>2
      <4>2. /\ u \in T!Members(timers) /\ C!HookOf(u) = g
            /\ left[u] \in -MaxLag..timer[u].init /\ timer[u].timeout = Wrap(tick + left[u])
        BY <1>0, <4>1 DEF Listed
      <4>3. left'[u] = left[u] /\ timer'[u] = timer[u] /\ tick' = tick
        BY <1>16, <1>25, <1>b, <1>l, <3>2
      <4> QED BY <1>27, <3>0, <4>2, <4>3
    <3> QED BY <3>1, <3>2
  <2>3. \A g \in C!Hooks : Distinct(lists'[g]) /\ Ordered(lists'[g], left')
    BY <1>22, <1>a, <1>b
  <2> QED BY <2>1, <2>2, <2>3 DEF Listed
<1>29. \A g \in C!Hooks : firing[g] # t
  BY <1>0, <1>2 DEF Held
<1>30. Held'
  <2>1. ASSUME NEW g \in C!Hooks, NEW u \in Timer, firing'[g] = u
        PROVE  firing[g] = u /\ timer'[u] = timer[u] /\ u \in T!Members(timers') /\ u \notin call'.timer
    <3>1. firing[g] = u /\ u # t
      BY <1>29, <1>l, <2>1
    <3> QED BY <1>0, <1>3, <1>25, <1>27, <3>1 DEF Held
  <2>2. ASSUME NEW g \in C!Hooks, NEW u \in Timer, firing'[g] = u
        PROVE  \A f \in C!Hooks : In(u, f)' => In(u, f)
    BY <1>23, <2>1, <2>2, <1>3
  <2> QED BY <1>0, <2>1, <2>2, HeldStep
<1>31. Flagged'
  <2>1. ASSUME NEW u \in Timer \ {t}
        PROVE  /\ IsLinked(u)' => timer'[u].active
               /\ timer'[u].active => IsLinked(u)' \/ \E g \in C!Hooks : firing'[g] = u
    <3>1. /\ IsLinked(u) => timer[u].active
          /\ timer[u].active => IsLinked(u) \/ \E g \in C!Hooks : firing[g] = u
      BY <1>0, <1>2 DEF Flagged
    <3> QED BY <1>24, <1>25, <1>l, <3>1
  <2>2. t \in T!Members(timers)' /\ IsLinked(t)'
    BY <1>2, <1>6, <1>24, <1>27
  <2> QED BY <1>3, <2>1, <2>2 DEF Flagged
<1> QED BY <1>26, <1>28, <1>30, <1>31 DEF TimerInv
\* No timer is initialized at first.
LEMMA TimerInit ==
  ASSUME C!Init
  PROVE  TimerInv
<1>1. /\ tick = 0 /\ timer = [t \in Timer |-> C!Unborn] /\ timers = << >> /\ lists = [h \in C!Hooks |-> << >>]
      /\ firing = [h \in C!Hooks |-> "none"] /\ call = C!NoOp /\ left = [t \in Timer |-> 0]
  BY DEF C!Init
<1>2. call \in Calls /\ call.timer = {}
  BY <1>1 DEF Calls, C!NoOp
<1>3. tick \in 0..(Ticks - 1)
  <2>1. PICK half \in Nat \ {0} : Ticks = half + half
    BY TimerConstants
  <2> QED BY <1>1, <2>1
<1>4. TimersTyped
  <2>1. timer \in [Timer -> TimerRecords]
    BY <1>1 DEF TimerRecords, C!Unborn
  <2>2. timers \in Seq(Timer) /\ Distinct(timers)
    BY <1>1 DEF Distinct
  <2>3. lists \in [C!Hooks -> Seq(Timer)]
    BY <1>1
  <2>4. left \in [Timer -> Int] /\ firing \in [C!Hooks -> Timer \cup {"none", "taken"}]
    BY <1>1
  <2> QED BY <1>2, <1>3, <2>1, <2>2, <2>3, <2>4 DEF TimersTyped
<1>5. T!Members(timers) = {} /\ \A h \in C!Hooks : T!Members(lists[h]) = {}
  BY <1>1 DEF T!Members
<1>6. \A h \in C!Hooks, t \in Timer : ~In(t, h)
  BY <1>5 DEF In
<1>7. \A t \in Timer : ~IsLinked(t)
  BY <1>6 DEF IsLinked
<1>8. Listed
  <2>1. ASSUME NEW h \in C!Hooks PROVE Distinct(lists[h]) /\ Ordered(lists[h], left)
    <3>1. PICK s, m : s = lists[h] /\ m = left
      OBVIOUS
    <3>2. s = << >>
      BY <1>1, <3>1
    <3>3. Distinct(s) /\ Ordered(s, m)
      BY <3>2 DEF Distinct, Ordered
    <3> QED BY <3>1, <3>3
  <2> QED BY <1>5, <1>6, <2>1 DEF Listed
<1>9. Held
  BY <1>1, TimerConstants DEF Held
<1>10. Flagged
  BY <1>1, <1>2, <1>7 DEF Flagged, C!Unborn
<1> QED BY <1>4, <1>8, <1>9, <1>10 DEF TimerInv

\* Every step of the timers.
LEMMA TimerNext ==
  ASSUME TimerInv, C!Next
  PROVE  TimerInv'
<1>1. \/ C!Tick
      \/ \E t \in Timer : \/ \E c \in {"start", "stop", "detach"} : C!Call(t, c)
                          \/ \E s \in Shapes : C!InitTimer(t, s)
      \/ C!Clear \/ C!Link \/ C!Activate \/ C!Unregister \/ C!Fire
      \/ \E h \in C!Hooks : C!Expire(h) \/ C!Return(h)
  BY DEF C!Next
<1>2. CASE C!Tick
  BY <1>2, TickInv
<1>3. ASSUME NEW t \in Timer, NEW c \in {"start", "stop", "detach"}, C!Call(t, c) PROVE TimerInv'
  BY <1>3, CallInv
<1>4. ASSUME NEW t \in Timer, NEW s \in Shapes, C!InitTimer(t, s) PROVE TimerInv'
  BY <1>4, InitTimerInv
<1>5. CASE C!Clear
  BY <1>5, ClearInv
<1>6. CASE C!Link
  BY <1>6, LinkInv
<1>7. CASE C!Activate
  BY <1>7, ActivateInv
<1>8. CASE C!Unregister
  BY <1>8, UnregisterInv
<1>9. CASE C!Fire
  BY <1>9, FireInv
<1>10. ASSUME NEW h \in C!Hooks, C!Expire(h) PROVE TimerInv'
  BY <1>10, ExpireInv
<1>11. ASSUME NEW h \in C!Hooks, C!Return(h) PROVE TimerInv'
  BY <1>11, ReturnInv
<1> QED BY <1>1, <1>2, <1>3, <1>4, <1>5, <1>6, <1>7, <1>8, <1>9, <1>10, <1>11

\* The rest of a target moves nothing of the timers.
LEMMA TimersStay ==
  ASSUME TimerInv, UNCHANGED timerVars
  PROVE  TimerInv'
<1>0. TimersTyped /\ Listed /\ Held /\ Flagged
  BY DEF TimerInv
<1>1. UNCHANGED <<tick, timer, timers, lists, firing, call, left>>
  BY DEF timerVars
<1>2. TimersTyped'
  BY <1>0, <1>1 DEF TimersTyped, Distinct
<1>3. /\ \A h \in C!Hooks : Distinct(lists'[h]) /\ Ordered(lists'[h], left')
      /\ \A h \in C!Hooks, t \in Timer : In(t, h)' <=> In(t, h)
      /\ \A t \in Timer : IsLinked(t)' <=> IsLinked(t)
  BY <1>0, <1>1, ListsStay
<1>4. T!Members(timers') = T!Members(timers) /\ T!Members(timers)' = T!Members(timers)
  BY <1>1
<1>5. Listed'
  <2>1. \A u \in T!Members(timers') : timer'[u].init > 0 /\ timer'[u].init + MaxLag < Ticks \div 2
    BY <1>0, <1>1, <1>4 DEF Listed
  <2>2. \A g \in C!Hooks, u \in Timer : In(u, g)' => In(u, g) /\ u \in T!Members(timers')
    BY <1>0, <1>3, <1>4 DEF Listed
  <2> QED BY <1>0, <1>1, <1>3, <2>1, <2>2, ListedStep
<1>6. Held'
  <2>1. \A h \in C!Hooks, u \in Timer : firing'[h] = u =>
          firing[h] = u /\ u \in T!Members(timers') /\ u \notin call'.timer
    BY <1>0, <1>1, <1>4 DEF Held
  <2> QED BY <1>0, <1>1, <1>3, <2>1, HeldStep
<1>7. Flagged'
  <2>1. ASSUME NEW u \in Timer \ call'.timer
        PROVE  /\ IsLinked(u)' => timer'[u].active
               /\ timer'[u].active => IsLinked(u)' \/ \E h \in C!Hooks : firing'[h] = u
    BY <1>0, <1>1, <1>3, <2>1 DEF Flagged
  <2>2. ASSUME NEW u \in call'.timer
        PROVE  /\ u \in T!Members(timers)' /\ (IsLinked(u)' <=> call'.at = "activate")
               /\ call'.at = "fire" => call'.call \in C!Hooks /\ C!HookOf(u)' = call'.call /\ firing'[call'.call] = "none"
    <3>1. u \in Timer /\ u \in call.timer
      BY <1>0, <1>1, <2>2, InCall
    <3>2. C!HookOf(u)' = C!HookOf(u)
      BY <1>1 DEF C!HookOf
    <3>3. /\ u \in T!Members(timers) /\ (IsLinked(u) <=> call.at = "activate")
          /\ call.at = "fire" => call.call \in C!Hooks /\ C!HookOf(u) = call.call /\ firing[call.call] = "none"
      BY <1>0, <3>1 DEF Flagged
    <3> QED BY <1>1, <1>3, <1>4, <3>1, <3>2, <3>3
  <2> QED BY <2>1, <2>2 DEF Flagged
<1> QED BY <1>2, <1>5, <1>6, <1>7 DEF TimerInv

\* The inductive invariant of the timers: a list is in the order of the ticks
\* left, each timeout is that many ticks ahead of the tick, across its wrap, and
\* what is off a list is in a call or a callback (timer.c).
THEOREM TicksInvHolds == Spec => []TicksInv
<1>1. Init => TicksInv
  <2>1. ASSUME Init, part = "timers" PROVE C!Init
    BY <2>1 DEF Init
  <2> QED BY <2>1, TimerInit DEF TicksInv
<1>2. TicksInv /\ [Next]_vars => TicksInv'
  <2>1. ASSUME TicksInv, part' = "timers", [Next]_vars PROVE TimerInv'
    <3>1. part = "timers" /\ (C!Next \/ UNCHANGED timerVars)
      BY <2>1 DEF Next, vars
    <3>2. TimerInv
      BY <2>1, <3>1 DEF TicksInv
    <3> QED BY <3>1, <3>2, TimerNext, TimersStay
  <2> QED BY <2>1 DEF TicksInv
<1> QED BY <1>1, <1>2, PTL DEF Spec
\* The timers that GDR goes over are the registered ones, once each, and those
\* of the active lists come first.
LEMMA IterIs ==
  ASSUME TimersTyped, Listed, NEW it, it = C!IterTimers, NEW act, act = C!ActiveTimers
  PROVE  /\ it \in Seq(Timer) /\ Distinct(it) /\ T!Members(it) = T!Members(timers)
         /\ act \in Seq(Timer) /\ Len(act) <= Len(it) /\ \A i \in 1..Len(act) : it[i] = act[i]
         /\ \A t \in Timer : t \in T!Members(act) <=> IsLinked(t)
         /\ \A i \in 1..Len(it) : IsLinked(it[i]) <=> i <= Len(act)
<1>1. act \in Seq(Timer) /\ Distinct(act) /\ \A t \in Timer : t \in T!Members(act) <=> IsLinked(t)
  BY ActiveIs
<1>2. PICK reg : reg = timers
  OBVIOUS
<1>3. reg \in Seq(Timer) /\ Distinct(reg)
  BY <1>2 DEF TimersTyped
<1>4. it = C!Then(act, reg)
  BY <1>2 DEF C!IterTimers
<1>5. /\ it \in Seq(Timer) /\ Distinct(it) /\ T!Members(it) = T!Members(act) \cup T!Members(reg)
      /\ Len(act) <= Len(it) /\ \A i \in 1..Len(act) : it[i] = act[i]
  BY <1>1, <1>3, <1>4, ThenIs
<1>6. T!Members(act) \subseteq T!Members(reg)
  <2>1. T!Members(act) \subseteq Timer
    BY <1>1 DEF T!Members
  <2>2. \A t \in Timer : IsLinked(t) => t \in T!Members(timers)
    BY DEF IsLinked, Listed
  <2> QED BY <1>1, <1>2, <2>1, <2>2
<1>7. PICK n, m : n = Len(it) /\ m = Len(act)
  OBVIOUS
<1>8. /\ n \in Nat /\ m \in Nat /\ m <= n /\ DOMAIN it = 1..n /\ DOMAIN act = 1..m
      /\ \A i \in 1..n : it[i] \in Timer
  BY <1>1, <1>5, <1>7
<1>9. ASSUME NEW i \in 1..n PROVE IsLinked(it[i]) <=> i <= m
  <2>1. ASSUME i <= m PROVE it[i] \in T!Members(act)
    <3>1. i \in 1..m
      BY <1>8, <2>1
    <3>2. it[i] = act[i]
      BY <1>5, <1>7, <3>1
    <3> QED BY <1>8, <3>1, <3>2 DEF T!Members
  <2>2. ASSUME it[i] \in T!Members(act) PROVE i <= m
    <3>1. PICK j \in 1..m : act[j] = it[i]
      BY <1>8, <2>2 DEF T!Members
    <3>2. it[j] = it[i] /\ j \in 1..n
      BY <1>5, <1>7, <1>8, <3>1
    <3>3. j = i
      BY <1>5, <1>8, <3>2 DEF Distinct
    <3> QED BY <3>1, <3>3
  <2> QED BY <1>1, <1>8, <2>1, <2>2
<1>10. T!Members(it) = T!Members(reg)
  BY <1>5, <1>6
<1> QED BY <1>1, <1>2, <1>5, <1>7, <1>9, <1>10

\* The row of a timer.
LEMMA TimerRowIs ==
  ASSUME NEW act, act = C!ActiveTimers, NEW t
  PROVE  /\ C!TimerRow(t).addr = t /\ C!TimerRow(t).soft = timer[t].soft
         /\ C!TimerRow(t).expires = IF timer[t].active THEN {C!ExpiresIn(t)} ELSE {}
         /\ "active-list" \in C!TimerRow(t).src <=> t \in T!Members(act)
BY SameLists DEF C!TimerRow

\* In every state that the invariant holds in, what a row says of a timer on a
\* list is true.
LEMMA ExpiryFollows ==
  ASSUME TimerInv
  PROVE  C!ExpiryIsTrue
<1>0. TimersTyped /\ Listed
  BY DEF TimerInv
<1>1. PICK it, act, rows : it = C!IterTimers /\ act = C!ActiveTimers /\ rows = C!TimerTable
  OBVIOUS
<1>2. PICK n, m : n = Len(it) /\ m = Len(act)
  OBVIOUS
<1>3. /\ it \in Seq(Timer) /\ act \in Seq(Timer) /\ m <= n
      /\ \A i \in 1..m : it[i] = act[i]
      /\ \A t \in Timer : t \in T!Members(act) <=> IsLinked(t)
      /\ \A i \in 1..n : IsLinked(it[i]) <=> i <= m
  BY <1>0, <1>1, <1>2, IterIs
<1>4. n \in Nat /\ m \in Nat /\ DOMAIN it = 1..n /\ \A i \in 1..n : it[i] \in Timer
  BY <1>2, <1>3
<1>5. rows = [i \in DOMAIN it |-> C!TimerRow(it[i])]
  BY <1>1 DEF C!TimerTable
<1>6. DOMAIN rows = 1..n /\ \A i \in 1..n : rows[i] = C!TimerRow(it[i])
  BY <1>4, <1>5
<1>7. PICK linked : linked = {i \in DOMAIN rows : "active-list" \in rows[i].src}
  OBVIOUS
<1>8. /\ \A i \in linked : i \in 1..n /\ i \in 1..m /\ it[i] \in Timer /\ IsLinked(it[i])
      /\ \A i \in 1..n : /\ rows[i].addr = it[i] /\ rows[i].soft = timer[it[i]].soft
                         /\ rows[i].expires = IF timer[it[i]].active THEN {C!ExpiresIn(it[i])} ELSE {}
  <2>r. ASSUME NEW i \in 1..n
        PROVE  /\ rows[i].addr = it[i] /\ rows[i].soft = timer[it[i]].soft
               /\ rows[i].expires = IF timer[it[i]].active THEN {C!ExpiresIn(it[i])} ELSE {}
               /\ "active-list" \in rows[i].src <=> it[i] \in T!Members(act)
    <3>1. PICK t : t = it[i]
      OBVIOUS
    <3>2. rows[i] = C!TimerRow(t)
      BY <1>6, <3>1
    <3> QED BY <1>1, <3>1, <3>2, TimerRowIs
  <2>1. \A i \in 1..n : "active-list" \in rows[i].src <=> it[i] \in T!Members(act)
    BY <2>r
  <2>2. \A i \in linked : i \in 1..n /\ it[i] \in T!Members(act)
    BY <1>6, <1>7, <2>1
  <2>3. \A i \in linked : i \in 1..n /\ IsLinked(it[i]) /\ i <= m
    BY <1>3, <1>4, <2>2
  <2>4. \A i \in linked : i \in 1..m
    BY <1>4, <2>3
  <2> QED BY <1>4, <2>r, <2>3, <2>4
<1>9. ASSUME NEW i \in linked, NEW x \in rows[i].expires
      PROVE  left[rows[i].addr] = IF x < Ticks \div 2 THEN x ELSE x - Ticks
  <2>1. PICK t, l : t = it[i] /\ l = left[it[i]]
    OBVIOUS
  <2>2. t \in Timer /\ IsLinked(t) /\ rows[i].addr = t /\ x = C!ExpiresIn(t)
    BY <1>8, <1>9, <2>1
  <2>3. PICK h \in C!Hooks : In(t, h)
    BY <2>2 DEF IsLinked
  <2>4. l \in Int /\ l < Ticks \div 2 /\ -l < Ticks \div 2 /\ timer[t].timeout = Wrap(tick + l)
    BY <1>0, <2>1, <2>2, <2>3, LinkedLeft
  <2>5. tick \in 0..(Ticks - 1)
    BY <1>0 DEF TimersTyped
  <2>6. x = IF l >= 0 THEN l ELSE l + Ticks
    BY <2>2, <2>4, <2>5, Away DEF C!ExpiresIn
  <2>7. PICK half \in Nat \ {0} : Ticks = half + half /\ Ticks \div 2 = half
    BY TimerConstants
  <2>8. l = IF x < half THEN x ELSE x - (half + half)
    BY <2>4, <2>6, <2>7
  <2> QED BY <2>1, <2>2, <2>7, <2>8
<1>10. ASSUME NEW i \in linked, NEW j \in linked, i < j, rows[i].soft = rows[j].soft
       PROVE  left[rows[i].addr] <= left[rows[j].addr]
  <2>1. act[i] = it[i] /\ act[j] = it[j] /\ i \in 1..m /\ j \in 1..m
    BY <1>3, <1>8
  <2>2. rows[i].addr = act[i] /\ rows[j].addr = act[j] /\ timer[act[i]].soft = timer[act[j]].soft
    BY <1>8, <1>10, <2>1
  <2>3. \A k, l \in 1..Len(act) : k < l /\ timer[act[k]].soft = timer[act[l]].soft => left[act[k]] <= left[act[l]]
    BY <1>0, <1>1, ActiveIs
  <2> QED BY <1>2, <1>10, <2>1, <2>2, <2>3
<1> QED BY <1>1, <1>7, <1>9, <1>10 DEF C!ExpiryIsTrue

\* In every state that the invariant holds in, the table is the registered
\* timers, each is selected by its address, and a flag that disagrees with the
\* lists is of a timer in a call or a callback.
LEMMA TimersFollow ==
  ASSUME TimerInv
  PROVE  C!TimersAreTrue
<1>0. TimersTyped /\ Listed /\ Held /\ Flagged
  BY DEF TimerInv
<1>1. PICK it, act, rows : it = C!IterTimers /\ act = C!ActiveTimers /\ rows = C!TimerTable
  OBVIOUS
<1>2. PICK n, m, reg : n = Len(it) /\ m = Len(act) /\ reg = T!Members(timers)
  OBVIOUS
<1>3. /\ it \in Seq(Timer) /\ Distinct(it) /\ T!Members(it) = reg /\ act \in Seq(Timer) /\ m <= n
      /\ \A i \in 1..m : it[i] = act[i]
      /\ \A t \in Timer : t \in T!Members(act) <=> IsLinked(t)
  BY <1>0, <1>1, <1>2, IterIs
<1>4. n \in Nat /\ m \in Nat /\ DOMAIN it = 1..n /\ (\A i \in 1..n : it[i] \in Timer) /\ C!Members(timers) = reg
  BY <1>2, <1>3, SameLists
<1>5. rows = [i \in DOMAIN it |-> C!TimerRow(it[i])]
  BY <1>1 DEF C!TimerTable
<1>6. DOMAIN rows = 1..n /\ \A i \in 1..n : rows[i].addr = it[i]
  <2>1. DOMAIN rows = 1..n /\ \A i \in 1..n : rows[i] = C!TimerRow(it[i])
    BY <1>4, <1>5
  <2> QED BY <1>1, <2>1, TimerRowIs
<1>7. ASSUME NEW t \in Timer
      PROVE  C!Cardinality({i \in DOMAIN rows : rows[i].addr = t}) = IF t \in reg THEN 1 ELSE 0
  <2>0. PICK of : of = {i \in DOMAIN rows : rows[i].addr = t}
    OBVIOUS
  <2>1. C!Cardinality(of) = Cardinality(of)
    BY DEF C!Cardinality, Cardinality
  <2>2. of = {i \in 1..n : it[i] = t}
    BY <1>6, <2>0
  <2>3. CASE t \in reg
    <3>1. PICK i \in 1..n : it[i] = t
      BY <1>3, <1>4, <2>3 DEF T!Members
    <3>2. of = {i}
      BY <1>3, <1>4, <2>2, <3>1 DEF Distinct
    <3> QED BY <2>0, <2>1, <2>3, <3>2, FS_Singleton
  <2>4. CASE t \notin reg
    <3>1. of = {}
      BY <1>3, <1>4, <2>2, <2>4 DEF T!Members
    <3> QED BY <2>0, <2>1, <2>4, <3>1, FS_EmptySet
  <2> QED BY <2>3, <2>4
<1>8. ASSUME NEW i \in DOMAIN rows PROVE C!FindTimer(rows[i].addr) = {rows[i].addr}
  <2>1. PICK t : t = rows[i].addr
    OBVIOUS
  <2>2. t \in Timer /\ t # Name /\ t \in T!Members(it)
    BY <1>4, <1>6, <2>1, TimerConstants DEF T!Members
  <2>3. C!FindTimer(t) = {u \in T!Members(it) : u = t}
    BY <1>1, <2>2, SameLists DEF C!FindTimer
  <2> QED BY <2>1, <2>2, <2>3
<1>9. ASSUME act # << >> PROVE C!FindTimer(Name) \subseteq C!Members(act)
  <2>1. 1 \in 1..m /\ DOMAIN act = 1..m
    BY <1>2, <1>3, <1>9
  <2>2. 1 \in 1..n /\ it # << >> /\ Head(it) = it[1]
    BY <1>2, <1>3, <1>4, <2>1
  <2>3. C!FindTimer(Name) = {it[1]}
    BY <1>1, <2>2 DEF C!FindTimer
  <2>4. it[1] = act[1]
    BY <1>3, <2>1
  <2> QED BY <2>1, <2>3, <2>4 DEF C!Members
<1>10. \A t \in Timer : C!ListMembership(t) =
         IF timer[t].active THEN IF IsLinked(t) THEN "ok" ELSE "absent" ELSE IF IsLinked(t) THEN "still linked" ELSE "ok"
  <2>1. \A t \in Timer : t \in C!Members(act) <=> IsLinked(t)
    BY <1>3, SameLists
  <2> QED BY <1>1, <2>1 DEF C!ListMembership
<1>11. PICK busy : busy = call.timer \cup {firing[h] : h \in {g \in C!Hooks : firing[g] \in Timer /\ timer[firing[g]].periodic}}
  OBVIOUS
<1>12. ASSUME NEW t \in reg, C!ListMembership(t) # "ok" PROVE t \in busy
  <2>1. t \in Timer
    BY <1>0, <1>2 DEF TimersTyped, T!Members
  <2>2. SUFFICES ASSUME t \notin call.timer PROVE t \in busy
    BY <1>11
  <2>3. /\ IsLinked(t) => timer[t].active
        /\ timer[t].active => IsLinked(t) \/ \E h \in C!Hooks : firing[h] = t
    BY <1>0, <2>1, <2>2 DEF Flagged
  <2>4. timer[t].active /\ ~IsLinked(t)
    BY <1>10, <1>12, <2>1, <2>3
  <2>5. PICK h \in C!Hooks : firing[h] = t
    BY <2>3, <2>4
  <2>6. timer[t].periodic
    BY <1>0, <2>1, <2>4, <2>5 DEF Held
  <2> QED BY <1>11, <2>1, <2>5, <2>6
<1>13. ASSUME NEW h \in C!Hooks, firing[h] \in Timer \ call.timer, timer[firing[h]].active
       PROVE  C!ListMembership(firing[h]) = "absent"
  <2>1. PICK t : t = firing[h]
    OBVIOUS
  <2>2. ~IsLinked(t)
    BY <1>0, <1>13, <2>1 DEF Held
  <2> QED BY <1>10, <1>13, <2>1, <2>2
<1> QED BY <1>1, <1>4, <1>7, <1>8, <1>9, <1>11, <1>12, <1>13 DEF C!TimersAreTrue

\* At every halt the tables of the threads, the objects and the timers are the
\* registered ones, every row is selected by the address it shows, the ticks
\* shown of a timer are those it has left, also across the wrap of the tick, and
\* a flag that disagrees with the lists is of a timer in a call or a callback
\* (navigation.py find_object, iter_timers, derive.py _timer_expires_in).
THEOREM RowsSelectHolds == Spec => []RowsSelect
<1>1. TargetInv /\ TicksInv => RowsSelect
  BY RowsFollow, ChecksFollow, TimersFollow, ExpiryFollows DEF TargetInv, TicksInv, RowsSelect
<1> QED BY <1>1, TargetInvHolds, TicksInvHolds, PTL

-----------------------------------------------------------------------------
\* The stores of RT-Thread (RtStores).

\* The slot behind another, the slot before it, and the i-th one behind it.
After(k, n) == IF k = n - 1 THEN 0 ELSE k + 1
Before(k, n) == IF k = 0 THEN n - 1 ELSE k - 1
Further(r, i, n) == IF r + i < n THEN r + i ELSE r + i - n

\* A slot further round the ring is a slot.
LEMMA SlotFurther ==
  ASSUME NEW n \in Nat \ {0}, NEW r \in 0..(n - 1), NEW i \in 0..n PROVE Further(r, i, n) \in 0..(n - 1)
BY DEF Further

\* One slot further, counted from either side.
LEMMA OneFurther ==
  ASSUME NEW n \in Nat \ {0}, NEW r \in 0..(n - 1), NEW i \in 0..(n - 1)
  PROVE  /\ After(Further(r, i, n), n) = Further(r, i + 1, n)
         /\ Further(After(r, n), i, n) = Further(r, i + 1, n)
         /\ Further(Before(r, n), i + 1, n) = Further(r, i, n)
BY DEF After, Before, Further

\* The slots next to a slot are slots.
LEMMA NextSlots ==
  ASSUME NEW n \in Nat \ {0}, NEW r \in 0..(n - 1)
  PROVE  After(r, n) \in 0..(n - 1) /\ Before(r, n) \in 0..(n - 1) /\ Further(r, 0, n) = r
BY DEF After, Before, Further

\* A number less than twice another leaves at most one of it behind.
LEMMA SmallRemainder == ASSUME NEW m \in Nat \ {0}, NEW x \in Nat, x < m PROVE x % m = x
OBVIOUS

\* From there on it is taken off once.
LEMMA NextRemainder ==
  ASSUME NEW m \in Nat \ {0}, NEW x \in Nat, x < m + m, x >= m PROVE x % m = x - m
OBVIOUS

\* s is the chain of first pointers from h, through no node twice.
ChainOf(c, h, s) ==
  /\ s \in Seq(R!Nodes) /\ h = IF s = << >> THEN R!Null ELSE s[1]
  /\ \A i \in 1..Len(s) : c[s[i]].next = IF i = Len(s) THEN R!Null ELSE s[i + 1]
  /\ \A i, j \in 1..Len(s) : s[i] = s[j] => i = j
Along(s) == {s[i] : i \in 1..Len(s)}

\* _walk_list, as its LETs are written.
NodeRun(f, h) ==
  f = [n \in 1..(Places + 2) |-> IF n = 1 THEN h ELSE IF f[n - 1] = R!Null THEN R!Null ELSE cell[f[n - 1]].next]
Stops(f, n, max) == f[n] = R!Null \/ n > max \/ \E m \in 1..(n - 1) : f[m] = f[n]
StopsFirst(f, n, max) == Stops(f, n, max) /\ \A m \in 1..(n - 1) : ~Stops(f, m, max)

NodesFrom(h) == CHOOSE f : NodeRun(f, h)
StopFrom(h, max) == CHOOSE n \in 1..(Places + 2) : StopsFirst(NodesFrom(h), n, max)

\* A chain no longer than the bound is walked as it is.
LEMMA ChainIsWalked ==
  ASSUME Places \in Nat, NEW h, NEW s, ChainOf(cell, h, s), Len(s) <= Places, NEW max \in Nat, Len(s) <= max
  PROVE  R!WalkList(h, max) = s
<1>1. /\ s \in Seq(R!Nodes) /\ h = IF s = << >> THEN R!Null ELSE s[1]
      /\ \A i \in 1..Len(s) : cell[s[i]].next = IF i = Len(s) THEN R!Null ELSE s[i + 1]
      /\ \A i, j \in 1..Len(s) : s[i] = s[j] => i = j
  BY DEF ChainOf
<1>2. PICK n \in Nat : n = Len(s)
  BY <1>1
<1>3. PICK l \in Nat : l = n + 1
  BY <1>2
<1>4. \A i \in 1..n : s[i] # R!Null
  BY <1>1, <1>2 DEF R!Nodes, R!Null
<1>5. PICK g : g = [i \in 1..(Places + 2) |-> IF i <= n THEN s[i] ELSE R!Null]
  OBVIOUS
<1>6. NodeRun(g, h)
  <2>1. ASSUME NEW i \in 1..(Places + 2)
        PROVE  g[i] = IF i = 1 THEN h ELSE IF g[i - 1] = R!Null THEN R!Null ELSE cell[g[i - 1]].next
    <3>1. CASE i = 1
      <4>1. 1 <= n <=> s # << >>
        BY <1>1, <1>2
      <4>. QED BY <1>1, <1>5, <3>1, <4>1
    <3>2. CASE i # 1
      <4>1. PICK j \in 1..(Places + 2) : j = i - 1
        BY <3>2
      <4>2. g[j] = IF j <= n THEN s[j] ELSE R!Null
        BY <1>5
      <4>3. g[i] = IF i <= n THEN s[i] ELSE R!Null
        BY <1>5
      <4>4. CASE j <= n
        <5>1. j \in 1..n /\ s[j] # R!Null /\ j + 1 = i
          BY <1>4, <4>1, <4>4
        <5>2. cell[s[j]].next = IF j = n THEN R!Null ELSE s[i]
          BY <1>1, <1>2, <5>1
        <5>3. i <= n <=> j # n
          BY <4>1, <4>4
        <5>. QED BY <3>2, <4>1, <4>2, <4>3, <4>4, <5>1, <5>2, <5>3
      <4>5. CASE ~(j <= n)
        <5>1. ~(i <= n)
          BY <4>1, <4>5
        <5>. QED BY <3>2, <4>1, <4>2, <4>3, <4>5, <5>1
      <4>. QED BY <4>4, <4>5
    <3>. QED BY <3>1, <3>2
  <2>. QED BY <1>5, <2>1 DEF NodeRun
<1>7. PICK f : f = CHOOSE x : NodeRun(x, h)
  OBVIOUS
<1>8. NodeRun(f, h)
  BY <1>6, <1>7, Zenon
<1>9. /\ f \in [1..(Places + 2) -> {f[i] : i \in 1..(Places + 2)}] /\ f[1] = h
      /\ \A i \in 2..(Places + 2) : f[i] = IF f[i - 1] = R!Null THEN R!Null ELSE cell[f[i - 1]].next
  BY <1>8 DEF NodeRun
<1>10. ASSUME NEW i \in 1..l PROVE f[i] = IF i = l THEN R!Null ELSE s[i]
  <2>1. PICK U : U = {k \in 0..n : f[k + 1] = IF k = n THEN R!Null ELSE s[k + 1]}
    OBVIOUS
  <2>2. 0 \in U
    <3>1. n = 0 <=> s = << >>
      BY <1>1, <1>2
    <3>. QED BY <1>1, <1>2, <1>9, <2>1, <3>1
  <2>3. ASSUME NEW j \in 1..n, j - 1 \in U PROVE j \in U
    <3>1. PICK k \in 0..(n - 1) : j = k + 1
      BY <1>2
    <3>2. f[j] = s[j] /\ s[j] # R!Null
      BY <1>4, <2>1, <2>3, <3>1
    <3>3. PICK m : m = j + 1
      OBVIOUS
    <3>4. m \in 2..(Places + 2) /\ m - 1 = j
      BY <1>2, <3>3
    <3>5. f[m] = cell[s[j]].next
      BY <1>9, <3>2, <3>4
    <3>6. f[m] = IF j = n THEN R!Null ELSE s[m]
      BY <1>1, <1>2, <3>3, <3>5
    <3>. QED BY <2>1, <3>1, <3>3, <3>6
  <2>4. 0..n \subseteq U
    BY <1>2, <2>2, <2>3, UpTo
  <2>5. PICK k \in 0..n : i = k + 1
    BY <1>2, <1>3
  <2>. QED BY <1>3, <2>1, <2>4, <2>5
<1>11. Stops(f, l, max)
  <2>1. f[l] = R!Null
    BY <1>3, <1>10
  <2>. QED BY <2>1 DEF Stops
<1>12. ASSUME NEW m \in 1..(l - 1) PROVE ~Stops(f, m, max)
  <2>1. m \in 1..n /\ m \in 1..l /\ m # l /\ f[m] = s[m] /\ f[m] # R!Null
    BY <1>3, <1>4, <1>10
  <2>2. ~(m > max)
    BY <1>2, <2>1
  <2>3. ASSUME NEW k \in 1..(m - 1) PROVE f[k] # f[m]
    <3>1. k \in 1..n /\ k \in 1..l /\ k # l /\ k # m
      BY <1>3, <2>1
    <3>2. f[k] = s[k]
      BY <1>10, <3>1
    <3>. QED BY <1>1, <1>2, <2>1, <3>1, <3>2
  <2>. QED BY <2>1, <2>2, <2>3 DEF Stops
<1>13. PICK p : p = CHOOSE m \in 1..(Places + 2) : StopsFirst(f, m, max)
  OBVIOUS
<1>14. l \in 1..(Places + 2) /\ StopsFirst(f, l, max)
  BY <1>2, <1>3, <1>11, <1>12 DEF StopsFirst
<1>15. p \in 1..(Places + 2) /\ StopsFirst(f, p, max)
  BY <1>13, <1>14, Zenon
<1>16. p = l
  <2>1. CASE p < l
    <3>1. p \in 1..(l - 1)
      BY <1>3, <1>15, <2>1
    <3>. QED BY <1>12, <1>15, <3>1 DEF StopsFirst
  <2>2. CASE l < p
    <3>1. l \in 1..(p - 1)
      BY <1>3, <1>15, <2>2
    <3>. QED BY <1>11, <1>15, <3>1 DEF StopsFirst
  <2>. QED BY <1>3, <1>15, <2>1, <2>2
<1>17. R!WalkList(h, max) = [i \in 1..(p - 1) |-> f[i]]
  <2>1. f = NodesFrom(h)
    BY <1>7, Zenon DEF NodesFrom
  <2>2. p = StopFrom(h, max)
    BY <1>13, <2>1, Zenon DEF StopFrom
  <2>3. R!WalkList(h, max) = [i \in 1..(StopFrom(h, max) - 1) |-> NodesFrom(h)[i]]
    BY Zenon DEF R!WalkList, NodesFrom, StopFrom, NodeRun, Stops, StopsFirst
  <2>. QED BY <2>1, <2>2, <2>3
<1>18. PICK w : w = [i \in 1..(p - 1) |-> f[i]]
  OBVIOUS
<1>19. ASSUME NEW i \in 1..n PROVE w[i] = s[i]
  BY <1>2, <1>3, <1>10, <1>16, <1>18
<1>20. w = s
  <2>1. s = [i \in 1..n |-> s[i]]
    BY <1>1, <1>2
  <2>2. w = [i \in 1..n |-> w[i]]
    BY <1>2, <1>3, <1>16, <1>18
  <2>. QED BY <1>19, <2>1, <2>2
<1>. QED BY <1>17, <1>18, <1>20

\* The same, with the nodes on it and their number.
Chain(c, h, s, w, n) == ChainOf(c, h, s) /\ w = Along(s) /\ n = Len(s)
LastOf(s) == IF s = << >> THEN R!Null ELSE s[Len(s)]
NextsKept(c, d, w) == \A x \in w : d[x].next = c[x].next

\* The head of a chain is on it, if there is one.
LEMMA ChainHead ==
  ASSUME NEW c, NEW h, NEW s, NEW w, NEW n, Chain(c, h, s, w, n)
  PROVE  /\ n \in Nat /\ w \in SUBSET R!Nodes /\ (h = R!Null <=> n = 0) /\ (h # R!Null => h \in w)
         /\ LastOf(s) = R!Null <=> n = 0
<1>1. s \in Seq(R!Nodes) /\ (h = IF s = << >> THEN R!Null ELSE s[1]) /\ w = Along(s) /\ n = Len(s)
  BY DEF Chain, ChainOf
<1>2. n \in Nat /\ w \in SUBSET R!Nodes /\ (n = 0 <=> s = << >>)
  BY <1>1 DEF Along
<1>3. n # 0 => s[1] \in w /\ s[1] \in R!Nodes /\ s[n] \in R!Nodes
  BY <1>1, <1>2 DEF Along
<1>. QED BY <1>1, <1>2, <1>3 DEF R!Nodes, R!Null, LastOf

\* What is written elsewhere leaves a chain.
LEMMA ChainKept ==
  ASSUME NEW c, NEW d, NEW h, NEW s, NEW w, NEW n \in Nat, Chain(c, h, s, w, n), NextsKept(c, d, w)
  PROVE  Chain(d, h, s, w, n)
<1>1. \A i \in 1..Len(s) : s[i] \in w
  BY DEF Chain, Along
<1>. QED BY <1>1 DEF Chain, ChainOf, NextsKept

\* A node put in front of a chain
LEMMA ChainPushed ==
  ASSUME NEW c, NEW d, NEW h, NEW s, NEW w, NEW n \in Nat, Chain(c, h, s, w, n),
         NEW x \in R!Nodes, x \notin w, NextsKept(c, d, w), d[x].next = h
  PROVE  Chain(d, x, <<x>> \o s, {x} \cup w, n + 1)
<1>1. /\ s \in Seq(R!Nodes) /\ (h = IF s = << >> THEN R!Null ELSE s[1]) /\ w = Along(s) /\ n = Len(s) /\ n \in Nat
      /\ \A i \in 1..n : c[s[i]].next = IF i = n THEN R!Null ELSE s[i + 1]
      /\ \A i, j \in 1..n : s[i] = s[j] => i = j
  BY DEF Chain, ChainOf
<1>2. PICK t : t = <<x>> \o s
  OBVIOUS
<1>3. PICK m \in Nat : m = n + 1
  BY <1>1
<1>4. t \in Seq(R!Nodes) /\ Len(t) = m /\ t[1] = x /\ t # << >>
  BY <1>1, <1>2, <1>3
<1>5. \A i \in 1..n : t[i + 1] = s[i] /\ s[i] \in w /\ s[i] # x
  BY <1>1, <1>2 DEF Along
<1>6. ASSUME NEW i \in 1..m PROVE d[t[i]].next = IF i = m THEN R!Null ELSE t[i + 1]
  <2>1. CASE i = 1
    <3>1. n = 0 <=> s = << >>
      BY <1>1
    <3>2. n # 0 => 1 \in 1..n /\ t[2] = s[1]
      BY <1>1, <1>5
    <3>. QED BY <1>1, <1>3, <1>4, <2>1, <3>1, <3>2
  <2>2. CASE i # 1
    <3>1. PICK k \in 1..n : i = k + 1
      BY <1>3, <2>2
    <3>2. t[i] = s[k] /\ d[s[k]].next = c[s[k]].next
      BY <1>5, <3>1 DEF NextsKept
    <3>3. k # n => k + 1 \in 1..n
      BY <3>1, <1>1
    <3>. QED BY <1>1, <1>3, <1>5, <3>1, <3>2, <3>3
  <2>. QED BY <2>1, <2>2
<1>7. ASSUME NEW i \in 1..m, NEW j \in 1..m, t[i] = t[j] PROVE i = j
  <2>1. \A k \in 1..m : k # 1 => \E l \in 1..n : k = l + 1
    BY <1>3
  <2>. QED BY <1>1, <1>4, <1>5, <1>7, <2>1
<1>8. Along(t) = {x} \cup w
  <2>1. \A k \in 1..m : k # 1 => \E l \in 1..n : k = l + 1
    BY <1>3
  <2>2. \A k \in 1..n : k + 1 \in 1..m
    BY <1>3
  <2>3. 1 \in 1..m
    BY <1>3
  <2>4. \A k \in 1..m : t[k] \in {x} \cup w
    BY <1>4, <1>5, <2>1
  <2>5. \A y \in w : \E k \in 1..m : t[k] = y
    BY <1>1, <1>5, <2>2 DEF Along
  <2>. QED BY <1>4, <2>3, <2>4, <2>5 DEF Along
<1>9. ChainOf(d, x, t)
  BY <1>4, <1>6, <1>7 DEF ChainOf
<1>. QED BY <1>2, <1>3, <1>4, <1>8, <1>9 DEF Chain

\* The front of a chain taken away
LEMMA ChainPopped ==
  ASSUME NEW c, NEW d, NEW h, NEW s, NEW w, NEW n \in Nat, Chain(c, h, s, w, n), h # R!Null,
         NextsKept(c, d, w \ {h})
  PROVE  Chain(d, c[h].next, Tail(s), w \ {h}, n - 1)
<1>1. /\ s \in Seq(R!Nodes) /\ (h = IF s = << >> THEN R!Null ELSE s[1]) /\ w = Along(s) /\ n = Len(s) /\ n \in Nat
      /\ \A i \in 1..n : c[s[i]].next = IF i = n THEN R!Null ELSE s[i + 1]
      /\ \A i, j \in 1..n : s[i] = s[j] => i = j
  BY DEF Chain, ChainOf
<1>2. s # << >> /\ n # 0 /\ h = s[1]
  BY <1>1
<1>3. PICK m \in Nat : m = n - 1
  BY <1>1, <1>2
<1>4. PICK t : t = Tail(s)
  OBVIOUS
<1>5. t \in Seq(R!Nodes) /\ Len(t) = m /\ (t = << >> <=> m = 0) /\ \A i \in 1..m : t[i] = s[i + 1]
  <2>1. Len(s) = n /\ s \in Seq(R!Nodes) /\ s # << >>
    BY <1>1, <1>2
  <2>2. t \in Seq(R!Nodes) /\ Len(t) = m
    BY <1>3, <1>4, <2>1
  <2>3. \A i \in 1..m : t[i] = s[i + 1]
    BY <1>3, <1>4, <2>1
  <2>4. t = << >> <=> m = 0
    BY <2>2
  <2>. QED BY <2>2, <2>3, <2>4
<1>6. \A i \in 1..m : i + 1 \in 1..n /\ i + 1 # 1
  BY <1>3
<1>7. \A i \in 1..m : t[i] \in w \ {h}
  <2>1. ASSUME NEW i \in 1..m PROVE t[i] \in w \ {h}
    <3>1. i + 1 \in 1..n /\ i + 1 # 1 /\ 1 \in 1..n /\ t[i] = s[i + 1]
      BY <1>3, <1>5, <1>6
    <3>. QED BY <1>1, <1>2, <3>1 DEF Along
  <2>. QED BY <2>1
<1>8. ASSUME NEW i \in 1..m PROVE d[t[i]].next = IF i = m THEN R!Null ELSE t[i + 1]
  <2>1. d[t[i]].next = c[t[i]].next
    BY <1>7 DEF NextsKept
  <2>2. PICK k \in 1..n : k = i + 1
    BY <1>6
  <2>3. c[s[k]].next = (IF k = n THEN R!Null ELSE s[k + 1]) /\ t[i] = s[k]
    BY <1>1, <1>5, <2>2
  <2>4. i # m => i + 1 \in 1..m /\ t[i + 1] = s[k + 1]
    BY <1>5, <2>2
  <2>. QED BY <1>3, <2>1, <2>2, <2>3, <2>4
<1>9. \A i, j \in 1..m : t[i] = t[j] => i = j
  BY <1>1, <1>5, <1>6
<1>10. Along(t) = w \ {h}
  <2>1. ASSUME NEW y \in w \ {h} PROVE \E i \in 1..m : t[i] = y
    <3>1. PICK k \in 1..n : s[k] = y
      BY <1>1 DEF Along
    <3>2. k # 1
      BY <1>2, <3>1
    <3>3. PICK i \in 1..m : k = i + 1
      BY <1>3, <3>2
    <3>. QED BY <1>5, <3>1, <3>3
  <2>. QED BY <1>5, <1>7, <2>1 DEF Along
<1>11. c[h].next = IF t = << >> THEN R!Null ELSE t[1]
  <2>1. 1 \in 1..n /\ (m # 0 => 1 \in 1..m /\ 1 + 1 = 2)
    BY <1>1, <1>2, <1>3
  <2>2. c[s[1]].next = IF 1 = n THEN R!Null ELSE s[2]
    BY <1>1, <2>1
  <2>. QED BY <1>2, <1>3, <1>5, <2>1, <2>2
<1>12. ChainOf(d, c[h].next, t)
  BY <1>5, <1>8, <1>9, <1>11 DEF ChainOf
<1>. QED BY <1>3, <1>4, <1>5, <1>10, <1>12 DEF Chain

\* and a node linked behind its last one.
LEMMA ChainAppended ==
  ASSUME NEW c, NEW d, NEW h, NEW s, NEW w, NEW n \in Nat, Chain(c, h, s, w, n),
         NEW x \in R!Nodes, x \notin w, d[x].next = R!Null,
         NEW l, l = LastOf(s), l # R!Null => d[l].next = x, NextsKept(c, d, w \ {l})
  PROVE  Chain(d, IF h = R!Null THEN x ELSE h, Append(s, x), {x} \cup w, n + 1)
<1>1. /\ s \in Seq(R!Nodes) /\ (h = IF s = << >> THEN R!Null ELSE s[1]) /\ w = Along(s) /\ n = Len(s) /\ n \in Nat
      /\ \A i \in 1..n : c[s[i]].next = IF i = n THEN R!Null ELSE s[i + 1]
      /\ \A i, j \in 1..n : s[i] = s[j] => i = j
  BY DEF Chain, ChainOf
<1>2. PICK t : t = Append(s, x)
  OBVIOUS
<1>3. PICK m \in Nat : m = n + 1
  BY <1>1
<1>4. t \in Seq(R!Nodes) /\ Len(t) = m /\ t[m] = x /\ t # << >>
  BY <1>1, <1>2, <1>3
<1>5. \A i \in 1..n : t[i] = s[i] /\ s[i] \in w /\ s[i] # x
  BY <1>1, <1>2 DEF Along
<1>6. n # 0 => l = s[n] /\ l \in R!Nodes /\ n \in 1..n
  BY <1>1 DEF LastOf
<1>7. ASSUME NEW i \in 1..m PROVE d[t[i]].next = IF i = m THEN R!Null ELSE t[i + 1]
  <2>1. CASE i = m
    BY <1>4, <2>1
  <2>2. CASE i # m
    <3>1. i \in 1..n /\ n # 0 /\ (i = n <=> i + 1 = m)
      BY <1>3, <2>2
    <3>2. t[i] = s[i] /\ s[i] \in w
      BY <1>5, <3>1
    <3>3. CASE i = n
      <4>1. l = s[i] /\ l # R!Null
        BY <1>6, <3>1, <3>3 DEF R!Nodes, R!Null
      <4>. QED BY <1>4, <2>2, <3>1, <3>2, <3>3, <4>1
    <3>4. CASE i # n
      <4>1. s[i] # s[n]
        BY <1>1, <1>6, <3>1, <3>4
      <4>2. d[s[i]].next = c[s[i]].next
        BY <1>6, <3>1, <3>2, <4>1 DEF NextsKept
      <4>3. i + 1 \in 1..n
        BY <3>1, <3>4, <1>1
      <4>4. c[s[i]].next = s[i + 1] /\ t[i + 1] = s[i + 1]
        BY <1>1, <1>5, <3>1, <3>4, <4>3
      <4>. QED BY <2>2, <3>2, <4>2, <4>4
    <3>. QED BY <3>3, <3>4
  <2>. QED BY <2>1, <2>2
<1>8. ASSUME NEW i \in 1..m, NEW j \in 1..m, t[i] = t[j] PROVE i = j
  <2>1. \A k \in 1..m : k # m => k \in 1..n
    BY <1>3
  <2>. QED BY <1>1, <1>4, <1>5, <1>8, <2>1
<1>9. Along(t) = {x} \cup w
  <2>1. \A k \in 1..m : k # m => k \in 1..n
    BY <1>3
  <2>2. (\A k \in 1..n : k \in 1..m) /\ m \in 1..m
    BY <1>3
  <2>3. \A k \in 1..m : t[k] \in {x} \cup w
    BY <1>4, <1>5, <2>1
  <2>4. \A y \in w : \E k \in 1..m : t[k] = y
    BY <1>1, <1>5, <2>2 DEF Along
  <2>. QED BY <1>4, <2>2, <2>3, <2>4 DEF Along
<1>10. (IF h = R!Null THEN x ELSE h) = t[1]
  <2>1. n = 0 <=> s = << >>
    BY <1>1
  <2>2. n # 0 => 1 \in 1..n
    BY <1>1
  <2>3. n # 0 => s[1] # R!Null
    <3>1. \A i \in 1..n : s[i] \in R!Nodes
      BY <1>1
    <3>. QED BY <2>2, <3>1 DEF R!Nodes, R!Null
  <2>. QED BY <1>1, <1>3, <1>4, <1>5, <2>1, <2>2, <2>3
<1>11. ChainOf(d, IF h = R!Null THEN x ELSE h, t)
  BY <1>4, <1>7, <1>8, <1>10 DEF ChainOf
<1>. QED BY <1>2, <1>3, <1>4, <1>9, <1>11 DEF Chain

Cells == [R!Nodes -> [mail : Mail \cup {R!Blank}, next : R!Nodes \cup {R!Null}]]

\* d is c with mail v in place x, or with first pointer l.
Remailed(c, d, x, v) ==
  d \in Cells /\ \A y \in R!Nodes : d[y].next = c[y].next /\ d[y].mail = IF y = x THEN v ELSE c[y].mail
Relinked(c, d, x, l) ==
  d \in Cells /\ \A y \in R!Nodes : d[y].mail = c[y].mail /\ d[y].next = IF y = x THEN l ELSE c[y].next

\* The two stores into a place.
LEMMA PlaceWritten ==
  ASSUME NEW c \in Cells, NEW x \in R!Nodes, NEW v \in Mail \cup {R!Blank}, NEW l \in R!Nodes \cup {R!Null}
  PROVE  /\ Remailed(c, [c EXCEPT ![x].mail = v], x, v)
         /\ Relinked(c, [c EXCEPT ![x].next = l], x, l)
<1>1. PICK d : d = [c EXCEPT ![x].mail = v]
  OBVIOUS
<1>2. Remailed(c, d, x, v)
  BY <1>1 DEF Remailed, Cells
<1>3. PICK e : e = [c EXCEPT ![x].next = l]
  OBVIOUS
<1>4. Relinked(c, e, x, l)
  BY <1>3 DEF Relinked, Cells
<1>. QED BY <1>1, <1>2, <1>3, <1>4

\* A mailbox whose ring holds n mails, v, from slot first to before slot last.
MailRing(c, first, last, v, n) ==
  /\ first \in 0..(Places - 1) /\ v \in Seq(Mail) /\ Len(v) = n /\ n <= Places
  /\ last = Further(first, n, Places)
  /\ \A i \in 0..(n - 1) : c[Further(first, i, Places) + 1].mail = v[i + 1]

\* What is written to the free slot is no mail yet;
LEMMA MailRingKept ==
  ASSUME R!StoreAssumption, NEW c, NEW d, NEW first, NEW last, NEW v, NEW n \in Nat, NEW x,
         MailRing(c, first, last, v, n), n < Places, Remailed(c, d, last + 1, x)
  PROVE  MailRing(d, first, last, v, n) /\ last \in 0..(Places - 1) /\ d[last + 1].mail = x
<1>1. Places \in Nat \ {0} /\ first \in 0..(Places - 1) /\ last = Further(first, n, Places)
  BY DEF MailRing, R!StoreAssumption
<1>2. last \in 0..(Places - 1)
  BY <1>1, SlotFurther
<1>3. \A y \in 0..(Places - 1) : d[y + 1].mail = IF y = last THEN x ELSE c[y + 1].mail
  <2>1. \A y \in 0..(Places - 1) : y + 1 \in R!Nodes /\ (y + 1 = last + 1 <=> y = last)
    BY <1>1, <1>2 DEF R!Nodes
  <2>. QED BY <2>1 DEF Remailed
<1>4. ASSUME NEW i \in 0..(n - 1) PROVE Further(first, i, Places) \in 0..(Places - 1) /\ Further(first, i, Places) # last
  BY <1>1 DEF Further
<1>5. \A i \in 0..(n - 1) : d[Further(first, i, Places) + 1].mail = v[i + 1]
  BY <1>3, <1>4 DEF MailRing
<1>. QED BY <1>2, <1>3, <1>5 DEF MailRing

\* it is one when the offset is past it.
LEMMA MailRingAppends ==
  ASSUME R!StoreAssumption, NEW c, NEW first, NEW last, NEW v, NEW n \in Nat, NEW x \in Mail,
         MailRing(c, first, last, v, n), n < Places, c[last + 1].mail = x
  PROVE  MailRing(c, first, After(last, Places), Append(v, x), n + 1)
<1>1. /\ Places \in Nat \ {0} /\ first \in 0..(Places - 1) /\ last = Further(first, n, Places)
      /\ v \in Seq(Mail) /\ Len(v) = n
      /\ \A i \in 0..(n - 1) : c[Further(first, i, Places) + 1].mail = v[i + 1]
  BY DEF MailRing, R!StoreAssumption
<1>2. PICK w : w = Append(v, x)
  OBVIOUS
<1>3. w \in Seq(Mail) /\ Len(w) = n + 1 /\ w[n + 1] = x /\ \A i \in 0..(n - 1) : w[i + 1] = v[i + 1]
  BY <1>1, <1>2
<1>4. After(last, Places) = Further(first, n + 1, Places)
  BY <1>1, OneFurther
<1>5. ASSUME NEW i \in 0..n PROVE c[Further(first, i, Places) + 1].mail = w[i + 1]
  <2>1. CASE i = n
    BY <1>1, <1>3, <2>1
  <2>2. CASE i # n
    <3>1. i \in 0..(n - 1)
      BY <2>2
    <3>. QED BY <1>1, <1>3, <3>1
  <2>. QED BY <2>1, <2>2
<1>6. n + 1 <= Places /\ (n + 1) - 1 = n
  BY <1>1
<1>7. MailRing(c, first, After(last, Places), w, n + 1)
  BY <1>1, <1>3, <1>4, <1>5, <1>6 DEF MailRing
<1>. QED BY <1>2, <1>7

\* An urgent mail is the one before the first,
LEMMA MailRingPushes ==
  ASSUME R!StoreAssumption, NEW c, NEW d, NEW first, NEW last, NEW v, NEW n \in Nat, NEW x \in Mail,
         MailRing(c, first, last, v, n), n < Places, Remailed(c, d, Before(first, Places) + 1, x)
  PROVE  MailRing(d, Before(first, Places), last, <<x>> \o v, n + 1)
<1>1. /\ Places \in Nat \ {0} /\ first \in 0..(Places - 1) /\ last = Further(first, n, Places)
      /\ v \in Seq(Mail) /\ Len(v) = n
      /\ \A i \in 0..(n - 1) : c[Further(first, i, Places) + 1].mail = v[i + 1]
  BY DEF MailRing, R!StoreAssumption
<1>2. PICK w : w = <<x>> \o v
  OBVIOUS
<1>3. w \in Seq(Mail) /\ Len(w) = n + 1 /\ w[1] = x /\ \A i \in 0..(n - 1) : w[i + 2] = v[i + 1]
  <2>1. w \in Seq(Mail) /\ Len(w) = n + 1 /\ w[1] = x /\ \A i \in 1..n : w[i + 1] = v[i]
    BY <1>1, <1>2
  <2>2. \A i \in 0..(n - 1) : i + 1 \in 1..n /\ (i + 1) + 1 = i + 2
    OBVIOUS
  <2>. QED BY <2>1, <2>2
<1>4. PICK b : b = Before(first, Places)
  OBVIOUS
<1>5. b \in 0..(Places - 1) /\ Further(b, 0, Places) = b
  BY <1>1, <1>4, NextSlots
<1>6. \A i \in 0..(Places - 1) : Further(b, i + 1, Places) = Further(first, i, Places)
  BY <1>1, <1>4, OneFurther
<1>7. \A y \in 0..(Places - 1) : d[y + 1].mail = IF y = b THEN x ELSE c[y + 1].mail
  <2>1. \A y \in 0..(Places - 1) : y + 1 \in R!Nodes /\ (y + 1 = b + 1 <=> y = b)
    BY <1>1, <1>5 DEF R!Nodes
  <2>. QED BY <1>4, <2>1 DEF Remailed
<1>8. ASSUME NEW i \in 0..(n - 1)
      PROVE  Further(first, i, Places) \in 0..(Places - 1) /\ Further(first, i, Places) # b
  BY <1>1, <1>4 DEF Further, Before
<1>9. ASSUME NEW i \in 0..n PROVE d[Further(b, i, Places) + 1].mail = w[i + 1]
  <2>1. CASE i = 0
    BY <1>3, <1>5, <1>7, <2>1
  <2>2. CASE i # 0
    <3>1. PICK j \in 0..(n - 1) : i = j + 1
      BY <2>2
    <3>2. Further(b, i, Places) = Further(first, j, Places)
      BY <1>1, <1>6, <3>1
    <3>3. d[Further(first, j, Places) + 1].mail = v[j + 1]
      BY <1>1, <1>7, <1>8
    <3>4. w[i + 1] = v[j + 1]
      BY <1>3, <3>1
    <3>. QED BY <3>2, <3>3, <3>4
  <2>. QED BY <2>1, <2>2
<1>10. last = Further(b, n + 1, Places)
  BY <1>1, <1>6
<1>11. n + 1 <= Places /\ (n + 1) - 1 = n
  BY <1>1
<1>12. MailRing(d, b, last, w, n + 1)
  BY <1>3, <1>5, <1>9, <1>10, <1>11 DEF MailRing
<1>. QED BY <1>2, <1>4, <1>12

\* and the first one is received.
LEMMA MailRingReceives ==
  ASSUME R!StoreAssumption, NEW c, NEW first, NEW last, NEW v, NEW n \in Nat,
         MailRing(c, first, last, v, n), n > 0
  PROVE  MailRing(c, After(first, Places), last, Tail(v), n - 1)
<1>1. /\ Places \in Nat \ {0} /\ first \in 0..(Places - 1) /\ last = Further(first, n, Places)
      /\ v \in Seq(Mail) /\ Len(v) = n /\ n <= Places
      /\ \A i \in 0..(n - 1) : c[Further(first, i, Places) + 1].mail = v[i + 1]
  BY DEF MailRing, R!StoreAssumption
<1>2. PICK w : w = Tail(v)
  OBVIOUS
<1>3. w \in Seq(Mail) /\ Len(w) = n - 1 /\ \A i \in 1..(n - 1) : w[i] = v[i + 1]
  <2>1. v # << >>
    BY <1>1
  <2>. QED BY <1>1, <1>2, <2>1
<1>4. PICK b : b = After(first, Places)
  OBVIOUS
<1>5. b \in 0..(Places - 1)
  BY <1>1, <1>4, NextSlots
<1>6. \A i \in 0..(Places - 1) : Further(b, i, Places) = Further(first, i + 1, Places)
  BY <1>1, <1>4, OneFurther
<1>7. ASSUME NEW i \in 0..(n - 1 - 1) PROVE c[Further(b, i, Places) + 1].mail = w[i + 1]
  <2>1. PICK j : j = i + 1
    OBVIOUS
  <2>2. j \in 0..(n - 1) /\ j \in 1..(n - 1) /\ i \in 0..(Places - 1)
    BY <1>1, <2>1
  <2>. QED BY <1>1, <1>3, <1>6, <2>1, <2>2
<1>8. last = Further(b, n - 1, Places)
  <2>1. n - 1 \in 0..(Places - 1) /\ (n - 1) + 1 = n
    BY <1>1
  <2>. QED BY <1>1, <1>6, <2>1
<1>9. n - 1 <= Places
  BY <1>1
<1>10. MailRing(c, b, last, w, n - 1)
  BY <1>3, <1>5, <1>7, <1>8, <1>9 DEF MailRing
<1>. QED BY <1>2, <1>4, <1>10

Maybe == R!Nodes \cup {R!Null}
OpRecords ==
  [kind : {"none", "advance in", "wrap in", "wrap out", "count message", "take block", "link block"},
   at : Maybe, with : Mail \cup {R!Blank}]
MailRecords == [kind : {"mailbox"}, size : {Places}, entry : Nat, in_offset : Nat, out_offset : Nat]
MessageRecords == [kind : {"msgqueue"}, size : {Places}, entry : Nat, head : Maybe, tail : Maybe, free : Maybe]
PoolRecords == [kind : {"mempool"}, size : {Places}, entry : Nat, free : Maybe]

\* A mailbox: the ring, and the store in hand.
MailHolds(st, c, o, v, first, last) ==
  /\ st \in MailRecords /\ MailRing(c, first, last, v, st.entry) /\ last \in 0..(Places - 1)
  /\ o.kind \in {"none", "advance in", "wrap in", "wrap out"}
  /\ st.in_offset = IF o.kind = "wrap in" THEN last + 1 ELSE last
  /\ st.out_offset = IF o.kind = "wrap out" THEN first + 1 ELSE first
  /\ o.kind \in {"advance in", "wrap in"} => st.entry < Places /\ o.with \in Mail /\ c[last + 1].mail = o.with
  /\ o.kind = "wrap out" => st.entry > 0
MailSound(st, c, o, v) == \E first, last : MailHolds(st, c, o, v, first, last)

PlacesSound(c, o, h) ==
  /\ c \in Cells /\ o \in OpRecords /\ h \in [Party -> Maybe]
  /\ o.kind = "none" => o = R!NoOp

\* An offset past the last slot is wrapped.
LEMMA OffsetWraps ==
  ASSUME Places \in Nat \ {0}, NEW k \in 0..(Places - 1) PROVE (k + 1) % Places = After(k, Places)
<1>1. CASE k + 1 < Places
  <2>1. (k + 1) % Places = k + 1
    BY <1>1, SmallRemainder
  <2>. QED BY <1>1, <2>1 DEF After
<1>2. CASE ~(k + 1 < Places)
  <2>1. k + 1 = Places
    BY <1>2
  <2>2. Places % Places = Places - Places
    BY NextRemainder
  <2>. QED BY <2>1, <2>2 DEF After
<1>. QED BY <1>1, <1>2

\* Each store of rt_mb_send, rt_mb_urgent and rt_mb_recv keeps a mailbox.
LEMMA MailSteps ==
  ASSUME R!StoreAssumption, PlacesSound(cell, storeOp, inHand), MailSound(store, cell, storeOp, stored), R!Next
  PROVE  PlacesSound(cell', storeOp', inHand') /\ MailSound(store', cell', storeOp', stored')
<1>1. PICK first, last : MailHolds(store, cell, storeOp, stored, first, last)
  BY DEF MailSound
<1>2. /\ store \in MailRecords /\ last \in 0..(Places - 1) /\ store.kind = "mailbox" /\ store.entry \in Nat
      /\ store.in_offset \in Nat /\ store.out_offset \in Nat
      /\ MailRing(cell, first, last, stored, store.entry)
      /\ storeOp.kind \in {"none", "advance in", "wrap in", "wrap out"}
      /\ store.in_offset = IF storeOp.kind = "wrap in" THEN last + 1 ELSE last
      /\ store.out_offset = IF storeOp.kind = "wrap out" THEN first + 1 ELSE first
      /\ storeOp.kind \in {"advance in", "wrap in"} =>
           store.entry < Places /\ storeOp.with \in Mail /\ cell[last + 1].mail = storeOp.with
      /\ storeOp.kind = "wrap out" => store.entry > 0
  BY <1>1 DEF MailHolds, MailRecords
<1>3. /\ Places \in Nat \ {0} /\ R!Blank \notin Mail /\ first \in 0..(Places - 1)
      /\ cell \in Cells /\ storeOp \in OpRecords /\ inHand \in [Party -> Maybe]
      /\ last + 1 \in R!Nodes /\ first + 1 \in R!Nodes
      /\ storeOp.kind = "none" <=> storeOp = R!NoOp
  <2>1. Places \in Nat \ {0} /\ R!Blank \notin Mail /\ first \in 0..(Places - 1)
    BY <1>2 DEF R!StoreAssumption, MailRing
  <2>2. last \in 0..(Places - 1)
    BY <1>2
  <2>3. last + 1 \in R!Nodes /\ first + 1 \in R!Nodes
    BY <2>2, <2>1 DEF R!Nodes
  <2>4. R!NoOp.kind = "none"
    BY DEF R!NoOp
  <2>. QED BY <2>1, <2>3, <2>4 DEF PlacesSound
<1>4. store.entry \in Nat
  BY <1>2
<1>5. R!NoOp \in OpRecords /\ R!NoOp.kind = "none"
  BY DEF R!NoOp, OpRecords, Maybe, R!Null
<1>6. ASSUME NEW x \in Mail, R!MailStores(x)
      PROVE  PlacesSound(cell', storeOp', inHand') /\ MailSound(store', cell', storeOp', stored')
  <2>1. /\ storeOp.kind = "none" /\ store.entry < Places /\ cell' = [cell EXCEPT ![last + 1].mail = x]
        /\ storeOp' = [kind |-> "advance in", at |-> R!Null, with |-> x]
        /\ store' = store /\ inHand' = inHand /\ stored' = stored
    BY <1>2, <1>3, <1>6 DEF R!MailStores, R!Idle
  <2>2. Remailed(cell, cell', last + 1, x)
    BY <1>3, <2>1, PlaceWritten
  <2>3. MailRing(cell', first, last, stored, store.entry) /\ cell'[last + 1].mail = x
    <3>1. PICK n \in Nat : n = store.entry
      BY <1>2
    <3>2. MailRing(cell, first, last, stored, n) /\ n < Places
      BY <1>2, <2>1, <3>1
    <3>3. MailRing(cell', first, last, stored, n) /\ cell'[last + 1].mail = x
      BY <2>2, <3>2, MailRingKept
    <3>. QED BY <3>1, <3>3
  <2>4. MailHolds(store', cell', storeOp', stored', first, last)
    BY <1>2, <2>1, <2>3 DEF MailHolds
  <2>5. PlacesSound(cell', storeOp', inHand')
    BY <1>3, <2>1, <2>2 DEF PlacesSound, Remailed, OpRecords, Maybe
  <2>. QED BY <2>4, <2>5 DEF MailSound
<1>7. ASSUME NEW x \in Mail, R!MailUrgent(x)
      PROVE  PlacesSound(cell', storeOp', inHand') /\ MailSound(store', cell', storeOp', stored')
  <2>1. PICK b : b = Before(first, Places)
    OBVIOUS
  <2>2. PICK m : m = store.entry + 1
    OBVIOUS
  <2>3. b \in 0..(Places - 1) /\ m \in Nat /\ b + 1 \in R!Nodes
    <3>1. b \in 0..(Places - 1)
      BY <1>3, <2>1, NextSlots
    <3>2. m \in Nat
      BY <1>4, <2>2
    <3>. QED BY <1>3, <3>1, <3>2 DEF R!Nodes
  <2>4. /\ storeOp.kind = "none" /\ store.entry < Places /\ cell' = [cell EXCEPT ![b + 1].mail = x]
        /\ store' = [store EXCEPT !.out_offset = b, !.entry = m]
        /\ storeOp' = storeOp /\ inHand' = inHand /\ stored' = <<x>> \o stored
    <3>1. storeOp.kind = "none" /\ store.out_offset = first
      BY <1>2, <1>3, <1>7 DEF R!MailUrgent, R!Idle
    <3>2. b = IF store.out_offset > 0 THEN store.out_offset - 1 ELSE Places - 1
      BY <1>3, <2>1, <3>1 DEF Before
    <3>. QED BY <1>7, <2>2, <3>1, <3>2 DEF R!MailUrgent
  <2>5. Remailed(cell, cell', b + 1, x)
    BY <1>3, <2>3, <2>4, PlaceWritten
  <2>6. MailRing(cell', b, last, stored', m)
    BY <1>2, <2>1, <2>2, <2>4, <2>5, MailRingPushes
  <2>7. /\ store' \in MailRecords /\ store'.entry = m /\ store'.out_offset = b
        /\ store'.in_offset = store.in_offset
    <3>1. b \in Nat /\ m \in Nat
      BY <1>3, <2>3
    <3>. QED BY <1>2, <2>4, <3>1 DEF MailRecords
  <2>8. MailHolds(store', cell', storeOp', stored', b, last)
    BY <1>2, <2>4, <2>6, <2>7 DEF MailHolds
  <2>9. PlacesSound(cell', storeOp', inHand')
    BY <1>3, <2>4, <2>5 DEF PlacesSound, Remailed
  <2>. QED BY <2>8, <2>9 DEF MailSound
<1>8. ASSUME R!MailAdvances
      PROVE  PlacesSound(cell', storeOp', inHand') /\ MailSound(store', cell', storeOp', stored')
  <2>1. PICK b : b = store.in_offset + 1
    OBVIOUS
  <2>2. /\ storeOp.kind = "advance in" /\ store' = [store EXCEPT !.in_offset = b]
        /\ storeOp' = [storeOp EXCEPT !.kind = "wrap in"]
        /\ cell' = cell /\ inHand' = inHand /\ stored' = stored
    BY <1>8, <2>1 DEF R!MailAdvances
  <2>3. /\ store' \in MailRecords /\ store'.entry = store.entry /\ store'.in_offset = last + 1
        /\ store'.out_offset = store.out_offset
    <3>1. b = last + 1 /\ last \in 0..(Places - 1)
      BY <1>2, <1>3, <2>1, <2>2
    <3>2. b \in Nat /\ b = last + 1
      BY <1>3, <3>1
    <3>3. store' \in MailRecords /\ store'.entry = store.entry
      BY <1>2, <2>2, <3>2 DEF MailRecords
    <3>. QED BY <1>2, <2>2, <3>2, <3>3 DEF MailRecords
  <2>4. storeOp' \in OpRecords /\ storeOp'.kind = "wrap in" /\ storeOp'.with = storeOp.with
    BY <1>3, <2>2 DEF OpRecords
  <2>5. MailHolds(store', cell', storeOp', stored', first, last)
    BY <1>2, <2>2, <2>3, <2>4 DEF MailHolds
  <2>6. PlacesSound(cell', storeOp', inHand')
    BY <1>3, <2>2, <2>4 DEF PlacesSound
  <2>. QED BY <2>5, <2>6 DEF MailSound
<1>9. ASSUME R!MailSent
      PROVE  PlacesSound(cell', storeOp', inHand') /\ MailSound(store', cell', storeOp', stored')
  <2>1. PICK b : b = store.in_offset % Places
    OBVIOUS
  <2>2. PICK m : m = store.entry + 1
    OBVIOUS
  <2>3. /\ storeOp.kind = "wrap in" /\ store' = [store EXCEPT !.in_offset = b, !.entry = m]
        /\ storeOp' = R!NoOp /\ stored' = Append(stored, storeOp.with)
        /\ cell' = cell /\ inHand' = inHand
    BY <1>9, <2>1, <2>2 DEF R!MailSent
  <2>4. b = After(last, Places) /\ b \in 0..(Places - 1) /\ m \in Nat
    <3>1. b = (last + 1) % Places
      BY <1>2, <2>1, <2>3
    <3>2. b = After(last, Places) /\ After(last, Places) \in 0..(Places - 1)
      BY <1>2, <1>3, <3>1, OffsetWraps, NextSlots
    <3>3. m \in Nat
      BY <1>4, <2>2
    <3>. QED BY <3>2, <3>3
  <2>5. /\ store' \in MailRecords /\ store'.entry = m /\ store'.in_offset = b
        /\ store'.out_offset = store.out_offset
    <3>1. b \in Nat
      BY <1>3, <2>4
    <3>. QED BY <1>2, <2>3, <2>4, <3>1 DEF MailRecords
  <2>6. MailRing(cell', first, b, stored', m)
    BY <1>2, <2>2, <2>3, <2>4, MailRingAppends
  <2>7. MailHolds(store', cell', storeOp', stored', first, b)
    BY <1>2, <1>5, <2>3, <2>4, <2>5, <2>6 DEF MailHolds
  <2>8. PlacesSound(cell', storeOp', inHand')
    BY <1>3, <1>5, <2>3 DEF PlacesSound
  <2>. QED BY <2>7, <2>8 DEF MailSound
<1>10. ASSUME R!MailTaken
      PROVE  PlacesSound(cell', storeOp', inHand') /\ MailSound(store', cell', storeOp', stored')
  <2>1. PICK b : b = store.out_offset + 1
    OBVIOUS
  <2>2. /\ storeOp.kind = "none" /\ store.entry > 0 /\ store' = [store EXCEPT !.out_offset = b]
        /\ storeOp' = [R!NoOp EXCEPT !.kind = "wrap out"]
        /\ cell' = cell /\ inHand' = inHand /\ stored' = stored
    BY <1>3, <1>10, <2>1 DEF R!MailTaken, R!Idle
  <2>3. /\ store' \in MailRecords /\ store'.entry = store.entry /\ store'.out_offset = first + 1
        /\ store'.in_offset = store.in_offset
    <3>1. b = first + 1 /\ first \in 0..(Places - 1)
      BY <1>2, <1>3, <2>1, <2>2
    <3>2. b \in Nat /\ b = first + 1
      BY <1>3, <3>1
    <3>3. store' \in MailRecords /\ store'.entry = store.entry
      BY <1>2, <2>2, <3>2 DEF MailRecords
    <3>. QED BY <1>2, <2>2, <3>2, <3>3 DEF MailRecords
  <2>4. storeOp' \in OpRecords /\ storeOp'.kind = "wrap out"
    BY <1>5, <2>2 DEF OpRecords
  <2>5. MailHolds(store', cell', storeOp', stored', first, last)
    BY <1>2, <2>2, <2>3, <2>4 DEF MailHolds
  <2>6. PlacesSound(cell', storeOp', inHand')
    BY <1>3, <2>2, <2>4 DEF PlacesSound
  <2>. QED BY <2>5, <2>6 DEF MailSound
<1>11. ASSUME R!MailReceived
       PROVE  PlacesSound(cell', storeOp', inHand') /\ MailSound(store', cell', storeOp', stored')
  <2>1. PICK b : b = store.out_offset % Places
    OBVIOUS
  <2>2. PICK m : m = store.entry - 1
    OBVIOUS
  <2>3. /\ storeOp.kind = "wrap out" /\ store' = [store EXCEPT !.out_offset = b, !.entry = m]
        /\ storeOp' = R!NoOp /\ stored' = Tail(stored)
        /\ cell' = cell /\ inHand' = inHand
    BY <1>11, <2>1, <2>2 DEF R!MailReceived
  <2>4. b = After(first, Places) /\ b \in 0..(Places - 1) /\ m \in Nat
    <3>1. b = (first + 1) % Places
      BY <1>2, <2>1, <2>3
    <3>2. b = After(first, Places) /\ After(first, Places) \in 0..(Places - 1)
      BY <1>2, <1>3, <3>1, OffsetWraps, NextSlots
    <3>3. store.entry > 0
      BY <1>2, <2>3
    <3>4. m \in Nat
      BY <1>4, <2>2, <3>3
    <3>. QED BY <3>2, <3>4
  <2>5. /\ store' \in MailRecords /\ store'.entry = m /\ store'.out_offset = b
        /\ store'.in_offset = store.in_offset
    <3>1. b \in Nat
      BY <1>3, <2>4
    <3>. QED BY <1>2, <2>3, <2>4, <3>1 DEF MailRecords
  <2>6. MailRing(cell', b, last, stored', m)
    BY <1>2, <2>2, <2>3, <2>4, MailRingReceives
  <2>7. MailHolds(store', cell', storeOp', stored', b, last)
    BY <1>2, <1>5, <2>3, <2>4, <2>5, <2>6 DEF MailHolds
  <2>8. PlacesSound(cell', storeOp', inHand')
    BY <1>3, <1>5, <2>3 DEF PlacesSound
  <2>. QED BY <2>7, <2>8 DEF MailSound
<1>12. ~R!Is("msgqueue") /\ ~R!Is("mempool") /\ storeOp.kind \notin {"count message", "take block", "link block"}
  BY <1>2 DEF R!Is
<1>. QED BY <1>6, <1>7, <1>8, <1>9, <1>10, <1>11, <1>12
         DEF R!Next, R!MessageTakesNode, R!MessageLinks, R!MessageUrgent, R!MessageCounts, R!MessageUnlinks,
             R!MessageFrees, R!PoolCounts, R!PoolTakes, R!PoolReturns, R!PoolLinks

Mails(c, s, v) == v \in Seq(Mail) /\ Len(v) = Len(s) /\ \A i \in 1..Len(s) : c[s[i]].mail = v[i]

\* Who holds a node, and that the nodes held are on no chain (w), each with one
\* party; one that will be linked ends its chain.
Holding(h) == {p \in Party : h[p] # R!Null}
HandsApart(c, h, w) ==
  \A p \in Party : h[p] # R!Null =>
    /\ h[p] \notin w
    /\ c[h[p]].mail # R!Blank => c[h[p]].next = R!Null
    /\ \A q \in Party : h[q] = h[p] => q = p

\* A message queue: the messages, chain a through the nodes w, and the free ones.
MessagesHold(st, c, o, h, v, a, w, n, f, k, m) ==
  /\ st \in MessageRecords /\ n \in Nat /\ m \in Nat
  /\ Chain(c, st.head, a, w, n) /\ Chain(c, st.free, f, k, m) /\ st.tail = LastOf(a)
  /\ w \cap k = {} /\ HandsApart(c, h, w \cup k)
  /\ n + m + Cardinality(Holding(h)) = Places
  /\ o.kind \in {"none", "count message"} /\ v \in Seq(Mail) /\ st.entry = Len(v)
  /\ o.kind = "none" => Mails(c, a, v)
  /\ o.kind = "count message" => o.with \in Mail /\ Mails(c, a, Append(v, o.with))
MessagesSound(st, c, o, h, v) == \E a, w, n, f, k, m : MessagesHold(st, c, o, h, v, a, w, n, f, k, m)

\* One party more holds a node, or one less.
LEMMA HoldingMore ==
  ASSUME IsFiniteSet(Party), NEW h \in [Party -> Maybe], NEW p \in Party, h[p] = R!Null,
         NEW x \in R!Nodes, NEW g, g = [h EXCEPT ![p] = x]
  PROVE  /\ Cardinality(Holding(g)) = Cardinality(Holding(h)) + 1 /\ Cardinality(Holding(h)) \in Nat
<1>1. Holding(g) = Holding(h) \cup {p} /\ p \notin Holding(h)
  BY DEF Holding, R!Nodes, R!Null
<1>2. IsFiniteSet(Holding(h))
  BY FS_Subset DEF Holding
<1>. QED BY <1>1, <1>2, FS_AddElement, FS_CardinalityType

LEMMA HoldingLess ==
  ASSUME IsFiniteSet(Party), NEW h \in [Party -> Maybe], NEW p \in Party, h[p] # R!Null,
         NEW g, g = [h EXCEPT ![p] = R!Null]
  PROVE  /\ Cardinality(Holding(g)) + 1 = Cardinality(Holding(h)) /\ Cardinality(Holding(g)) \in Nat
<1>1. Holding(g) = Holding(h) \ {p} /\ p \in Holding(h)
  BY DEF Holding
<1>2. IsFiniteSet(Holding(h)) /\ IsFiniteSet(Holding(g))
  BY <1>1, FS_Subset DEF Holding
<1>3. Cardinality(Holding(g)) = Cardinality(Holding(h)) - 1
  BY <1>1, <1>2, FS_RemoveElement
<1>4. Cardinality(Holding(g)) \in Nat /\ Cardinality(Holding(h)) \in Nat
  BY <1>2, FS_CardinalityType
<1>. QED BY <1>3, <1>4

\* Mails read along a chain that changes as in ChainPushed, ChainPopped, ChainAppended.
LEMMA MailsFollow ==
  ASSUME NEW c, NEW d, NEW s \in Seq(R!Nodes), NEW v, Mails(c, s, v), NEW w, w = Along(s),
         NEW x \in R!Nodes, NEW y \in Mail
  PROVE  /\ (\A z \in w : d[z].mail = c[z].mail) => Mails(d, s, v)
         /\ (\A z \in w : d[z].mail = c[z].mail) /\ d[x].mail = y => Mails(d, <<x>> \o s, <<y>> \o v)
         /\ (\A z \in w : d[z].mail = c[z].mail) /\ d[x].mail = y => Mails(d, Append(s, x), Append(v, y))
         /\ s # << >> /\ (\A i \in 2..Len(s) : d[s[i]].mail = c[s[i]].mail) => Mails(d, Tail(s), Tail(v))
<1>1. /\ v \in Seq(Mail) /\ Len(v) = Len(s) /\ Len(s) \in Nat /\ \A i \in 1..Len(s) : c[s[i]].mail = v[i]
      /\ \A i \in 1..Len(s) : s[i] \in w
  BY DEF Mails, Along
<1>2. ASSUME \A z \in w : d[z].mail = c[z].mail PROVE Mails(d, s, v)
  BY <1>1, <1>2 DEF Mails
<1>3. ASSUME \A z \in w : d[z].mail = c[z].mail, d[x].mail = y PROVE Mails(d, <<x>> \o s, <<y>> \o v)
  <2>1. PICK t, u : t = <<x>> \o s /\ u = <<y>> \o v
    OBVIOUS
  <2>2. PICK n \in Nat : n = Len(s)
    BY <1>1
  <2>3. u \in Seq(Mail) /\ Len(u) = n + 1 /\ u[1] = y /\ \A i \in 1..n : u[i + 1] = v[i]
    BY <1>1, <2>1, <2>2
  <2>4. t \in Seq(R!Nodes) /\ Len(t) = n + 1 /\ t[1] = x /\ \A i \in 1..n : t[i + 1] = s[i]
    BY <2>1, <2>2
  <2>5. ASSUME NEW i \in 1..(n + 1) PROVE d[t[i]].mail = u[i]
    <3>1. CASE i = 1
      BY <1>3, <2>3, <2>4, <3>1
    <3>2. CASE i # 1
      <4>1. PICK j \in 1..n : i = j + 1
        BY <3>2
      <4>. QED BY <1>1, <1>3, <2>2, <2>3, <2>4, <4>1
    <3>. QED BY <3>1, <3>2
  <2>. QED BY <2>1, <2>3, <2>4, <2>5 DEF Mails
<1>4. ASSUME \A z \in w : d[z].mail = c[z].mail, d[x].mail = y PROVE Mails(d, Append(s, x), Append(v, y))
  <2>1. PICK t, u : t = Append(s, x) /\ u = Append(v, y)
    OBVIOUS
  <2>2. PICK n \in Nat : n = Len(s)
    BY <1>1
  <2>3. u \in Seq(Mail) /\ Len(u) = n + 1 /\ u[n + 1] = y /\ \A i \in 1..n : u[i] = v[i]
    BY <1>1, <2>1, <2>2
  <2>4. t \in Seq(R!Nodes) /\ Len(t) = n + 1 /\ t[n + 1] = x /\ \A i \in 1..n : t[i] = s[i]
    BY <2>1, <2>2
  <2>5. ASSUME NEW i \in 1..(n + 1) PROVE d[t[i]].mail = u[i]
    <3>1. CASE i = n + 1
      BY <1>4, <2>3, <2>4, <3>1
    <3>2. CASE i # n + 1
      <4>1. i \in 1..n
        BY <3>2
      <4>. QED BY <1>1, <1>4, <2>2, <2>3, <2>4, <4>1
    <3>. QED BY <3>1, <3>2
  <2>. QED BY <2>1, <2>3, <2>4, <2>5 DEF Mails
<1>5. ASSUME s # << >>, \A i \in 2..Len(s) : d[s[i]].mail = c[s[i]].mail PROVE Mails(d, Tail(s), Tail(v))
  <2>1. PICK t, u : t = Tail(s) /\ u = Tail(v)
    OBVIOUS
  <2>2. PICK n \in Nat : n = Len(s) - 1
    BY <1>1, <1>5
  <2>3. v # << >> /\ Len(v) = n + 1 /\ Len(s) = n + 1
    BY <1>1, <1>5, <2>2
  <2>4. u \in Seq(Mail) /\ Len(u) = n /\ \A i \in 1..n : u[i] = v[i + 1]
    BY <1>1, <2>1, <2>3
  <2>5. Len(t) = n /\ \A i \in 1..n : t[i] = s[i + 1]
    BY <1>5, <2>1, <2>3
  <2>6. ASSUME NEW i \in 1..n PROVE d[t[i]].mail = u[i]
    <3>1. PICK j : j = i + 1
      OBVIOUS
    <3>2. j \in 1..Len(s) /\ j \in 2..Len(s)
      BY <2>3, <3>1
    <3>. QED BY <1>1, <1>5, <2>4, <2>5, <3>1, <3>2
  <2>. QED BY <2>1, <2>4, <2>5, <2>6 DEF Mails
<1>. QED BY <1>2, <1>3, <1>4, <1>5

\* The last of a chain, as the chain changes.
Lasts(h, s, w, n, x) ==
  /\ n # 0 => LastOf(s) \in w /\ LastOf(s) # R!Null /\ (h = LastOf(s) <=> n = 1)
  /\ n = 0 => LastOf(s) = R!Null
  /\ LastOf(Append(s, x)) = x
  /\ LastOf(<<x>> \o s) = IF n = 0 THEN x ELSE LastOf(s)
  /\ n # 0 => LastOf(Tail(s)) = IF n = 1 THEN R!Null ELSE LastOf(s)

LEMMA LastIs ==
  ASSUME NEW c, NEW h, NEW s, NEW w, NEW n \in Nat, Chain(c, h, s, w, n), NEW x \in R!Nodes
  PROVE  Lasts(h, s, w, n, x)
<1>1. /\ s \in Seq(R!Nodes) /\ (h = IF s = << >> THEN R!Null ELSE s[1]) /\ w = Along(s) /\ n = Len(s)
      /\ \A i, j \in 1..n : s[i] = s[j] => i = j
  BY DEF Chain, ChainOf
<1>2. s = << >> <=> n = 0
  BY <1>1
<1>3. n # 0 => n \in 1..n /\ 1 \in 1..n
  OBVIOUS
<1>4. n # 0 => LastOf(s) = s[n] /\ s[n] \in R!Nodes /\ s[n] \in w
  BY <1>1, <1>2, <1>3 DEF LastOf, Along
<1>5. n # 0 => (h = LastOf(s) <=> n = 1)
  BY <1>1, <1>2, <1>3, <1>4
<1>6. LastOf(Append(s, x)) = x
  <2>1. PICK t : t = Append(s, x)
    OBVIOUS
  <2>2. Len(t) = n + 1 /\ t[n + 1] = x /\ t # << >>
    BY <1>1, <2>1
  <2>. QED BY <2>1, <2>2 DEF LastOf
<1>7. LastOf(<<x>> \o s) = IF n = 0 THEN x ELSE LastOf(s)
  <2>1. PICK t : t = <<x>> \o s
    OBVIOUS
  <2>2. Len(t) = n + 1 /\ t[1] = x /\ t # << >> /\ \A i \in 1..n : t[i + 1] = s[i]
    BY <1>1, <2>1
  <2>3. n # 0 => t[n + 1] = s[n]
    BY <1>3, <2>2
  <2>. QED BY <1>4, <2>1, <2>2, <2>3 DEF LastOf
<1>8. n # 0 => LastOf(Tail(s)) = IF n = 1 THEN R!Null ELSE LastOf(s)
  <2>1. SUFFICES ASSUME n # 0 PROVE LastOf(Tail(s)) = IF n = 1 THEN R!Null ELSE LastOf(s)
    OBVIOUS
  <2>2. PICK t : t = Tail(s)
    OBVIOUS
  <2>3. PICK m \in Nat : m = n - 1
    BY <2>1
  <2>4. s # << >> /\ Len(s) = n
    BY <1>1, <1>2, <2>1
  <2>5. t \in Seq(R!Nodes) /\ Len(t) = m
    BY <1>1, <2>2, <2>3, <2>4
  <2>6. m # 0 => t[m] = s[n]
    BY <1>1, <2>2, <2>3, <2>4
  <2>7. (t = << >> <=> m = 0) /\ (m = 0 <=> n = 1)
    BY <2>3, <2>5
  <2>. QED BY <1>4, <2>1, <2>2, <2>5, <2>6, <2>7 DEF LastOf
<1>9. n # 0 => LastOf(s) # R!Null
  BY <1>4 DEF R!Nodes, R!Null
<1>10. n = 0 => LastOf(s) = R!Null
  BY <1>2 DEF LastOf
<1>. QED BY <1>4, <1>5, <1>6, <1>7, <1>8, <1>9, <1>10 DEF Lasts

\* What a message queue is, in single facts.
MessagesFacts(a, w, n, f, k, m) ==
  /\ store \in MessageRecords /\ store.kind = "msgqueue" /\ n \in Nat /\ m \in Nat
  /\ w \in SUBSET R!Nodes /\ k \in SUBSET R!Nodes /\ w \cap k = {}
  /\ Chain(cell, store.head, a, w, n) /\ Chain(cell, store.free, f, k, m) /\ store.tail = LastOf(a)
  /\ a \in Seq(R!Nodes) /\ w = Along(a) /\ Len(a) = n
  /\ (store.head = R!Null <=> n = 0) /\ (store.head # R!Null => store.head \in w)
  /\ (store.free = R!Null <=> m = 0) /\ (store.free # R!Null => store.free \in k)
  /\ HandsApart(cell, inHand, w \cup k) /\ n + m + Cardinality(Holding(inHand)) = Places
  /\ stored \in Seq(Mail) /\ Len(stored) \in Nat /\ store.entry = Len(stored)
  /\ cell \in Cells /\ storeOp \in OpRecords /\ inHand \in [Party -> Maybe]
  /\ storeOp.kind \in {"none", "count message"}
  /\ storeOp = R!NoOp <=> storeOp.kind = "none"
  /\ storeOp.kind = "none" => Mails(cell, a, stored)
  /\ storeOp.kind = "count message" => storeOp.with \in Mail /\ Mails(cell, a, Append(stored, storeOp.with))

LEMMA MessagesAre ==
  ASSUME PlacesSound(cell, storeOp, inHand), MessagesSound(store, cell, storeOp, inHand, stored)
  PROVE  \E a, w, n, f, k, m : MessagesFacts(a, w, n, f, k, m)
<1>1. PICK a, w, n, f, k, m : MessagesHold(store, cell, storeOp, inHand, stored, a, w, n, f, k, m)
  BY DEF MessagesSound
<1>2. Chain(cell, store.head, a, w, n) /\ Chain(cell, store.free, f, k, m) /\ n \in Nat /\ m \in Nat
  BY <1>1 DEF MessagesHold
<1>3. /\ w \in SUBSET R!Nodes /\ k \in SUBSET R!Nodes
      /\ (store.head = R!Null <=> n = 0) /\ (store.head # R!Null => store.head \in w)
      /\ (store.free = R!Null <=> m = 0) /\ (store.free # R!Null => store.free \in k)
  BY <1>2, ChainHead
<1>4. a \in Seq(R!Nodes) /\ w = Along(a) /\ Len(a) = n
  BY <1>2 DEF Chain, ChainOf
<1>5. store.kind = "msgqueue" /\ Len(stored) \in Nat
  BY <1>1 DEF MessagesHold, MessageRecords
<1>6. R!NoOp.kind = "none"
  BY DEF R!NoOp
<1>7. MessagesFacts(a, w, n, f, k, m)
  BY <1>1, <1>3, <1>4, <1>5, <1>6 DEF MessagesHold, MessagesFacts, PlacesSound
<1>. QED BY <1>7

\* rt_mq_send, rt_mq_urgent: a free node is taken.
LEMMA NodeTaken ==
  ASSUME R!StoreAssumption, PlacesSound(cell, storeOp, inHand), MessagesSound(store, cell, storeOp, inHand, stored),
         NEW p \in Party, NEW v \in Mail, R!MessageTakesNode(p, v)
  PROVE  PlacesSound(cell', storeOp', inHand') /\ MessagesSound(store', cell', storeOp', inHand', stored')
<1>1. PICK a, w, n, f, k, m : MessagesFacts(a, w, n, f, k, m)
  BY MessagesAre
<1> USE DEF MessagesFacts
<1>2. PICK x : x = store.free
  OBVIOUS
<1>3. PICK l : l = cell[x].next
  OBVIOUS
<1>4. /\ storeOp.kind = "none" /\ inHand[p] = R!Null /\ x # R!Null
      /\ store' = [store EXCEPT !.free = l] /\ cell' = [cell EXCEPT ![x] = [mail |-> v, next |-> R!Null]]
      /\ inHand' = [inHand EXCEPT ![p] = x] /\ storeOp' = storeOp /\ stored' = stored
  BY <1>1, <1>2, <1>3 DEF R!MessageTakesNode, R!Idle
<1>5. x \in k /\ x \in R!Nodes /\ x \notin w /\ m # 0 /\ l \in Maybe
  BY <1>1, <1>2, <1>3, <1>4 DEF Cells, Maybe
<1>6. /\ cell' \in Cells /\ cell'[x].mail = v /\ cell'[x].next = R!Null
      /\ \A y \in R!Nodes \ {x} : cell'[y] = cell[y]
  BY <1>1, <1>4, <1>5 DEF Cells
<1>7. NextsKept(cell, cell', w) /\ NextsKept(cell, cell', k \ {x}) /\ \A z \in w : cell'[z].mail = cell[z].mail
  BY <1>1, <1>5, <1>6 DEF NextsKept
<1>8. Chain(cell', store.head, a, w, n)
  BY <1>1, <1>7, ChainKept
<1>9. Chain(cell', l, Tail(f), k \ {x}, m - 1)
  BY <1>1, <1>2, <1>3, <1>4, <1>7, ChainPopped
<1>10. Mails(cell', a, stored)
  BY <1>1, <1>4, <1>5, <1>7, MailsFollow
<1>11. HandsApart(cell', inHand', w \cup (k \ {x}))
  <2>1. ASSUME NEW q \in Party, inHand'[q] # R!Null
        PROVE  /\ inHand'[q] \notin w \cup (k \ {x})
               /\ cell'[inHand'[q]].mail # R!Blank => cell'[inHand'[q]].next = R!Null
               /\ \A r \in Party : inHand'[r] = inHand'[q] => r = q
    <3>1. CASE q = p
      <4>1. inHand'[q] = x
        BY <1>1, <1>4, <3>1
      <4>2. \A r \in Party : r # p => inHand[r] # x
        BY <1>1, <1>4, <1>5 DEF HandsApart
      <4>. QED BY <1>1, <1>4, <1>5, <1>6, <3>1, <4>1, <4>2
    <3>2. CASE q # p
      <4>1. inHand'[q] = inHand[q] /\ inHand[q] \in R!Nodes
        BY <1>1, <1>4, <2>1, <3>2 DEF Maybe
      <4>2. inHand[q] \notin w \cup k /\ inHand[q] # x
        BY <1>1, <1>5, <2>1, <4>1 DEF HandsApart
      <4>3. cell'[inHand[q]] = cell[inHand[q]]
        BY <1>6, <4>1, <4>2
      <4>. QED BY <1>1, <1>4, <2>1, <3>2, <4>1, <4>2, <4>3 DEF HandsApart
    <3>. QED BY <3>1, <3>2
  <2>. QED BY <2>1 DEF HandsApart
<1>12. Cardinality(Holding(inHand')) = Cardinality(Holding(inHand)) + 1 /\ Cardinality(Holding(inHand)) \in Nat
  <2>1. IsFiniteSet(Party)
    BY DEF R!StoreAssumption, R!IsFiniteSet, IsFiniteSet
  <2>. QED BY <1>1, <1>4, <1>5, <2>1, HoldingMore
<1>13. PICK i \in Nat : i = m - 1
  <2>1. m \in Nat /\ m # 0
    BY <1>1, <1>5
  <2>. QED BY <2>1
<1>14. n + i + Cardinality(Holding(inHand')) = Places
  <2>1. PICK j \in Nat : j = Cardinality(Holding(inHand))
    BY <1>12
  <2>2. n + m + j = Places /\ Cardinality(Holding(inHand')) = j + 1 /\ n \in Nat /\ m \in Nat
    BY <1>1, <1>12, <2>1
  <2>. QED BY <1>13, <2>2
<1>15. store' \in MessageRecords /\ store'.head = store.head /\ store'.tail = store.tail /\ store'.free = l /\ store'.entry = store.entry
  BY <1>1, <1>4, <1>5 DEF MessageRecords
<1>16. w \cap (k \ {x}) = {}
  BY <1>1
<1>17. MessagesHold(store', cell', storeOp', inHand', stored', a, w, n, Tail(f), k \ {x}, i)
  BY <1>1, <1>4, <1>8, <1>9, <1>10, <1>11, <1>13, <1>14, <1>15, <1>16 DEF MessagesHold
<1>18. PlacesSound(cell', storeOp', inHand')
  BY <1>1, <1>4, <1>5, <1>6 DEF PlacesSound, Maybe
<1>. QED BY <1>17, <1>18 DEF MessagesSound

\* What giving a node away makes of the hands.
HandGiven(d, g, w, k, x, n, m) ==
  /\ x \in R!Nodes /\ x \notin w /\ x \notin k /\ g \in [Party -> Maybe]
  /\ HandsApart(d, g, w \cup k \cup {x})
  /\ n + m + 1 + Cardinality(Holding(g)) = Places

\* A node in hand that holds a message joins the chain,
LEMMA HandLinked ==
  ASSUME NEW a, NEW w, NEW n, NEW f, NEW k, NEW m, MessagesFacts(a, w, n, f, k, m), IsFiniteSet(Party),
         NEW p \in Party, NEW x, x = inHand[p], x # R!Null, NEW d, NEW g, g = [inHand EXCEPT ![p] = R!Null],
         \A y \in R!Nodes \ (w \cup k \cup {x}) : d[y] = cell[y]
  PROVE  HandGiven(d, g, w, k, x, n, m)
<1>1. /\ n \in Nat /\ m \in Nat /\ w \in SUBSET R!Nodes /\ k \in SUBSET R!Nodes
      /\ HandsApart(cell, inHand, w \cup k) /\ n + m + Cardinality(Holding(inHand)) = Places
      /\ inHand \in [Party -> Maybe]
  BY DEF MessagesFacts
<1>2. x \in R!Nodes /\ x \notin w \cup k /\ g \in [Party -> Maybe]
  BY <1>1 DEF HandsApart, Maybe
<1>3. ASSUME NEW q \in Party, g[q] # R!Null
      PROVE  /\ g[q] \notin w \cup k \cup {x}
             /\ d[g[q]].mail # R!Blank => d[g[q]].next = R!Null
             /\ \A r \in Party : g[r] = g[q] => r = q
  <2>1. q # p /\ g[q] = inHand[q] /\ inHand[q] \in R!Nodes
    BY <1>1, <1>3 DEF Maybe
  <2>2. inHand[q] \notin w \cup k /\ inHand[q] # x
    BY <1>1, <1>3, <2>1 DEF HandsApart
  <2>3. d[inHand[q]] = cell[inHand[q]]
    BY <2>1, <2>2
  <2>4. \A r \in Party : g[r] = g[q] => r = q
    BY <1>1, <1>3, <2>1 DEF HandsApart
  <2>. QED BY <1>1, <1>3, <2>1, <2>2, <2>3, <2>4 DEF HandsApart
<1>4. HandsApart(d, g, w \cup k \cup {x})
  BY <1>3 DEF HandsApart
<1>5. Cardinality(Holding(g)) + 1 = Cardinality(Holding(inHand)) /\ Cardinality(Holding(g)) \in Nat
  <2>1. inHand \in [Party -> Maybe] /\ inHand[p] # R!Null
    BY <1>1
  <2>. QED BY <2>1, HoldingLess
<1>6. n + m + 1 + Cardinality(Holding(g)) = Places
  <2>1. PICK j \in Nat : j = Cardinality(Holding(g))
    BY <1>5
  <2>2. n \in Nat /\ m \in Nat /\ n + m + (j + 1) = Places
    BY <1>1, <1>5, <2>1
  <2>3. n + m + 1 + j = Places
    BY <2>2
  <2>. QED BY <2>1, <2>3
<1>. QED BY <1>2, <1>4, <1>6 DEF HandGiven

\* behind the last one (rt_mq_send),
LEMMA MessageLinked ==
  ASSUME R!StoreAssumption, PlacesSound(cell, storeOp, inHand), MessagesSound(store, cell, storeOp, inHand, stored),
         NEW p \in Party, R!MessageLinks(p)
  PROVE  PlacesSound(cell', storeOp', inHand') /\ MessagesSound(store', cell', storeOp', inHand', stored')
<1>1. PICK a, w, n, f, k, m : MessagesFacts(a, w, n, f, k, m)
  BY MessagesAre
<1> USE DEF MessagesFacts
<1>2. PICK x : x = inHand[p]
  OBVIOUS
<1>3. PICK v : v = cell[x].mail
  OBVIOUS
<1>4. PICK h : h = IF store.head = R!Null THEN x ELSE store.head
  OBVIOUS
<1>5. /\ storeOp.kind = "none" /\ x # R!Null /\ v # R!Blank
      /\ cell' = [y \in R!Nodes |-> IF y = store.tail THEN [cell[y] EXCEPT !.next = x] ELSE cell[y]]
      /\ store' = [store EXCEPT !.tail = x, !.head = h]
      /\ storeOp' = [kind |-> "count message", at |-> x, with |-> v]
      /\ inHand' = [inHand EXCEPT ![p] = R!Null] /\ stored' = stored
  BY <1>1, <1>2, <1>3, <1>4 DEF R!MessageLinks, R!Sending, R!Idle
<1>6. IsFiniteSet(Party)
  BY DEF R!StoreAssumption, R!IsFiniteSet, IsFiniteSet
<1>7. x \in R!Nodes /\ x \notin w \cup k
  BY <1>1, <1>2, <1>5 DEF Maybe, HandsApart
<1>8. v \in Mail /\ cell[x].next = R!Null
  BY <1>1, <1>2, <1>3, <1>5, <1>7 DEF Cells, HandsApart
<1>9. PICK l : l = LastOf(a)
  OBVIOUS
<1>10. l = store.tail /\ (n # 0 => l \in w /\ l # R!Null) /\ (n = 0 => l = R!Null) /\ LastOf(Append(a, x)) = x
  <2>1. Chain(cell, store.head, a, w, n) /\ n \in Nat /\ x \in R!Nodes /\ store.tail = LastOf(a)
    BY <1>1, <1>7
  <2>2. Lasts(store.head, a, w, n, x)
    BY <2>1, LastIs
  <2>. QED BY <1>9, <2>1, <2>2 DEF Lasts
<1>11. /\ cell' \in Cells /\ \A y \in R!Nodes : cell'[y].mail = cell[y].mail
       /\ l # R!Null => cell'[l].next = x
       /\ \A y \in R!Nodes \ {l} : cell'[y] = cell[y]
  BY <1>1, <1>5, <1>7, <1>10 DEF Cells
<1>12. /\ NextsKept(cell, cell', w \ {l}) /\ NextsKept(cell, cell', k) /\ cell'[x].next = R!Null
       /\ \A z \in w : cell'[z].mail = cell[z].mail
  <2>1. x # l /\ l \notin k
    <3>1. n = 0 => l \notin R!Nodes
      BY <1>10 DEF R!Nodes, R!Null
    <3>. QED BY <1>1, <1>7, <1>10, <3>1
  <2>2. w \in SUBSET R!Nodes /\ k \in SUBSET R!Nodes
    BY <1>1
  <2>. QED BY <1>7, <1>8, <1>11, <2>1, <2>2 DEF NextsKept
<1>13. Chain(cell', h, Append(a, x), {x} \cup w, n + 1)
  BY <1>1, <1>4, <1>7, <1>9, <1>11, <1>12, ChainAppended
<1>14. Chain(cell', store.free, f, k, m)
  BY <1>1, <1>12, ChainKept
<1>15. Mails(cell', Append(a, x), Append(stored, v))
  <2>1. cell'[x].mail = v
    BY <1>3, <1>7, <1>11
  <2>2. Mails(cell, a, stored) /\ a \in Seq(R!Nodes) /\ w = Along(a)
    BY <1>1, <1>5
  <2>. QED BY <1>7, <1>8, <1>12, <2>1, <2>2, MailsFollow
<1>16. /\ HandsApart(cell', inHand', w \cup k \cup {x}) /\ inHand' \in [Party -> Maybe]
       /\ n + m + 1 + Cardinality(Holding(inHand')) = Places
  <2>1. \A y \in R!Nodes \ (w \cup k \cup {x}) : cell'[y] = cell[y]
    <3>1. l \in w \/ l \notin R!Nodes
      BY <1>10 DEF R!Nodes, R!Null
    <3>. QED BY <1>11, <3>1
  <2>2. PICK g : g = inHand'
    OBVIOUS
  <2>3. MessagesFacts(a, w, n, f, k, m) /\ x = inHand[p] /\ x # R!Null /\ g = [inHand EXCEPT ![p] = R!Null]
    BY <1>1, <1>2, <1>5, <2>2
  <2>4. HandGiven(cell', g, w, k, x, n, m)
    <3> HIDE DEF MessagesFacts
    <3>. QED BY <1>6, <2>1, <2>3, HandLinked
  <2>. QED BY <2>2, <2>4 DEF HandGiven
<1>17. HandsApart(cell', inHand', ({x} \cup w) \cup k)
  <2>1. w \cup k \cup {x} = ({x} \cup w) \cup k
    OBVIOUS
  <2>. QED BY <1>16, <2>1
<1>18. PICK i \in Nat : i = n + 1
  <2>1. n \in Nat
    BY <1>1
  <2>. QED BY <2>1
<1>19. i + m + Cardinality(Holding(inHand')) = Places
  <2>1. PICK c : c = Cardinality(Holding(inHand'))
    OBVIOUS
  <2>2. c \in Nat
    <3>1. IsFiniteSet(Holding(inHand'))
      BY <1>6, FS_Subset DEF Holding
    <3>. QED BY <2>1, <3>1, FS_CardinalityType
  <2>3. n \in Nat /\ m \in Nat /\ n + m + 1 + c = Places
    BY <1>1, <1>16, <2>1
  <2>. QED BY <1>18, <2>1, <2>2, <2>3
<1>20. /\ store' \in MessageRecords /\ store'.head = h /\ store'.tail = x /\ store'.free = store.free
       /\ store'.entry = store.entry
  <2>1. h \in Maybe /\ x \in Maybe
    BY <1>1, <1>4, <1>7 DEF Maybe, MessageRecords
  <2>. QED BY <1>1, <1>5, <2>1 DEF MessageRecords
<1>21. ({x} \cup w) \cap k = {}
  BY <1>1, <1>7
<1>22. storeOp'.kind = "count message" /\ storeOp'.with = v /\ storeOp' \in OpRecords
  BY <1>5, <1>7, <1>8 DEF OpRecords, Maybe
<1>23. MessagesHold(store', cell', storeOp', inHand', stored', Append(a, x), {x} \cup w, i, f, k, m)
  BY <1>1, <1>5, <1>8, <1>10, <1>13, <1>14, <1>15, <1>17, <1>18, <1>19, <1>20, <1>21, <1>22 DEF MessagesHold
<1>24. PlacesSound(cell', storeOp', inHand')
  BY <1>11, <1>16, <1>22 DEF PlacesSound
<1>. QED BY <1>23, <1>24 DEF MessagesSound

\* or in front of the first (rt_mq_urgent).
LEMMA MessagePushed ==
  ASSUME R!StoreAssumption, PlacesSound(cell, storeOp, inHand), MessagesSound(store, cell, storeOp, inHand, stored),
         NEW p \in Party, R!MessageUrgent(p)
  PROVE  PlacesSound(cell', storeOp', inHand') /\ MessagesSound(store', cell', storeOp', inHand', stored')
<1>1. PICK a, w, n, f, k, m : MessagesFacts(a, w, n, f, k, m)
  BY MessagesAre
<1> USE DEF MessagesFacts
<1>2. PICK x : x = inHand[p]
  OBVIOUS
<1>3. PICK v : v = cell[x].mail
  OBVIOUS
<1>4. PICK l : l = IF store.tail = R!Null THEN x ELSE store.tail
  OBVIOUS
<1>5. PICK e : e = store.entry + 1
  OBVIOUS
<1>6. PICK h : h = store.head
  OBVIOUS
<1>7. /\ storeOp.kind = "none" /\ x # R!Null /\ v # R!Blank
      /\ cell' = [cell EXCEPT ![x].next = h]
      /\ store' = [store EXCEPT !.head = x, !.tail = l, !.entry = e]
      /\ storeOp' = storeOp
      /\ inHand' = [inHand EXCEPT ![p] = R!Null] /\ stored' = <<v>> \o stored
  BY <1>1, <1>2, <1>3, <1>4, <1>5, <1>6 DEF R!MessageUrgent, R!Sending, R!Idle
<1>8. IsFiniteSet(Party)
  BY DEF R!StoreAssumption, R!IsFiniteSet, IsFiniteSet
<1>9. x \in R!Nodes /\ x \notin w \cup k /\ h \in Maybe
  BY <1>1, <1>2, <1>7, <1>6 DEF Maybe, HandsApart, MessageRecords
<1>10. v \in Mail
  BY <1>1, <1>3, <1>7, <1>9 DEF Cells
<1>11. /\ store.tail = LastOf(a) /\ (n # 0 => LastOf(a) # R!Null) /\ (n = 0 => LastOf(a) = R!Null)
      /\ LastOf(<<x>> \o a) = IF n = 0 THEN x ELSE LastOf(a)
  <2>1. Chain(cell, store.head, a, w, n) /\ n \in Nat /\ x \in R!Nodes /\ store.tail = LastOf(a)
    BY <1>1, <1>9
  <2>2. Lasts(store.head, a, w, n, x)
    BY <2>1, LastIs
  <2>. QED BY <2>1, <2>2 DEF Lasts
<1>12. LastOf(<<x>> \o a) = l
  BY <1>4, <1>11
<1>13. Relinked(cell, cell', x, h)
  BY <1>1, <1>7, <1>9, PlaceWritten DEF Maybe
<1>14. /\ NextsKept(cell, cell', w) /\ NextsKept(cell, cell', k) /\ cell'[x].next = h
       /\ \A z \in w : cell'[z].mail = cell[z].mail
       /\ cell'[x].mail = v
  BY <1>1, <1>3, <1>9, <1>13 DEF NextsKept, Relinked
<1>15. Chain(cell', x, <<x>> \o a, {x} \cup w, n + 1)
  BY <1>1, <1>6, <1>9, <1>14, ChainPushed
<1>16. Chain(cell', store.free, f, k, m)
  BY <1>1, <1>14, ChainKept
<1>17. Mails(cell', <<x>> \o a, <<v>> \o stored)
  <2>1. Mails(cell, a, stored) /\ a \in Seq(R!Nodes) /\ w = Along(a)
    BY <1>1, <1>7
  <2>. QED BY <1>9, <1>10, <1>14, <2>1, MailsFollow
<1>18. /\ HandsApart(cell', inHand', w \cup k \cup {x}) /\ inHand' \in [Party -> Maybe]
       /\ n + m + 1 + Cardinality(Holding(inHand')) = Places
  <2>1. \A y \in R!Nodes \ (w \cup k \cup {x}) : cell'[y] = cell[y]
    BY <1>1, <1>7 DEF Cells
  <2>2. PICK g : g = inHand'
    OBVIOUS
  <2>3. MessagesFacts(a, w, n, f, k, m) /\ x = inHand[p] /\ x # R!Null /\ g = [inHand EXCEPT ![p] = R!Null]
    BY <1>1, <1>2, <1>7, <2>2
  <2>4. HandGiven(cell', g, w, k, x, n, m)
    <3> HIDE DEF MessagesFacts
    <3>. QED BY <1>8, <2>1, <2>3, HandLinked
  <2>. QED BY <2>2, <2>4 DEF HandGiven
<1>19. HandsApart(cell', inHand', ({x} \cup w) \cup k)
  <2>1. w \cup k \cup {x} = ({x} \cup w) \cup k
    OBVIOUS
  <2>. QED BY <1>18, <2>1
<1>20. PICK i \in Nat : i = n + 1
  <2>1. n \in Nat
    BY <1>1
  <2>. QED BY <2>1
<1>21. i + m + Cardinality(Holding(inHand')) = Places
  <2>1. PICK c : c = Cardinality(Holding(inHand'))
    OBVIOUS
  <2>2. c \in Nat
    <3>1. IsFiniteSet(Holding(inHand'))
      BY <1>8, FS_Subset DEF Holding
    <3>. QED BY <2>1, <3>1, FS_CardinalityType
  <2>3. n \in Nat /\ m \in Nat /\ n + m + 1 + c = Places
    BY <1>1, <1>18, <2>1
  <2>. QED BY <1>20, <2>1, <2>2, <2>3
<1>22. e \in Nat /\ e = Len(stored) + 1
  <2>1. store.entry = Len(stored) /\ Len(stored) \in Nat
    BY <1>1
  <2>. QED BY <1>5, <2>1
<1>23. /\ store' \in MessageRecords /\ store'.head = x /\ store'.tail = l /\ store'.free = store.free
       /\ store'.entry = e
  <2>1. l \in Maybe /\ x \in Maybe
    BY <1>1, <1>4, <1>9 DEF Maybe, MessageRecords
  <2>. QED BY <1>1, <1>7, <1>22, <2>1 DEF MessageRecords
<1>24. ({x} \cup w) \cap k = {}
  BY <1>1, <1>9
<1>25. stored' \in Seq(Mail) /\ Len(stored') = e
  BY <1>1, <1>7, <1>10, <1>22
<1>26. MessagesHold(store', cell', storeOp', inHand', stored', <<x>> \o a, {x} \cup w, i, f, k, m)
  BY <1>1, <1>7, <1>12, <1>15, <1>16, <1>17, <1>19, <1>20, <1>21, <1>23, <1>24, <1>25 DEF MessagesHold
<1>27. PlacesSound(cell', storeOp', inHand')
  BY <1>1, <1>7, <1>13, <1>18 DEF PlacesSound, Relinked
<1>. QED BY <1>26, <1>27 DEF MessagesSound

\* It counts only now,
LEMMA MessageCounted ==
  ASSUME R!StoreAssumption, PlacesSound(cell, storeOp, inHand), MessagesSound(store, cell, storeOp, inHand, stored),
         R!MessageCounts
  PROVE  PlacesSound(cell', storeOp', inHand') /\ MessagesSound(store', cell', storeOp', inHand', stored')
<1>1. PICK a, w, n, f, k, m : MessagesFacts(a, w, n, f, k, m)
  BY MessagesAre
<1> USE DEF MessagesFacts
<1>2. PICK e : e = store.entry + 1
  OBVIOUS
<1>3. /\ storeOp.kind = "count message" /\ store' = [store EXCEPT !.entry = e] /\ storeOp' = R!NoOp
      /\ stored' = Append(stored, storeOp.with) /\ cell' = cell /\ inHand' = inHand
  BY <1>2 DEF R!MessageCounts
<1>4. storeOp.with \in Mail /\ Mails(cell, a, stored')
  BY <1>1, <1>3
<1>5. e \in Nat /\ e = Len(stored) + 1
  <2>1. store.entry = Len(stored) /\ Len(stored) \in Nat
    BY <1>1
  <2>. QED BY <1>2, <2>1
<1>6. stored' \in Seq(Mail) /\ Len(stored') = e
  <2>1. stored \in Seq(Mail)
    BY <1>1
  <2>2. PICK v : v = storeOp.with
    OBVIOUS
  <2>3. v \in Mail /\ stored' = Append(stored, v)
    BY <1>3, <1>4, <2>2
  <2>4. stored' \in Seq(Mail) /\ Len(stored') = Len(stored) + 1
    BY <2>1, <2>3
  <2>. QED BY <1>5, <2>4
<1>7. /\ store' \in MessageRecords /\ store'.head = store.head /\ store'.tail = store.tail /\ store'.free = store.free
      /\ store'.entry = e
  BY <1>1, <1>3, <1>5 DEF MessageRecords
<1>8. R!NoOp.kind = "none" /\ R!NoOp \in OpRecords
  BY DEF R!NoOp, OpRecords, Maybe, R!Null
<1>9. MessagesHold(store', cell', storeOp', inHand', stored', a, w, n, f, k, m)
  BY <1>1, <1>3, <1>4, <1>6, <1>7, <1>8 DEF MessagesHold
<1>10. PlacesSound(cell', storeOp', inHand')
  BY <1>1, <1>3, <1>8 DEF PlacesSound
<1>. QED BY <1>9, <1>10 DEF MessagesSound

\* and the first is taken (rt_mq_recv).
LEMMA MessageTaken ==
  ASSUME R!StoreAssumption, PlacesSound(cell, storeOp, inHand), MessagesSound(store, cell, storeOp, inHand, stored),
         NEW p \in Party, R!MessageUnlinks(p)
  PROVE  PlacesSound(cell', storeOp', inHand') /\ MessagesSound(store', cell', storeOp', inHand', stored')
<1>1. PICK a, w, n, f, k, m : MessagesFacts(a, w, n, f, k, m)
  BY MessagesAre
<1> USE DEF MessagesFacts
<1>2. PICK x : x = store.head
  OBVIOUS
<1>3. PICK h : h = cell[x].next
  OBVIOUS
<1>4. PICK e : e = store.entry - 1
  OBVIOUS
<1>5. PICK l : l = IF store.head = store.tail THEN R!Null ELSE store.tail
  OBVIOUS
<1>6. /\ storeOp.kind = "none" /\ inHand[p] = R!Null /\ store.entry > 0
      /\ store' = [store EXCEPT !.head = h, !.tail = l, !.entry = e]
      /\ cell' = [cell EXCEPT ![x].mail = R!Blank]
      /\ inHand' = [inHand EXCEPT ![p] = x] /\ storeOp' = storeOp /\ stored' = Tail(stored)
  BY <1>1, <1>2, <1>3, <1>4, <1>5 DEF R!MessageUnlinks, R!Idle
<1>7. n = Len(stored) /\ n # 0 /\ stored \in Seq(Mail) /\ n \in Nat
  <2>1. Mails(cell, a, stored) /\ Len(a) = n /\ store.entry = Len(stored) /\ n \in Nat /\ store.entry > 0
    BY <1>1, <1>6
  <2>. QED BY <2>1 DEF Mails
<1>8. x \in w /\ x \in R!Nodes /\ x \notin k /\ x # R!Null /\ h \in Maybe
  BY <1>1, <1>2, <1>3, <1>7 DEF Cells, Maybe
<1>9. Remailed(cell, cell', x, R!Blank)
  <2>1. cell \in Cells
    BY <1>1
  <2>. QED BY <1>6, <1>8, <2>1, PlaceWritten
<1>10. /\ cell' \in Cells /\ NextsKept(cell, cell', w \ {x}) /\ NextsKept(cell, cell', k)
       /\ cell'[x].mail = R!Blank /\ \A y \in R!Nodes \ {x} : cell'[y].mail = cell[y].mail /\ cell'[y].next = cell[y].next
  BY <1>1, <1>8, <1>9 DEF NextsKept, Remailed
<1>11. Chain(cell', h, Tail(a), w \ {x}, n - 1)
  <2>1. Chain(cell, x, a, w, n) /\ x # R!Null /\ NextsKept(cell, cell', w \ {x})
    BY <1>1, <1>2, <1>8, <1>10
  <2>. QED BY <1>3, <1>7, <2>1, ChainPopped
<1>12. Chain(cell', store.free, f, k, m)
  BY <1>1, <1>10, ChainKept
<1>13. l = LastOf(Tail(a))
  <2>1. Chain(cell, x, a, w, n) /\ store.tail = LastOf(a) /\ store.head = x
    BY <1>1, <1>2
  <2>2. Lasts(x, a, w, n, x)
    BY <1>7, <1>8, <2>1, LastIs
  <2>. QED BY <1>5, <1>7, <2>1, <2>2 DEF Lasts
<1>14. Mails(cell', Tail(a), Tail(stored))
  <2>1. Mails(cell, a, stored) /\ a \in Seq(R!Nodes) /\ w = Along(a) /\ Len(a) = n
    BY <1>1, <1>6
  <2>2. x = a[1] /\ \A i, j \in 1..n : a[i] = a[j] => i = j
    BY <1>1, <1>2, <1>7 DEF Chain, ChainOf
  <2>3. ASSUME NEW i \in 2..Len(a) PROVE cell'[a[i]].mail = cell[a[i]].mail
    <3>1. i \in 1..n /\ i # 1 /\ 1 \in 1..n
      BY <1>7, <2>1, <2>3
    <3>2. a[i] # x /\ a[i] \in R!Nodes
      BY <2>1, <2>2, <3>1
    <3>. QED BY <1>10, <3>2
  <2>4. a # << >>
    BY <1>7, <2>1
  <2>5. stored[1] \in Mail
    BY <1>7
  <2>. QED BY <1>8, <2>1, <2>3, <2>4, <2>5, MailsFollow
<1>15. HandsApart(cell', inHand', (w \ {x}) \cup k)
  <2>1. ASSUME NEW q \in Party, inHand'[q] # R!Null
        PROVE  /\ inHand'[q] \notin (w \ {x}) \cup k
               /\ cell'[inHand'[q]].mail # R!Blank => cell'[inHand'[q]].next = R!Null
               /\ \A r \in Party : inHand'[r] = inHand'[q] => r = q
    <3>1. CASE q = p
      <4>1. inHand'[q] = x
        BY <1>1, <1>6, <3>1
      <4>2. \A r \in Party : r # p => inHand[r] # x
        BY <1>1, <1>8 DEF HandsApart
      <4>. QED BY <1>1, <1>6, <1>8, <1>10, <3>1, <4>1, <4>2
    <3>2. CASE q # p
      <4>1. inHand'[q] = inHand[q] /\ inHand[q] \in R!Nodes
        BY <1>1, <1>6, <2>1, <3>2 DEF Maybe
      <4>2. inHand[q] \notin w \cup k /\ inHand[q] # x
        BY <1>1, <1>8, <2>1, <4>1 DEF HandsApart
      <4>3. cell'[inHand[q]].mail = cell[inHand[q]].mail /\ cell'[inHand[q]].next = cell[inHand[q]].next
        BY <1>10, <4>1, <4>2
      <4>. QED BY <1>1, <1>6, <2>1, <3>2, <4>1, <4>2, <4>3 DEF HandsApart
    <3>. QED BY <3>1, <3>2
  <2>. QED BY <2>1 DEF HandsApart
<1>16. PICK i \in Nat : i = n - 1
  BY <1>7
<1>17. i + m + Cardinality(Holding(inHand')) = Places
  <2>1. IsFiniteSet(Party) /\ inHand \in [Party -> Maybe] /\ inHand[p] = R!Null
    BY <1>1, <1>6 DEF R!StoreAssumption, R!IsFiniteSet, IsFiniteSet
  <2>2. Cardinality(Holding(inHand')) = Cardinality(Holding(inHand)) + 1 /\ Cardinality(Holding(inHand)) \in Nat
    BY <1>6, <1>8, <2>1, HoldingMore
  <2>3. PICK j \in Nat : j = Cardinality(Holding(inHand))
    BY <2>2
  <2>4. n + m + j = Places /\ n \in Nat /\ m \in Nat
    BY <1>1, <2>3
  <2>5. i + m + (j + 1) = Places
    BY <1>16, <2>4
  <2>. QED BY <2>2, <2>3, <2>5
<1>18. e \in Nat /\ e = n - 1
  <2>1. store.entry = n
    BY <1>1, <1>7
  <2>. QED BY <1>4, <1>7, <2>1
<1>19. /\ store' \in MessageRecords /\ store'.head = h /\ store'.tail = l /\ store'.free = store.free
       /\ store'.entry = e
  <2>1. l \in Maybe
    BY <1>1, <1>5 DEF Maybe, MessageRecords
  <2>. QED BY <1>1, <1>6, <1>8, <1>18, <2>1 DEF MessageRecords
<1>20. (w \ {x}) \cap k = {}
  BY <1>1
<1>21. stored' \in Seq(Mail) /\ Len(stored') = e
  <2>1. stored # << >>
    BY <1>7
  <2>. QED BY <1>6, <1>7, <1>18, <2>1
<1>22. MessagesHold(store', cell', storeOp', inHand', stored', Tail(a), w \ {x}, i, f, k, m)
  BY <1>1, <1>6, <1>11, <1>12, <1>13, <1>14, <1>15, <1>16, <1>17, <1>19, <1>20, <1>21 DEF MessagesHold
<1>23. PlacesSound(cell', storeOp', inHand')
  BY <1>1, <1>6, <1>8, <1>10 DEF PlacesSound, Maybe
<1>. QED BY <1>22, <1>23 DEF MessagesSound

\* A node whose message was copied is free again.
LEMMA MessageFreed ==
  ASSUME R!StoreAssumption, PlacesSound(cell, storeOp, inHand), MessagesSound(store, cell, storeOp, inHand, stored),
         NEW p \in Party, R!MessageFrees(p)
  PROVE  PlacesSound(cell', storeOp', inHand') /\ MessagesSound(store', cell', storeOp', inHand', stored')
<1>1. PICK a, w, n, f, k, m : MessagesFacts(a, w, n, f, k, m)
  BY MessagesAre
<1> USE DEF MessagesFacts
<1>2. PICK x : x = inHand[p]
  OBVIOUS
<1>3. PICK l : l = store.free
  OBVIOUS
<1>4. /\ storeOp.kind = "none" /\ x # R!Null /\ cell' = [cell EXCEPT ![x].next = l]
      /\ store' = [store EXCEPT !.free = x] /\ storeOp' = storeOp
      /\ inHand' = [inHand EXCEPT ![p] = R!Null] /\ stored' = stored
  BY <1>1, <1>2, <1>3 DEF R!MessageFrees, R!Idle
<1>5. IsFiniteSet(Party)
  BY DEF R!StoreAssumption, R!IsFiniteSet, IsFiniteSet
<1>6. x \in R!Nodes /\ x \notin w \cup k /\ l \in Maybe
  BY <1>1, <1>2, <1>3, <1>4 DEF Maybe, HandsApart, MessageRecords
<1>7. Relinked(cell, cell', x, l)
  <2>1. cell \in Cells
    BY <1>1
  <2>. QED BY <1>4, <1>6, <2>1, PlaceWritten DEF Maybe
<1>8. /\ NextsKept(cell, cell', w) /\ NextsKept(cell, cell', k) /\ cell'[x].next = l /\ cell' \in Cells
      /\ \A z \in w : cell'[z].mail = cell[z].mail
  BY <1>1, <1>6, <1>7 DEF NextsKept, Relinked
<1>9. Chain(cell', store.head, a, w, n)
  BY <1>1, <1>8, ChainKept
<1>10. Chain(cell', x, <<x>> \o f, {x} \cup k, m + 1)
  <2>1. Chain(cell, l, f, k, m) /\ m \in Nat
    BY <1>1, <1>3
  <2>. QED BY <1>6, <1>8, <2>1, ChainPushed
<1>11. Mails(cell', a, stored)
  <2>1. Mails(cell, a, stored) /\ a \in Seq(R!Nodes) /\ w = Along(a) /\ Len(a) = n
    BY <1>1, <1>4
  <2>. QED BY <1>8, <2>1 DEF Mails, Along
<1>12. HandGiven(cell', inHand', w, k, x, n, m)
  <2>1. \A y \in R!Nodes \ (w \cup k \cup {x}) : cell'[y] = cell[y]
    BY <1>1, <1>4 DEF Cells
  <2>2. PICK g : g = inHand'
    OBVIOUS
  <2>3. MessagesFacts(a, w, n, f, k, m) /\ x = inHand[p] /\ x # R!Null /\ g = [inHand EXCEPT ![p] = R!Null]
    BY <1>1, <1>2, <1>4, <2>2
  <2>4. HandGiven(cell', g, w, k, x, n, m)
    <3> HIDE DEF MessagesFacts
    <3>. QED BY <1>5, <2>1, <2>3, HandLinked
  <2>. QED BY <2>2, <2>4
<1>13. HandsApart(cell', inHand', w \cup ({x} \cup k)) /\ inHand' \in [Party -> Maybe]
  <2>1. w \cup k \cup {x} = w \cup ({x} \cup k)
    OBVIOUS
  <2>. QED BY <1>12, <2>1 DEF HandGiven
<1>14. PICK i \in Nat : i = m + 1
  <2>1. m \in Nat
    BY <1>1
  <2>. QED BY <2>1
<1>15. n + i + Cardinality(Holding(inHand')) = Places
  <2>1. PICK c : c = Cardinality(Holding(inHand'))
    OBVIOUS
  <2>2. c \in Nat
    <3>1. IsFiniteSet(Holding(inHand'))
      BY <1>5, FS_Subset DEF Holding
    <3>. QED BY <2>1, <3>1, FS_CardinalityType
  <2>3. n \in Nat /\ m \in Nat /\ n + m + 1 + c = Places
    BY <1>1, <1>12, <2>1 DEF HandGiven
  <2>. QED BY <1>14, <2>1, <2>2, <2>3
<1>16. /\ store' \in MessageRecords /\ store'.head = store.head /\ store'.tail = store.tail /\ store'.free = x
       /\ store'.entry = store.entry
  BY <1>1, <1>4, <1>6 DEF MessageRecords, Maybe
<1>17. w \cap ({x} \cup k) = {}
  BY <1>1, <1>6
<1>18. MessagesHold(store', cell', storeOp', inHand', stored', a, w, n, <<x>> \o f, {x} \cup k, i)
  BY <1>1, <1>4, <1>9, <1>10, <1>11, <1>13, <1>14, <1>15, <1>16, <1>17 DEF MessagesHold
<1>19. PlacesSound(cell', storeOp', inHand')
  BY <1>1, <1>4, <1>8, <1>13 DEF PlacesSound
<1>. QED BY <1>18, <1>19 DEF MessagesSound

\* A memory pool: the free blocks, chain f through the nodes k, the blocks taken,
\* v, and the one in hand.
PoolHolds(st, c, o, v, f, k, m) ==
  /\ st \in PoolRecords /\ m \in Nat /\ Chain(c, st.free, f, k, m)
  /\ v \in Seq(R!Nodes) /\ (\A i, j \in 1..Len(v) : v[i] = v[j] => i = j) /\ k \cap Along(v) = {}
  /\ o.kind \in {"none", "take block", "link block"}
  /\ o.kind = "link block" =>
       /\ o.at \in R!Nodes /\ o.at \notin k /\ o.at \notin Along(v) /\ R!Nodes = k \cup Along(v) \cup {o.at}
       /\ m + Len(v) + 1 = Places /\ st.entry = m + 1
  /\ o.kind # "link block" => R!Nodes = k \cup Along(v) /\ m + Len(v) = Places
  /\ o.kind = "none" => st.entry = m
  /\ o.kind = "take block" => st.entry + 1 = m
PoolSound(st, c, o, v) == \E f, k, m : PoolHolds(st, c, o, v, f, k, m)

\* A block more is taken, the one in place i is not.
EachOnce(v) == \A i, j \in 1..Len(v) : v[i] = v[j] => i = j
LEMMA TakenMore ==
  ASSUME NEW v \in Seq(R!Nodes), EachOnce(v), NEW x \in R!Nodes, x \notin Along(v), NEW t, t = Append(v, x)
  PROVE  t \in Seq(R!Nodes) /\ EachOnce(t) /\ Len(t) = Len(v) + 1 /\ Along(t) = Along(v) \cup {x}
<1>1. PICK n \in Nat : n = Len(v)
  OBVIOUS
<1>2. t \in Seq(R!Nodes) /\ Len(t) = n + 1 /\ t[n + 1] = x /\ \A i \in 1..n : t[i] = v[i] /\ v[i] # x
  BY <1>1 DEF Along
<1>3. \A i \in 1..(n + 1) : i = n + 1 \/ i \in 1..n
  BY <1>1
<1>4. (\A i \in 1..n : i \in 1..(n + 1)) /\ n + 1 \in 1..(n + 1)
  BY <1>1
<1>5. EachOnce(t)
  BY <1>1, <1>2, <1>3 DEF EachOnce
<1>6. Along(t) = Along(v) \cup {x}
  <2>1. \A i \in 1..(n + 1) : t[i] \in Along(v) \cup {x}
    BY <1>1, <1>2, <1>3 DEF Along
  <2>2. \A y \in Along(v) \cup {x} : \E i \in 1..(n + 1) : t[i] = y
    BY <1>1, <1>2, <1>4 DEF Along
  <2>. QED BY <1>2, <2>1, <2>2 DEF Along
<1>. QED BY <1>1, <1>2, <1>5, <1>6

Parts(t, s, u, b, l) ==
  /\ t = s \o u /\ s \in Seq(R!Nodes) /\ u \in Seq(R!Nodes)
  /\ b \in Nat /\ l \in Nat /\ Len(s) = b /\ Len(u) = l
Joint(t, s, u, b, l) ==
  /\ t \in Seq(R!Nodes) /\ Len(t) = b + l
  /\ \A j \in 1..b : t[j] = s[j]
  /\ \A j \in 1..l : t[b + j] = u[j]
LEMMA PartsJoined ==
  ASSUME NEW t, NEW s, NEW u, NEW b, NEW l, Parts(t, s, u, b, l) PROVE Joint(t, s, u, b, l)
<1>1. s \in Seq(R!Nodes) /\ u \in Seq(R!Nodes) /\ b \in Nat /\ l \in Nat /\ Len(s) = b /\ Len(u) = l
  BY DEF Parts
<1>2. /\ t \in Seq(R!Nodes) /\ Len(t) = Len(s) + Len(u)
      /\ \A j \in 1..(Len(s) + Len(u)) : t[j] = IF j <= Len(s) THEN s[j] ELSE u[j - Len(s)]
  BY <1>1, ConcatProperties DEF Parts
<1>3. \A j \in 1..b : t[j] = s[j]
  BY <1>1, <1>2
<1>4. ASSUME NEW j \in 1..l PROVE t[b + j] = u[j]
  <2>1. b + j \in 1..(b + l) /\ ~(b + j <= b) /\ (b + j) - b = j
    BY <1>1
  <2>. QED BY <1>1, <1>2, <2>1
<1>. QED BY <1>1, <1>2, <1>3, <1>4 DEF Joint

CutOut(v, i, t) == t = SubSeq(v, 1, i - 1) \o SubSeq(v, i + 1, Len(v))
LEMMA TakenLess ==
  ASSUME NEW v \in Seq(R!Nodes), EachOnce(v), NEW i \in 1..Len(v),
         NEW t, CutOut(v, i, t)
  PROVE  t \in Seq(R!Nodes) /\ EachOnce(t) /\ Len(t) + 1 = Len(v) /\ Along(t) = Along(v) \ {v[i]}
<1>1. PICK n \in Nat : n = Len(v)
  OBVIOUS
<1>2. i \in 1..n
  BY <1>1
<1>3. PICK b \in Nat : b = i - 1
  BY <1>2
<1>4. PICK l \in Nat : l = n - i
  BY <1>2
<1>5. PICK s, u : s = SubSeq(v, 1, i - 1) /\ u = SubSeq(v, i + 1, Len(v))
  OBVIOUS
<1>6. s \in Seq(R!Nodes) /\ Len(s) = b /\ \A j \in 1..b : s[j] = v[j]
  <2>1. b <= n /\ i - 1 = b
    BY <1>2, <1>3
  <2>. QED BY <1>1, <1>5, <2>1
<1>7. u \in Seq(R!Nodes) /\ Len(u) = l /\ \A j \in 1..l : u[j] = v[i + j]
  <2>1. i + 1 \in 1..(n + 1) /\ n - (i + 1) + 1 = l
    BY <1>2, <1>4
  <2>2. \A j \in 1..l : (i + 1) + j - 1 = i + j
    BY <1>2, <1>4
  <2>. QED BY <1>2, <1>1, <1>4, <1>5, <2>1, <2>2
<1>8. PICK m \in Nat : m = b + l
  OBVIOUS
<1>9. /\ t \in Seq(R!Nodes) /\ Len(t) = m
      /\ \A j \in 1..b : t[j] = s[j]
      /\ \A j \in 1..l : t[b + j] = u[j]
  <2>1. t = s \o u
    BY <1>5 DEF CutOut
  <2>2. Joint(t, s, u, b, l)
    <3>1. Parts(t, s, u, b, l)
      BY <1>6, <1>7, <2>1 DEF Parts
    <3>. QED BY <3>1, PartsJoined
  <2>. QED BY <1>8, <2>2 DEF Joint
<1>10. i = b + 1 /\ n = b + l + 1 /\ m = b + l
  BY <1>2, <1>3, <1>4, <1>8
\* the place in v of place j of t
<1>11. ASSUME NEW j \in 1..m
      PROVE  \E q \in 1..n : q # i /\ t[j] = v[q] /\ q = IF j < i THEN j ELSE j + 1
  <2>1. CASE j < i
    <3>1. j \in 1..b /\ j \in 1..n /\ j # i
      BY <1>10, <2>1
    <3>. QED BY <1>6, <1>9, <2>1, <3>1
  <2>2. CASE ~(j < i)
    <3>1. PICK q \in 1..l : j = b + q
      <4>1. PICK q : q = j - b
        OBVIOUS
      <4>2. q \in 1..l /\ j = b + q
        BY <1>10, <2>2, <4>1
      <4>. QED BY <4>2
    <3>2. PICK r : r = j + 1
      OBVIOUS
    <3>3. i + q = r /\ r \in 1..n /\ r # i
      BY <1>10, <2>2, <3>1, <3>2
    <3>4. t[j] = v[r]
      BY <1>7, <1>9, <3>1, <3>3
    <3>. QED BY <2>2, <3>2, <3>3, <3>4
  <2>. QED BY <2>1, <2>2
<1>12. \A j, q \in 1..n : v[j] = v[q] => j = q
  BY <1>1 DEF EachOnce
<1>13. m + 1 = n
  BY <1>10
<1>14. EachOnce(t)
  <2>1. ASSUME NEW j \in 1..m, NEW q \in 1..m, t[j] = t[q] PROVE j = q
    <3>1. PICK x \in 1..n : t[j] = v[x] /\ x = IF j < i THEN j ELSE j + 1
      BY <1>11
    <3>2. PICK y \in 1..n : t[q] = v[y] /\ y = IF q < i THEN q ELSE q + 1
      BY <1>11
    <3>3. x = y
      BY <1>12, <2>1, <3>1, <3>2
    <3>. QED BY <1>2, <3>1, <3>2, <3>3
  <2>. QED BY <1>9, <2>1 DEF EachOnce
<1>15. Along(t) = Along(v) \ {v[i]}
  <2>1. ASSUME NEW j \in 1..m PROVE t[j] \in Along(v) \ {v[i]}
    <3>1. PICK q \in 1..n : q # i /\ t[j] = v[q]
      BY <1>11
    <3>2. v[q] # v[i]
      BY <1>2, <1>12, <3>1
    <3>. QED BY <1>1, <3>1, <3>2 DEF Along
  <2>2. ASSUME NEW y \in Along(v) \ {v[i]} PROVE \E j \in 1..m : t[j] = y
    <3>1. PICK q \in 1..n : v[q] = y
      BY <1>1 DEF Along
    <3>2. PICK j : j = IF q < i THEN q ELSE q - 1
      OBVIOUS
    <3>3. q # i
      BY <2>2, <3>1
    <3>4. j \in 1..m /\ (IF j < i THEN j ELSE j + 1) = q
      BY <1>2, <1>13, <3>2, <3>3
    <3>5. PICK x \in 1..n : t[j] = v[x] /\ x = IF j < i THEN j ELSE j + 1
      BY <1>11, <3>4
    <3>. QED BY <3>1, <3>4, <3>5
  <2>3. Along(t) = {t[j] : j \in 1..m}
    BY <1>9 DEF Along
  <2>. QED BY <2>1, <2>2, <2>3
<1>. QED BY <1>1, <1>9, <1>13, <1>14, <1>15

\* Each store of rt_mp_alloc and rt_mp_free keeps a pool.
LEMMA PoolSteps ==
  ASSUME R!StoreAssumption, PlacesSound(cell, storeOp, inHand), PoolSound(store, cell, storeOp, stored), R!Next
  PROVE  PlacesSound(cell', storeOp', inHand') /\ PoolSound(store', cell', storeOp', stored')
<1>1. PICK f, k, m : PoolHolds(store, cell, storeOp, stored, f, k, m)
  BY DEF PoolSound
<1>2. /\ store \in PoolRecords /\ m \in Nat /\ Chain(cell, store.free, f, k, m) /\ store.kind = "mempool"
      /\ stored \in Seq(R!Nodes) /\ EachOnce(stored) /\ k \cap Along(stored) = {}
      /\ cell \in Cells /\ storeOp \in OpRecords /\ inHand \in [Party -> Maybe]
      /\ storeOp.kind \in {"none", "take block", "link block"}
  BY <1>1 DEF PoolHolds, EachOnce, PoolRecords, PlacesSound
<1>3. m \in Nat /\ store.entry \in Nat /\ store.free \in Maybe /\ stored \in Seq(R!Nodes)
  BY <1>2 DEF PoolRecords
<1>4. PICK len \in Nat : len = Len(stored)
  BY <1>3
<1>5. /\ storeOp.kind = "link block" =>
           /\ storeOp.at \in R!Nodes /\ storeOp.at \notin k /\ storeOp.at \notin Along(stored)
           /\ R!Nodes = k \cup Along(stored) \cup {storeOp.at}
           /\ m + Len(stored) + 1 = Places /\ store.entry = m + 1
      /\ storeOp.kind # "link block" => R!Nodes = k \cup Along(stored) /\ m + Len(stored) = Places
      /\ storeOp.kind = "none" => store.entry = m
      /\ storeOp.kind = "take block" => store.entry + 1 = m
  BY <1>1 DEF PoolHolds
<1>6. R!NoOp \in OpRecords /\ R!NoOp.kind = "none" /\ (storeOp = R!NoOp <=> storeOp.kind = "none")
  <2>1. R!NoOp \in OpRecords /\ R!NoOp.kind = "none"
    BY DEF R!NoOp, OpRecords, Maybe, R!Null
  <2>2. storeOp.kind = "none" => storeOp = R!NoOp
    BY DEF PlacesSound
  <2>. QED BY <2>1, <2>2
<1>7. /\ k \in SUBSET R!Nodes /\ (store.free = R!Null <=> m = 0) /\ (store.free # R!Null => store.free \in k)
  BY <1>2, ChainHead
<1>8. ASSUME R!PoolCounts
      PROVE  PlacesSound(cell', storeOp', inHand') /\ PoolSound(store', cell', storeOp', stored')
  <2>1. PICK e : e = store.entry - 1
    OBVIOUS
  <2>2. /\ storeOp.kind = "none" /\ store.free # R!Null /\ store' = [store EXCEPT !.entry = e]
        /\ storeOp' = [R!NoOp EXCEPT !.kind = "take block"]
        /\ cell' = cell /\ inHand' = inHand /\ stored' = stored
    BY <1>6, <1>8, <2>1 DEF R!PoolCounts, R!Idle
  <2>3. e \in Nat /\ e + 1 = m
    <3>1. store.entry = m /\ m # 0 /\ m \in Nat
      BY <1>2, <1>5, <1>7, <2>2
    <3>. QED BY <2>1, <3>1
  <2>4. store' \in PoolRecords /\ store'.free = store.free /\ store'.entry = e
    BY <1>2, <2>2, <2>3 DEF PoolRecords
  <2>5. storeOp' \in OpRecords /\ storeOp'.kind = "take block"
    BY <1>6, <2>2 DEF OpRecords
  <2>6. PoolHolds(store', cell', storeOp', stored', f, k, m)
    BY <1>2, <1>5, <2>2, <2>3, <2>4, <2>5 DEF PoolHolds, EachOnce
  <2>7. PlacesSound(cell', storeOp', inHand')
    BY <1>2, <2>2, <2>5 DEF PlacesSound
  <2>. QED BY <2>6, <2>7 DEF PoolSound
<1>9. ASSUME R!PoolTakes
      PROVE  PlacesSound(cell', storeOp', inHand') /\ PoolSound(store', cell', storeOp', stored')
  <2>1. PICK x : x = store.free
    OBVIOUS
  <2>2. PICK l : l = cell[x].next
    OBVIOUS
  <2>3. /\ storeOp.kind = "take block" /\ store' = [store EXCEPT !.free = l] /\ stored' = Append(stored, x)
        /\ storeOp' = R!NoOp /\ cell' = cell /\ inHand' = inHand
    BY <1>9, <2>1, <2>2 DEF R!PoolTakes
  <2>4. m # 0 /\ store.entry + 1 = m
    <3>1. store.entry + 1 = m
      BY <1>5, <2>3
    <3>. QED BY <1>3, <3>1
  <2>5. x \in k /\ x \in R!Nodes /\ x # R!Null /\ x \notin Along(stored) /\ l \in Maybe
    <3>1. x \in k /\ x # R!Null
      BY <1>7, <2>1, <2>4
    <3>2. x \in R!Nodes /\ x \notin Along(stored)
      BY <1>2, <1>7, <3>1
    <3>. QED BY <1>2, <2>2, <3>1, <3>2 DEF Cells, Maybe
  <2>6. PICK i \in Nat : i = m - 1
    BY <1>3, <2>4
  <2>7. Chain(cell, l, Tail(f), k \ {x}, i)
    <3>1. NextsKept(cell, cell, k \ {x})
      BY DEF NextsKept
    <3>. QED BY <1>2, <2>1, <2>2, <2>5, <2>6, <3>1, ChainPopped
  <2>8. stored' \in Seq(R!Nodes) /\ EachOnce(stored') /\ Len(stored') = Len(stored) + 1 /\ Along(stored') = Along(stored) \cup {x}
    BY <1>2, <2>3, <2>5, TakenMore
  <2>9. store' \in PoolRecords /\ store'.free = l /\ store'.entry = i
    <3>1. store.entry = i
      BY <1>3, <2>4, <2>6
    <3>. QED BY <1>2, <2>3, <2>5, <3>1 DEF PoolRecords
  <2>10. (k \ {x}) \cap Along(stored') = {} /\ R!Nodes = (k \ {x}) \cup Along(stored')
    BY <1>2, <1>5, <2>3, <2>5, <2>8
  <2>11. i + Len(stored') = Places
    <3>1. m + len = Places /\ Len(stored') = len + 1
      BY <1>4, <1>5, <2>3, <2>8
    <3>. QED BY <1>3, <2>6, <3>1
  <2>12. PoolHolds(store', cell', storeOp', stored', Tail(f), k \ {x}, i)
    BY <1>6, <2>3, <2>6, <2>7, <2>8, <2>9, <2>10, <2>11 DEF PoolHolds, EachOnce
  <2>13. PlacesSound(cell', storeOp', inHand')
    BY <1>2, <1>6, <2>3 DEF PlacesSound
  <2>. QED BY <2>12, <2>13 DEF PoolSound
<1>10. ASSUME NEW i \in R!Nodes, R!PoolReturns(i)
      PROVE  PlacesSound(cell', storeOp', inHand') /\ PoolSound(store', cell', storeOp', stored')
  <2>1. PICK e : e = store.entry + 1
    OBVIOUS
  <2>2. PICK x : x = stored[i]
    OBVIOUS
  <2>3. /\ storeOp.kind = "none" /\ i \in 1..Len(stored) /\ store' = [store EXCEPT !.entry = e]
        /\ storeOp' = [R!NoOp EXCEPT !.kind = "link block", !.at = x]
        /\ stored' = SubSeq(stored, 1, i - 1) \o SubSeq(stored, i + 1, Len(stored))
        /\ cell' = cell /\ inHand' = inHand
    <3>1. DOMAIN stored = 1..Len(stored)
      BY <1>3
    <3>. QED BY <1>6, <1>10, <2>1, <2>2, <3>1 DEF R!PoolReturns, R!Idle
  <2>4. x \in R!Nodes /\ x \in Along(stored) /\ x \notin k
    BY <1>2, <2>2, <2>3 DEF Along
  <2>5. stored' \in Seq(R!Nodes) /\ EachOnce(stored') /\ Len(stored') + 1 = Len(stored) /\ Along(stored') = Along(stored) \ {x}
    <3>1. CutOut(stored, i, stored')
      BY <2>3 DEF CutOut
    <3>. QED BY <1>2, <2>2, <2>3, <3>1, TakenLess
  <2>6. store.entry = m /\ m + Len(stored) = Places /\ R!Nodes = k \cup Along(stored)
    BY <1>5, <2>3
  <2>7. e \in Nat /\ e = m + 1
    BY <1>3, <2>1, <2>6
  <2>8. m + Len(stored') + 1 = Places
    <3>1. PICK n \in Nat : n = Len(stored')
      BY <2>5
    <3>2. n + 1 = len /\ m + len = Places
      BY <1>4, <2>5, <2>6, <3>1
    <3>. QED BY <1>3, <3>1, <3>2
  <2>9. store' \in PoolRecords /\ store'.free = store.free /\ store'.entry = e
    BY <1>2, <2>3, <2>7 DEF PoolRecords
  <2>10. storeOp' \in OpRecords /\ storeOp'.kind = "link block" /\ storeOp'.at = x
    BY <1>6, <2>3, <2>4 DEF OpRecords, Maybe
  <2>11. R!Nodes = k \cup Along(stored') \cup {x} /\ x \notin Along(stored') /\ k \cap Along(stored') = {}
    BY <1>2, <2>4, <2>5, <2>6
  <2>12. PoolHolds(store', cell', storeOp', stored', f, k, m)
    BY <1>2, <2>3, <2>4, <2>5, <2>7, <2>8, <2>9, <2>10, <2>11 DEF PoolHolds, EachOnce
  <2>13. PlacesSound(cell', storeOp', inHand')
    BY <1>2, <2>3, <2>10 DEF PlacesSound
  <2>. QED BY <2>12, <2>13 DEF PoolSound
<1>11. ASSUME R!PoolLinks
      PROVE  PlacesSound(cell', storeOp', inHand') /\ PoolSound(store', cell', storeOp', stored')
  <2>1. PICK x : x = storeOp.at
    OBVIOUS
  <2>2. PICK l : l = store.free
    OBVIOUS
  <2>3. /\ storeOp.kind = "link block" /\ cell' = [cell EXCEPT ![x].next = l] /\ store' = [store EXCEPT !.free = x]
        /\ storeOp' = R!NoOp /\ inHand' = inHand /\ stored' = stored
    BY <1>11, <2>1, <2>2 DEF R!PoolLinks
  <2>4. /\ x \in R!Nodes /\ x \notin k /\ x \notin Along(stored) /\ R!Nodes = k \cup Along(stored) \cup {x}
        /\ m + Len(stored) + 1 = Places /\ store.entry = m + 1 /\ l \in Maybe
    BY <1>2, <1>5, <2>1, <2>2, <2>3 DEF PoolRecords
  <2>5. Relinked(cell, cell', x, l)
    BY <1>2, <2>3, <2>4, PlaceWritten DEF Maybe
  <2>6. NextsKept(cell, cell', k) /\ cell'[x].next = l /\ cell' \in Cells
    BY <1>7, <2>4, <2>5 DEF NextsKept, Relinked
  <2>7. PICK i \in Nat : i = m + 1
    BY <1>3
  <2>8. Chain(cell', x, <<x>> \o f, {x} \cup k, i)
    <3>1. Chain(cell, l, f, k, m) /\ m \in Nat
      BY <1>2, <2>2
    <3>. QED BY <2>4, <2>6, <2>7, <3>1, ChainPushed
  <2>9. store' \in PoolRecords /\ store'.free = x /\ store'.entry = i
    <3>1. store.entry = i
      BY <2>4, <2>7
    <3>. QED BY <1>2, <2>3, <2>4, <3>1 DEF PoolRecords, Maybe
  <2>10. ({x} \cup k) \cap Along(stored) = {} /\ R!Nodes = ({x} \cup k) \cup Along(stored)
    BY <1>2, <2>4
  <2>11. i + Len(stored) = Places
    <3>1. m + len + 1 = Places
      BY <1>4, <2>4
    <3>. QED BY <1>3, <1>4, <2>7, <3>1
  <2>12. PoolHolds(store', cell', storeOp', stored', <<x>> \o f, {x} \cup k, i)
    BY <1>2, <1>6, <2>3, <2>7, <2>8, <2>9, <2>10, <2>11 DEF PoolHolds, EachOnce
  <2>13. PlacesSound(cell', storeOp', inHand')
    BY <1>2, <1>6, <2>3, <2>6 DEF PlacesSound
  <2>. QED BY <2>12, <2>13 DEF PoolSound
<1>12. /\ ~R!Is("msgqueue") /\ ~R!Is("mailbox")
       /\ storeOp.kind \notin {"count message", "advance in", "wrap in", "wrap out"}
  BY <1>2 DEF R!Is
<1>. QED BY <1>8, <1>9, <1>10, <1>11, <1>12
         DEF R!Next, R!MessageTakesNode, R!MessageLinks, R!MessageUrgent, R!MessageCounts, R!MessageUnlinks,
             R!MessageFrees, R!MailStores, R!MailUrgent, R!MailAdvances, R!MailSent, R!MailTaken, R!MailReceived

\* Each store of rt_mq_send, rt_mq_urgent and rt_mq_recv keeps a message queue.
LEMMA MessageSteps ==
  ASSUME R!StoreAssumption, PlacesSound(cell, storeOp, inHand), MessagesSound(store, cell, storeOp, inHand, stored),
         R!Next
  PROVE  PlacesSound(cell', storeOp', inHand') /\ MessagesSound(store', cell', storeOp', inHand', stored')
<1>1. store.kind = "msgqueue" /\ storeOp.kind \in {"none", "count message"}
  <2>1. PICK a, w, n, f, k, m : MessagesFacts(a, w, n, f, k, m)
    BY MessagesAre
  <2>. QED BY <2>1 DEF MessagesFacts
<1>2. /\ ~R!Is("mailbox") /\ ~R!Is("mempool")
      /\ storeOp.kind \notin {"advance in", "wrap in", "wrap out", "take block", "link block"}
  BY <1>1 DEF R!Is
<1>3. \/ \E v \in Mail, p \in Party : R!MessageTakesNode(p, v)
      \/ \E p \in Party : R!MessageLinks(p) \/ R!MessageUrgent(p) \/ R!MessageUnlinks(p) \/ R!MessageFrees(p)
      \/ R!MessageCounts
  BY <1>2 DEF R!Next, R!MailStores, R!MailUrgent, R!MailAdvances, R!MailSent, R!MailTaken, R!MailReceived,
              R!PoolCounts, R!PoolTakes, R!PoolReturns, R!PoolLinks
<1>4. CASE \E v \in Mail, p \in Party : R!MessageTakesNode(p, v)
  BY <1>4, NodeTaken
<1>5. CASE \E p \in Party : R!MessageLinks(p)
  BY <1>5, MessageLinked
<1>6. CASE \E p \in Party : R!MessageUrgent(p)
  BY <1>6, MessagePushed
<1>7. CASE \E p \in Party : R!MessageUnlinks(p)
  BY <1>7, MessageTaken
<1>8. CASE \E p \in Party : R!MessageFrees(p)
  BY <1>8, MessageFreed
<1>9. CASE R!MessageCounts
  BY <1>9, MessageCounted
<1>. QED BY <1>3, <1>4, <1>5, <1>6, <1>7, <1>8, <1>9

\* The invariant of the stores.
StoreSound ==
  /\ PlacesSound(cell, storeOp, inHand)
  /\ \/ MailSound(store, cell, storeOp, stored)
     \/ MessagesSound(store, cell, storeOp, inHand, stored)
     \/ PoolSound(store, cell, storeOp, stored)

\* Every step keeps it.
LEMMA StoreStep == ASSUME R!StoreAssumption, StoreSound, R!Next PROVE StoreSound'
<1>1. PlacesSound(cell, storeOp, inHand)
  BY DEF StoreSound
<1>2. CASE MailSound(store, cell, storeOp, stored)
  BY <1>1, <1>2, MailSteps DEF StoreSound
<1>3. CASE MessagesSound(store, cell, storeOp, inHand, stored)
  BY <1>1, <1>3, MessageSteps DEF StoreSound
<1>4. CASE PoolSound(store, cell, storeOp, stored)
  BY <1>1, <1>4, PoolSteps DEF StoreSound
<1>. QED BY <1>2, <1>3, <1>4 DEF StoreSound

\* At first all places are free, in a row,
LEMMA FirstChain ==
  ASSUME Places \in Nat \ {0}, NEW c, \A x \in R!Nodes : c[x].next = IF x = Places THEN R!Null ELSE x + 1
  PROVE  Chain(c, 1, [i \in 1..Places |-> i], R!Nodes, Places)
<1>1. PICK s : s = [i \in 1..Places |-> i]
  OBVIOUS
<1>2. /\ s \in Seq(R!Nodes) /\ Len(s) = Places /\ s # << >>
      /\ \A i \in 1..Places : s[i] = i /\ i \in R!Nodes
  <2>1. s \in Seq(R!Nodes) /\ Len(s) = Places
    BY <1>1 DEF R!Nodes
  <2>. QED BY <1>1, <2>1 DEF R!Nodes
<1>3. 1 \in 1..Places /\ \A i \in 1..Places : i # Places => i + 1 \in 1..Places
  OBVIOUS
<1>4. Along(s) = R!Nodes
  BY <1>2 DEF Along, R!Nodes
<1>5. ChainOf(c, 1, s)
  BY <1>2, <1>3 DEF ChainOf
<1>. QED BY <1>1, <1>2, <1>4, <1>5 DEF Chain

\* and nothing is sent or taken.
LEMMA StoreInit == ASSUME R!StoreAssumption, R!Init PROVE StoreSound
<1>1. /\ Places \in Nat \ {0} /\ IsFiniteSet(Party) /\ R!NoOp.kind = "none"
      /\ R!NoOp \in OpRecords
  BY DEF R!StoreAssumption, R!IsFiniteSet, IsFiniteSet, R!NoOp, OpRecords, Maybe, R!Null
<1>2. /\ store \in {R!Mailbox, R!Queue, R!Pool} /\ storeOp = R!NoOp /\ stored = << >>
      /\ inHand = [p \in Party |-> R!Null]
      /\ cell = [x \in R!Nodes |-> [mail |-> R!Blank, next |-> IF x = Places THEN R!Null ELSE x + 1]]
  BY DEF R!Init
<1>3. /\ \A x \in R!Nodes : cell[x].next = (IF x = Places THEN R!Null ELSE x + 1) /\ cell[x].mail = R!Blank
      /\ cell \in Cells /\ inHand \in [Party -> Maybe]
  BY <1>1, <1>2 DEF R!Nodes, Cells, Maybe
<1>4. PlacesSound(cell, storeOp, inHand)
  BY <1>1, <1>2, <1>3 DEF PlacesSound
<1>5. PICK s : s = [i \in 1..Places |-> i]
  OBVIOUS
<1>6. Chain(cell, 1, s, R!Nodes, Places)
  BY <1>1, <1>3, <1>5, FirstChain
<1>7. Len(stored) = 0 /\ Along(stored) = {} /\ EachOnce(stored) /\ stored \in Seq(Mail) /\ stored \in Seq(R!Nodes)
  BY <1>2 DEF Along, EachOnce
<1>8. CASE store = R!Mailbox
  <2>1. /\ store \in MailRecords /\ store.entry = 0 /\ store.in_offset = 0 /\ store.out_offset = 0
    BY <1>8 DEF R!Mailbox, MailRecords
  <2>2. 0 \in 0..(Places - 1) /\ Further(0, 0, Places) = 0 /\ 0 <= Places /\ 0..(0 - 1) = {}
    BY <1>1, NextSlots
  <2>3. MailRing(cell, 0, 0, stored, 0)
    BY <1>7, <2>2 DEF MailRing
  <2>4. MailHolds(store, cell, storeOp, stored, 0, 0)
    BY <1>1, <1>2, <2>1, <2>2, <2>3 DEF MailHolds
  <2>. QED BY <1>4, <2>4 DEF StoreSound, MailSound
<1>9. CASE store = R!Queue
  <2>1. /\ store \in MessageRecords /\ store.entry = 0 /\ store.head = R!Null /\ store.tail = R!Null
        /\ store.free = 1
    BY <1>1, <1>9 DEF R!Queue, MessageRecords, Maybe, R!Nodes
  <2>2. Chain(cell, R!Null, << >>, {}, 0) /\ LastOf(<< >>) = R!Null
    BY DEF Chain, ChainOf, Along, LastOf
  <2>3. Holding(inHand) = {} /\ HandsApart(cell, inHand, {} \cup R!Nodes)
    BY <1>2 DEF Holding, HandsApart
  <2>4. Cardinality(Holding(inHand)) = 0
    BY <2>3, FS_EmptySet
  <2>5. 0 + Places + Cardinality(Holding(inHand)) = Places /\ {} \cap R!Nodes = {} /\ 0 \in Nat /\ Places \in Nat
    BY <1>1, <2>4
  <2>6. Mails(cell, << >>, stored)
    BY <1>2, <1>7 DEF Mails
  <2>7. MessagesHold(store, cell, storeOp, inHand, stored, << >>, {}, 0, s, R!Nodes, Places)
    BY <1>1, <1>2, <1>6, <1>7, <2>1, <2>2, <2>3, <2>5, <2>6 DEF MessagesHold
  <2>. QED BY <1>4, <2>7 DEF StoreSound, MessagesSound
<1>10. CASE store = R!Pool
  <2>1. store \in PoolRecords /\ store.entry = Places /\ store.free = 1
    BY <1>1, <1>10 DEF R!Pool, PoolRecords, Maybe, R!Nodes
  <2>2. Places + Len(stored) = Places /\ R!Nodes = R!Nodes \cup Along(stored) /\ R!Nodes \cap Along(stored) = {} /\ Places \in Nat
    BY <1>1, <1>7
  <2>3. PoolHolds(store, cell, storeOp, stored, s, R!Nodes, Places)
    BY <1>1, <1>2, <1>6, <1>7, <2>1, <2>2 DEF PoolHolds, EachOnce
  <2>. QED BY <1>4, <2>3 DEF StoreSound, PoolSound
<1>. QED BY <1>2, <1>8, <1>9, <1>10

\* A sound mailbox is listed in the order it will be received.
LEMMA SoundMails ==
  ASSUME R!StoreAssumption, PlacesSound(cell, storeOp, inHand), MailSound(store, cell, storeOp, stored)
  PROVE  R!ListedIsContent /\ R!MismatchIsInFlight
<1>1. PICK first, last : MailHolds(store, cell, storeOp, stored, first, last)
  BY DEF MailSound
<1>2. /\ store \in MailRecords /\ MailRing(cell, first, last, stored, store.entry) /\ last \in 0..(Places - 1)
      /\ storeOp.kind = "none" => store.in_offset = last /\ store.out_offset = first
  BY <1>1 DEF MailHolds
<1>3. store.kind = "mailbox" /\ store.size = Places /\ store.entry \in Nat
  BY <1>2 DEF MailRecords
<1>4. PICK n \in Nat : n = store.entry
  BY <1>3
<1>5. /\ Places \in Nat \ {0} /\ first \in 0..(Places - 1) /\ stored \in Seq(Mail) /\ Len(stored) = n /\ n <= Places
      /\ \A i \in 0..(n - 1) : cell[Further(first, i, Places) + 1].mail = stored[i + 1]
  BY <1>2, <1>4 DEF MailRing, R!StoreAssumption
<1>6. Places \in Nat /\ first \in Nat
  BY <1>5
<1>7. ~R!Is("msgqueue") /\ ~R!Is("mempool")
  BY <1>3 DEF R!Is
<1>8. ASSUME R!Idle
      PROVE  /\ R!MailboxOffsetCheck /\ R!Row.entries = Len(stored)
             /\ [i \in DOMAIN R!MailboxSlots |-> R!MailboxSlots[i].mail] = stored
  <2>1. store.in_offset = last /\ store.out_offset = first
    BY <1>2, <1>8 DEF R!Idle, R!NoOp
  <2>2. R!MailboxOffsetCheck
    <3>1. Places > 0 /\ last < Places /\ first < Places /\ n <= Places
      BY <1>2, <1>5
    <3>. QED BY <1>3, <1>4, <2>1, <3>1 DEF R!MailboxOffsetCheck
  <2>3. R!Row.entries = Len(stored)
    BY <1>3, <1>4, <1>5 DEF R!Row
  <2>4. PICK slots : slots = R!MailboxSlots
    OBVIOUS
  <2>5. DOMAIN slots = 1..n
    BY <1>4, <2>4 DEF R!MailboxSlots
  <2>6. ASSUME NEW i \in 1..n PROVE slots[i].mail = stored[i]
    <3>1. PICK j \in 0..(n - 1) : j = i - 1
      OBVIOUS
    <3>2. PICK x : x = first + i - 1
      OBVIOUS
    <3>3. PICK y : y = x % Places
      OBVIOUS
    <3>4. y = Further(first, j, Places)
      <4>1. x \in Nat /\ x < Places + Places /\ x = first + j
        BY <1>5, <3>1, <3>2
      <4>2. CASE x < Places
        <5>1. y = x
          BY <1>5, <3>3, <4>1, <4>2, SmallRemainder
        <5>. QED BY <4>1, <4>2, <5>1 DEF Further
      <4>3. CASE ~(x < Places)
        <5>1. x >= Places
          BY <1>5, <4>1, <4>3
        <5>2. y = x - Places
          BY <1>5, <3>3, <4>1, <5>1, NextRemainder
        <5>3. ~(first + j < Places) /\ y = first + j - Places
          BY <1>6, <4>1, <4>3, <5>2
        <5>. QED BY <5>3 DEF Further
      <4>. QED BY <4>2, <4>3
    <3>5. slots[i] = [slot |-> y, mail |-> cell[y + 1].mail]
      BY <1>3, <1>4, <2>1, <2>4, <3>2, <3>3 DEF R!MailboxSlots
    <3>6. cell[y + 1].mail = stored[j + 1] /\ j + 1 = i
      BY <1>5, <3>1, <3>4
    <3>. QED BY <3>5, <3>6
  <2>7. [i \in DOMAIN slots |-> slots[i].mail] = stored
    <3>1. stored = [i \in 1..n |-> stored[i]]
      BY <1>5
    <3>. QED BY <2>5, <2>6, <3>1
  <2>. QED BY <2>2, <2>3, <2>4, <2>7
<1>. QED BY <1>7, <1>8 DEF R!ListedIsContent, R!MismatchIsInFlight

\* A sound message queue is listed in the order it will be received, and what its
\* two chains miss is in hand.
LEMMA SoundMessages ==
  ASSUME R!StoreAssumption, PlacesSound(cell, storeOp, inHand), MessagesSound(store, cell, storeOp, inHand, stored)
  PROVE  R!ListedIsContent /\ R!MismatchIsInFlight
<1>1. PICK a, w, n, f, k, m : MessagesFacts(a, w, n, f, k, m)
  BY MessagesAre
<1>2. /\ store \in MessageRecords /\ store.kind = "msgqueue" /\ n \in Nat /\ m \in Nat
      /\ Chain(cell, store.head, a, w, n) /\ Chain(cell, store.free, f, k, m)
      /\ a \in Seq(R!Nodes) /\ Len(a) = n /\ n + m + Cardinality(Holding(inHand)) = Places
      /\ stored \in Seq(Mail) /\ store.entry = Len(stored)
      /\ (storeOp = R!NoOp <=> storeOp.kind = "none") /\ storeOp.kind \in {"none", "count message"}
  BY <1>1 DEF MessagesFacts
<1>3. /\ storeOp.kind = "none" => Mails(cell, a, stored)
      /\ storeOp.kind = "count message" => Mails(cell, a, Append(stored, storeOp.with))
  BY <1>1 DEF MessagesFacts
<1>4. PICK h : h = Holding(inHand)
  OBVIOUS
<1>5. IsFiniteSet(h)
  <2>1. IsFiniteSet(Party)
    BY DEF R!StoreAssumption, R!IsFiniteSet, IsFiniteSet
  <2>2. h \in SUBSET Party
    BY <1>4 DEF Holding
  <2>. QED BY <2>1, <2>2, FS_Subset
<1>6. PICK c \in Nat : c = Cardinality(h)
  BY <1>5, FS_CardinalityType
<1>7. Places \in Nat \ {0} /\ MaxTraversal \in Nat /\ MaxTraversal >= Places
  BY DEF R!StoreAssumption
<1>8. n \in Nat /\ m \in Nat /\ n + m + c = Places /\ n <= Places /\ m <= Places /\ n <= MaxTraversal /\ m <= MaxTraversal
  <2>1. n \in Nat /\ m \in Nat /\ n + m + c = Places
    BY <1>2, <1>4, <1>6
  <2>. QED BY <1>7, <2>1
<1>9. R!ActiveNodes = a
  <2>1. ChainOf(cell, store.head, a) /\ Len(a) = n
    BY <1>2 DEF Chain
  <2>. QED BY <1>7, <1>8, <2>1, ChainIsWalked DEF R!ActiveNodes
<1>10. R!FreeNodes = f /\ Len(f) = m
  <2>1. ChainOf(cell, store.free, f) /\ Len(f) = m
    BY <1>2 DEF Chain
  <2>. QED BY <1>7, <1>8, <2>1, ChainIsWalked DEF R!FreeNodes
<1>11. stored \in Seq(Mail) /\ store.entry = Len(stored) /\ a \in Seq(R!Nodes) /\ Len(a) = n
  BY <1>2
<1>12. PICK e \in Nat : e = Len(stored) /\ store.entry = e
  BY <1>11
<1>13. IF storeOp.kind = "none" THEN e = n ELSE e + 1 = n
  <2>1. CASE storeOp.kind = "none"
    BY <1>2, <1>3, <1>12, <2>1 DEF Mails
  <2>2. CASE storeOp.kind = "count message"
    <3>1. Len(Append(stored, storeOp.with)) = n
      BY <1>2, <1>3, <2>2 DEF Mails
    <3>2. Len(Append(stored, storeOp.with)) = e + 1
      BY <1>11, <1>12
    <3>. QED BY <2>2, <3>1, <3>2
  <2>. QED BY <1>2, <2>1, <2>2
<1>14. R!Idle <=> storeOp.kind = "none"
  BY <1>2 DEF R!Idle
<1>15. store.size = Places
  BY <1>2 DEF MessageRecords
<1>16. R!Idle => R!Messages = stored /\ R!Row.entries = Len(stored)
  <2>1. SUFFICES ASSUME R!Idle PROVE R!Messages = stored /\ R!Row.entries = Len(stored)
    OBVIOUS
  <2>2. Mails(cell, a, stored)
    BY <1>3, <1>14, <2>1
  <2>3. R!Messages = [i \in 1..n |-> cell[a[i]].mail]
    <3>1. DOMAIN a = 1..n
      BY <1>11
    <3>. QED BY <1>9, <3>1 DEF R!Messages
  <2>4. \A i \in 1..n : cell[a[i]].mail = stored[i]
    BY <1>2, <2>2 DEF Mails
  <2>5. stored = [i \in 1..n |-> stored[i]]
    <3>1. e = n
      BY <1>13, <1>14, <2>1
    <3>2. stored \in Seq(Mail) /\ Len(stored) = n
      BY <1>11, <1>12, <3>1
    <3>. QED BY <3>2
  <2>6. R!Messages = stored
    BY <2>3, <2>4, <2>5
  <2>7. R!Row.entries = Len(stored)
    BY <1>2 DEF R!Row
  <2>. QED BY <2>6, <2>7
<1>17. h = {p \in Party : inHand[p] # R!Null} /\ (c = 0 <=> h = {})
  BY <1>4, <1>5, <1>6, FS_EmptySet DEF Holding
<1>18. R!MessagequeueConsistency <=> R!Idle /\ \A p \in Party : inHand[p] = R!Null
  <2>1. R!MessagequeueConsistency <=> e = n /\ m + n = Places
    BY <1>2, <1>9, <1>10, <1>12, <1>15 DEF R!MessagequeueConsistency
  <2>2. e = n <=> R!Idle
    BY <1>8, <1>13, <1>14
  <2>3. m + n = Places <=> c = 0
    BY <1>8
  <2>4. h = {} <=> \A p \in Party : inHand[p] = R!Null
    BY <1>17
  <2>. QED BY <1>17, <2>1, <2>2, <2>3, <2>4
<1>19. R!Cardinality({p \in Party : inHand[p] # R!Null}) = c
  <2>1. R!Cardinality(h) = Cardinality(h)
    BY DEF R!Cardinality, Cardinality
  <2>. QED BY <1>6, <1>17, <2>1
<1>20. Places - Len(R!FreeNodes) - Len(R!ActiveNodes) = c
  <2>1. Len(R!FreeNodes) = m /\ Len(R!ActiveNodes) = n
    BY <1>2, <1>9, <1>10
  <2>2. Places - m - n = c
    BY <1>7, <1>8
  <2>. QED BY <2>1, <2>2
<1>21. R!Idle => R!Row.free = Len(R!FreeNodes) + c
  <2>1. SUFFICES ASSUME R!Idle PROVE R!Row.free = Len(R!FreeNodes) + c
    OBVIOUS
  <2>2. e = n
    BY <1>13, <1>14, <2>1
  <2>3. R!Row.free = R!Least0(Places - e)
    BY <1>2, <1>12, <1>15 DEF R!Row
  <2>4. R!Least0(Places - e) = m + c
    BY <1>7, <1>8, <2>2 DEF R!Least0
  <2>. QED BY <1>10, <2>3, <2>4
<1>22. R!Is("msgqueue") /\ ~R!Is("mailbox") /\ ~R!Is("mempool")
  BY <1>2 DEF R!Is
<1>23. R!ListedIsContent
  BY <1>16, <1>22 DEF R!ListedIsContent
<1>. QED BY <1>18, <1>19, <1>20, <1>21, <1>22, <1>23 DEF R!MismatchIsInFlight

\* A sound pool lists as free the blocks nobody has taken, and counts them.
LEMMA SoundPool ==
  ASSUME R!StoreAssumption, PlacesSound(cell, storeOp, inHand), PoolSound(store, cell, storeOp, stored)
  PROVE  R!ListedIsContent /\ R!MismatchIsInFlight
<1>1. PICK f, k, m : PoolHolds(store, cell, storeOp, stored, f, k, m)
  BY DEF PoolSound
<1>2. /\ store \in PoolRecords /\ m \in Nat /\ Chain(cell, store.free, f, k, m) /\ stored \in Seq(R!Nodes)
      /\ k \cap Along(stored) = {} /\ storeOp.kind \in {"none", "take block", "link block"}
      /\ storeOp.kind = "link block" => m + Len(stored) + 1 = Places /\ store.entry = m + 1
      /\ storeOp.kind # "link block" => R!Nodes = k \cup Along(stored) /\ m + Len(stored) = Places
      /\ storeOp.kind = "none" => store.entry = m
      /\ storeOp.kind = "take block" => store.entry + 1 = m
  BY <1>1 DEF PoolHolds
<1>3. store.kind = "mempool" /\ store.size = Places /\ store.entry \in Nat
  BY <1>2 DEF PoolRecords
<1>4. Places \in Nat \ {0} /\ m \in Nat
  BY <1>2 DEF R!StoreAssumption
<1>5. stored \in Seq(R!Nodes)
  BY <1>2
<1>6. PICK l \in Nat : l = Len(stored)
  BY <1>5
<1>7. m <= Places /\ IF storeOp.kind = "link block" THEN m + l + 1 = Places ELSE m + l = Places
  <2>1. IF storeOp.kind = "link block" THEN m + l + 1 = Places ELSE m + l = Places
    BY <1>2, <1>6
  <2>2. m + l + 1 = Places \/ m + l = Places
    BY <2>1
  <2>3. m <= Places
    BY <1>4, <2>2
  <2>. QED BY <2>1, <2>3
<1>8. f \in Seq(R!Nodes) /\ Len(f) = m /\ k = Along(f) /\ ChainOf(cell, store.free, f)
  BY <1>2 DEF Chain, ChainOf
<1>9. R!FreeBlocks = f
  BY <1>3, <1>4, <1>7, <1>8, ChainIsWalked DEF R!FreeBlocks
<1>10. R!Idle <=> storeOp.kind = "none"
  <2>1. storeOp.kind = "none" => storeOp = R!NoOp
    BY DEF PlacesSound
  <2>. QED BY <2>1 DEF R!Idle, R!NoOp
<1>11. R!FreeCountCheck <=> R!Idle
  <2>1. R!FreeCountCheck <=> m = store.entry
    BY <1>8, <1>9 DEF R!FreeCountCheck
  <2>2. m = store.entry <=> storeOp.kind = "none"
    <3>1. CASE storeOp.kind = "none"
      BY <1>2, <3>1
    <3>2. CASE storeOp.kind = "take block"
      <4>1. store.entry + 1 = m
        BY <1>2, <3>2
      <4>2. m # store.entry
        BY <1>3, <1>4, <4>1
      <4>. QED BY <3>2, <4>2
    <3>3. CASE storeOp.kind = "link block"
      <4>1. store.entry = m + 1
        BY <1>2, <3>3
      <4>2. m # store.entry
        BY <1>3, <1>4, <4>1
      <4>. QED BY <3>3, <4>2
    <3>. QED BY <1>2, <3>1, <3>2, <3>3
  <2>. QED BY <1>10, <2>1, <2>2
<1>12. ASSUME R!Idle
       PROVE  /\ R!Row.used = Len(stored)
              /\ \A n \in R!Nodes : (\E i \in DOMAIN R!FreeBlocks : R!FreeBlocks[i] = n)
                                      <=> ~\E i \in DOMAIN stored : stored[i] = n
  <2>1. R!Row.used = Len(stored)
    <3>1. store.entry = m /\ m + l = Places
      BY <1>2, <1>7, <1>10, <1>12
    <3>2. R!Row.used = R!Least0(Places - m)
      BY <1>3, <3>1 DEF R!Row
    <3>3. R!Least0(Places - m) = l
      BY <1>4, <3>1 DEF R!Least0
    <3>. QED BY <1>6, <3>2, <3>3
  <2>2. ASSUME NEW n \in R!Nodes
        PROVE  (\E i \in DOMAIN f : f[i] = n) <=> ~\E i \in DOMAIN stored : stored[i] = n
    <3>1. (\E i \in DOMAIN f : f[i] = n) <=> n \in k
      <4>1. DOMAIN f = 1..Len(f)
        BY <1>8
      <4>. QED BY <1>8, <4>1 DEF Along
    <3>2. (\E i \in DOMAIN stored : stored[i] = n) <=> n \in Along(stored)
      <4>1. DOMAIN stored = 1..Len(stored)
        BY <1>5
      <4>. QED BY <4>1 DEF Along
    <3>3. R!Nodes = k \cup Along(stored) /\ k \cap Along(stored) = {}
      BY <1>2, <1>10, <1>12
    <3>. QED BY <3>1, <3>2, <3>3
  <2>. QED BY <1>9, <2>1, <2>2
<1>13. ~R!Is("msgqueue") /\ ~R!Is("mailbox")
  BY <1>3 DEF R!Is
<1>. QED BY <1>11, <1>12, <1>13 DEF R!ListedIsContent, R!MismatchIsInFlight

StoresInv == part = "store" => StoreSound

\* And so of RtTarget.
LEMMA StoresInvInit == ASSUME R!StoreAssumption, Init PROVE StoresInv
<1> SUFFICES ASSUME part = "store" PROVE StoreSound
  BY DEF StoresInv
<1>1. R!Init
  BY DEF Init
<1>. QED BY <1>1, StoreInit

\* Another part leaves the store alone.
LEMMA StoresInvKept == ASSUME R!StoreAssumption, StoresInv, [Next]_vars PROVE StoresInv'
<1> SUFFICES ASSUME part' = "store" PROVE StoreSound'
  BY DEF StoresInv
<1>1. part = "store" /\ (R!Next \/ UNCHANGED storeVars)
  BY DEF Next, vars
<1>2. StoreSound
  BY <1>1 DEF StoresInv
<1>3. CASE R!Next
  BY <1>2, <1>3, StoreStep
<1>4. CASE UNCHANGED storeVars
  <2>1. UNCHANGED <<store, cell, storeOp, inHand, stored>>
    BY <1>4 DEF storeVars
  <2>. QED BY <1>2, <2>1 DEF StoreSound
<1>. QED BY <1>1, <1>3, <1>4

\* The invariant of the stores: between any two stores of the kernel the ring of a
\* mailbox, and each chain of a queue or a pool, is whole but for the place in hand.
THEOREM StoresAreSound == Spec => []StoresInv
<1>1. Init => StoresInv
  BY StoresInvInit, TargetAssumption
<1>2. StoresInv /\ [Next]_vars => StoresInv'
  BY StoresInvKept, TargetAssumption
<1>. QED BY <1>1, <1>2, PTL DEF Spec

\* Outside a critical section the slots of a mailbox, the messages of a queue and
\* the free blocks of a pool are listed as they are, in their order, and a count
\* that differs from its chain is one that a call in progress explains.
THEOREM StoresAreListed == Spec => []ListedIsContent
<1>1. StoresInv => ListedIsContent
  BY SoundMails, SoundMessages, SoundPool, TargetAssumption DEF StoresInv, StoreSound, ListedIsContent
<1>. QED BY <1>1, StoresAreSound, PTL
=============================================================================
