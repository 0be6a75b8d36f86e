------------------------ MODULE ItemCheckQueueProofs ------------------------
(***************************************************************************)
(* Theorems about ItemCheckQueue, for any finite sets of items and chunk   *)
(* tasks and any of its bounds.                                            *)
(***************************************************************************)
EXTENDS ItemCheckQueue, SequenceTheorems, FiniteSetTheorems, TLAPS

-----------------------------------------------------------------------------
(* Lists.                                                                  *)

LEMMA ElemsOfConcat ==
  ASSUME NEW s \in Seq(Items), NEW t \in Seq(Items)
  PROVE  /\ s \o t \in Seq(Items)
         /\ \A i \in Items : i \in Elems(s \o t) <=> i \in Elems(s) \cup Elems(t)
<1>1. /\ Len(s \o t) = Len(s) + Len(t)
      /\ \A k \in 1..Len(s) : (s \o t)[k] = s[k]
      /\ \A k \in 1..Len(t) : (s \o t)[Len(s) + k] = t[k]
  OBVIOUS
<1>2. ASSUME NEW i \in Elems(s \o t) PROVE i \in Elems(s) \cup Elems(t)
  <2>1. PICK k \in 1..Len(s \o t) : (s \o t)[k] = i
    BY DEF Elems
  <2>2. CASE k <= Len(s)
    BY <1>1, <2>1, <2>2 DEF Elems
  <2>3. CASE k > Len(s)
    <3>1. k - Len(s) \in 1..Len(t) /\ (s \o t)[Len(s) + (k - Len(s))] = t[k - Len(s)]
      BY <1>1, <2>1, <2>3
    <3> QED
      BY <2>1, <3>1 DEF Elems
  <2> QED
    BY <2>1, <2>2, <2>3
<1>3. ASSUME NEW i \in Elems(s) PROVE i \in Elems(s \o t)
  BY <1>1 DEF Elems
<1>4. ASSUME NEW i \in Elems(t) PROVE i \in Elems(s \o t)
  <2>1. PICK k \in 1..Len(t) : t[k] = i
    BY DEF Elems
  <2>2. Len(s) + k \in 1..Len(s \o t) /\ (s \o t)[Len(s) + k] = i
    BY <1>1, <2>1
  <2> QED
    BY <2>2 DEF Elems
<1> QED
  BY <1>2, <1>3, <1>4

LEMMA ElemsOfAppend ==
  ASSUME NEW s \in Seq(Items), NEW x \in Items
  PROVE  /\ Append(s, x) \in Seq(Items)
         /\ \A i \in Items : i \in Elems(Append(s, x)) <=> i = x \/ i \in Elems(s)
<1>1. /\ Append(s, x) \in Seq(Items)
      /\ Len(Append(s, x)) = Len(s) + 1
      /\ Append(s, x)[Len(s) + 1] = x
      /\ \A k \in 1..Len(s) : Append(s, x)[k] = s[k]
  OBVIOUS
<1>2. ASSUME NEW i \in Elems(Append(s, x)) PROVE i = x \/ i \in Elems(s)
  BY <1>1 DEF Elems
<1>3. ASSUME NEW i \in Elems(s) PROVE i \in Elems(Append(s, x))
  BY <1>1 DEF Elems
<1>4. x \in Elems(Append(s, x))
  BY <1>1 DEF Elems
<1> QED
  BY <1>1, <1>2, <1>3, <1>4

(* LPOP splits the list: nothing is popped that was not in it, and nothing *)
(* is in neither half.                                                     *)
LEMMA PoppedSplits ==
  ASSUME NEW s \in Seq(Items), NEW n \in 0..Len(s)
  PROVE  /\ SubSeq(s, 1, n) \in Seq(Items)
         /\ SubSeq(s, n + 1, Len(s)) \in Seq(Items)
         /\ Len(SubSeq(s, 1, n)) = n
         /\ \A i \in Elems(s) :
              i \in Elems(SubSeq(s, 1, n)) \cup Elems(SubSeq(s, n + 1, Len(s)))
<1>1. /\ SubSeq(s, 1, n) \in Seq(Items)
      /\ Len(SubSeq(s, 1, n)) = n
      /\ \A k \in 1..n : SubSeq(s, 1, n)[k] = s[k]
  OBVIOUS
<1>2. /\ SubSeq(s, n + 1, Len(s)) \in Seq(Items)
      /\ Len(SubSeq(s, n + 1, Len(s))) = Len(s) - n
      /\ \A k \in 1..Len(s) - n : SubSeq(s, n + 1, Len(s))[k] = s[n + k]
  OBVIOUS
<1>3. ASSUME NEW i \in Elems(s)
      PROVE  i \in Elems(SubSeq(s, 1, n)) \cup Elems(SubSeq(s, n + 1, Len(s)))
  <2>1. PICK k \in 1..Len(s) : s[k] = i
    BY DEF Elems
  <2>2. CASE k <= n
    BY <1>1, <2>1, <2>2 DEF Elems
  <2>3. CASE k > n
    <3>1. k - n \in 1..Len(s) - n /\ SubSeq(s, n + 1, Len(s))[k - n] = s[n + (k - n)]
      BY <1>2, <2>1, <2>3
    <3> QED
      BY <1>2, <2>1, <3>1 DEF Elems
  <2> QED
    BY <2>1, <2>2, <2>3
<1> QED
  BY <1>1, <1>2, <1>3

LEMMA HeadTail ==
  ASSUME NEW s \in Seq(Items), s # <<>>
  PROVE  /\ Head(s) \in Items
         /\ Tail(s) \in Seq(Items)
         /\ Tail(s) = <<>> <=> Len(s) = 1
<1>1. Len(s) \in Nat \ {0} /\ Len(<<>>) = 0
  BY EmptySeq
<1>2. Tail(s) \in Seq(Items) /\ Len(Tail(s)) = Len(s) - 1
  BY HeadTailProperties
<1>3. Tail(s) = <<>> <=> Len(Tail(s)) = 0
  BY <1>1, <1>2, EmptySeq
<1> QED
  BY <1>1, <1>2, <1>3, HeadTailProperties

LEMMA NonEmpty == ASSUME NEW s, Len(s) # 0 PROVE s # <<>>
<1>1. Len(<<>>) = 0
  BY EmptySeq
<1> QED
  BY <1>1, Zenon

LEMMA OrderingsAreLists ==
  ASSUME NEW S \in SUBSET Items, NEW s \in Orderings(S)
  PROVE  s \in Seq(Items) /\ Elems(s) = S
<1>1. Cardinality(S) \in Nat
  BY QueueAssumption, FS_Subset, FS_CardinalityType
<1>2. s \in [1..Cardinality(S) -> Items]
  BY DEF Orderings
<1> QED
  BY <1>1, <1>2 DEF Orderings

LEMMA PopLength ==
  ASSUME pending \in Seq(Items)
  PROVE  Popped \in 0..Len(pending) /\ (pending # <<>> => Popped > 0)
BY QueueAssumption, EmptySeq, LenProperties DEF Popped

-----------------------------------------------------------------------------
(* Type correctness: in particular a chunk never asks for the head of an   *)
(* empty batch.                                                            *)

LEMMA TypeStep == TypeOK /\ [Next]_vars => TypeOK'
<1> SUFFICES ASSUME TypeOK, [Next]_vars PROVE TypeOK'
  OBVIOUS
<1> USE QueueAssumption DEF TypeOK, redisVars, chunkVars, history
<1>1. CASE StartRun
  BY <1>1 DEF StartRun
<1>2. ASSUME NEW c \in Chunks, Chunk(c) PROVE TypeOK'
  <2>0. /\ hand[c] \in Seq(Items)
        /\ hand[c] # <<>> => /\ Head(hand[c]) \in Items
                             /\ Tail(hand[c]) \in Seq(Items)
                             /\ Tail(hand[c]) = <<>> <=> Len(hand[c]) = 1
    BY HeadTail
  <2>1. CASE Scan(c)
    BY <2>1 DEF Scan, Goto
  <2>2. CASE Unlease(c)
    BY <2>2 DEF Unlease, Goto
  <2>3. CASE Requeue(c)
    <3>1. seen[c] \in SUBSET Items
      OBVIOUS
    <3>2. PICK s \in Orderings(seen[c]) : pending' = pending \o s
      BY <2>3 DEF Requeue
    <3>3. pending' \in Seq(Items)
      BY <3>1, <3>2, OrderingsAreLists, ElemsOfConcat
    <3> QED
      BY <2>3, <3>3 DEF Requeue, Goto
  <2>4. CASE PopNothing(c)
    BY <2>4 DEF PopNothing, Goto
  <2>5. CASE Pop(c)
    <3>1. Popped \in 0..Len(pending) /\ Popped > 0
      BY <2>5, PopLength DEF Pop
    <3>2. /\ SubSeq(pending, 1, Popped) \in Seq(Items)
          /\ SubSeq(pending, Popped + 1, Len(pending)) \in Seq(Items)
          /\ Len(SubSeq(pending, 1, Popped)) = Popped
      BY <3>1, PoppedSplits
    <3>3. SubSeq(pending, 1, Popped) # <<>>
      <4>1. Len(SubSeq(pending, 1, Popped)) # 0
        BY <3>1, <3>2
      <4> QED
        BY <4>1, NonEmpty
    <3> QED
      BY <2>5, <3>2, <3>3 DEF Pop, Goto
  <2>6. CASE Lease(c)
    <3>1. Elems(hand[c]) \subseteq Items
      BY <2>0, LenProperties DEF Elems
    <3> QED
      <4>1. /\ leased' \subseteq Items
            /\ expired' \subseteq leased'
            /\ UNCHANGED <<pending, done, failed, retries, seen, hand>>
            /\ UNCHANGED <<crashes, overruns, checked>>
        BY <2>6, <3>1 DEF Lease
      <4>2. pc[c] = "lease" /\ pc' = [pc EXCEPT ![c] = "handle"]
        BY <2>6 DEF Lease, Goto
      <4> QED
        BY <4>1, <4>2
  <2>7. CASE Handle(c)
    <3>1. Head(hand[c]) \in Items
      BY <2>7, <2>0 DEF Handle, Goto
    <3>2. checked' \in [Items -> Nat]
      <4>1. \/ checked' = [checked EXCEPT ![Head(hand[c])] = @ + 1]
            \/ checked' = checked
        BY <2>7, Zenon DEF Handle
      <4>2. checked[Head(hand[c])] + 1 \in Nat
        BY <3>1
      <4> HIDE DEF TypeOK
      <4>3. checked \in [Items -> Nat]
        BY DEF TypeOK
      <4> QED
        BY <3>1, <4>1, <4>2, <4>3
    <3>3. UNCHANGED <<pending, leased, expired, done, failed, retries, seen, hand>>
          /\ UNCHANGED <<crashes, overruns>>
      BY <2>7 DEF Handle
    <3>4. CASE Goto(c, "handle", "done.zrem")
      BY <3>2, <3>3, <3>4 DEF Goto
    <3>5. CASE Goto(c, "handle", "fail.zrem")
      BY <3>2, <3>3, <3>5 DEF Goto
    <3> QED
      BY <2>7, <3>4, <3>5 DEF Handle
  <2>8. CASE DoneZrem(c)
    BY <2>8, <2>0 DEF DoneZrem, Goto, DropLease
  <2>9. CASE DoneSadd(c)
    BY <2>9, <2>0 DEF DoneSadd, Goto
  <2>10. CASE DoneHdel(c)
    BY <2>10, <2>0 DEF DoneHdel, Goto, NextItem
  <2>11. CASE FailZrem(c)
    BY <2>11, <2>0 DEF FailZrem, Goto, DropLease
  <2>12. CASE FailHincrby(c)
    <3>1. Head(hand[c]) \in Items
      BY <2>12, <2>0 DEF FailHincrby, Goto
    <3>2. retries' \in [Items -> Nat]
      BY <2>12, <3>1 DEF FailHincrby
    <3>3. /\ pc[c] = "fail.hincrby"
          /\ pc' = [pc EXCEPT ![c] = "fail.sadd"] \/ pc' = [pc EXCEPT ![c] = "fail.rpush"]
      BY <2>12 DEF FailHincrby, Goto
    <3>4. UNCHANGED <<pending, leased, expired, done, failed, seen, hand, history>>
      BY <2>12 DEF FailHincrby
    <3>5. CASE pc' = [pc EXCEPT ![c] = "fail.sadd"]
      BY <3>2, <3>3, <3>4, <3>5
    <3>6. CASE pc' = [pc EXCEPT ![c] = "fail.rpush"]
      BY <3>2, <3>3, <3>4, <3>6
    <3> QED
      BY <3>3, <3>5, <3>6
  <2>13. CASE FailSadd(c)
    BY <2>13, <2>0 DEF FailSadd, Goto, NextItem
  <2>14. CASE FailRpush(c)
    BY <2>14, HeadTail, ElemsOfAppend DEF FailRpush, Goto, NextItem
  <2> QED
    BY <1>2, <2>1, <2>2, <2>3, <2>4, <2>5, <2>6, <2>7,
       <2>8, <2>9, <2>10, <2>11, <2>12, <2>13, <2>14 DEF Chunk
<1>3. ASSUME NEW c \in Chunks, Die(c) PROVE TypeOK'
  BY <1>3 DEF Die
<1>4. ASSUME NEW i \in Items, Expire(i) PROVE TypeOK'
  BY <1>4 DEF Expire
<1>5. CASE UNCHANGED vars
  BY <1>5 DEF vars
<1> QED
  BY <1>1, <1>2, <1>3, <1>4, <1>5 DEF Next

-----------------------------------------------------------------------------
(* Nothing is lost: every step of a chunk that takes an item out of a key  *)
(* leaves it in the chunk's window, and every step that closes the window  *)
(* has put it into the next key.                                           *)

LEMMA AccountedStep ==
  ASSUME TypeOK, NEW c \in Chunks, Chunk(c), NEW i \in Items, Accounted(i)
  PROVE  Accounted(i)'
<1> USE DEF TypeOK, redisVars, chunkVars, history
<1>1. \A d \in Chunks \ {c} : pc'[d] = pc[d] /\ seen'[d] = seen[d] /\ hand'[d] = hand[d]
  BY DEF Chunk, Scan, Unlease, Requeue, PopNothing, Pop, Lease, Handle, DoneZrem, DoneSadd,
         DoneHdel, FailZrem, FailHincrby, FailSadd, FailRpush, DropLease, NextItem, Goto
<1>2. ASSUME NEW d \in Chunks \ {c}, i \in Window(d) PROVE Accounted(i)'
  BY <1>1, <1>2 DEF Window, Accounted
<1>3. CASE \E d \in Chunks \ {c} : i \in Window(d)
  BY <1>2, <1>3
<1>4. CASE i \in Elems(pending) \/ i \in leased \cup done \cup failed \/ i \in Window(c)
  <2>1. CASE Scan(c)
    BY <1>4, <2>1 DEF Scan, Goto, Accounted, Window
  <2>2. CASE Unlease(c)
    BY <1>4, <2>2 DEF Unlease, Goto, Accounted, Window
  <2>3. CASE Requeue(c)
    <3>1. PICK s \in Orderings(seen[c]) : pending' = pending \o s
      BY <2>3 DEF Requeue
    <3>2. s \in Seq(Items) /\ Elems(s) = seen[c]
      BY <3>1, OrderingsAreLists
    <3>3. i \in Elems(pending') <=> i \in Elems(pending) \/ i \in seen[c]
      BY <3>1, <3>2, ElemsOfConcat
    <3>4. i \in Window(c) => i \in seen[c]
      BY <2>3 DEF Window, Requeue, Goto
    <3>5. UNCHANGED <<leased, done, failed>>
      BY <2>3 DEF Requeue
    <3> QED
      BY <1>4, <3>3, <3>4, <3>5 DEF Accounted
  <2>4. CASE PopNothing(c)
    BY <1>4, <2>4 DEF PopNothing, Goto, Accounted, Window
  <2>5. CASE Pop(c)
    <3>1. Popped \in 0..Len(pending)
      BY PopLength
    <3>2. i \in Elems(pending) => i \in Elems(hand'[c]) \cup Elems(pending')
      BY <2>5, <3>1, PoppedSplits DEF Pop
    <3>3. i \in Elems(hand'[c]) => i \in Window(c)'
      BY <2>5 DEF Pop, Goto, Window
    <3>4. i \notin Window(c) /\ UNCHANGED <<leased, done, failed>>
      BY <2>5 DEF Pop, Goto, Window
    <3> QED
      BY <1>4, <3>2, <3>3, <3>4 DEF Accounted
  <2>6. CASE Lease(c)
    BY <1>4, <2>6 DEF Lease, Goto, Accounted, Window
  <2>7. CASE Handle(c)
    BY <1>4, <2>7 DEF Handle, Goto, Accounted, Window
  <2>8. CASE DoneZrem(c)
    BY <1>4, <2>8 DEF DoneZrem, Goto, DropLease, Accounted, Window
  <2>9. CASE DoneSadd(c)
    BY <1>4, <2>9 DEF DoneSadd, Goto, Accounted, Window
  <2>10. CASE DoneHdel(c)
    BY <1>4, <2>10 DEF DoneHdel, Goto, NextItem, Accounted, Window
  <2>11. CASE FailZrem(c)
    BY <1>4, <2>11 DEF FailZrem, Goto, DropLease, Accounted, Window
  <2>12. CASE FailHincrby(c)
    BY <1>4, <2>12 DEF FailHincrby, Goto, Accounted, Window
  <2>13. CASE FailSadd(c)
    BY <1>4, <2>13 DEF FailSadd, Goto, NextItem, Accounted, Window
  <2>14. CASE FailRpush(c)
    <3>1. hand[c] # <<>> /\ i \in Window(c) => i = Head(hand[c])
      BY <2>14 DEF FailRpush, Goto, NextItem, Window
    <3>2. Head(hand[c]) \in Items
      BY <3>1, <2>14, HeadTail DEF FailRpush, NextItem, Goto
    <3>3. i \in Elems(pending') <=> i = Head(hand[c]) \/ i \in Elems(pending)
      BY <2>14, <3>2, ElemsOfAppend DEF FailRpush
    <3>4. hand[c] # <<>> /\ UNCHANGED <<leased, done, failed>>
      BY <2>14 DEF FailRpush, Goto, NextItem
    <3> QED
      BY <1>4, <3>1, <3>3, <3>4 DEF Accounted
  <2> QED
    BY <2>1, <2>2, <2>3, <2>4, <2>5, <2>6, <2>7,
       <2>8, <2>9, <2>10, <2>11, <2>12, <2>13, <2>14 DEF Chunk
<1> QED
  BY <1>3, <1>4 DEF Accounted

LEMMA LossStep == TypeOK /\ NothingLost /\ [Next]_vars => NothingLost'
<1> SUFFICES ASSUME TypeOK, NothingLost, [Next]_vars, crashes' = 0, NEW i \in Items
             PROVE  Accounted(i)'
  BY DEF NothingLost
<1>1. ASSUME NEW c \in Chunks, Die(c) PROVE FALSE
  BY <1>1 DEF Die, TypeOK
<1>2. crashes = 0
  BY <1>1 DEF Next, StartRun, Chunk, Scan, Unlease, Requeue, PopNothing, Pop, Lease, Handle,
              DoneZrem, DoneSadd, DoneHdel, FailZrem, FailHincrby, FailSadd, FailRpush,
              DropLease, Expire, vars, history
<1>3. Accounted(i)
  BY <1>2 DEF NothingLost
<1>4. ASSUME NEW c \in Chunks, Chunk(c) PROVE Accounted(i)'
  BY <1>3, <1>4, AccountedStep
<1>5. CASE StartRun
  BY <1>3, <1>5 DEF StartRun, redisVars, Accounted, Window
<1>6. CASE (\E j \in Items : Expire(j)) \/ UNCHANGED vars
  BY <1>3, <1>6 DEF Expire, vars, redisVars, chunkVars, Accounted, Window
<1> QED
  BY <1>1, <1>4, <1>5, <1>6 DEF Next

LEMMA InitQueue == Init => TypeOK /\ NothingLost
<1> SUFFICES ASSUME Init PROVE TypeOK /\ NothingLost
  OBVIOUS
<1>1. pending \in Seq(Items) /\ Elems(pending) = Items
  BY OrderingsAreLists DEF Init
<1>2. TypeOK
  BY <1>1, QueueAssumption DEF Init, TypeOK
<1>3. NothingLost
  BY <1>1 DEF NothingLost, Accounted
<1> QED
  BY <1>2, <1>3

(* Every variable stays in its type, and a chunk that works through its    *)
(* batch always has an item in hand.                                       *)
THEOREM QueueTypeCorrect == Spec => []TypeOK
BY InitQueue, TypeStep, PTL DEF Spec

(* As long as no task dies no item is lost, for any number of chunks and   *)
(* any leases running out under them.                                      *)
THEOREM NoTaskNoLoss == Spec => []NothingLost
BY InitQueue, TypeStep, LossStep, PTL DEF Spec

(*************************** Once, undisturbed *****************************)

-----------------------------------------------------------------------------
(* Exactly one place.  In a list nothing is twice: popping, taking the     *)
(* head and appending keep it so.                                          *)

Distinct(s) == \A k, l \in 1..Len(s) : s[k] = s[l] => k = l

LEMMA EmptyHasNothing == Elems(<<>>) = {} /\ Distinct(<<>>)
<1>1. Len(<<>>) = 0
  BY EmptySeq
<1> QED
  BY <1>1 DEF Elems, Distinct

LEMMA PoppedDistinct ==
  ASSUME NEW s \in Seq(Items), NEW n \in 0..Len(s), Distinct(s)
  PROVE  LET f == SubSeq(s, 1, n)
             b == SubSeq(s, n + 1, Len(s))
         IN /\ Distinct(f) /\ Distinct(b)
            /\ Elems(f) \subseteq Elems(s) /\ Elems(b) \subseteq Elems(s)
            /\ Elems(f) \cap Elems(b) = {}
<1> DEFINE f == SubSeq(s, 1, n)
           b == SubSeq(s, n + 1, Len(s))
<1>1. /\ Len(f) = n /\ Len(s) \in Nat /\ n \in Nat /\ n <= Len(s)
      /\ \A k \in 1..n : f[k] = s[k]
  OBVIOUS
<1>2. /\ Len(b) = Len(s) - n
      /\ \A k \in 1..Len(s) - n : b[k] = s[n + k]
  OBVIOUS
<1>3. \A k \in 1..n : k \in 1..Len(s)
  BY <1>1
<1>4. \A k \in 1..Len(s) - n : n + k \in 1..Len(s) /\ n + k > n
  BY <1>1
<1> HIDE DEF f, b
<1>5. Distinct(f)
  BY <1>1, <1>3 DEF Distinct
<1>6. Distinct(b)
  <2> SUFFICES ASSUME NEW k \in 1..Len(s) - n, NEW l \in 1..Len(s) - n, b[k] = b[l]
               PROVE  k = l
    BY <1>2 DEF Distinct
  <2>1. n + k = n + l
    BY <1>2, <1>4 DEF Distinct
  <2> QED
    BY <1>1, <2>1
<1>7. Elems(f) \subseteq Elems(s)
  BY <1>1, <1>3 DEF Elems
<1>8. Elems(b) \subseteq Elems(s)
  BY <1>2, <1>4 DEF Elems
<1>9. ASSUME NEW x \in Elems(f), x \in Elems(b) PROVE FALSE
  <2>1. PICK k \in 1..n : x = s[k]
    BY <1>1 DEF Elems
  <2>2. PICK l \in 1..Len(s) - n : x = s[n + l]
    BY <1>2, <1>9 DEF Elems
  <2>3. k = n + l
    BY <1>3, <1>4, <2>1, <2>2 DEF Distinct
  <2> QED
    BY <1>1, <1>4, <2>3
<1> QED
  BY <1>5, <1>6, <1>7, <1>8, <1>9 DEF f, b

LEMMA TailDistinct ==
  ASSUME NEW s \in Seq(Items), s # <<>>, Distinct(s)
  PROVE  /\ Distinct(Tail(s)) /\ Head(s) \in Elems(s)
         /\ Elems(Tail(s)) = Elems(s) \ {Head(s)}
<1>1. /\ Len(s) \in Nat \ {0} /\ Head(s) = s[1]
      /\ Len(Tail(s)) = Len(s) - 1
      /\ \A k \in 1..Len(s) - 1 : Tail(s)[k] = s[k + 1]
  BY EmptySeq, HeadTailProperties
<1>2. 1 \in 1..Len(s) /\ \A k \in 1..Len(s) - 1 : k + 1 \in 1..Len(s) /\ k + 1 # 1
  BY <1>1
<1>3. \A k \in 1..Len(s) : k = 1 \/ (k - 1 \in 1..Len(s) - 1 /\ Tail(s)[k - 1] = s[k])
  BY <1>1
<1>4. Distinct(Tail(s))
  <2> SUFFICES ASSUME NEW k \in 1..Len(s) - 1, NEW l \in 1..Len(s) - 1, Tail(s)[k] = Tail(s)[l]
               PROVE  k = l
    BY <1>1 DEF Distinct
  <2>1. k + 1 = l + 1
    BY <1>1, <1>2 DEF Distinct
  <2> QED
    BY <2>1
<1>5. Head(s) \in Elems(s)
  BY <1>1, <1>2 DEF Elems
<1>6. Head(s) \notin Elems(Tail(s))
  BY <1>1, <1>2 DEF Elems, Distinct
<1>7. Elems(Tail(s)) \subseteq Elems(s)
  BY <1>1, <1>2 DEF Elems
<1>8. Elems(s) \subseteq Elems(Tail(s)) \cup {Head(s)}
  <2> SUFFICES ASSUME NEW k \in 1..Len(s), s[k] # Head(s) PROVE s[k] \in Elems(Tail(s))
    BY DEF Elems
  <2> QED
    BY <1>1, <1>3 DEF Elems
<1> QED
  BY <1>4, <1>5, <1>6, <1>7, <1>8

LEMMA AppendDistinct ==
  ASSUME NEW s \in Seq(Items), NEW x \in Items, x \notin Elems(s), Distinct(s)
  PROVE  Distinct(Append(s, x))
<1>1. /\ Len(Append(s, x)) = Len(s) + 1 /\ Len(s) \in Nat
      /\ Append(s, x)[Len(s) + 1] = x
      /\ \A k \in 1..Len(s) : Append(s, x)[k] = s[k] /\ s[k] # x
  BY DEF Elems
<1>2. \A k \in 1..Len(s) + 1 : k \in 1..Len(s) \/ k = Len(s) + 1
  BY <1>1
<1> QED
  BY <1>1, <1>2 DEF Distinct

LEMMA OrderingsDistinct ==
  ASSUME NEW s \in Orderings(Items) PROVE Distinct(s)
<1> DEFINE n == Cardinality(Items)
<1>1. n \in Nat /\ IsFiniteSet(1..n) /\ Cardinality(1..n) = n
  BY QueueAssumption, FS_CardinalityType, FS_Interval
<1>2. s \in [1..n -> Items] /\ s \in Seq(Items) /\ Elems(s) = Items
  BY OrderingsAreLists DEF Orderings
<1>3. Len(s) = n
  BY <1>1, <1>2
<1>4. s \in Surjection(1..n, Items)
  BY <1>2, <1>3 DEF Surjection, Elems
<1>5. s \in Injection(1..n, Items)
  BY <1>1, <1>4, FS_Surjection
<1> QED
  BY <1>2, <1>3, <1>5 DEF Injection, IsInjective, Distinct

(* While nobody dies and no lease overruns, nothing has expired, and where *)
(* an item is says everything about it.                                    *)

Has(c, i) == i \in Elems(hand[c])

Works == {"handle", "done.zrem", "fail.zrem"}
Succeeded == {"done.zrem", "done.sadd", "done.hdel"}

OneFate(i) ==
  /\ i \in Elems(pending) =>
       /\ i \notin leased /\ i \notin done /\ i \notin failed /\ checked[i] = 0
       /\ \A c \in Chunks : ~Has(c, i)
  /\ i \in leased => \E c \in Chunks : Has(c, i)
  /\ ~(i \in done /\ i \in failed)
  /\ i \in done => checked[i] = 1
  /\ i \in failed => checked[i] = 0
  /\ \A c, d \in Chunks : Has(c, i) /\ Has(d, i) => c = d
  /\ \A c \in Chunks : Has(c, i) =>
       /\ i \in leased <=> pc[c] # "lease" /\ (pc[c] \in Works \/ i # Head(hand[c]))
       /\ i \notin failed
       /\ i \in done <=> pc[c] = "done.hdel" /\ i = Head(hand[c])
       /\ checked[i] = IF pc[c] \in Succeeded /\ i = Head(hand[c]) THEN 1 ELSE 0

OnceInv ==
  /\ expired = {} /\ Distinct(pending)
  /\ \A c \in Chunks : /\ seen[c] = {} /\ pc[c] \notin {"unlease", "requeue"}
                       /\ Distinct(hand[c])
  /\ \A i \in Items : OneFate(i)

LEMMA OnceInit == Init => OnceInv
<1> SUFFICES ASSUME Init PROVE OnceInv
  OBVIOUS
<1>1. Distinct(pending)
  BY OrderingsDistinct DEF Init
<1>2. \A c \in Chunks : Elems(hand[c]) = {} /\ Distinct(hand[c]) /\ pc[c] = "off" /\ seen[c] = {}
  BY EmptyHasNothing DEF Init
<1>3. leased = {} /\ done = {} /\ failed = {} /\ expired = {} /\ \A i \in Items : checked[i] = 0
  BY DEF Init
<1> QED
  BY <1>1, <1>2, <1>3 DEF OnceInv, OneFate, Has

(* A step of chunk c is known by what it does to the items, one by one.    *)
LEMMA OnceByItems ==
  ASSUME OnceInv, NEW c \in Chunks,
         expired' = {}, Distinct(pending)', Distinct(hand[c])',
         seen'[c] = {}, pc'[c] \notin {"unlease", "requeue"},
         \A d \in Chunks \ {c} : hand'[d] = hand[d] /\ pc'[d] = pc[d] /\ seen'[d] = seen[d],
         \A i \in Items : OneFate(i)'
  PROVE  OnceInv'
<1>1. \A d \in Chunks : /\ seen'[d] = {} /\ pc'[d] \notin {"unlease", "requeue"}
                        /\ Distinct(hand'[d])
  BY DEF OnceInv, Distinct
<1> QED
  BY <1>1 DEF OnceInv, Distinct

(* An item that a step leaves where it is.                                 *)
LEMMA ItemStays ==
  ASSUME NEW i, OneFate(i), NEW c \in Chunks,
         \A d \in Chunks \ {c} : hand'[d] = hand[d] /\ pc'[d] = pc[d],
         ~Has(c, i), ~Has(c, i)',
         i \in Elems(pending') <=> i \in Elems(pending),
         i \in leased' <=> i \in leased, i \in done' <=> i \in done,
         i \in failed' <=> i \in failed, checked'[i] = checked[i]
  PROVE  OneFate(i)'
<1>1. \A d \in Chunks : Has(d, i)' <=> Has(d, i)
  BY DEF Has
<1>2. \A d \in Chunks : Has(d, i) => d # c
  OBVIOUS
<1>3. \A d \in Chunks : Has(d, i) => hand'[d] = hand[d] /\ pc'[d] = pc[d]
  BY <1>2
<1> QED
  BY <1>1, <1>3 DEF OneFate

(* An item that chunk c has in hand, before and after.                     *)
LEMMA ItemInHand ==
  ASSUME NEW i, OneFate(i), NEW c \in Chunks, Has(c, i),
         \A d \in Chunks \ {c} : hand'[d] = hand[d] /\ pc'[d] = pc[d],
         i \in Elems(pending') => i \in Elems(pending), Has(c, i)',
         i \in leased' <=> pc'[c] # "lease" /\ (pc'[c] \in Works \/ i # Head(hand'[c])),
         i \notin failed',
         i \in done' <=> pc'[c] = "done.hdel" /\ i = Head(hand'[c]),
         checked'[i] = IF pc'[c] \in Succeeded /\ i = Head(hand'[c]) THEN 1 ELSE 0
  PROVE  OneFate(i)'
<1>1. \A d \in Chunks \ {c} : ~Has(d, i) /\ ~Has(d, i)'
  BY DEF OneFate, Has
<1>2. i \notin Elems(pending')
  BY DEF OneFate
<1>3. i \in done' => checked'[i] = 1
  BY DEF Succeeded
<1> QED
  BY <1>1, <1>2, <1>3 DEF OneFate

(* A command that moves nothing out of the hand of chunk c.                *)
LEMMA HandStays ==
  ASSUME TypeOK, OnceInv, NEW c \in Chunks, hand' = hand, pending' = pending, seen' = seen,
         expired' = {}, pc' = [pc EXCEPT ![c] = pc'[c]],
         pc'[c] \notin {"unlease", "requeue"},
         \A i \in Items : ~Has(c, i) =>
           /\ i \in leased' <=> i \in leased
           /\ i \in done' <=> i \in done
           /\ i \in failed' <=> i \in failed
           /\ checked'[i] = checked[i],
         \A i \in Items : Has(c, i) =>
           /\ i \in leased' <=> pc'[c] # "lease" /\ (pc'[c] \in Works \/ i # Head(hand[c]))
           /\ i \notin failed'
           /\ i \in done' <=> pc'[c] = "done.hdel" /\ i = Head(hand[c])
           /\ checked'[i] = IF pc'[c] \in Succeeded /\ i = Head(hand[c]) THEN 1 ELSE 0
  PROVE  OnceInv'
<1>1. \A d \in Chunks \ {c} : hand'[d] = hand[d] /\ pc'[d] = pc[d] /\ seen'[d] = seen[d]
  <2>1. \A d \in Chunks \ {c} : [pc EXCEPT ![c] = pc'[c]][d] = pc[d]
    BY DEF TypeOK
  <2> QED
    BY <2>1
<1>2. ASSUME NEW i \in Items PROVE OneFate(i)'
  <2>1. OneFate(i)
    BY DEF OnceInv
  <2>2. Has(c, i)' <=> Has(c, i)
    BY DEF Has
  <2>3. CASE Has(c, i)
    BY <1>1, <2>1, <2>2, <2>3, ItemInHand
  <2>4. CASE ~Has(c, i)
    BY <1>1, <2>1, <2>2, <2>4, ItemStays
  <2> QED
    BY <2>3, <2>4
<1>3. Distinct(pending)' /\ Distinct(hand[c])' /\ seen'[c] = {}
  BY DEF OnceInv, Distinct
<1> QED
  BY <1>1, <1>2, <1>3, OnceByItems

(* A command after which chunk c has done with its item: from where, to    *)
(* where.                                                                  *)
LEMMA HandShrinks ==
  ASSUME TypeOK, OnceInv, NEW c \in Chunks, NEW from \in {"done.hdel", "fail.sadd", "fail.rpush"},
         NextItem(c, from), UNCHANGED <<leased, expired, done, seen, checked>>,
         Distinct(pending)',
         \A i \in Items : i # Head(hand[c]) =>
           (i \in Elems(pending') <=> i \in Elems(pending)) /\ (i \in failed' <=> i \in failed),
         from = "done.hdel" => Head(hand[c]) \notin Elems(pending') /\ Head(hand[c]) \notin failed',
         from = "fail.sadd" => Head(hand[c]) \notin Elems(pending'),
         from = "fail.rpush" => Head(hand[c]) \notin failed'
  PROVE  OnceInv'
<1> DEFINE h == Head(hand[c])
<1>1. /\ pc[c] = from /\ hand[c] \in Seq(Items) /\ hand[c] # <<>> /\ h \in Items
      /\ Distinct(hand[c]) /\ h \in Elems(hand[c])
      /\ Distinct(Tail(hand[c])) /\ Elems(Tail(hand[c])) = Elems(hand[c]) \ {h}
      /\ Tail(hand[c]) = <<>> <=> Len(hand[c]) = 1
  <2>1. pc[c] = from /\ hand[c] \in Seq(Items) /\ hand[c] # <<>> /\ Distinct(hand[c])
    BY DEF NextItem, Goto, TypeOK, OnceInv
  <2> QED
    BY <2>1, TailDistinct, HeadTail
<1>2. /\ pc'[c] = IF Len(hand[c]) = 1 THEN "off" ELSE "handle"
      /\ hand'[c] = Tail(hand[c])
      /\ \A d \in Chunks \ {c} : hand'[d] = hand[d] /\ pc'[d] = pc[d] /\ seen'[d] = seen[d]
  BY DEF NextItem, Goto, TypeOK
<1>3. ASSUME NEW i \in Items PROVE OneFate(i)'
  <2>0. OneFate(i)
    BY DEF OnceInv
  <2>1. CASE ~Has(c, i)
    <3>1. i # h /\ ~Has(c, i)'
      BY <1>1, <1>2, <2>1 DEF Has
    <3> QED
      BY <1>2, <2>0, <2>1, <3>1, ItemStays
  <2>2. CASE Has(c, i) /\ i # h
    <3>1. Has(c, i)' /\ pc'[c] = "handle"
      <4>1. i \in Elems(Tail(hand[c]))
        BY <1>1, <2>2 DEF Has
      <4>2. Tail(hand[c]) # <<>>
        BY <4>1, EmptyHasNothing
      <4> QED
        BY <1>1, <1>2, <4>1, <4>2 DEF Has
    <3>2. i \in leased /\ i \notin failed /\ i \notin done /\ checked[i] = 0
      BY <1>1, <2>0, <2>2 DEF OneFate
    <3> QED
      BY <1>2, <2>0, <2>2, <3>1, <3>2, ItemInHand DEF Works, Succeeded
  <2>3. CASE i = h
    <3>1. Has(c, i)
      BY <1>1, <2>3 DEF Has
    <3>2. \A d \in Chunks : ~Has(d, i)'
      <4>1. \A d \in Chunks \ {c} : ~Has(d, i)'
        BY <1>2, <2>0, <3>1 DEF OneFate, Has
      <4>2. ~Has(c, i)'
        BY <1>1, <1>2, <2>3 DEF Has
      <4> QED
        BY <4>1, <4>2
    <3>3. /\ i \notin leased /\ i \notin failed /\ i \notin Elems(pending)
          /\ i \in done <=> from = "done.hdel"
          /\ checked[i] = IF from = "done.hdel" THEN 1 ELSE 0
      BY <1>1, <2>0, <2>3, <3>1 DEF OneFate, Works, Succeeded
    <3>4. /\ i \notin leased' /\ checked'[i] = checked[i] /\ (i \in done' <=> i \in done)
      BY <3>3
    <3>5. /\ i \in Elems(pending') => from = "fail.rpush"
          /\ i \in failed' => from = "fail.sadd"
      BY <2>3
    <3> QED
      BY <3>2, <3>3, <3>4, <3>5 DEF OneFate
  <2> QED
    BY <2>1, <2>2, <2>3
<1>4. Distinct(hand[c])' /\ expired' = {} /\ seen'[c] = {} /\ pc'[c] \notin {"unlease", "requeue"}
  BY <1>1, <1>2 DEF OnceInv, Distinct
<1> QED
  BY <1>2, <1>3, <1>4, OnceByItems

LEMMA PopOnce ==
  ASSUME TypeOK, OnceInv, NEW c \in Chunks, Pop(c) PROVE OnceInv'
<1> DEFINE f == SubSeq(pending, 1, Popped)
           b == SubSeq(pending, Popped + 1, Len(pending))
<1>1. /\ pc[c] = "pop" /\ hand' = [hand EXCEPT ![c] = f] /\ pending' = b
      /\ pc' = [pc EXCEPT ![c] = "lease"]
      /\ UNCHANGED <<leased, expired, done, failed, seen, checked>>
  BY DEF Pop, Goto, history
<1>2. /\ Distinct(f) /\ Distinct(b)
      /\ Elems(f) \subseteq Elems(pending) /\ Elems(b) \subseteq Elems(pending)
      /\ Elems(f) \cap Elems(b) = {}
      /\ \A i \in Elems(pending) : i \in Elems(f) \cup Elems(b)
  BY PopLength, PoppedDistinct, PoppedSplits DEF TypeOK, OnceInv
<1> HIDE DEF f, b
<1>3. /\ hand'[c] = f /\ pc'[c] = "lease"
      /\ \A d \in Chunks \ {c} : hand'[d] = hand[d] /\ pc'[d] = pc[d] /\ seen'[d] = seen[d]
  BY <1>1 DEF TypeOK
<1>4. \A i \in Items : ~Has(c, i)
  BY <1>1, EmptyHasNothing DEF TypeOK, Has
<1>5. ASSUME NEW i \in Items PROVE OneFate(i)'
  <2>0. OneFate(i)
    BY DEF OnceInv
  <2>1. CASE i \notin Elems(f)
    <3>1. ~Has(c, i)' /\ (i \in Elems(pending') <=> i \in Elems(pending))
      BY <1>1, <1>2, <1>3, <2>1 DEF Has
    <3> QED
      BY <1>1, <1>3, <1>4, <2>0, <3>1, ItemStays
  <2>2. CASE i \in Elems(f)
    <3>1. i \in Elems(pending) /\ i \notin Elems(pending') /\ Has(c, i)'
      BY <1>1, <1>2, <1>3, <2>2 DEF Has
    <3>2. \A d \in Chunks \ {c} : ~Has(d, i)'
      BY <1>3, <2>0, <3>1 DEF OneFate, Has
    <3>3. i \notin leased' /\ i \notin done' /\ i \notin failed' /\ checked'[i] = 0
      BY <1>1, <2>0, <3>1 DEF OneFate
    <3> QED
      BY <1>3, <3>1, <3>2, <3>3 DEF OneFate, Succeeded
  <2> QED
    BY <2>1, <2>2
<1>6. Distinct(pending)' /\ Distinct(hand[c])'
  BY <1>1, <1>2, <1>3 DEF Distinct
<1>7. expired' = {} /\ seen'[c] = {}
  BY <1>1 DEF OnceInv
<1> QED
  BY <1>3, <1>5, <1>6, <1>7, OnceByItems

LEMMA OnceChunk ==
  ASSUME TypeOK, OnceInv, NEW c \in Chunks, Chunk(c) PROVE OnceInv'
<1> DEFINE h == Head(hand[c])
<1>0. /\ expired = {} /\ seen[c] = {} /\ pc[c] \notin {"unlease", "requeue"}
      /\ Distinct(pending) /\ \A i \in Items : OneFate(i)
      /\ pc \in [Chunks -> {"off", "scan", "unlease", "requeue", "pop", "lease", "handle",
                        "done.zrem", "done.sadd", "done.hdel",
                        "fail.zrem", "fail.hincrby", "fail.sadd", "fail.rpush"}]
  BY DEF OnceInv, TypeOK
<1>h. \A q \in {"lease", "handle", "done.zrem", "done.sadd", "done.hdel",
                "fail.zrem", "fail.hincrby", "fail.sadd", "fail.rpush"} :
        pc[c] = q => /\ hand[c] \in Seq(Items) /\ hand[c] # <<>> /\ h \in Items
                     /\ Has(c, h)
  <2> SUFFICES ASSUME pc[c] \notin {"off", "scan", "unlease", "requeue", "pop"}
               PROVE  hand[c] \in Seq(Items) /\ hand[c] # <<>> /\ h \in Items /\ Has(c, h)
    OBVIOUS
  <2>1. hand[c] \in Seq(Items) /\ hand[c] # <<>> /\ Distinct(hand[c])
    BY DEF TypeOK, OnceInv
  <2> QED
    BY <2>1, HeadTail, TailDistinct DEF Has
<1>i. \A i \in Items : Has(c, i) =>
        /\ i \in leased <=> pc[c] # "lease" /\ (pc[c] \in Works \/ i # h)
        /\ i \notin failed
        /\ i \in done <=> pc[c] = "done.hdel" /\ i = h
        /\ checked[i] = IF pc[c] \in Succeeded /\ i = h THEN 1 ELSE 0
  BY <1>0 DEF OneFate
<1>n. pc[c] \in {"off", "scan", "unlease", "requeue", "pop"} => \A i \in Items : ~Has(c, i)
  BY EmptyHasNothing DEF TypeOK, Has
<1>1. CASE Scan(c)
  <2>1. /\ pc[c] = "scan" /\ pc' = [pc EXCEPT ![c] = "pop"]
        /\ seen' = [seen EXCEPT ![c] = {}]
        /\ UNCHANGED <<pending, leased, expired, done, failed, hand, checked>>
    BY <1>0, <1>1 DEF Scan, Goto, redisVars, history
  <2>2. pc'[c] = "pop" /\ seen' = seen
    BY <1>0, <2>1 DEF TypeOK
  <2> QED
    BY <1>0, <1>n, <2>1, <2>2, HandStays
<1>2. CASE Unlease(c) \/ Requeue(c)
  BY <1>0, <1>2 DEF Unlease, Requeue, Goto
<1>3. CASE PopNothing(c)
  <2>1. /\ pc[c] = "pop" /\ pc' = [pc EXCEPT ![c] = "off"]
        /\ UNCHANGED <<pending, leased, expired, done, failed, seen, hand, checked>>
    BY <1>3 DEF PopNothing, Goto, redisVars, history
  <2>2. pc'[c] = "off"
    BY <1>0, <2>1
  <2> QED
    BY <1>0, <1>n, <2>1, <2>2, HandStays
<1>4. CASE Lease(c)
  <2>1. /\ pc[c] = "lease" /\ pc' = [pc EXCEPT ![c] = "handle"]
        /\ leased' = leased \cup Elems(hand[c]) /\ expired' = expired \ Elems(hand[c])
        /\ UNCHANGED <<pending, done, failed, seen, hand, checked>>
    BY <1>4 DEF Lease, Goto, history
  <2>2. pc'[c] = "handle" /\ expired' = {}
    BY <1>0, <2>1
  <2>3. \A i \in Items : i \in leased' <=> i \in leased \/ Has(c, i)
    BY <2>1 DEF Has
  <2> QED
    BY <1>0, <1>i, <2>1, <2>2, <2>3, HandStays DEF Works, Succeeded
<1>5. CASE Handle(c) /\ pc' = [pc EXCEPT ![c] = "done.zrem"] /\ checked' = [checked EXCEPT ![h] = @ + 1]
  <2>1. /\ pc[c] = "handle"
        /\ UNCHANGED <<pending, leased, expired, done, failed, seen, hand>>
    BY <1>5 DEF Handle, Goto, redisVars
  <2>2. pc'[c] = "done.zrem"
    BY <1>0, <1>5
  <2>3. /\ \A i \in Items : i # h => checked'[i] = checked[i]
        /\ Has(c, h) /\ h \in Items /\ checked'[h] = checked[h] + 1
    BY <1>5, <1>h, <2>1 DEF TypeOK
  <2>4. checked[h] = 0
    BY <1>i, <2>1, <2>3 DEF Succeeded
  <2>5. \A i \in Items : ~Has(c, i) => checked'[i] = checked[i]
    BY <2>3
  <2>6. \A i \in Items : Has(c, i) => checked'[i] = IF i = h THEN 1 ELSE 0
    BY <1>i, <2>1, <2>3, <2>4 DEF Succeeded
  <2>7. \A i \in Items : Has(c, i) =>
          /\ i \in leased' <=> pc'[c] # "lease" /\ (pc'[c] \in Works \/ i # h)
          /\ i \notin failed'
          /\ i \in done' <=> pc'[c] = "done.hdel" /\ i = h
          /\ checked'[i] = IF pc'[c] \in Succeeded /\ i = h THEN 1 ELSE 0
    BY <1>i, <2>1, <2>2, <2>6 DEF Works, Succeeded
  <2> QED
    BY <1>0, <1>5, <2>1, <2>2, <2>5, <2>7, HandStays
<1>6. CASE Handle(c) /\ pc' = [pc EXCEPT ![c] = "fail.zrem"] /\ checked' = checked
  <2>1. /\ pc[c] = "handle"
        /\ UNCHANGED <<pending, leased, expired, done, failed, seen, hand, checked>>
    BY <1>6 DEF Handle, Goto, redisVars
  <2>2. pc'[c] = "fail.zrem"
    BY <1>0, <1>6
  <2> QED
    BY <1>0, <1>6, <1>i, <2>1, <2>2, HandStays DEF Works, Succeeded
<1>7. ASSUME NEW from \in {"done.zrem", "fail.zrem"}, NEW to \in {"done.sadd", "fail.hincrby"},
             from = "done.zrem" <=> to = "done.sadd", DropLease(c, from, to)
      PROVE  OnceInv'
  <2>1. /\ pc[c] = from /\ pc' = [pc EXCEPT ![c] = to]
        /\ leased' = leased \ {h} /\ expired' = expired \ {h}
        /\ UNCHANGED <<pending, done, failed, seen, hand, checked>>
    BY <1>7 DEF DropLease, Goto, history
  <2>2. pc'[c] = to /\ expired' = {} /\ Has(c, h)
    BY <1>0, <1>h, <2>1
  <2>3. \A i \in Items : i \in leased' <=> i \in leased /\ i # h
    BY <2>1
  <2>4. \A i \in Items : Has(c, i) =>
          /\ i \in leased' <=> pc'[c] # "lease" /\ (pc'[c] \in Works \/ i # h)
          /\ i \notin failed'
          /\ i \in done' <=> pc'[c] = "done.hdel" /\ i = h
          /\ checked'[i] = IF pc'[c] \in Succeeded /\ i = h THEN 1 ELSE 0
    BY <1>7, <1>i, <2>1, <2>2, <2>3 DEF Works, Succeeded
  <2>5. \A i \in Items : ~Has(c, i) => (i \in leased' <=> i \in leased)
    BY <2>2, <2>3
  <2> QED
    BY <1>0, <2>1, <2>2, <2>4, <2>5, HandStays
<1>8. CASE DoneSadd(c)
  <2>1. /\ pc[c] = "done.sadd" /\ pc' = [pc EXCEPT ![c] = "done.hdel"]
        /\ done' = done \cup {h}
        /\ UNCHANGED <<pending, leased, expired, failed, seen, hand, checked>>
    BY <1>8 DEF DoneSadd, Goto, history
  <2>2. pc'[c] = "done.hdel" /\ expired' = {} /\ Has(c, h)
    BY <1>0, <1>h, <2>1
  <2>3. \A i \in Items : i \in done' <=> i \in done \/ i = h
    BY <2>1
  <2>4. \A i \in Items : ~Has(c, i) => (i \in done' <=> i \in done)
    BY <2>2, <2>3
  <2> QED
    BY <1>0, <1>i, <2>1, <2>2, <2>3, <2>4, HandStays DEF Works, Succeeded
<1>9. CASE FailHincrby(c)
  <2>1. PICK to \in {"fail.sadd", "fail.rpush"} : pc' = [pc EXCEPT ![c] = to]
    BY <1>9 DEF FailHincrby, Goto
  <2>2. /\ pc[c] = "fail.hincrby"
        /\ UNCHANGED <<pending, leased, expired, done, failed, seen, hand, checked>>
    BY <1>9 DEF FailHincrby, Goto, history
  <2>3. pc'[c] = to
    BY <1>0, <2>1
  <2> QED
    BY <1>0, <1>i, <2>1, <2>2, <2>3, HandStays DEF Works, Succeeded
<1>10. CASE DoneHdel(c)
  <2>1. /\ NextItem(c, "done.hdel") /\ pc[c] = "done.hdel"
        /\ UNCHANGED <<pending, leased, expired, done, failed, seen, checked>>
    BY <1>10 DEF DoneHdel, NextItem, Goto, history
  <2>2. h \in Items /\ Has(c, h)
    BY <1>h, <2>1
  <2>3. h \notin Elems(pending) /\ h \notin failed
    BY <1>0, <2>2 DEF OneFate
  <2>4. Distinct(pending)'
    BY <1>0, <2>1 DEF Distinct
  <2> QED
    BY <2>1, <2>3, <2>4, HandShrinks
<1>11. CASE FailSadd(c)
  <2>1. /\ NextItem(c, "fail.sadd") /\ pc[c] = "fail.sadd" /\ failed' = failed \cup {h}
        /\ UNCHANGED <<pending, leased, expired, done, seen, checked>>
    BY <1>11 DEF FailSadd, NextItem, Goto, history
  <2>2. h \in Items /\ Has(c, h)
    BY <1>h, <2>1
  <2>3. h \notin Elems(pending')
    BY <1>0, <2>1, <2>2 DEF OneFate
  <2>4. Distinct(pending)'
    BY <1>0, <2>1 DEF Distinct
  <2>5. \A i \in Items : i # h =>
          (i \in Elems(pending') <=> i \in Elems(pending)) /\ (i \in failed' <=> i \in failed)
    BY <2>1
  <2> QED
    BY <2>1, <2>3, <2>4, <2>5, HandShrinks
<1>12. CASE FailRpush(c)
  <2>1. /\ NextItem(c, "fail.rpush") /\ pc[c] = "fail.rpush" /\ pending' = Append(pending, h)
        /\ UNCHANGED <<leased, expired, done, failed, seen, checked>>
    BY <1>12 DEF FailRpush, NextItem, Goto, history
  <2>2. h \in Items /\ Has(c, h)
    BY <1>h, <2>1
  <2>3. h \notin Elems(pending) /\ h \notin failed'
    BY <1>0, <2>1, <2>2 DEF OneFate
  <2>4. Distinct(Append(pending, h)) /\ pending \in Seq(Items)
    BY <1>0, <2>2, <2>3, AppendDistinct DEF TypeOK
  <2>5. Distinct(pending)'
    BY <2>1, <2>4 DEF Distinct
  <2>6. \A i \in Items : i # h =>
          (i \in Elems(pending') <=> i \in Elems(pending)) /\ (i \in failed' <=> i \in failed)
    BY <2>1, <2>2, <2>4, ElemsOfAppend
  <2> QED
    BY <2>1, <2>3, <2>5, <2>6, HandShrinks
<1>13. CASE Handle(c)
  BY <1>5, <1>6, <1>13 DEF Handle, Goto
<1>14. CASE DoneZrem(c) \/ FailZrem(c)
  BY <1>7, <1>14 DEF DoneZrem, FailZrem
<1>15. CASE Pop(c)
  BY <1>15, PopOnce
<1> QED
  BY <1>1, <1>2, <1>3, <1>4, <1>8, <1>9, <1>10, <1>11, <1>12, <1>13, <1>14, <1>15 DEF Chunk

LEMMA OnceStep ==
  TypeOK /\ (Undisturbed => OnceInv) /\ [Next]_vars => (Undisturbed' => OnceInv')
<1> SUFFICES ASSUME TypeOK, Undisturbed => OnceInv, [Next]_vars, Undisturbed'
             PROVE  OnceInv'
  OBVIOUS
<1>0. crashes \in Nat /\ overruns \in Nat /\ crashes' = 0 /\ overruns' = 0
  BY QueueAssumption DEF TypeOK, Undisturbed
<1>1. ASSUME NEW c \in Chunks, Chunk(c) PROVE OnceInv'
  <2>1. crashes' = crashes /\ overruns' = overruns
    BY <1>1 DEF Chunk, Scan, Unlease, Requeue, PopNothing, Pop, Lease, Handle,
                DoneZrem, DoneSadd, DoneHdel, FailZrem, FailHincrby, FailSadd, FailRpush,
                DropLease, history
  <2> QED
    BY <1>0, <1>1, <2>1, OnceChunk DEF Undisturbed
<1>2. ASSUME NEW c \in Chunks, Die(c) PROVE OnceInv'
  BY <1>0, <1>2 DEF Die
<1>3. ASSUME NEW i \in Items, Expire(i) PROVE OnceInv'
  <2>1. /\ i \in leased /\ crashes' = crashes
        /\ overruns' = IF InHand(i) THEN overruns + 1 ELSE overruns
    BY <1>3 DEF Expire
  <2>2. ~InHand(i) /\ Undisturbed
    BY <1>0, <2>1 DEF Undisturbed
  <2>3. \E c \in Chunks : Has(c, i)
    BY <2>1, <2>2 DEF OnceInv, OneFate
  <2> QED
    BY <2>2, <2>3 DEF InHand, Has
<1>4. CASE StartRun
  <2>1. /\ \A c \in Chunks : pc[c] = "off" /\ pc'[c] = "scan"
        /\ UNCHANGED <<pending, leased, expired, done, failed, seen, hand, crashes, overruns, checked>>
    BY <1>4 DEF StartRun, redisVars, history
  <2>2. OnceInv
    BY <1>0, <2>1 DEF Undisturbed
  <2>3. \A c \in Chunks : \A i \in Items : ~Has(c, i) /\ ~Has(c, i)'
    BY <2>1, EmptyHasNothing DEF TypeOK, Has
  <2>4. \A i \in Items : OneFate(i)'
    BY <2>1, <2>2, <2>3 DEF OnceInv, OneFate
  <2> QED
    BY <2>1, <2>2, <2>4 DEF OnceInv, Distinct
<1>5. CASE UNCHANGED vars
  <2>1. UNCHANGED <<pending, leased, expired, done, failed, pc, seen, hand, crashes, overruns, checked>>
    BY <1>5 DEF vars, redisVars, chunkVars, history
  <2>2. OnceInv
    BY <1>0, <2>1 DEF Undisturbed
  <2>3. \A i \in Items : OneFate(i)'
    BY <2>1, <2>2 DEF OnceInv, OneFate, Has
  <2> QED
    BY <2>1, <2>2, <2>3 DEF OnceInv, Distinct
<1> QED
  BY <1>1, <1>2, <1>3, <1>4, <1>5 DEF Next

(* From where an item is to how many places it is in.                      *)
LEMMA SetOfOne == ASSUME NEW S, NEW x, S = {x} PROVE Cardinality(S) = 1
BY FS_Singleton

LEMMA SetOfNone == ASSUME NEW S, S = {} PROVE Cardinality(S) = 0
BY FS_EmptySet

LEMMA OnePlace ==
  ASSUME TypeOK, NothingLost, OnceInv, crashes = 0, NEW i \in Items
  PROVE  Places(i) = 1 /\ checked[i] <= 1
<1> DEFINE keys == <<leased, done, failed>>
           P == {k \in 1..Len(pending) : pending[k] = i}
           K == {k \in 1..3 : i \in keys[k]}
           W == {c \in Chunks : i \in Window(c)}
<1>0. OneFate(i) /\ Accounted(i) /\ Distinct(pending)
      /\ \A c \in Chunks : pc[c] \notin {"unlease", "requeue"}
  BY DEF OnceInv, NothingLost
<1>k. /\ \A k \in 1..3 : k \in K <=> \/ k = 1 /\ i \in leased
                                     \/ k = 2 /\ i \in done
                                     \/ k = 3 /\ i \in failed
      /\ K \subseteq 1..3 /\ 1 \in 1..3 /\ 2 \in 1..3 /\ 3 \in 1..3
  OBVIOUS
<1>w. \A c \in Chunks : c \in W <=>
        Has(c, i) /\ \/ pc[c] = "lease"
                     \/ /\ pc[c] \in {"done.sadd", "fail.hincrby", "fail.sadd", "fail.rpush"}
                        /\ i = Head(hand[c])
  <2>1. \A c \in Chunks : pc[c] \in {"done.sadd", "fail.hincrby", "fail.sadd", "fail.rpush"} =>
          Head(hand[c]) \in Elems(hand[c])
    BY TailDistinct DEF TypeOK, OnceInv
  <2> QED
    BY <1>0, <2>1 DEF Window, Has
<1>p. /\ i \notin Elems(pending) => P = {}
      /\ i \in Elems(pending) => \E k : P = {k}
  <2>1. i \notin Elems(pending) => P = {}
    BY DEF Elems
  <2>2. ASSUME i \in Elems(pending) PROVE \E k : P = {k}
    <3>1. PICK k \in 1..Len(pending) : pending[k] = i
      BY <2>2 DEF Elems
    <3>2. \A m \in 1..Len(pending) : pending[m] = i => m = k
      BY <1>0, <3>1 DEF Distinct
    <3>3. P = {k}
      BY <3>1, <3>2
    <3> QED
      BY <3>3
  <2> QED
    BY <2>1, <2>2
<1>s. W \subseteq Chunks
  OBVIOUS
<1>q. Places(i) = Cardinality(P) + Cardinality(K) + Cardinality(W)
  BY DEF Places
<1> HIDE DEF P, K, W
<1>1. CASE i \in Elems(pending)
  <2>1. i \notin leased /\ i \notin done /\ i \notin failed /\ \A c \in Chunks : ~Has(c, i)
    BY <1>0, <1>1 DEF OneFate
  <2>2. K = {} /\ W = {}
    BY <1>k, <1>s, <1>w, <2>1
  <2>3. Cardinality(P) = 1 /\ Cardinality(K) = 0 /\ Cardinality(W) = 0
    BY <1>1, <1>p, <2>2, SetOfOne, SetOfNone
  <2>4. checked[i] = 0
    BY <1>0, <1>1 DEF OneFate
  <2> QED
    BY <1>q, <2>3, <2>4
<1>2. ASSUME i \notin Elems(pending), NEW c \in Chunks, Has(c, i)
      PROVE  Places(i) = 1 /\ checked[i] <= 1
  <2>1. /\ i \in leased <=> pc[c] # "lease" /\ (pc[c] \in Works \/ i # Head(hand[c]))
        /\ i \notin failed
        /\ i \in done <=> pc[c] = "done.hdel" /\ i = Head(hand[c])
        /\ checked[i] \in {0, 1}
        /\ \A d \in Chunks : Has(d, i) => d = c
    BY <1>0, <1>2 DEF OneFate
  <2>2. P = {} /\ Cardinality(P) = 0
    BY <1>2, <1>p, SetOfNone
  <2>3. pc[c] \in {"lease", "done.sadd", "done.hdel", "fail.hincrby", "fail.sadd", "fail.rpush"}
                  \cup Works
    BY <1>2, EmptyHasNothing DEF TypeOK, Has, Works
  <2>7. checked[i] <= 1
    BY <2>1
  <2>4. CASE i \in leased
    <3>1. K = {1}
      BY <1>k, <2>1, <2>4 DEF Works
    <3>2. W = {}
      BY <1>s, <1>w, <2>1, <2>4 DEF Works
    <3>3. Cardinality(K) = 1 /\ Cardinality(W) = 0
      BY <3>1, <3>2, SetOfOne, SetOfNone
    <3> QED
      BY <1>q, <2>2, <2>7, <3>3
  <2>5. CASE i \in done /\ i \notin leased
    <3>1. K = {2}
      BY <1>k, <2>1, <2>5
    <3>2. W = {}
      BY <1>s, <1>w, <2>1, <2>5
    <3>3. Cardinality(K) = 1 /\ Cardinality(W) = 0
      BY <3>1, <3>2, SetOfOne, SetOfNone
    <3> QED
      BY <1>q, <2>2, <2>7, <3>3
  <2>6. CASE i \notin done /\ i \notin leased
    <3>1. K = {}
      BY <1>k, <2>1, <2>6
    <3>2. c \in W
      BY <1>2, <1>w, <2>1, <2>3, <2>6 DEF Works
    <3>3. W = {c}
      BY <1>s, <1>w, <2>1, <3>2
    <3>4. Cardinality(K) = 0 /\ Cardinality(W) = 1
      BY <3>1, <3>3, SetOfOne, SetOfNone
    <3> QED
      BY <1>q, <2>2, <2>7, <3>4
  <2> QED
    BY <2>4, <2>5, <2>6
<1>3. CASE i \notin Elems(pending) /\ \A c \in Chunks : ~Has(c, i)
  <2>1. P = {} /\ W = {}
    BY <1>3, <1>p, <1>s, <1>w
  <2>2. i \notin leased /\ (i \in done \/ i \in failed) /\ ~(i \in done /\ i \in failed)
    BY <1>0, <1>3, <1>s, <1>w, <2>1 DEF OneFate, Accounted, W
  <2>3. K = {2} \/ K = {3}
    BY <1>k, <2>2
  <2>4. Cardinality(P) = 0 /\ Cardinality(W) = 0 /\ Cardinality(K) = 1
    BY <2>1, <2>3, SetOfOne, SetOfNone
  <2>5. checked[i] \in {0, 1}
    BY <1>0, <2>2 DEF OneFate
  <2> QED
    BY <1>q, <2>4, <2>5
<1> QED
  BY <1>1, <1>2, <1>3

LEMMA OnceSound ==
  TypeOK /\ NothingLost /\ (Undisturbed => OnceInv) => ExactlyOnePlace /\ CheckedOnceInTime
BY OnePlace DEF ExactlyOnePlace, CheckedOnceInTime, CheckedOnce, Undisturbed

(* If no task dies and leases outlive the work, each item is in exactly    *)
(* one place, for any number of chunks, items, retries and hourly runs.    *)
THEOREM ItemsInOnePlace == Spec => []ExactlyOnePlace
<1>1. Init => (Undisturbed => OnceInv)
  BY OnceInit
<1> QED
  BY <1>1, InitQueue, TypeStep, LossStep, OnceStep, OnceSound, PTL DEF Spec

(* And none is checked a second time, in this hour or a later one.         *)
THEOREM ItemsCheckedOnce == Spec => []CheckedOnceInTime
<1>1. Init => (Undisturbed => OnceInv)
  BY OnceInit
<1> QED
  BY <1>1, InitQueue, TypeStep, LossStep, OnceStep, OnceSound, PTL DEF Spec
=============================================================================
