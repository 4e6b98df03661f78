-------------------------- MODULE SchedulerProofs ---------------------------
(***************************************************************************)
(* Proofs that the scheduler loses neither a slot nor a request, for any   *)
(* requests, limits and order of calls.                                    *)
(***************************************************************************)
EXTENDS Scheduler, FiniteSetTheorems, SequenceTheorems, WellFoundedInduction, TLAPS

(* The inductive invariant: a slot is given back by looking a request up in
   running, so the slots are in order only as long as the requests are. *)
IInv == TypeOK /\ OnePlace /\ SlotPartition

-----------------------------------------------------------------------------
(* Induction, from the well-foundedness of strict inclusion on finite sets. *)

(* A set of natural numbers has a least one: what stands in for induction. *)
LEMMA LeastNat ==
  ASSUME NEW T \in SUBSET Nat, T # {}
  PROVE  \E m \in T : \A y \in T : m <= y
<1>. DEFINE Segments == {0..x : x \in T}
            R == StrictSubsetOrdering(Nat)
<1>1. IsWellFoundedOn(R, FiniteSubsetsOf(Nat))
  BY FS_StrictSubsetOrderingWellFounded
<1>2. Segments \subseteq FiniteSubsetsOf(Nat)
  <2>1. ASSUME NEW x \in T PROVE 0..x \in FiniteSubsetsOf(Nat)
    <3>1. IsFiniteSet(0..x)
      <4>1. x \in Int /\ 0 \in Int
        OBVIOUS
      <4>. QED BY ONLY <4>1, FS_Interval, Zenon
    <3>2. 0..x \subseteq Nat
      OBVIOUS
    <3>. QED BY <3>1, <3>2 DEF FiniteSubsetsOf
  <2>. QED BY <2>1
<1>3. Segments # {}
  OBVIOUS
<1>4. PICK s \in Segments : \A y \in Segments : ~ (<<y, s>> \in R)
  <2>. HIDE DEF Segments, R
  <2>. QED BY <1>1, <1>2, <1>3, WFMin
<1>5. PICK m \in T : s = 0..m
  OBVIOUS
<1>6. ASSUME NEW y \in T, ~(m <= y) PROVE FALSE
  <2>1. <<0..y, 0..m>> \in R
    <3>1. 0..y \subseteq 0..m /\ 0..y \subseteq Nat /\ 0..m \subseteq Nat
      BY <1>6
    <3>2. m \in 0..m /\ m \notin 0..y
      BY <1>6
    <3>. QED  BY <3>1, <3>2 DEF StrictSubsetOrdering
  <2>. QED BY <1>4, <1>5, <2>1
<1>. QED BY <1>6

(* Induction up to n: a set that has 0, and k + 1 with every k, has them all. *)
LEMMA UpTo ==
  ASSUME NEW n \in Nat, NEW T, 0 \in T, \A k \in 0..(n - 1) : k \in T => k + 1 \in T
  PROVE  \A k \in 0..n : k \in T
<1>. DEFINE Missing == {k \in 0..n : k \notin T}
<1>. SUFFICES ASSUME Missing # {} PROVE FALSE
  OBVIOUS
<1>1. PICK m \in Missing : \A y \in Missing : m <= y
  <2>1. Missing \in SUBSET Nat
    OBVIOUS
  <2>. HIDE DEF Missing
  <2>. QED  BY <2>1, LeastNat
<1>2. m \in 1..n
  BY <1>1
<1>3. m - 1 \in 0..(n - 1) /\ m - 1 \in T
  BY <1>1, <1>2
<1>. QED  BY <1>1, <1>2, <1>3

-----------------------------------------------------------------------------
(* Lists without repetitions, as the sets of their members. *)

(* Membership in the set of a list, by index. *)
LEMMA Members ==
  ASSUME NEW T, NEW q \in Seq(T)
  PROVE  /\ \A i \in 1..Len(q) : q[i] \in ToSet(q)
         /\ \A x : x \in ToSet(q) => \E i \in 1..Len(q) : q[i] = x
         /\ ToSet(q) \subseteq T
         /\ DOMAIN q = 1..Len(q)
BY LenProperties, ElementOfSeq DEF ToSet

(* In a list without repetitions an element has one index. *)
LEMMA SameIndex ==
  ASSUME NEW T, NEW q \in Seq(T), IsInjective(q)
  PROVE  \A i, j \in 1..Len(q) : q[i] = q[j] => i = j
BY Members DEF IsInjective

(* What removing one element leaves where. *)
LEMMA RemoveAtAt ==
  ASSUME NEW T, NEW q \in Seq(T), NEW i \in 1..Len(q)
  PROVE  /\ RemoveAt(q, i) \in Seq(T)
         /\ Len(RemoveAt(q, i)) = Len(q) - 1
         /\ \A j \in 1..(Len(q) - 1) :
              RemoveAt(q, i)[j] = IF j < i THEN q[j] ELSE q[j + 1]
<1>. DEFINE front == SubSeq(q, 1, i - 1)
            back == SubSeq(q, i + 1, Len(q))
<1>1. Len(q) \in Nat
  BY LenProperties
<1>2. /\ front \in Seq(T) /\ Len(front) = i - 1
      /\ \A j \in 1..(i - 1) : front[j] = q[j]
  BY <1>1
<1>3. /\ back \in Seq(T) /\ Len(back) = Len(q) - i
      /\ \A j \in 1..(Len(q) - i) : back[j] = q[i + j]
  BY <1>1
<1>4. RemoveAt(q, i) = front \o back
  BY DEF RemoveAt
<1>. HIDE DEF front, back
<1>5. front \o back \in Seq(T) /\ Len(front \o back) = Len(q) - 1
  <2>1. front \o back \in Seq(T) /\ Len(front \o back) = Len(front) + Len(back)
    BY <1>2, <1>3, ConcatProperties
  <2>. QED  BY <1>1, <1>2, <1>3, <2>1
<1>6. ASSUME NEW j \in 1..(Len(q) - 1)
      PROVE  (front \o back)[j] = IF j < i THEN q[j] ELSE q[j + 1]
  <2>1. CASE j < i
    BY <1>1, <1>2, <1>3, <2>1
  <2>2. CASE ~(j < i)
    <3>1. j - (i - 1) \in 1..(Len(q) - i) /\ i + (j - (i - 1)) = j + 1
      BY <1>1, <2>2
    <3>2. (front \o back)[j] = back[j - (i - 1)]
      BY <1>1, <1>2, <1>3, <2>2
    <3>. QED  BY <1>3, <2>2, <3>1, <3>2
  <2>. QED  BY <2>1, <2>2
<1>. QED  BY <1>4, <1>5, <1>6

(* Removing an element of a list without repetitions removes it from its set. *)
LEMMA RemoveMember ==
  ASSUME NEW T, NEW q \in Seq(T), IsInjective(q), NEW i \in 1..Len(q)
  PROVE  /\ RemoveAt(q, i) \in Seq(T)
         /\ IsInjective(RemoveAt(q, i))
         /\ ToSet(RemoveAt(q, i)) = ToSet(q) \ {q[i]}
<1>. DEFINE rest == RemoveAt(q, i)
            from(j) == IF j < i THEN j ELSE j + 1
<1>1. rest \in Seq(T) /\ Len(rest) = Len(q) - 1
  BY RemoveAtAt
<1>2. \A j \in 1..Len(rest) : from(j) \in 1..Len(q) /\ from(j) # i /\ rest[j] = q[from(j)]
  <2>. TAKE j \in 1..Len(rest)
  <2>1. j \in 1..(Len(q) - 1) /\ Len(q) \in Nat
    BY <1>1, LenProperties
  <2>2. rest[j] = IF j < i THEN q[j] ELSE q[j + 1]
    BY <2>1, RemoveAtAt
  <2>3. from(j) \in 1..Len(q) /\ from(j) # i
    BY <2>1
  <2>. QED  BY <2>2, <2>3
<1>3. \A j \in 1..Len(q) : j # i => \E m \in 1..Len(rest) : from(m) = j
  <2>. TAKE j \in 1..Len(q)
  <2>. HAVE j # i
  <2>1. CASE j < i
    BY <1>1, <2>1, LenProperties
  <2>2. CASE j > i
    <3>1. j - 1 \in 1..Len(rest) /\ from(j - 1) = j
      BY <1>1, <2>2, LenProperties
    <3>. QED  BY <3>1
  <2>. QED  BY <2>1, <2>2, LenProperties
<1>4. \A j, m \in 1..Len(q) : q[j] = q[m] => j = m
  BY Members DEF IsInjective
<1>5. \A j, m \in 1..Len(rest) : from(j) = from(m) => j = m
  BY <1>1, LenProperties
<1>. HIDE DEF rest, from
<1>6. IsInjective(rest)
  BY <1>1, <1>2, <1>4, <1>5, Members DEF IsInjective
<1>7. ASSUME NEW x \in ToSet(rest) PROVE x \in ToSet(q) \ {q[i]}
  <2>1. PICK j \in 1..Len(rest) : rest[j] = x
    BY <1>1, Members
  <2>. QED  BY <1>2, <1>4, <2>1, Members
<1>8. ASSUME NEW x \in ToSet(q) \ {q[i]} PROVE x \in ToSet(rest)
  <2>1. PICK j \in 1..Len(q) : q[j] = x
    BY Members
  <2>2. PICK m \in 1..Len(rest) : from(m) = j
    BY <1>3, <1>8, <2>1
  <2>. QED  BY <1>1, <1>2, <2>1, <2>2, Members
<1>. QED  BY <1>1, <1>6, <1>7, <1>8 DEF rest

(* Appending a new element. *)
LEMMA AppendMember ==
  ASSUME NEW T, NEW q \in Seq(T), IsInjective(q), NEW x \in T, x \notin ToSet(q)
  PROVE  /\ Append(q, x) \in Seq(T)
         /\ IsInjective(Append(q, x))
         /\ ToSet(Append(q, x)) = ToSet(q) \cup {x}
<1>. DEFINE more == Append(q, x)
<1>1. more \in Seq(T) /\ Len(more) = Len(q) + 1 /\ more[Len(q) + 1] = x
      /\ \A i \in 1..Len(q) : more[i] = q[i]
  OBVIOUS
<1>2. \A i \in 1..Len(more) : i \in 1..Len(q) \/ i = Len(q) + 1
  BY <1>1, LenProperties
<1>3. \A i \in 1..Len(q) : i \in 1..Len(more) /\ Len(q) + 1 \in 1..Len(more) /\ i # Len(q) + 1
  BY <1>1, LenProperties
<1>4. Len(q) + 1 \in 1..Len(more)
  BY <1>1, LenProperties
<1>. HIDE DEF more
<1>5. IsInjective(more)
  BY <1>1, <1>2, Members DEF IsInjective
<1>6. ToSet(more) \subseteq ToSet(q) \cup {x}
  BY <1>1, <1>2, Members
<1>7. ToSet(q) \cup {x} \subseteq ToSet(more)
  BY <1>1, <1>3, <1>4, Members
<1>. QED  BY <1>1, <1>5, <1>6, <1>7 DEF more

(* The first n elements of a list, as a set. *)
First(q, n) == {q[i] : i \in 1..n}

(* Taking the first n elements off a list without repetitions. *)
LEMMA DropFirst ==
  ASSUME NEW T, NEW q \in Seq(T), IsInjective(q), NEW n \in 0..Len(q)
  PROVE  /\ SubSeq(q, n + 1, Len(q)) \in Seq(T)
         /\ IsInjective(SubSeq(q, n + 1, Len(q)))
         /\ ToSet(SubSeq(q, n + 1, Len(q))) = ToSet(q) \ First(q, n)
<1>. DEFINE rest == SubSeq(q, n + 1, Len(q))
<1>1. rest \in Seq(T) /\ Len(rest) = Len(q) - n
      /\ \A i \in 1..(Len(q) - n) : rest[i] = q[i + n]
  BY LenProperties
<1>2. \A i \in 1..Len(rest) : i + n \in 1..Len(q) /\ rest[i] = q[i + n] /\ i + n \notin 1..n
  BY <1>1, LenProperties
<1>3. \A i \in 1..Len(q) : i \in 1..n \/ (i - n \in 1..Len(rest) /\ rest[i - n] = q[i])
  BY <1>1, LenProperties
<1>4. \A i, j \in 1..Len(q) : q[i] = q[j] => i = j
  BY Members DEF IsInjective
<1>5. 1..n \subseteq 1..Len(q)
  BY LenProperties
<1>6. \A i, j \in 1..Len(rest) : i + n = j + n => i = j
  BY <1>1, LenProperties
<1>. HIDE DEF rest
<1>7. IsInjective(rest)
  BY <1>1, <1>2, <1>4, <1>6, Members DEF IsInjective
<1>8. ASSUME NEW x \in ToSet(rest) PROVE x \in ToSet(q) \ First(q, n)
  <2>1. PICK i \in 1..Len(rest) : rest[i] = x
    BY <1>1, Members
  <2>. QED  BY <1>2, <1>4, <1>5, <2>1, Members DEF First
<1>9. ASSUME NEW x \in ToSet(q) \ First(q, n) PROVE x \in ToSet(rest)
  <2>1. PICK i \in 1..Len(q) : q[i] = x
    BY Members
  <2>2. i \notin 1..n
    BY <1>9, <2>1 DEF First
  <2>. QED  BY <1>1, <1>3, <2>1, <2>2, Members
<1>. QED  BY <1>1, <1>7, <1>8, <1>9 DEF rest

(* Putting the first n elements of one list behind another. *)
LEMMA JoinFirst ==
  ASSUME NEW T, NEW p \in Seq(T), NEW q \in Seq(T), IsInjective(p), IsInjective(q),
         ToSet(p) \cap ToSet(q) = {}, NEW n \in 0..Len(q)
  PROVE  /\ p \o SubSeq(q, 1, n) \in Seq(T)
         /\ IsInjective(p \o SubSeq(q, 1, n))
         /\ ToSet(p \o SubSeq(q, 1, n)) = ToSet(p) \cup First(q, n)
<1>. DEFINE both == p \o SubSeq(q, 1, n)
<1>1. both \in Seq(T) /\ Len(both) = Len(p) + n
  BY LenProperties
<1>2. \A i \in 1..Len(p) : i \in 1..Len(both) /\ both[i] = p[i]
  BY LenProperties
<1>3. \A i \in 1..n : Len(p) + i \in 1..Len(both) /\ both[Len(p) + i] = q[i] /\ i \in 1..Len(q)
  BY LenProperties
<1>4. \A i \in 1..Len(both) : i \in 1..Len(p) \/ (i - Len(p) \in 1..n /\ both[i] = q[i - Len(p)]
                                                  /\ i - Len(p) \in 1..Len(q))
  BY <1>1, LenProperties
<1>5. \A i, j \in 1..Len(q) : q[i] = q[j] => i = j
  BY Members DEF IsInjective
<1>6. \A i, j \in 1..Len(p) : p[i] = p[j] => i = j
  BY Members DEF IsInjective
<1>7. \A i, j \in 1..Len(both) : i - Len(p) = j - Len(p) => i = j
  BY <1>1, LenProperties
<1>8. \A i \in 1..Len(p), j \in 1..Len(q) : p[i] # q[j]
  BY Members
<1>. HIDE DEF both
<1>9. IsInjective(both)
  <2>. SUFFICES ASSUME NEW i \in 1..Len(both), NEW j \in 1..Len(both), both[i] = both[j]
                PROVE  i = j
    BY <1>1, Members DEF IsInjective
  <2>1. CASE i \in 1..Len(p) /\ j \in 1..Len(p)
    BY <1>2, <1>6, <2>1
  <2>2. CASE i \in 1..Len(p) /\ j \notin 1..Len(p)
    BY <1>2, <1>4, <1>8, <2>2
  <2>3. CASE i \notin 1..Len(p) /\ j \in 1..Len(p)
    BY <1>2, <1>4, <1>8, <2>3
  <2>4. CASE i \notin 1..Len(p) /\ j \notin 1..Len(p)
    BY <1>4, <1>5, <1>7, <2>4
  <2>. QED  BY <2>1, <2>2, <2>3, <2>4
<1>10. ASSUME NEW x \in ToSet(both) PROVE x \in ToSet(p) \cup First(q, n)
  <2>1. PICK i \in 1..Len(both) : both[i] = x
    BY <1>1, Members
  <2>. QED  BY <1>2, <1>4, <2>1, Members DEF First
<1>11. ASSUME NEW x \in ToSet(p) \cup First(q, n) PROVE x \in ToSet(both)
  <2>1. CASE x \in ToSet(p)
    <3>1. PICK i \in 1..Len(p) : p[i] = x
      BY <2>1, Members
    <3>. QED  BY <1>1, <1>2, <3>1, Members
  <2>2. CASE x \in First(q, n)
    <3>1. PICK i \in 1..n : q[i] = x
      BY <2>2 DEF First
    <3>. QED  BY <1>1, <1>3, <3>1, Members
  <2>. QED  BY <1>11, <2>1, <2>2
<1>. QED  BY <1>1, <1>9, <1>10, <1>11 DEF both

-----------------------------------------------------------------------------
(* The calls. *)

(* The first slots are all free and no request is anywhere. *)
LEMMA InitEstablishes == Init => IInv
<1>. SUFFICES ASSUME Init PROVE IInv
  OBVIOUS
<1>. USE RequestsAssumption, LimitsAssumption
<1>. DEFINE n == max_concurrent_requests
<1>1. n \in 1..MaxSlots /\ n \in Nat
  BY DEF Init
<1>2. /\ free_slots \in Seq(Nat) /\ Len(free_slots) = n
      /\ \A i \in 1..n : free_slots[i] = i - 1
  BY <1>1 DEF Init
<1>3. ToSet(free_slots) = 0..(n - 1)
  <2>1. \A s \in 0..(n - 1) : s + 1 \in 1..n /\ free_slots[s + 1] = s
    BY <1>1, <1>2
  <2>2. \A i \in 1..n : free_slots[i] \in 0..(n - 1)
    BY <1>1, <1>2
  <2>3. \A s \in 0..(n - 1) : s \in ToSet(free_slots)
    BY <1>2, <2>1, Members
  <2>4. ASSUME NEW s \in ToSet(free_slots) PROVE s \in 0..(n - 1)
    <3>1. PICK i \in 1..Len(free_slots) : free_slots[i] = s
      BY <1>2, Members
    <3>. QED  BY <1>2, <2>2, <3>1
  <2>. QED  BY <2>3, <2>4
<1>4. IsInjective(free_slots)
  BY <1>1, <1>2, Members DEF IsInjective
<1>5. <<>> \in Seq(Requests) /\ ToSet(<<>>) = {} /\ IsInjective(<<>>)
  BY DEF ToSet, IsInjective
<1>6. (CHOOSE c \in Chunks : TRUE) \in Chunks
  BY LimitsAssumption
<1>7. TypeOK
  BY <1>1, <1>2, <1>5, <1>6 DEF Init, TypeOK, RequestStates, NoSlot
<1>8. SlotPartition
  BY <1>3, <1>4, <1>5 DEF Init, SlotPartition
<1>9. OnePlace
  BY <1>5 DEF Init, OnePlace
<1>. QED  BY <1>7, <1>8, <1>9 DEF IInv

(* Steps that move no request and no slot. *)
LEMMA QuietKeeps ==
  ASSUME IInv, TypeOK',
         UNCHANGED <<placeVars, free_slots, state, batch_idx, max_concurrent_requests>>
  PROVE  IInv'
BY DEF IInv, OnePlace, SlotPartition, placeVars

LEMMA AddRequestKeeps ==
  ASSUME IInv, NEW r \in Requests, NEW chunk \in Chunks, AddRequest(r, chunk)
  PROVE  IInv'
<1>1. r \notin ToSet(waiting)
  BY DEF IInv, OnePlace, AddRequest
<1>2. /\ waiting' \in Seq(Requests) /\ IsInjective(waiting')
      /\ ToSet(waiting') = ToSet(waiting) \cup {r}
  BY <1>1, AppendMember DEF IInv, TypeOK, OnePlace, AddRequest
<1>3. TypeOK'
  BY <1>2 DEF IInv, TypeOK, AddRequest, RequestStates, limitVars, batchVars
<1>4. OnePlace'
  <2>1. \A t \in Requests : state'[t] = IF t = r THEN "waiting" ELSE state[t]
    BY DEF IInv, TypeOK, AddRequest
  <2>. QED  BY <1>2, <2>1 DEF IInv, OnePlace, AddRequest
<1>5. SlotPartition'
  BY DEF IInv, SlotPartition, AddRequest, limitVars
<1>. QED  BY <1>3, <1>4, <1>5 DEF IInv

(* The requests and slots that _assign_waiting_to_slots pairs up. *)
LEMMA AssignPairs ==
  ASSUME IInv, AssignWaitingToSlots
  PROVE  \E A \in SUBSET ToSet(waiting), G \in SUBSET ToSet(free_slots) :
           /\ waiting' \in Seq(Requests) /\ IsInjective(waiting')
           /\ ToSet(waiting') = ToSet(waiting) \ A
           /\ running' \in Seq(Requests) /\ IsInjective(running')
           /\ ToSet(running') = ToSet(running) \cup A
           /\ free_slots' \in Seq(Nat) /\ IsInjective(free_slots')
           /\ ToSet(free_slots') = ToSet(free_slots) \ G
           /\ \A r \in Requests : state'[r] = IF r \in A THEN "prefill" ELSE state[r]
           /\ \A r \in Requests \ A : batch_idx'[r] = batch_idx[r]
           /\ \A r \in A : batch_idx'[r] \in G
           /\ \A r, t \in A : batch_idx'[r] = batch_idx'[t] => r = t
           /\ \A s \in G : \E r \in A : batch_idx'[r] = s
           /\ DOMAIN state' = Requests /\ DOMAIN batch_idx' = Requests
           /\ state' = [r \in Requests |-> state'[r]]
           /\ batch_idx' = [r \in Requests |-> batch_idx'[r]]
<1>. DEFINE n == IF Len(waiting) < Len(free_slots) THEN Len(waiting) ELSE Len(free_slots)
            A == First(waiting, n)
            G == First(free_slots, n)
<1>1. /\ waiting \in Seq(Requests) /\ running \in Seq(Requests) /\ free_slots \in Seq(Nat)
      /\ IsInjective(waiting) /\ IsInjective(running) /\ IsInjective(free_slots)
  BY DEF IInv, TypeOK, OnePlace, SlotPartition
<1>2. n \in 0..Len(waiting) /\ n \in 0..Len(free_slots)
  BY <1>1, LenProperties
<1>3. \A i \in 1..n : i \in 1..Len(waiting) /\ i \in 1..Len(free_slots)
  BY <1>1, <1>2, LenProperties
<1>4. ToSet(running) \cap ToSet(waiting) = {}
  BY <1>1, Members DEF IInv, OnePlace
<1>5. /\ waiting' = SubSeq(waiting, n + 1, Len(waiting))
      /\ free_slots' = SubSeq(free_slots, n + 1, Len(free_slots))
      /\ running' = running \o SubSeq(waiting, 1, n)
      /\ state' = [r \in Requests |->
                     IF \E i \in 1..n : waiting[i] = r THEN "prefill" ELSE state[r]]
      /\ batch_idx' = [r \in Requests |->
                     IF \E i \in 1..n : waiting[i] = r
                     THEN free_slots[CHOOSE i \in 1..n : waiting[i] = r] ELSE batch_idx[r]]
  BY DEF AssignWaitingToSlots, SlotAfterAssign, AdmitCount
<1>. HIDE DEF n
<1>6. A \subseteq ToSet(waiting) /\ G \subseteq ToSet(free_slots) /\ A \subseteq Requests
  <2>1. \A i \in 1..n : waiting[i] \in ToSet(waiting) /\ free_slots[i] \in ToSet(free_slots)
    BY <1>1, <1>3, Members
  <2>2. ToSet(waiting) \subseteq Requests
    BY <1>1, Members
  <2>. QED  BY <2>1, <2>2 DEF First
<1>7. /\ waiting' \in Seq(Requests) /\ IsInjective(waiting')
      /\ ToSet(waiting') = ToSet(waiting) \ A
  BY <1>1, <1>2, <1>5, DropFirst
<1>8. /\ free_slots' \in Seq(Nat) /\ IsInjective(free_slots')
      /\ ToSet(free_slots') = ToSet(free_slots) \ G
  BY <1>1, <1>2, <1>5, DropFirst
<1>9. /\ running' \in Seq(Requests) /\ IsInjective(running')
      /\ ToSet(running') = ToSet(running) \cup A
  <2>1. /\ running \o SubSeq(waiting, 1, n) \in Seq(Requests)
        /\ IsInjective(running \o SubSeq(waiting, 1, n))
        /\ ToSet(running \o SubSeq(waiting, 1, n)) = ToSet(running) \cup A
    BY <1>1, <1>2, <1>4, JoinFirst
  <2>. QED  BY <1>5, <2>1
<1>10. \A r : r \in A <=> \E i \in 1..n : waiting[i] = r
  BY DEF First
<1>11. \A r \in Requests : state'[r] = IF r \in A THEN "prefill" ELSE state[r]
  BY <1>5, <1>10
<1>12. \A r \in Requests \ A : batch_idx'[r] = batch_idx[r]
  BY <1>5, <1>10
<1>13. \A i \in 1..n : batch_idx'[waiting[i]] = free_slots[i]
  <2>. TAKE i \in 1..n
  <2>1. waiting[i] \in Requests
    BY <1>1, <1>3, Members
  <2>2. \A j \in 1..n : waiting[j] = waiting[i] => j = i
    BY <1>1, <1>3, SameIndex
  <2>3. (CHOOSE j \in 1..n : waiting[j] = waiting[i]) = i
    BY <2>2
  <2>. QED  BY <1>5, <2>1, <2>3
<1>14. \A r \in A : \E i \in 1..n : waiting[i] = r /\ batch_idx'[r] = free_slots[i]
  BY <1>10, <1>13
<1>15. \A r \in A : batch_idx'[r] \in G
  BY <1>14 DEF First
<1>16. \A r, t \in A : batch_idx'[r] = batch_idx'[t] => r = t
  <2>1. \A i, j \in 1..n : free_slots[i] = free_slots[j] => i = j
    BY <1>1, <1>3, SameIndex
  <2>. QED  BY <1>14, <2>1
<1>17. \A s \in G : \E r \in A : batch_idx'[r] = s
  <2>. TAKE s \in G
  <2>1. PICK i \in 1..n : free_slots[i] = s
    BY DEF First
  <2>. QED  BY <1>10, <1>13, <2>1
<1>18. /\ state' = [r \in Requests |-> state'[r]]
       /\ batch_idx' = [r \in Requests |-> batch_idx'[r]]
       /\ DOMAIN state' = Requests /\ DOMAIN batch_idx' = Requests
  BY <1>5
<1>. HIDE DEF A, G
<1>. QED  BY <1>6, <1>7, <1>8, <1>9, <1>11, <1>12, <1>15, <1>16, <1>17, <1>18

(* The rows of a batch are running requests. *)
LEMMA RowTypes ==
  ASSUME NEW run \in Seq(Requests), NEW st, NEW budget
  PROVE  DecodeRows(run, st, budget) \subseteq Requests
         /\ PrefillRows(run, st, budget) \subseteq Requests
<1>1. \A i \in DOMAIN run : run[i] \in Requests
  BY Members
<1>2. DecodeRows(run, st, budget) \subseteq Requests
  BY <1>1, Zenon DEF DecodeRows
<1>3. PrefillRows(run, st, budget) \subseteq Requests
  BY <1>1, Zenon DEF PrefillRows
<1>. QED  BY <1>2, <1>3

LEMMA ScheduleKeeps == ASSUME IInv, Schedule PROVE IInv'
<1>0. AssignWaitingToSlots
  BY DEF Schedule
<1>1. PICK A \in SUBSET ToSet(waiting), G \in SUBSET ToSet(free_slots) :
           /\ waiting' \in Seq(Requests) /\ IsInjective(waiting')
           /\ ToSet(waiting') = ToSet(waiting) \ A
           /\ running' \in Seq(Requests) /\ IsInjective(running')
           /\ ToSet(running') = ToSet(running) \cup A
           /\ free_slots' \in Seq(Nat) /\ IsInjective(free_slots')
           /\ ToSet(free_slots') = ToSet(free_slots) \ G
           /\ \A r \in Requests : state'[r] = IF r \in A THEN "prefill" ELSE state[r]
           /\ \A r \in Requests \ A : batch_idx'[r] = batch_idx[r]
           /\ \A r \in A : batch_idx'[r] \in G
           /\ \A r, t \in A : batch_idx'[r] = batch_idx'[t] => r = t
           /\ \A s \in G : \E r \in A : batch_idx'[r] = s
           /\ DOMAIN state' = Requests /\ DOMAIN batch_idx' = Requests
           /\ state' = [r \in Requests |-> state'[r]]
           /\ batch_idx' = [r \in Requests |-> batch_idx'[r]]
  BY <1>0, AssignPairs
<1>2. UNCHANGED <<max_concurrent_requests, max_tokens_per_step, completed, failed,
                  prefill_offset, prefill_chunk_size, num_generated>> /\ rejected' = FALSE
  BY DEF Schedule, limitVars
<1>3. /\ ToSet(waiting) \subseteq Requests /\ ToSet(running) \subseteq Requests
      /\ ToSet(free_slots) \subseteq Nat
  BY Members DEF IInv, TypeOK
<1>4. TypeOK'
  <2>1. state' \in [Requests -> RequestStates]
    <3>1. \A r \in Requests : state'[r] \in RequestStates
      BY <1>1 DEF IInv, TypeOK, RequestStates
    <3>. QED  BY <1>1, <3>1
  <2>2. batch_idx' \in [Requests -> Nat \cup {NoSlot}]
    <3>1. \A r \in Requests : batch_idx'[r] \in Nat \cup {NoSlot}
      BY <1>1, <1>3 DEF IInv, TypeOK
    <3>. QED  BY <1>1, <3>1
  <2>3. decode_requests' \subseteq Requests /\ prefill_requests' \subseteq Requests
    BY <1>1, RowTypes DEF Schedule
  <2>. QED  BY <1>1, <1>2, <2>1, <2>2, <2>3 DEF IInv, TypeOK
<1>5. OnePlace'
  <2>1. \A r \in A : r \in Requests /\ state[r] = "waiting" /\ r \notin ToSet(running)
    BY <1>1, <1>3 DEF IInv, OnePlace
  <2>2. ASSUME NEW r \in Requests
        PROVE  /\ r \in ToSet(waiting') <=> state'[r] = "waiting"
               /\ r \in ToSet(running') <=> state'[r] \in {"prefill", "decode"}
               /\ r \in completed' \cup failed' <=> state'[r] = "finished"
               /\ r \notin ToSet(running') => batch_idx'[r] = NoSlot
    <3>1. CASE r \in A
      BY <1>1, <1>2, <2>1, <3>1 DEF IInv, OnePlace
    <3>2. CASE r \notin A
      BY <1>1, <1>2, <3>2 DEF IInv, OnePlace
    <3>. QED  BY <3>1, <3>2
  <2>. QED  BY <1>1, <1>2, <2>2 DEF IInv, OnePlace
<1>6. SlotPartition'
  <2>. DEFINE slots == 0..(max_concurrent_requests - 1)
  <2>1. max_concurrent_requests' = max_concurrent_requests
    BY <1>2
  <2>2. \A r \in A : r \in Requests /\ r \notin ToSet(running)
    BY <1>1, <1>3 DEF IInv, OnePlace
  <2>3. \A r \in ToSet(running) : r \in Requests \ A /\ batch_idx'[r] = batch_idx[r]
    BY <1>1, <1>3, <2>2
  <2>4. /\ ToSet(free_slots) \subseteq slots
        /\ \A r \in ToSet(running) : batch_idx[r] \in slots \ ToSet(free_slots)
        /\ \A r, t \in ToSet(running) : batch_idx[r] = batch_idx[t] => r = t
        /\ \A s \in slots : s \in ToSet(free_slots) \/ \E r \in ToSet(running) : batch_idx[r] = s
    BY DEF IInv, SlotPartition
  <2>. HIDE DEF slots
  <2>5. \A r \in ToSet(running') : batch_idx'[r] \in slots \ ToSet(free_slots')
    BY <1>1, <2>3, <2>4
  <2>6. \A r, t \in ToSet(running') : batch_idx'[r] = batch_idx'[t] => r = t
    BY <1>1, <2>3, <2>4
  <2>7. \A s \in slots : s \in ToSet(free_slots') \/ \E r \in ToSet(running') : batch_idx'[r] = s
    BY <1>1, <2>3, <2>4
  <2>8. ToSet(free_slots') \subseteq slots
    BY <1>1, <2>4
  <2>. QED  BY <1>1, <2>1, <2>5, <2>6, <2>7, <2>8 DEF SlotPartition, slots
<1>. QED  BY <1>4, <1>5, <1>6 DEF IInv

LEMMA AdvancePrefillKeeps ==
  ASSUME IInv, NEW r \in Requests, NEW n \in Nat, AdvancePrefill(r, n)
  PROVE  IInv'
<1>1. TypeOK'
  BY DEF IInv, TypeOK, AdvancePrefill, placeVars, limitVars
<1>. QED  BY <1>1, QuietKeeps DEF AdvancePrefill, placeVars, limitVars

LEMMA MarkPrefillDoneKeeps ==
  ASSUME IInv, NEW r \in Requests, MarkPrefillDone(r)
  PROVE  IInv'
<1>1. TypeOK'
  BY DEF IInv, TypeOK, MarkPrefillDone, placeVars, limitVars, batchVars, RequestStates
<1>2. \A t \in Requests : state'[t] = IF t = r THEN "decode" ELSE state[t]
  BY DEF IInv, TypeOK, MarkPrefillDone
<1>3. state[r] = "prefill" /\ UNCHANGED <<placeVars, free_slots, batch_idx, limitVars>>
  BY DEF MarkPrefillDone
<1>4. OnePlace'
  BY <1>2, <1>3 DEF IInv, OnePlace, placeVars
<1>5. SlotPartition'
  BY <1>3 DEF IInv, SlotPartition, placeVars, limitVars
<1>. QED  BY <1>1, <1>4, <1>5 DEF IInv

(* A running request hands its slot back and is nowhere for a moment. *)
LEMMA LeavesRunning ==
  ASSUME IInv, NEW r \in Requests, LeaveRunning(r)
  PROVE  /\ r \in ToSet(running)
         /\ running' \in Seq(Requests) /\ IsInjective(running')
         /\ ToSet(running') = ToSet(running) \ {r}
         /\ batch_idx[r] \in Nat
         /\ free_slots' \in Seq(Nat) /\ IsInjective(free_slots')
         /\ ToSet(free_slots') = ToSet(free_slots) \cup {batch_idx[r]}
         /\ state' \in [Requests -> RequestStates]
         /\ \A t \in Requests : state'[t] = IF t = r THEN "finished" ELSE state[t]
         /\ batch_idx' \in [Requests -> Nat \cup {NoSlot}]
         /\ \A t \in Requests : batch_idx'[t] = IF t = r THEN NoSlot ELSE batch_idx[t]
<1>1. PICK i \in DOMAIN running : running[i] = r /\ running' = RemoveAt(running, i)
  BY DEF LeaveRunning
<1>2. i \in 1..Len(running) /\ running \in Seq(Requests) /\ IsInjective(running)
  BY <1>1, Members DEF IInv, TypeOK, OnePlace
<1>3. /\ running' \in Seq(Requests) /\ IsInjective(running')
      /\ ToSet(running') = ToSet(running) \ {r}
  BY <1>1, <1>2, RemoveMember
<1>4. r \in ToSet(running)
  BY <1>1, <1>2, Members
<1>5. batch_idx[r] \in Nat /\ batch_idx[r] # NoSlot /\ batch_idx[r] \notin ToSet(free_slots)
  <2>1. batch_idx[r] \in 0..(max_concurrent_requests - 1) \ ToSet(free_slots)
    BY <1>4 DEF IInv, SlotPartition
  <2>. QED  BY <2>1 DEF NoSlot
<1>6. free_slots' = Append(free_slots, batch_idx[r])
  BY <1>5 DEF LeaveRunning
<1>7. /\ free_slots' \in Seq(Nat) /\ IsInjective(free_slots')
      /\ ToSet(free_slots') = ToSet(free_slots) \cup {batch_idx[r]}
  <2>1. free_slots \in Seq(Nat) /\ IsInjective(free_slots)
    BY DEF IInv, TypeOK, SlotPartition
  <2>2. /\ Append(free_slots, batch_idx[r]) \in Seq(Nat)
        /\ IsInjective(Append(free_slots, batch_idx[r]))
        /\ ToSet(Append(free_slots, batch_idx[r])) = ToSet(free_slots) \cup {batch_idx[r]}
    BY <1>5, <2>1, AppendMember
  <2>. QED  BY <1>6, <2>2
<1>8. /\ state' \in [Requests -> RequestStates]
      /\ \A t \in Requests : state'[t] = IF t = r THEN "finished" ELSE state[t]
  BY DEF IInv, TypeOK, LeaveRunning, RequestStates
<1>9. /\ batch_idx' \in [Requests -> Nat \cup {NoSlot}]
      /\ \A t \in Requests : batch_idx'[t] = IF t = r THEN NoSlot ELSE batch_idx[t]
  BY DEF IInv, TypeOK, LeaveRunning
<1>. QED  BY <1>3, <1>4, <1>5, <1>7, <1>8, <1>9

(* Once the request that left is booked as finished, everything is in order. *)
LEMMA LeaveKeeps ==
  ASSUME IInv, NEW r \in Requests, LeaveRunning(r), TypeOK',
         UNCHANGED <<waiting, max_concurrent_requests>>,
         \/ completed' = completed \cup {r} /\ failed' = failed
         \/ failed' = failed \cup {r} /\ completed' = completed
  PROVE  IInv'
<1>1. /\ r \in ToSet(running)
      /\ running' \in Seq(Requests) /\ IsInjective(running')
      /\ ToSet(running') = ToSet(running) \ {r}
      /\ batch_idx[r] \in Nat
      /\ free_slots' \in Seq(Nat) /\ IsInjective(free_slots')
      /\ ToSet(free_slots') = ToSet(free_slots) \cup {batch_idx[r]}
      /\ \A t \in Requests : state'[t] = IF t = r THEN "finished" ELSE state[t]
      /\ \A t \in Requests : batch_idx'[t] = IF t = r THEN NoSlot ELSE batch_idx[t]
  BY LeavesRunning
<1>2. state[r] \in {"prefill", "decode"}
  BY <1>1 DEF IInv, OnePlace
<1>3. r \notin ToSet(waiting) /\ r \notin completed /\ r \notin failed
  BY <1>2 DEF IInv, OnePlace
<1>4. completed' \cup failed' = (completed \cup failed) \cup {r} /\ completed' \cap failed' = {}
  BY <1>3 DEF IInv, OnePlace
<1>5. OnePlace'
  <2>1. ASSUME NEW t \in Requests
        PROVE  /\ t \in ToSet(waiting') <=> state'[t] = "waiting"
               /\ t \in ToSet(running') <=> state'[t] \in {"prefill", "decode"}
               /\ t \in completed' \cup failed' <=> state'[t] = "finished"
               /\ t \notin ToSet(running') => batch_idx'[t] = NoSlot
    <3>1. CASE t = r
      BY <1>1, <1>3, <1>4, <3>1
    <3>2. CASE t # r
      BY <1>1, <1>4, <3>2 DEF IInv, OnePlace
    <3>. QED  BY <3>1, <3>2
  <2>. QED  BY <1>1, <1>4, <2>1 DEF IInv, OnePlace
<1>6. SlotPartition'
  <2>. DEFINE slots == 0..(max_concurrent_requests - 1)
  <2>1. /\ ToSet(free_slots) \subseteq slots
        /\ \A t \in ToSet(running) : batch_idx[t] \in slots \ ToSet(free_slots)
        /\ \A t, u \in ToSet(running) : batch_idx[t] = batch_idx[u] => t = u
        /\ \A s \in slots : s \in ToSet(free_slots) \/ \E t \in ToSet(running) : batch_idx[t] = s
    BY DEF IInv, SlotPartition
  <2>2. ToSet(running) \subseteq Requests
    BY Members DEF IInv, TypeOK
  <2>. HIDE DEF slots
  <2>3. \A t \in ToSet(running') : t \in ToSet(running) /\ t # r /\ batch_idx'[t] = batch_idx[t]
    BY <1>1, <2>2
  <2>4. \A t \in ToSet(running') : batch_idx'[t] \in slots \ ToSet(free_slots')
    BY <1>1, <2>1, <2>3
  <2>5. \A t, u \in ToSet(running') : batch_idx'[t] = batch_idx'[u] => t = u
    BY <2>1, <2>3
  <2>6. \A s \in slots : s \in ToSet(free_slots') \/ \E t \in ToSet(running') : batch_idx'[t] = s
    BY <1>1, <2>1, <2>3
  <2>7. ToSet(free_slots') \subseteq slots
    BY <1>1, <2>1
  <2>. QED  BY <1>1, <2>4, <2>5, <2>6, <2>7 DEF SlotPartition, slots
<1>. QED  BY <1>5, <1>6 DEF IInv

LEMMA MarkDecodeDoneKeeps ==
  ASSUME IInv, NEW r \in Requests, MarkDecodeDone(r)
  PROVE  IInv'
<1>1. /\ num_generated' \in [Requests -> Nat]
      /\ prefill_requests' \subseteq Requests /\ decode_requests' \subseteq Requests
      /\ rejected' \in BOOLEAN
      /\ UNCHANGED <<limitVars, waiting, failed, prefill_offset, prefill_chunk_size>>
  <2>1. num_generated \in [Requests -> Nat]
    BY DEF IInv, TypeOK
  <2>2. num_generated' = [num_generated EXCEPT ![r] = @ + 1]
    BY DEF MarkDecodeDone
  <2>3. num_generated' \in [Requests -> Nat]
    BY <2>1, <2>2
  <2>4. prefill_requests' = prefill_requests \ {r} /\ decode_requests' = decode_requests \ {r}
        /\ rejected' = FALSE
        /\ UNCHANGED <<limitVars, waiting, failed, prefill_offset, prefill_chunk_size>>
    BY DEF MarkDecodeDone
  <2>. QED  BY <2>3, <2>4 DEF IInv, TypeOK
<1>2. CASE LeaveRunning(r) /\ completed' = completed \cup {r}
  <2>1. /\ running' \in Seq(Requests) /\ free_slots' \in Seq(Nat)
        /\ state' \in [Requests -> RequestStates]
        /\ batch_idx' \in [Requests -> Nat \cup {NoSlot}]
    BY <1>2, LeavesRunning
  <2>2. TypeOK'
    BY <1>1, <1>2, <2>1 DEF IInv, TypeOK, limitVars
  <2>. QED  BY <1>1, <1>2, <2>2, LeaveKeeps DEF limitVars
<1>3. CASE UNCHANGED <<running, state, free_slots, batch_idx, completed>>
  <2>1. TypeOK'
    BY <1>1, <1>3 DEF IInv, TypeOK, limitVars
  <2>. QED  BY <1>1, <1>3, <2>1, QuietKeeps DEF limitVars, placeVars
<1>. QED  BY <1>2, <1>3 DEF MarkDecodeDone

LEMMA CancelRequestKeeps ==
  ASSUME IInv, NEW r \in Requests, CancelRequest(r)
  PROVE  IInv'
<1>1. UNCHANGED <<max_concurrent_requests, max_tokens_per_step, completed, prefill_offset,
                  prefill_chunk_size, num_generated, prefill_requests, decode_requests>>
  BY DEF CancelRequest, limitVars, batchVars
<1>2. CASE CancelWaiting(r)
  <2>1. PICK i \in DOMAIN waiting : waiting[i] = r /\ waiting' = RemoveAt(waiting, i)
    BY <1>2 DEF CancelWaiting
  <2>2. i \in 1..Len(waiting) /\ waiting \in Seq(Requests) /\ IsInjective(waiting)
    BY <2>1, Members DEF IInv, TypeOK, OnePlace
  <2>3. /\ waiting' \in Seq(Requests) /\ IsInjective(waiting')
        /\ ToSet(waiting') = ToSet(waiting) \ {r}
    BY <2>1, <2>2, RemoveMember
  <2>4. /\ state' \in [Requests -> RequestStates]
        /\ \A t \in Requests : state'[t] = IF t = r THEN "finished" ELSE state[t]
    BY <1>2 DEF IInv, TypeOK, CancelWaiting, RequestStates
  <2>5. r \in ToSet(waiting)
    BY <2>1, <2>2, Members
  <2>6. r \notin ToSet(running) /\ r \notin completed
    BY <2>5 DEF IInv, OnePlace
  <2>7. failed' = failed \cup {r} /\ rejected' = FALSE /\ UNCHANGED <<running, free_slots, batch_idx>>
    BY <1>2 DEF CancelWaiting
  <2>8. TypeOK'
    BY <1>1, <2>3, <2>4, <2>7 DEF IInv, TypeOK
  <2>9. OnePlace'
    BY <1>1, <2>3, <2>4, <2>6, <2>7 DEF IInv, OnePlace
  <2>10. SlotPartition'
    BY <1>1, <2>7 DEF IInv, SlotPartition
  <2>. QED  BY <2>8, <2>9, <2>10 DEF IInv
<1>3. CASE CancelRunning(r)
  <2>1. /\ running' \in Seq(Requests) /\ free_slots' \in Seq(Nat)
        /\ state' \in [Requests -> RequestStates]
        /\ batch_idx' \in [Requests -> Nat \cup {NoSlot}]
    BY <1>3, LeavesRunning DEF CancelRunning
  <2>2. failed' = failed \cup {r} /\ rejected' = FALSE /\ UNCHANGED waiting
    BY <1>3 DEF CancelRunning
  <2>3. TypeOK'
    BY <1>1, <2>1, <2>2 DEF IInv, TypeOK
  <2>. QED  BY <1>1, <1>3, <2>2, <2>3, LeaveKeeps DEF CancelRunning
<1>4. CASE CancelUnknown(r)
  <2>1. TypeOK'
    BY <1>1, <1>4 DEF IInv, TypeOK, CancelUnknown
  <2>. QED  BY <1>1, <1>4, <2>1, QuietKeeps DEF CancelUnknown, placeVars
<1>. QED  BY <1>2, <1>3, <1>4 DEF CancelRequest

(* A strictly increasing list has no repetitions. *)
LEMMA SortedIsInjective ==
  ASSUME NEW q \in Seq(Nat), \A i, j \in DOMAIN q : i < j => q[i] < q[j]
  PROVE  IsInjective(q)
<1>. SUFFICES ASSUME NEW i \in 1..Len(q), NEW j \in 1..Len(q), q[i] = q[j]
              PROVE  i = j
  BY Members DEF IsInjective
<1>1. q[i] \in Nat /\ q[j] \in Nat /\ i \in Int /\ j \in Int
  BY ElementOfSeq, LenProperties
<1>2. ~(i < j) /\ ~(j < i)
  BY <1>1, Members
<1>. QED  BY <1>1, <1>2

(* What sort() may return. *)
LEMMA SortedList ==
  ASSUME NEW n \in Nat, NEW slots \in SUBSET (0..n), NEW q \in [1..Cardinality(slots) -> slots],
         SortedSlots(q, slots)
  PROVE  q \in Seq(Nat) /\ IsInjective(q) /\ ToSet(q) = slots
<1>1. Cardinality(slots) \in Nat
  <2>1. IsFiniteSet(0..n)
    BY FS_Interval
  <2>. QED  BY <2>1, FS_Subset, FS_CardinalityType
<1>2. q \in Seq(Nat)
  <2>1. slots \subseteq Nat
    OBVIOUS
  <2>2. q \in [1..Cardinality(slots) -> Nat]
    BY <2>1
  <2>. HIDE DEF SortedSlots
  <2>. DEFINE c == Cardinality(slots)
  <2>3. c \in Nat /\ q \in [1..c -> Nat]
    BY <1>1, <2>2
  <2>. HIDE DEF c
  <2>. QED  BY <2>3
<1>. QED  BY <1>2, SortedIsInjective DEF SortedSlots

LEMMA ReconfigureKeeps ==
  ASSUME IInv, NEW tokens \in Budgets \cup {0}, NEW new \in 0..MaxSlots, NEW init \in BOOLEAN,
         Reconfigure(tokens, new, init)
  PROVE  IInv'
<1>1. /\ max_tokens_per_step' \in Budgets /\ rejected' \in BOOLEAN
      /\ UNCHANGED <<waiting, running, completed, failed, state, batch_idx, prefill_offset,
                     prefill_chunk_size, num_generated, prefill_requests, decode_requests>>
  BY LimitsAssumption DEF IInv, TypeOK, Reconfigure, placeVars, batchVars
<1>2. CASE UNCHANGED <<max_concurrent_requests, free_slots>>
  <2>1. TypeOK'
    BY <1>1, <1>2 DEF IInv, TypeOK
  <2>. QED  BY <1>1, <1>2, <2>1, QuietKeeps DEF placeVars
<1>3. CASE ~rejected' /\ new # max_concurrent_requests
  <2>. DEFINE kept == {s \in ToSet(free_slots) : s < new}
              grown == ToSet(free_slots) \cup max_concurrent_requests..(new - 1)
              slots == IF new > max_concurrent_requests THEN grown ELSE kept
              old == max_concurrent_requests
  <2>1. ApplyMaxConcurrent(new) /\ ~CannotApply(new, init)
    BY <1>3 DEF Reconfigure
  <2>2. new \in 1..MaxSlots /\ old \in 1..MaxSlots /\ new \in Nat /\ old \in Nat
    BY <2>1, LimitsAssumption DEF CannotApply, IInv, TypeOK
  <2>3. /\ ToSet(free_slots) \subseteq 0..(old - 1)
        /\ \A r \in ToSet(running) : batch_idx[r] \in 0..(old - 1) \ ToSet(free_slots)
        /\ \A s \in 0..(old - 1) :
             s \in ToSet(free_slots) \/ \E r \in ToSet(running) : batch_idx[r] = s
    BY DEF IInv, SlotPartition
  <2>4. \A r \in ToSet(running) : batch_idx[r] < new
    <3>. TAKE r \in ToSet(running)
    <3>1. PICK i \in DOMAIN running : running[i] = r
      BY DEF ToSet
    <3>2. ~(batch_idx[running[i]] >= new)
      BY <1>3, <2>1 DEF CannotApply
    <3>3. batch_idx[r] \in 0..(old - 1)
      BY <2>3
    <3>. QED  BY <2>2, <3>1, <3>2, <3>3
  <2>5. PICK q \in [1..Cardinality(slots) -> slots] : SortedSlots(q, slots) /\ free_slots' = q
    BY <1>3, <2>1 DEF ApplyMaxConcurrent
  <2>6. max_concurrent_requests' = new
    BY <1>3, <2>1 DEF ApplyMaxConcurrent
  <2>7. slots \subseteq 0..(new - 1)
    BY <2>2, <2>3
  <2>8. \A r \in ToSet(running) : batch_idx[r] \in 0..(new - 1) \ slots
    BY <2>2, <2>3, <2>4
  <2>9. \A s \in 0..(new - 1) : s \in slots \/ \E r \in ToSet(running) : batch_idx[r] = s
    <3>. TAKE s \in 0..(new - 1)
    <3>1. CASE s \in 0..(old - 1)
      BY <2>2, <2>3, <3>1
    <3>2. CASE s \notin 0..(old - 1)
      BY <2>2, <3>2
    <3>. QED  BY <3>1, <3>2
  <2>. HIDE DEF slots
  <2>10. free_slots' \in Seq(Nat) /\ IsInjective(free_slots') /\ ToSet(free_slots') = slots
    <3>1. new - 1 \in Nat
      BY <2>2
    <3>. QED  BY <2>5, <2>7, <3>1, SortedList
  <2>11. TypeOK'
    BY <1>1, <2>2, <2>6, <2>10 DEF IInv, TypeOK
  <2>12. OnePlace'
    BY <1>1 DEF IInv, OnePlace
  <2>13. SlotPartition'
    BY <1>1, <2>6, <2>7, <2>8, <2>9, <2>10 DEF IInv, SlotPartition
  <2>. QED  BY <2>11, <2>12, <2>13 DEF IInv
<1>. QED  BY <1>2, <1>3 DEF Reconfigure, ApplyMaxConcurrent

LEMMA NextKeeps == ASSUME IInv, [Next]_vars PROVE IInv'
<1>1. CASE Next
  <2>1. ASSUME NEW r \in Requests, NEW chunk \in Chunks, AddRequest(r, chunk) PROVE IInv'
    BY <2>1, AddRequestKeeps
  <2>2. CASE Schedule
    BY <2>2, ScheduleKeeps
  <2>3. ASSUME NEW r \in Requests, NEW n \in (prefill_offset[r] + 1)..PromptLen[r],
               AdvancePrefill(r, n)
        PROVE  IInv'
    <3>1. n \in Nat
      BY RequestsAssumption DEF IInv, TypeOK
    <3>. QED  BY <2>3, <3>1, AdvancePrefillKeeps
  <2>4. ASSUME NEW r \in Requests, MarkPrefillDone(r) PROVE IInv'
    BY <2>4, MarkPrefillDoneKeeps
  <2>5. ASSUME NEW r \in Requests, MarkDecodeDone(r) PROVE IInv'
    BY <2>5, MarkDecodeDoneKeeps
  <2>6. ASSUME NEW r \in Requests, CancelRequest(r) PROVE IInv'
    BY <2>6, CancelRequestKeeps
  <2>7. ASSUME NEW tokens \in Budgets \cup {0}, NEW new \in 0..MaxSlots, NEW init \in BOOLEAN,
               Reconfigure(tokens, new, init)
        PROVE  IInv'
    BY <2>7, ReconfigureKeeps
  <2>. QED  BY <1>1, <2>1, <2>2, <2>3, <2>4, <2>5, <2>6, <2>7 DEF Next
<1>2. CASE UNCHANGED vars
  <2>1. TypeOK'
    BY <1>2 DEF IInv, TypeOK, vars, limitVars, placeVars, batchVars
  <2>. QED  BY <1>2, <2>1, QuietKeeps DEF vars, limitVars
<1>. QED  BY <1>1, <1>2

(* The inductive invariant holds in every reachable state. *)
THEOREM Invariance == Spec => []IInv
<1>. QED  BY InitEstablishes, NextKeeps, PTL DEF Spec

(* Every variable keeps its type. *)
THEOREM TypeCorrect == Spec => []TypeOK
<1>1. IInv => TypeOK
  BY DEF IInv
<1>. QED  BY <1>1, Invariance, PTL

(* No slot is lost and no slot is given to two running requests. *)
THEOREM SlotsStayPartitioned == Spec => []SlotPartition
<1>1. IInv => SlotPartition
  BY DEF IInv
<1>. QED  BY <1>1, Invariance, PTL

(* No request is lost, and none is in two places. *)
THEOREM RequestsStayInOnePlace == Spec => []OnePlace
<1>1. IInv => OnePlace
  BY DEF IInv
<1>. QED  BY <1>1, Invariance, PTL

(* A request that runs on keeps its slot. *)
THEOREM SlotsAreKept == Spec => SlotKept
<1>. DEFINE Kept == \A r \in ToSet(running) \cap ToSet(running') : batch_idx'[r] = batch_idx[r]
<1>1. ASSUME IInv, Next PROVE Kept
  <2>1. CASE UNCHANGED batch_idx
    BY <2>1
  <2>2. ASSUME NEW r \in Requests, LeaveRunning(r) PROVE Kept
    <3>1. ToSet(running) \subseteq Requests
      BY <1>1, Members DEF IInv, TypeOK
    <3>2. r \notin ToSet(running')
          /\ \A t \in Requests : batch_idx'[t] = IF t = r THEN NoSlot ELSE batch_idx[t]
      BY <1>1, <2>2, LeavesRunning
    <3>. QED  BY <3>1, <3>2
  <2>3. CASE Schedule
    <3>1. PICK A \in SUBSET ToSet(waiting) :
            \A r \in Requests \ A : batch_idx'[r] = batch_idx[r]
      <4>1. AssignWaitingToSlots
        BY <2>3 DEF Schedule
      <4>. QED  BY <1>1, <4>1, AssignPairs
    <3>2. ToSet(running) \subseteq Requests /\ ToSet(running) \cap ToSet(waiting) = {}
      BY <1>1, Members DEF IInv, TypeOK, OnePlace
    <3>. QED  BY <3>1, <3>2
  <2>4. ASSUME NEW r \in Requests, MarkDecodeDone(r) \/ CancelRequest(r) PROVE Kept
    BY <2>1, <2>2, <2>4 DEF MarkDecodeDone, CancelRequest, CancelWaiting, CancelRunning,
                            CancelUnknown
  <2>. QED  BY <1>1, <2>1, <2>3, <2>4 DEF Next, AddRequest, AdvancePrefill, MarkPrefillDone,
                                          Reconfigure
<1>2. ASSUME UNCHANGED vars PROVE Kept
  BY <1>2 DEF vars
<1>3. IInv /\ [Next]_vars => [Kept]_vars
  BY <1>1, <1>2
<1>. QED  BY <1>3, Invariance, PTL DEF Spec, SlotKept

(* Whoever starts to run leaves no earlier arrival waiting. *)
THEOREM FirstComeIsFirstServed == Spec => FirstComeFirstServed
<1>. DEFINE Fair == \A j \in DOMAIN waiting : waiting[j] \in ToSet(running') =>
                      \A i \in 1..j : waiting[i] \in ToSet(running')
<1>0. ASSUME IInv
      PROVE  /\ waiting \in Seq(Requests) /\ running \in Seq(Requests)
             /\ IsInjective(waiting) /\ IsInjective(running)
             /\ DOMAIN waiting = 1..Len(waiting)
             /\ \A j \in DOMAIN waiting : waiting[j] \in ToSet(waiting)
             /\ ToSet(running) \cap ToSet(waiting) = {}
  <2>1. /\ waiting \in Seq(Requests) /\ running \in Seq(Requests)
        /\ IsInjective(waiting) /\ IsInjective(running)
    BY <1>0 DEF IInv, TypeOK, OnePlace
  <2>2. DOMAIN waiting = 1..Len(waiting) /\ \A j \in DOMAIN waiting : waiting[j] \in ToSet(waiting)
    BY <2>1, Members
  <2>3. ToSet(running) \subseteq Requests
    BY <2>1, Members
  <2>4. ToSet(running) \cap ToSet(waiting) = {}
    BY <1>0, <2>3 DEF IInv, OnePlace
  <2>. QED  BY <2>1, <2>2, <2>4
<1>1. ASSUME IInv, ToSet(running') \subseteq ToSet(running) PROVE Fair
  BY <1>0, <1>1
<1>2. ASSUME IInv, Schedule PROVE Fair
  <2>. DEFINE n == IF Len(waiting) < Len(free_slots) THEN Len(waiting) ELSE Len(free_slots)
  <2>1. running' = running \o SubSeq(waiting, 1, n)
    BY <1>2 DEF Schedule, AssignWaitingToSlots, AdmitCount
  <2>2. n \in 0..Len(waiting)
    <3>1. Len(waiting) \in Nat /\ Len(free_slots) \in Nat
      BY <1>2, LenProperties DEF IInv, TypeOK
    <3>. QED  BY <3>1
  <2>. HIDE DEF n
  <2>3. ToSet(running') = ToSet(running) \cup First(waiting, n)
    <3>1. ToSet(running \o SubSeq(waiting, 1, n)) = ToSet(running) \cup First(waiting, n)
      BY <1>0, <1>2, <2>2, JoinFirst
    <3>. QED  BY <2>1, <3>1
  <2>. SUFFICES ASSUME NEW j \in DOMAIN waiting, waiting[j] \in ToSet(running'), NEW i \in 1..j
                PROVE  waiting[i] \in ToSet(running')
    OBVIOUS
  <2>4. PICK m \in 1..n : waiting[m] = waiting[j]
    BY <1>0, <1>2, <2>3 DEF First
  <2>5. m \in 1..Len(waiting) /\ j \in 1..Len(waiting) /\ n \in Nat
    BY <1>0, <1>2, <2>2, <2>4, LenProperties
  <2>6. m = j
    BY <1>0, <1>2, <2>4, <2>5, SameIndex
  <2>7. i \in 1..n
    BY <2>4, <2>5, <2>6
  <2>. QED  BY <2>3, <2>7 DEF First
<1>3. ASSUME IInv, Next PROVE Fair
  <2>1. CASE UNCHANGED running
    BY <1>1, <1>3, <2>1
  <2>2. ASSUME NEW r \in Requests, LeaveRunning(r) PROVE Fair
    BY <1>1, <1>3, <2>2, LeavesRunning
  <2>3. ASSUME NEW r \in Requests, MarkDecodeDone(r) \/ CancelRequest(r) PROVE Fair
    BY <2>1, <2>2, <2>3 DEF MarkDecodeDone, CancelRequest, CancelWaiting, CancelRunning,
                            CancelUnknown
  <2>. QED  BY <1>2, <1>3, <2>1, <2>3 DEF Next, AddRequest, AdvancePrefill, MarkPrefillDone,
                                          Reconfigure, placeVars
<1>4. ASSUME IInv, UNCHANGED vars PROVE Fair
  BY <1>1, <1>4 DEF vars, placeVars
<1>5. IInv /\ [Next]_vars => [Fair]_vars
  BY <1>3, <1>4
<1>. QED  BY <1>5, Invariance, PTL DEF Spec, FirstComeFirstServed

-----------------------------------------------------------------------------
(* Sums over finite sets.  MapThenSumSet takes the members of a set in an
   order CHOOSE gives; what it computes does not depend on it. *)

AnyOf(s) == CHOOSE x \in s : TRUE
Sums(f, U, g) == g = [s \in SUBSET U |-> IF s = {} THEN 0 ELSE f[AnyOf(s)] + g[s \ {AnyOf(s)}]]
Total(f, U) == (CHOOSE g : Sums(f, U, g))[U]

(* As far as the sets of at most k members. *)
UpToSize(U, k) == {s \in SUBSET U : Cardinality(s) <= k}
SumsUpTo(f, U, g, k) ==
  /\ g \in [UpToSize(U, k) -> Nat]
  /\ \A s \in UpToSize(U, k) : g[s] = IF s = {} THEN 0 ELSE f[AnyOf(s)] + g[s \ {AnyOf(s)}]

LEMMA AnyMember == ASSUME NEW s, s # {} PROVE AnyOf(s) \in s
BY DEF AnyOf

LEMMA WithoutMember ==
  ASSUME NEW U, IsFiniteSet(U), NEW s \in SUBSET U, NEW x \in s
  PROVE  /\ s \ {x} \in SUBSET U /\ IsFiniteSet(s) /\ Cardinality(s) \in Nat \ {0}
         /\ Cardinality(s \ {x}) = Cardinality(s) - 1
         /\ Cardinality(s) <= Cardinality(U) /\ Cardinality(U) \in Nat
<1>1. IsFiniteSet(s) /\ Cardinality(s) \in Nat /\ Cardinality(U) \in Nat
      /\ Cardinality(s) <= Cardinality(U)
  BY FS_Subset, FS_CardinalityType
<1>2. Cardinality(s \ {x}) = Cardinality(s) - 1
  BY <1>1, FS_RemoveElement
<1>3. Cardinality(s) # 0
  BY <1>1, FS_EmptySet
<1>. QED  BY <1>1, <1>2, <1>3

LEMMA SumsExist ==
  ASSUME NEW U, IsFiniteSet(U), NEW f, \A x \in U : f[x] \in Nat
  PROVE  \E g \in [SUBSET U -> Nat] : Sums(f, U, g)
<1>. DEFINE T == {k \in Nat : \E g : SumsUpTo(f, U, g, k)}
<1>1. Cardinality(U) \in Nat /\ \A s \in SUBSET U : Cardinality(s) \in Nat /\ Cardinality(s) <= Cardinality(U)
  BY FS_Subset, FS_CardinalityType
<1>2. 0 \in T
  <2>. DEFINE g == [s \in UpToSize(U, 0) |-> 0]
  <2>1. \A s \in UpToSize(U, 0) : s = {}
    BY <1>1, FS_Subset, FS_EmptySet DEF UpToSize
  <2>2. SumsUpTo(f, U, g, 0)
    BY <2>1 DEF SumsUpTo
  <2>. QED  BY <2>2
<1>3. ASSUME NEW k \in 0..(Cardinality(U) - 1), k \in T PROVE k + 1 \in T
  <2>1. PICK g : SumsUpTo(f, U, g, k)
    BY <1>3
  <2>. DEFINE step(s) == IF s = {} THEN 0 ELSE f[AnyOf(s)] + g[s \ {AnyOf(s)}]
              h == [s \in UpToSize(U, k + 1) |-> step(s)]
  <2>2. ASSUME NEW s \in UpToSize(U, k + 1), s # {}
        PROVE  AnyOf(s) \in U /\ s \ {AnyOf(s)} \in UpToSize(U, k) /\ s \ {AnyOf(s)} \in UpToSize(U, k + 1)
    <3>1. s \in SUBSET U /\ AnyOf(s) \in s /\ Cardinality(s) <= k + 1
      BY <2>2, AnyMember DEF UpToSize
    <3>2. s \ {AnyOf(s)} \in SUBSET U /\ Cardinality(s \ {AnyOf(s)}) = Cardinality(s) - 1
          /\ Cardinality(s) \in Nat
      BY <3>1, WithoutMember
    <3>. QED  BY <3>1, <3>2 DEF UpToSize
  <2>3. \A s \in UpToSize(U, k) : s \in UpToSize(U, k + 1) /\ h[s] = g[s]
    <3>1. \A s \in UpToSize(U, k) : s \in UpToSize(U, k + 1)
      BY <1>1 DEF UpToSize
    <3>. QED  BY <2>1, <3>1 DEF SumsUpTo
  <2>4. \A s \in UpToSize(U, k + 1) : h[s] \in Nat
    BY <2>1, <2>2 DEF SumsUpTo
  <2>5. \A s \in UpToSize(U, k + 1) : s # {} => h[s \ {AnyOf(s)}] = g[s \ {AnyOf(s)}]
    BY <2>2, <2>3
  <2>6. SumsUpTo(f, U, h, k + 1)
    BY <2>4, <2>5 DEF SumsUpTo
  <2>. QED  BY <2>6
<1>4. Cardinality(U) \in T
  <2>. HIDE DEF T
  <2>1. \A k \in 0..Cardinality(U) : k \in T
    BY <1>1, <1>2, <1>3, UpTo
  <2>. QED  BY <1>1, <2>1
<1>5. UpToSize(U, Cardinality(U)) = SUBSET U
  BY <1>1 DEF UpToSize
<1>6. PICK g : SumsUpTo(f, U, g, Cardinality(U))
  BY <1>4
<1>. QED  BY <1>5, <1>6 DEF SumsUpTo, Sums

(* A sum of no larger numbers is no larger. *)
LEMMA SumsCompare ==
  ASSUME NEW U, IsFiniteSet(U), NEW e, NEW f, \A x \in U : e[x] \in Nat /\ f[x] \in Nat,
         \A x \in U : e[x] <= f[x],
         NEW g \in [SUBSET U -> Nat], NEW V, U \subseteq V, NEW h \in [SUBSET V -> Nat],
         Sums(e, U, g), Sums(f, V, h)
  PROVE  \A s \in SUBSET U : g[s] <= h[s]
<1>. DEFINE T == {k \in Nat : \A s \in SUBSET U : Cardinality(s) <= k => g[s] <= h[s]}
<1>1. Cardinality(U) \in Nat /\ \A s \in SUBSET U : Cardinality(s) \in Nat /\ Cardinality(s) <= Cardinality(U)
  BY FS_Subset, FS_CardinalityType
<1>2. /\ \A s \in SUBSET U : g[s] = IF s = {} THEN 0 ELSE e[AnyOf(s)] + g[s \ {AnyOf(s)}]
      /\ \A s \in SUBSET U : h[s] = IF s = {} THEN 0 ELSE f[AnyOf(s)] + h[s \ {AnyOf(s)}]
  BY DEF Sums
<1>3. ASSUME NEW s \in SUBSET U, s # {}
      PROVE  /\ AnyOf(s) \in U /\ s \ {AnyOf(s)} \in SUBSET U
             /\ Cardinality(s \ {AnyOf(s)}) = Cardinality(s) - 1
  BY <1>3, AnyMember, WithoutMember
<1>4. 0 \in T
  <2>1. \A s \in SUBSET U : Cardinality(s) <= 0 => s = {}
    BY <1>1, FS_Subset, FS_EmptySet
  <2>2. {} \in SUBSET U
    OBVIOUS
  <2>3. g[{}] = 0 /\ h[{}] = 0
    BY <1>2, <2>2
  <2>4. \A s \in SUBSET U : Cardinality(s) <= 0 => g[s] <= h[s]
    <3>1. ASSUME NEW s \in SUBSET U, s = {} PROVE g[s] = 0 /\ h[s] = 0
      BY <2>3, <3>1
    <3>2. 0 <= 0
      OBVIOUS
    <3>3. ASSUME NEW s \in SUBSET U, s = {} PROVE g[s] <= h[s]
      <4>1. g[s] = 0 /\ h[s] = 0
        BY <3>1, <3>3
      <4>. QED  BY ONLY <3>2, <4>1
    <3>. QED  BY <2>1, <3>3
  <2>. QED  BY <2>4
<1>5. ASSUME NEW k \in 0..(Cardinality(U) - 1), k \in T PROVE k + 1 \in T
  <2>1. ASSUME NEW s \in SUBSET U, Cardinality(s) <= k + 1 PROVE g[s] <= h[s]
    <3>1. CASE s = {}
      <4>1. g[s] = 0 /\ h[s] = 0
        BY <1>2, <3>1
      <4>. QED  BY <4>1
    <3>2. CASE s # {}
      <4>1. Cardinality(s \ {AnyOf(s)}) <= k /\ s \ {AnyOf(s)} \in SUBSET U /\ AnyOf(s) \in U
        BY <1>1, <1>3, <2>1, <3>2
      <4>2. g[s \ {AnyOf(s)}] <= h[s \ {AnyOf(s)}]
        BY <1>5, <4>1
      <4>3. g[s \ {AnyOf(s)}] \in Nat /\ h[s \ {AnyOf(s)}] \in Nat
        BY <4>1
      <4>4. e[AnyOf(s)] \in Nat /\ f[AnyOf(s)] \in Nat /\ e[AnyOf(s)] <= f[AnyOf(s)]
        BY <4>1
      <4>5. g[s] = e[AnyOf(s)] + g[s \ {AnyOf(s)}] /\ h[s] = f[AnyOf(s)] + h[s \ {AnyOf(s)}]
        BY <1>2, <3>2
      <4>. QED  BY <4>2, <4>3, <4>4, <4>5
    <3>. QED  BY <3>1, <3>2
  <2>. QED  BY <2>1
<1>6. Cardinality(U) \in T
  <2>. HIDE DEF T
  <2>1. \A k \in 0..Cardinality(U) : k \in T
    BY <1>1, <1>4, <1>5, UpTo
  <2>. QED  BY <1>1, <2>1
<1>. QED  BY <1>1, <1>6

(* Any member may be taken first. *)
SumsAnyOrder(f, U, g) == \A s \in SUBSET U : \A x \in s : g[s] = f[x] + g[s \ {x}]

LEMMA SumsCommute ==
  ASSUME NEW U, IsFiniteSet(U), NEW f, \A x \in U : f[x] \in Nat,
         NEW g \in [SUBSET U -> Nat], Sums(f, U, g)
  PROVE  SumsAnyOrder(f, U, g)
<1>. DEFINE T == {k \in Nat : \A s \in SUBSET U : Cardinality(s) <= k =>
                                \A x \in s : g[s] = f[x] + g[s \ {x}]}
<1>1. Cardinality(U) \in Nat /\ \A s \in SUBSET U : Cardinality(s) \in Nat /\ Cardinality(s) <= Cardinality(U)
  BY FS_Subset, FS_CardinalityType
<1>2. \A s \in SUBSET U : s # {} => g[s] = f[AnyOf(s)] + g[s \ {AnyOf(s)}]
  BY DEF Sums
<1>3. 0 \in T
  <2>1. \A s \in SUBSET U : Cardinality(s) <= 0 => s = {}
    BY <1>1, FS_Subset, FS_EmptySet
  <2>. QED  BY <2>1
<1>4. ASSUME NEW k \in 0..(Cardinality(U) - 1), k \in T PROVE k + 1 \in T
  <2>1. ASSUME NEW s \in SUBSET U, Cardinality(s) <= k + 1, NEW x \in s
        PROVE  g[s] = f[x] + g[s \ {x}]
    <3>1. PICK c \in s : c = AnyOf(s)
      BY AnyMember
    <3>2. g[s] = f[c] + g[s \ {c}]
      BY <1>2, <3>1
    <3>3. CASE c = x
      BY <3>2, <3>3
    <3>4. CASE c # x
      <4>1. /\ Cardinality(s \ {c}) <= k /\ Cardinality(s \ {x}) <= k
            /\ s \ {c} \in SUBSET U /\ s \ {x} \in SUBSET U
        BY <1>1, <2>1, WithoutMember
      <4>2. g[s \ {c}] = f[x] + g[(s \ {c}) \ {x}]
        BY <1>4, <3>4, <4>1
      <4>3. g[s \ {x}] = f[c] + g[(s \ {x}) \ {c}]
        BY <1>4, <3>4, <4>1
      <4>4. (s \ {c}) \ {x} = (s \ {x}) \ {c} /\ (s \ {c}) \ {x} \in SUBSET U
        OBVIOUS
      <4>5. PICK a \in Nat, b \in Nat, d \in Nat :
              a = f[c] /\ b = f[x] /\ d = g[(s \ {c}) \ {x}]
        BY <4>4
      <4>6. g[s] = a + (b + d) /\ g[s \ {x}] = a + d
        BY <3>2, <4>2, <4>3, <4>4, <4>5
      <4>. QED  BY <4>5, <4>6
    <3>. QED  BY <3>3, <3>4
  <2>. QED  BY <2>1
<1>5. Cardinality(U) \in T
  <2>. HIDE DEF T
  <2>1. \A k \in 0..Cardinality(U) : k \in T
    BY <1>1, <1>3, <1>4, UpTo
  <2>. QED  BY <1>1, <2>1
<1>. QED  BY <1>1, <1>5 DEF SumsAnyOrder

(* There is one such function, on the subsets of any set. *)
SumsOn(f, U, g) ==
  \A s \in SUBSET U : g[s] = IF s = {} THEN 0 ELSE f[AnyOf(s)] + g[s \ {AnyOf(s)}]

LEMMA SumsUnique ==
  ASSUME NEW U, IsFiniteSet(U), NEW f, NEW g, NEW h, SumsOn(f, U, g), SumsOn(f, U, h)
  PROVE  \A s \in SUBSET U : g[s] = h[s]
<1>. DEFINE T == {k \in Nat : \A s \in SUBSET U : Cardinality(s) <= k => g[s] = h[s]}
<1>1. Cardinality(U) \in Nat
      /\ \A s \in SUBSET U : Cardinality(s) \in Nat /\ Cardinality(s) <= Cardinality(U)
  BY FS_Subset, FS_CardinalityType
<1>2. 0 \in T
  <2>1. \A s \in SUBSET U : Cardinality(s) <= 0 => s = {}
    BY <1>1, FS_Subset, FS_EmptySet
  <2>. QED  BY <2>1 DEF SumsOn
<1>3. ASSUME NEW k \in 0..(Cardinality(U) - 1), k \in T PROVE k + 1 \in T
  <2>1. ASSUME NEW s \in SUBSET U, Cardinality(s) <= k + 1, s # {} PROVE g[s] = h[s]
    <3>1. s \ {AnyOf(s)} \in SUBSET U /\ Cardinality(s \ {AnyOf(s)}) <= k
      BY <1>1, <2>1, AnyMember, WithoutMember
    <3>. QED  BY <1>3, <2>1, <3>1 DEF SumsOn
  <2>2. ASSUME NEW s \in SUBSET U, s = {} PROVE g[s] = h[s]
    BY <2>2 DEF SumsOn
  <2>3. \A s \in SUBSET U : Cardinality(s) <= k + 1 => g[s] = h[s]
    BY <2>1, <2>2
  <2>. QED  BY <2>3
<1>4. Cardinality(U) \in T
  <2>. HIDE DEF T
  <2>1. \A k \in 0..Cardinality(U) : k \in T
    BY <1>1, <1>2, <1>3, UpTo
  <2>. QED  BY <1>1, <2>1
<1>. QED  BY <1>1, <1>4

LEMMA TotalSums ==
  ASSUME NEW U, IsFiniteSet(U), NEW f, \A x \in U : f[x] \in Nat
  PROVE  \E g \in [SUBSET U -> Nat] : Sums(f, U, g) /\ Total(f, U) = g[U]
<1>. DEFINE g == CHOOSE g : Sums(f, U, g)
<1>1. PICK h \in [SUBSET U -> Nat] : Sums(f, U, h)
  BY SumsExist
<1>2. Sums(f, U, g) /\ g[U] = Total(f, U)
  BY <1>1 DEF Total
<1>. HIDE DEF g
<1>3. SumsOn(f, U, g) /\ SumsOn(f, U, h)
  <2>1. SumsOn(f, U, g)
    BY <1>2 DEF Sums, SumsOn
  <2>2. SumsOn(f, U, h)
    BY <1>1 DEF Sums, SumsOn
  <2>. QED  BY <2>1, <2>2
<1>4. g[U] = h[U]
  <2>1. \A s \in SUBSET U : g[s] = h[s]
    BY <1>3, SumsUnique
  <2>. QED  BY <2>1
<1>. QED  BY <1>1, <1>2, <1>4

LEMMA TotalType ==
  ASSUME NEW U, IsFiniteSet(U), NEW f, \A x \in U : f[x] \in Nat
  PROVE  Total(f, U) \in Nat
<1>1. PICK g \in [SUBSET U -> Nat] : Total(f, U) = g[U]
  BY TotalSums
<1>2. U \in SUBSET U
  OBVIOUS
<1>. QED  BY <1>1, <1>2

LEMMA TotalEmpty == ASSUME NEW f PROVE Total(f, {}) = 0
<1>1. PICK g \in [SUBSET {} -> Nat] : Sums(f, {}, g) /\ Total(f, {}) = g[{}]
  BY FS_EmptySet, TotalSums
<1>. QED  BY <1>1 DEF Sums

LEMMA TotalCompare ==
  ASSUME NEW V, IsFiniteSet(V), NEW U \in SUBSET V, NEW e, NEW f,
         \A x \in U : e[x] \in Nat /\ e[x] <= f[x], \A x \in V : f[x] \in Nat
  PROVE  Total(e, U) <= Total(f, U)
<1>1. IsFiniteSet(U)
  BY FS_Subset
<1>2. PICK g \in [SUBSET U -> Nat] : Sums(e, U, g) /\ Total(e, U) = g[U]
  BY <1>1, TotalSums
<1>3. PICK h \in [SUBSET U -> Nat] : Sums(f, U, h) /\ Total(f, U) = h[U]
  BY <1>1, TotalSums
<1>4. \A s \in SUBSET U : g[s] <= h[s]
  <2>1. \A x \in U : e[x] \in Nat /\ f[x] \in Nat
    OBVIOUS
  <2>2. \A x \in U : e[x] <= f[x]
    OBVIOUS
  <2>. QED  BY <1>1, <1>2, <1>3, <2>1, <2>2, SumsCompare
<1>5. g[U] <= h[U]
  BY <1>4
<1>. QED  BY <1>2, <1>3, <1>5

LEMMA TotalOfMore ==
  ASSUME NEW U, IsFiniteSet(U), NEW f, NEW x \in U, \A y \in U : f[y] \in Nat
  PROVE  Total(f, U) = f[x] + Total(f, U \ {x})
<1>1. PICK g \in [SUBSET U -> Nat] : Sums(f, U, g) /\ Total(f, U) = g[U]
  BY TotalSums
<1>2. g[U] = f[x] + g[U \ {x}]
  <2>1. SumsAnyOrder(f, U, g)
    BY <1>1, SumsCommute
  <2>. QED  BY <2>1 DEF SumsAnyOrder
<1>. DEFINE V == U \ {x}
<1>3. IsFiniteSet(V) /\ V \subseteq U /\ V \in SUBSET U
  BY FS_Subset
<1>4. PICK h \in [SUBSET V -> Nat] : Sums(f, V, h) /\ Total(f, V) = h[V]
  BY <1>3, TotalSums
<1>5. \A s \in SUBSET V : h[s] = g[s]
  <2>. HIDE DEF V
  <2>1. SumsOn(f, V, g)
    BY <1>1, <1>3 DEF Sums, SumsOn
  <2>2. SumsOn(f, V, h)
    BY <1>4 DEF Sums, SumsOn
  <2>. QED  BY <1>3, <2>1, <2>2, SumsUnique
<1>6. h[V] = g[V]
  BY <1>5
<1>. QED  BY <1>1, <1>2, <1>4, <1>6

(* What a step costs is such a sum. *)
LEMMA CostIsTotal ==
  ASSUME NEW R, IsFiniteSet(R), NEW f, \A r \in R : f[r] = ChunkTokens(r) /\ f[r] \in Nat
  PROVE  MapThenSumSet(ChunkTokens, R) = Total(f, R)
<1>. DEFINE P(g) == g = [s \in SUBSET R |->
              IF s = {} THEN 0 ELSE ChunkTokens(AnyOf(s)) + g[s \ {AnyOf(s)}]]
            G == CHOOSE g : P(g)
<1>1. MapThenSumSet(ChunkTokens, R) = G[R]
  BY DEF MapThenSumSet, MapThenFoldSet, AnyOf
<1>2. ASSUME NEW g PROVE P(g) <=> Sums(f, R, g)
  <2>1. \A s \in SUBSET R : s # {} => f[AnyOf(s)] = ChunkTokens(AnyOf(s))
    BY AnyMember
  <2>2. [s \in SUBSET R |-> IF s = {} THEN 0 ELSE ChunkTokens(AnyOf(s)) + g[s \ {AnyOf(s)}]]
          = [s \in SUBSET R |-> IF s = {} THEN 0 ELSE f[AnyOf(s)] + g[s \ {AnyOf(s)}]]
    BY <2>1
  <2>. QED  BY <2>2 DEF Sums
<1>3. \E g : P(g)
  BY <1>2, SumsExist
<1>4. P(G)
  BY <1>3
<1>. HIDE DEF P, G
<1>5. Sums(f, R, G)
  BY <1>2, <1>4
<1>6. PICK h \in [SUBSET R -> Nat] : Sums(f, R, h) /\ Total(f, R) = h[R]
  BY TotalSums
<1>7. G[R] = h[R]
  <2>1. SumsOn(f, R, G)
    BY <1>5 DEF Sums, SumsOn
  <2>2. SumsOn(f, R, h)
    BY <1>6 DEF Sums, SumsOn
  <2>3. \A s \in SUBSET R : G[s] = h[s]
    BY <2>1, <2>2, SumsUnique
  <2>. QED  BY <2>3
<1>. QED  BY <1>1, <1>6, <1>7

-----------------------------------------------------------------------------
(* The budget of a step. *)

Decodes(run, st, i) == {j \in 1..i : st[run[j]] = "decode"}
Taken(run, st, budget, i) ==
  {run[j] : j \in {k \in 1..i : st[run[k]] = "decode" /\ Cardinality(Decodes(run, st, k - 1)) < budget}}

(* One more row to look at. *)
LEMMA TakeNext ==
  ASSUME NEW run \in Seq(Requests), IsInjective(run), NEW st, NEW budget \in Nat,
         NEW i \in 0..(Len(run) - 1), IsFiniteSet(Decodes(run, st, i)),
         IsFiniteSet(Taken(run, st, budget, i))
  PROVE  LET d == Cardinality(Decodes(run, st, i))
             e == Cardinality(Decodes(run, st, i + 1))
             m == Cardinality(Taken(run, st, budget, i))
             n == Cardinality(Taken(run, st, budget, i + 1))
         IN /\ IsFiniteSet(Decodes(run, st, i + 1)) /\ IsFiniteSet(Taken(run, st, budget, i + 1))
            /\ d \in Nat /\ m \in Nat
            /\ e = IF st[run[i + 1]] = "decode" THEN d + 1 ELSE d
            /\ n = IF st[run[i + 1]] = "decode" /\ d < budget THEN m + 1 ELSE m
<1>. DEFINE D == Decodes(run, st, i)
            M == Taken(run, st, budget, i)
            x == run[i + 1]
<1>1. Len(run) \in Nat /\ i \in Nat /\ (i + 1) - 1 = i /\ i + 1 \in 1..Len(run) /\ DOMAIN run = 1..Len(run)
  BY LenProperties
<1>2. 1..(i + 1) = (1..i) \cup {i + 1} /\ i + 1 \notin 1..i
  BY <1>1
<1>3. Decodes(run, st, i + 1) = IF st[x] = "decode" THEN D \cup {i + 1} ELSE D
  <2>. HIDE DEF x
  <2>1. \A j \in 1..(i + 1) : j \in 1..i \/ j = i + 1
    BY <1>2
  <2>2. \A j \in 1..i : j \in 1..(i + 1)
    BY <1>2
  <2>3. i + 1 \in 1..(i + 1)
    BY <1>2
  <2>. QED  BY <2>1, <2>2, <2>3 DEF Decodes, x
<1>4. Taken(run, st, budget, i + 1) =
        IF st[x] = "decode" /\ Cardinality(D) < budget THEN M \cup {x} ELSE M
  <2>. DEFINE ok(k) == st[run[k]] = "decode" /\ Cardinality(Decodes(run, st, k - 1)) < budget
              K(n) == {k \in 1..n : ok(k)}
  <2>1. ok(i + 1) <=> st[x] = "decode" /\ Cardinality(D) < budget
    BY <1>1
  <2>2. Taken(run, st, budget, i + 1) = {run[j] : j \in K(i + 1)} /\ M = {run[j] : j \in K(i)}
    BY DEF Taken
  <2>. HIDE DEF ok, M
  <2>3. K(i + 1) = IF ok(i + 1) THEN K(i) \cup {i + 1} ELSE K(i)
    BY <1>2
  <2>. HIDE DEF K
  <2>. QED  BY <2>1, <2>2, <2>3
<1>5. i + 1 \notin D /\ x \notin M
  <2>1. i + 1 \notin D
    BY <1>2 DEF Decodes
  <2>2. \A j \in 1..i : j \in 1..Len(run) /\ j # i + 1
    BY <1>1, <1>2
  <2>3. \A j \in 1..i : run[j] # run[i + 1]
    BY <1>1, <2>2 DEF IsInjective
  <2>. QED  BY <2>1, <2>3 DEF Taken
<1>6. /\ Cardinality(D) \in Nat /\ Cardinality(M) \in Nat
      /\ IsFiniteSet(D \cup {i + 1}) /\ Cardinality(D \cup {i + 1}) = Cardinality(D) + 1
      /\ IsFiniteSet(M \cup {x}) /\ Cardinality(M \cup {x}) = Cardinality(M) + 1
  <2>. HIDE DEF D, M, x
  <2>1. IsFiniteSet(D) /\ IsFiniteSet(M)
    BY DEF D, M
  <2>. QED  BY <1>5, <2>1, FS_AddElement, FS_CardinalityType
<1>. HIDE DEF x
<1>7. /\ IsFiniteSet(Decodes(run, st, i + 1))
      /\ Cardinality(Decodes(run, st, i + 1)) =
           IF st[x] = "decode" THEN Cardinality(D) + 1 ELSE Cardinality(D)
  BY <1>3, <1>6
<1>8. /\ IsFiniteSet(Taken(run, st, budget, i + 1))
      /\ Cardinality(Taken(run, st, budget, i + 1)) =
           IF st[x] = "decode" /\ Cardinality(D) < budget
           THEN Cardinality(M) + 1 ELSE Cardinality(M)
  BY <1>4, <1>6
<1>. QED  BY <1>6, <1>7, <1>8 DEF x

(* Decode rows take one token each as long as there are any, and all of the
   budget when one has to wait. *)
LEMMA DecodeBudget ==
  ASSUME NEW run \in Seq(Requests), IsInjective(run), NEW st, NEW budget \in Nat
  PROVE  LET R == DecodeRows(run, st, budget)
         IN /\ IsFiniteSet(R) /\ Cardinality(R) \in Nat /\ Cardinality(R) <= budget
            /\ \A i \in 1..Len(run) : st[run[i]] = "decode" /\ run[i] \notin R =>
                 Cardinality(R) = budget
<1>. DEFINE d(i) == Cardinality(Decodes(run, st, i))
            m(i) == Cardinality(Taken(run, st, budget, i))
            Right(i) == /\ IsFiniteSet(Decodes(run, st, i)) /\ IsFiniteSet(Taken(run, st, budget, i))
                        /\ d(i) \in Nat /\ m(i) \in Nat
                        /\ m(i) = IF d(i) < budget THEN d(i) ELSE budget
                        /\ \A j \in 0..i : d(j) <= d(i)
            T == {i \in Nat : Right(i)}
            n == Len(run)
<1>1. n \in Nat /\ DOMAIN run = 1..n
  BY LenProperties
<1>2. 0 \in T
  <2>1. Decodes(run, st, 0) = {} /\ Taken(run, st, budget, 0) = {}
    BY DEF Decodes, Taken
  <2>2. IsFiniteSet({}) /\ Cardinality({}) = 0
    BY FS_EmptySet
  <2>3. d(0) = 0 /\ m(0) = 0
    BY <2>1, <2>2
  <2>4. IsFiniteSet(Decodes(run, st, 0)) /\ IsFiniteSet(Taken(run, st, budget, 0))
    BY <2>1, <2>2
  <2>. HIDE DEF d, m
  <2>5. m(0) = IF d(0) < budget THEN d(0) ELSE budget
    BY <2>3
  <2>6. \A j \in 0..0 : d(j) <= d(0)
    <3>1. \A j \in 0..0 : j = 0
      OBVIOUS
    <3>. QED  BY <2>3, <3>1
  <2>. QED  BY <2>3, <2>4, <2>5, <2>6
<1>3. ASSUME NEW k \in 0..(n - 1), k \in T PROVE k + 1 \in T
  <2>1. /\ IsFiniteSet(Decodes(run, st, k + 1)) /\ IsFiniteSet(Taken(run, st, budget, k + 1))
        /\ d(k + 1) = IF st[run[k + 1]] = "decode" THEN d(k) + 1 ELSE d(k)
        /\ m(k + 1) = IF st[run[k + 1]] = "decode" /\ d(k) < budget THEN m(k) + 1 ELSE m(k)
    BY <1>3, TakeNext
  <2>2. /\ d(k) \in Nat /\ m(k) \in Nat /\ m(k) = IF d(k) < budget THEN d(k) ELSE budget
        /\ \A j \in 0..k : d(j) <= d(k)
    BY <1>3
  <2>. HIDE DEF d, m, n
  <2>3. d(k + 1) \in Nat /\ m(k + 1) \in Nat /\ d(k) <= d(k + 1)
    BY <2>1, <2>2
  <2>4. m(k + 1) = IF d(k + 1) < budget THEN d(k + 1) ELSE budget
    BY <2>1, <2>2
  <2>5. ASSUME NEW j \in 0..(k + 1) PROVE d(j) <= d(k + 1)
    <3>1. CASE j \in 0..k
      <4>1. PICK x \in Nat : x = d(j)
        <5>1. Decodes(run, st, j) \subseteq Decodes(run, st, k)
          BY <3>1 DEF Decodes
        <5>2. IsFiniteSet(Decodes(run, st, j))
          BY <1>3, <5>1, FS_Subset
        <5>. QED  BY <5>2, FS_CardinalityType DEF d
      <4>. QED  BY <2>2, <2>3, <3>1, <4>1
    <3>2. CASE j = k + 1
      BY <2>3, <3>2
    <3>. QED  BY <1>1, <3>1, <3>2
  <2>6. Right(k + 1)
    BY <2>1, <2>3, <2>4, <2>5 DEF d, m
  <2>. QED  BY <2>6
<1>4. Right(n)
  <2>. HIDE DEF T
  <2>1. \A k \in 0..n : k \in T
    BY <1>1, <1>2, <1>3, UpTo
  <2>2. n \in T
    BY <1>1, <2>1
  <2>. QED  BY <2>2 DEF T
<1>5. DecodeRows(run, st, budget) = Taken(run, st, budget, n)
  BY <1>1 DEF DecodeRows, Taken, Decodes
<1>6. m(n) <= budget
  <2>. HIDE DEF d, m, n
  <2>. QED  BY <1>4
<1>7. ASSUME NEW i \in 1..n, st[run[i]] = "decode", run[i] \notin Taken(run, st, budget, n)
      PROVE  m(n) = budget
  <2>1. ~(d(i - 1) < budget)
    BY <1>7 DEF Taken
  <2>2. i - 1 \in 0..n
    BY <1>1
  <2>3. Decodes(run, st, i - 1) \subseteq Decodes(run, st, n)
    BY <1>1 DEF Decodes
  <2>4. d(i - 1) \in Nat
    BY <1>4, <2>3, FS_Subset, FS_CardinalityType
  <2>. HIDE DEF d, m, n
  <2>. QED  BY <1>4, <2>1, <2>2, <2>4
<1>. QED  BY <1>4, <1>5, <1>6, <1>7

Fits(st, r, rest) == st[r] = "prefill" /\ ChunkTokens(r) <= rest
Left(run, st, budget, g, i) ==
  IF i = 0 THEN budget
  ELSE IF Fits(st, run[i], g[i - 1]) THEN g[i - 1] - ChunkTokens(run[i]) ELSE g[i - 1]
LeftTo(run, st, budget, g, k) ==
  g \in [0..k -> Nat] /\ \A i \in 0..k : g[i] = Left(run, st, budget, g, i)
LeftOver(run, st, budget, g) == g = [i \in 0..Len(run) |-> Left(run, st, budget, g, i)]
Fitting(run, st, g, i) == {run[j] : j \in {k \in 1..i : Fits(st, run[k], g[k - 1])}}

(* What is left of the budget is a function of the rows looked at. *)
LEMMA LeftExists ==
  ASSUME NEW run \in Seq(Requests), NEW st, NEW budget \in Nat,
         \A r \in Requests : ChunkTokens(r) \in Nat
  PROVE  \E g : LeftOver(run, st, budget, g) /\ LeftTo(run, st, budget, g, Len(run))
<1>. DEFINE T == {k \in 0..Len(run) : \E g : LeftTo(run, st, budget, g, k)}
<1>1. Len(run) \in Nat /\ \A i \in 1..Len(run) : run[i] \in Requests
  BY LenProperties, ElementOfSeq
<1>2. 0 \in T
  <2>. DEFINE g == [i \in 0..0 |-> budget]
  <2>1. LeftTo(run, st, budget, g, 0)
    BY DEF LeftTo, Left
  <2>. QED  BY <1>1, <2>1
<1>3. ASSUME NEW k \in 0..(Len(run) - 1), k \in T PROVE k + 1 \in T
  <2>1. PICK g : LeftTo(run, st, budget, g, k)
    BY <1>3
  <2>2. k \in Nat /\ k + 1 \in 1..Len(run) /\ (k + 1) - 1 = k /\ k + 1 # 0 /\ k \in 0..k
    BY <1>1
  <2>. DEFINE L(i) == Left(run, st, budget, g, i)
              h == [i \in 0..(k + 1) |-> IF i <= k THEN g[i] ELSE L(i)]
  <2>3. h \in [0..(k + 1) -> Nat]
    <3>1. PICK c \in Nat : c = ChunkTokens(run[k + 1])
      BY <1>1, <2>2
    <3>2. g[k] \in Nat
      BY <2>1, <2>2 DEF LeftTo
    <3>3. L(k + 1) = IF st[run[k + 1]] = "prefill" /\ c <= g[k] THEN g[k] - c ELSE g[k]
      BY <2>2, <3>1 DEF Left, Fits
    <3>. HIDE DEF L
    <3>4. L(k + 1) \in Nat
      BY <3>1, <3>2, <3>3
    <3>5. ASSUME NEW i \in 0..(k + 1) PROVE h[i] \in Nat
      <4>1. CASE i <= k
        BY <2>1, <2>2, <4>1 DEF LeftTo
      <4>2. CASE i = k + 1
        BY <2>2, <3>4, <4>2
      <4>. QED  BY <2>2, <4>1, <4>2
    <3>. QED  BY <3>5
  <2>4. ASSUME NEW i \in 0..(k + 1) PROVE h[i] = Left(run, st, budget, h, i)
    <3>1. i # 0 => i - 1 \in 0..k /\ h[i - 1] = g[i - 1]
      BY <2>2
    <3>2. Left(run, st, budget, h, i) = L(i)
      BY <3>1 DEF Left
    <3>3. h[i] = IF i <= k THEN g[i] ELSE L(i)
      OBVIOUS
    <3>4. i <= k => g[i] = L(i)
      BY <2>1, <2>2 DEF LeftTo
    <3>. HIDE DEF h, L
    <3>. QED  BY <3>2, <3>3, <3>4
  <2>5. LeftTo(run, st, budget, h, k + 1)
    BY <2>3, <2>4 DEF LeftTo
  <2>. QED  BY <2>2, <2>5
<1>4. Len(run) \in T
  <2>. HIDE DEF T
  <2>1. \A k \in 0..Len(run) : k \in T
    BY <1>1, <1>2, <1>3, UpTo
  <2>. QED  BY <1>1, <2>1
<1>5. PICK g : LeftTo(run, st, budget, g, Len(run))
  BY <1>4
<1>6. LeftOver(run, st, budget, g)
  BY <1>5 DEF LeftTo, LeftOver
<1>. QED  BY <1>5, <1>6

(* One more row to look at. *)
LEMMA FitNext ==
  ASSUME NEW run \in Seq(Requests), IsInjective(run), NEW st, NEW g, NEW i \in 0..(Len(run) - 1)
  PROVE  /\ run[i + 1] \notin Fitting(run, st, g, i)
         /\ Fitting(run, st, g, i + 1) =
              IF Fits(st, run[i + 1], g[i]) THEN Fitting(run, st, g, i) \cup {run[i + 1]}
                                            ELSE Fitting(run, st, g, i)
<1>1. Len(run) \in Nat /\ i \in Nat /\ (i + 1) - 1 = i /\ i + 1 \in 1..Len(run) /\ DOMAIN run = 1..Len(run)
  BY LenProperties
<1>2. 1..(i + 1) = (1..i) \cup {i + 1} /\ i + 1 \notin 1..i
  BY <1>1
<1>3. run[i + 1] \notin Fitting(run, st, g, i)
  <2>1. \A j \in 1..i : j \in 1..Len(run) /\ j # i + 1
    BY <1>1, <1>2
  <2>2. \A j \in 1..i : run[j] # run[i + 1]
    BY <1>1, <2>1 DEF IsInjective
  <2>. QED  BY <2>2 DEF Fitting
<1>4. Fitting(run, st, g, i + 1) =
        IF Fits(st, run[i + 1], g[i]) THEN Fitting(run, st, g, i) \cup {run[i + 1]}
                                      ELSE Fitting(run, st, g, i)
  <2>. DEFINE ok(k) == Fits(st, run[k], g[k - 1])
              K(n) == {k \in 1..n : ok(k)}
  <2>1. ok(i + 1) <=> Fits(st, run[i + 1], g[i])
    BY <1>1
  <2>2. Fitting(run, st, g, i + 1) = {run[j] : j \in K(i + 1)} /\ Fitting(run, st, g, i) = {run[j] : j \in K(i)}
    BY DEF Fitting
  <2>. HIDE DEF ok
  <2>3. K(i + 1) = IF ok(i + 1) THEN K(i) \cup {i + 1} ELSE K(i)
    BY <1>2
  <2>. HIDE DEF K
  <2>. QED  BY <2>1, <2>2, <2>3
<1>. QED  BY <1>3, <1>4

(* Prefill rows take their chunks from the budget, and a row passed over would
   have taken more than is left in the end. *)
LEMMA PrefillBudget ==
  ASSUME NEW run \in Seq(Requests), IsInjective(run), NEW st, NEW budget \in Nat,
         NEW f \in [Requests -> Nat], \A r \in Requests : f[r] = ChunkTokens(r)
  PROVE  LET R == PrefillRows(run, st, budget)
         IN /\ IsFiniteSet(R) /\ R \subseteq Requests
            /\ Total(f, R) \in Nat /\ Total(f, R) <= budget
            /\ \A i \in 1..Len(run) : st[run[i]] = "prefill" /\ run[i] \notin R =>
                 Total(f, R) + f[run[i]] > budget
<1>. DEFINE g == CHOOSE g : LeftOver(run, st, budget, g)
            P(i) == Fitting(run, st, g, i)
            n == Len(run)
            Right(i) == /\ IsFiniteSet(P(i)) /\ P(i) \subseteq Requests
                        /\ g[i] \in Nat /\ Total(f, P(i)) \in Nat /\ g[i] + Total(f, P(i)) = budget
                        /\ \A j \in 0..i : g[j] \in Nat /\ g[i] <= g[j]
            T == {i \in Nat : Right(i)}
<1>1. n \in Nat /\ DOMAIN run = 1..n /\ \A i \in 1..n : run[i] \in Requests
  BY LenProperties, ElementOfSeq
<1>2. LeftOver(run, st, budget, g)
  BY LeftExists
<1>3. PrefillRows(run, st, budget) = P(n)
  <2>1. PrefillRows(run, st, budget) = {run[i] : i \in {j \in DOMAIN run : Fits(st, run[j], g[j - 1])}}
    BY DEF PrefillRows, LeftOver, Left, Fits
  <2>. HIDE DEF g
  <2>. QED  BY <1>1, <2>1 DEF Fitting
<1>. HIDE DEF g
<1>4. ASSUME NEW i \in 0..n PROVE g[i] = Left(run, st, budget, g, i)
  BY <1>2 DEF LeftOver
<1>5. 0 \in T
  <2>1. P(0) = {}
    BY DEF Fitting
  <2>2. g[0] = budget
    BY <1>1, <1>4 DEF Left
  <2>3. IsFiniteSet({}) /\ Total(f, {}) = 0
    BY FS_EmptySet, TotalEmpty
  <2>4. \A j \in 0..0 : j = 0
    OBVIOUS
  <2>. HIDE DEF P
  <2>5. IsFiniteSet(P(0)) /\ P(0) \subseteq Requests /\ Total(f, P(0)) = 0
    BY <2>1, <2>3
  <2>6. g[0] \in Nat /\ Total(f, P(0)) \in Nat /\ g[0] + Total(f, P(0)) = budget
    <3>1. PICK t \in Nat : t = Total(f, P(0)) /\ t = 0
      BY <2>5
    <3>. QED  BY <2>2, <3>1
  <2>7. \A j \in 0..0 : g[j] \in Nat /\ g[0] <= g[j]
    BY <2>2, <2>4
  <2>8. Right(0)
    BY <2>5, <2>6, <2>7
  <2>. QED  BY <2>8
<1>6. ASSUME NEW k \in 0..(n - 1), k \in T PROVE k + 1 \in T
  <2>. DEFINE x == run[k + 1]
  <2>1. k \in Nat /\ k + 1 \in 0..n /\ (k + 1) - 1 = k /\ k + 1 # 0 /\ x \in Requests
    BY <1>1
  <2>2. f[x] \in Nat /\ f[x] = ChunkTokens(x)
    BY <2>1
  <2>3. g[k + 1] = IF Fits(st, x, g[k]) THEN g[k] - f[x] ELSE g[k]
    BY <1>4, <2>1, <2>2 DEF Left
  <2>4. x \notin P(k) /\ P(k + 1) = IF Fits(st, x, g[k]) THEN P(k) \cup {x} ELSE P(k)
    BY FitNext
  <2>5. /\ IsFiniteSet(P(k)) /\ P(k) \subseteq Requests
        /\ g[k] \in Nat /\ Total(f, P(k)) \in Nat /\ g[k] + Total(f, P(k)) = budget
        /\ \A j \in 0..k : g[j] \in Nat /\ g[k] <= g[j]
    BY <1>6
  <2>. HIDE DEF P, x, n
  <2>6. CASE Fits(st, x, g[k])
    <3>1. f[x] <= g[k]
      BY <2>2, <2>6 DEF Fits
    <3>2. IsFiniteSet(P(k + 1)) /\ P(k + 1) \subseteq Requests /\ x \in P(k + 1) /\ P(k + 1) \ {x} = P(k)
      BY <2>1, <2>4, <2>5, <2>6, FS_AddElement
    <3>3. Total(f, P(k + 1)) = f[x] + Total(f, P(k))
      <4>1. \A y \in P(k + 1) : f[y] \in Nat
        BY <3>2
      <4>. QED  BY <3>2, <4>1, TotalOfMore
    <3>4. g[k + 1] = g[k] - f[x]
      BY <2>3, <2>6
    <3>5. g[k + 1] \in Nat /\ g[k + 1] <= g[k]
      BY <2>2, <2>5, <3>1, <3>4
    <3>6. Total(f, P(k + 1)) \in Nat /\ g[k + 1] + Total(f, P(k + 1)) = budget
      BY <2>2, <2>5, <3>3, <3>4
    <3>7. \A j \in 0..(k + 1) : g[j] \in Nat /\ g[k + 1] <= g[j]
      <4>1. \A j \in 0..(k + 1) : j \in 0..k \/ j = k + 1
        BY <2>1
      <4>2. \A j \in 0..k : g[j] \in Nat /\ g[k + 1] <= g[j]
        BY <2>5, <3>5
      <4>. QED  BY <3>5, <4>1, <4>2
    <3>8. Right(k + 1)
      BY <3>2, <3>5, <3>6, <3>7
    <3>. QED  BY <2>1, <3>8
  <2>7. CASE ~Fits(st, x, g[k])
    <3>1. P(k + 1) = P(k) /\ g[k + 1] = g[k]
      BY <2>3, <2>4, <2>7
    <3>2. \A j \in 0..(k + 1) : g[j] \in Nat /\ g[k + 1] <= g[j]
      <4>1. \A j \in 0..(k + 1) : j \in 0..k \/ j = k + 1
        BY <2>1
      <4>. QED  BY <2>5, <3>1, <4>1
    <3>3. Right(k + 1)
      BY <2>5, <3>1, <3>2
    <3>. QED  BY <2>1, <3>3
  <2>. QED  BY <2>6, <2>7
<1>7. Right(n)
  <2>. HIDE DEF T
  <2>1. \A k \in 0..n : k \in T
    BY <1>1, <1>5, <1>6, UpTo
  <2>2. n \in T
    BY <1>1, <2>1
  <2>. QED  BY <2>2 DEF T
<1>8. Total(f, P(n)) <= budget
  <2>. HIDE DEF P, n
  <2>. QED  BY <1>7
<1>9. ASSUME NEW i \in 1..n, st[run[i]] = "prefill", run[i] \notin P(n)
      PROVE  Total(f, P(n)) + f[run[i]] > budget
  <2>1. i - 1 \in 0..n /\ run[i] \in Requests
    BY <1>1
  <2>2. ~Fits(st, run[i], g[i - 1])
    BY <1>9 DEF Fitting
  <2>3. ~(f[run[i]] <= g[i - 1]) /\ f[run[i]] \in Nat
    BY <1>9, <2>1, <2>2 DEF Fits
  <2>. HIDE DEF P, n
  <2>4. g[i - 1] \in Nat /\ g[n] <= g[i - 1]
    BY <1>7, <2>1
  <2>. QED  BY <1>7, <2>3, <2>4
<1>. HIDE DEF P, n
<1>10. IsFiniteSet(P(n)) /\ P(n) \subseteq Requests /\ Total(f, P(n)) \in Nat
  BY <1>7
<1>. QED  BY <1>3, <1>8, <1>9, <1>10 DEF n

(* A chunk is a number of tokens because no offset is past its prompt. *)
OffsetsInPrompt == \A r \in Requests : prefill_offset[r] <= PromptLen[r]

LEMMA ChunkTypes ==
  ASSUME TypeOK, OffsetsInPrompt, NEW r \in Requests
  PROVE  ChunkTokens(r) \in Nat /\ ChunkTokens(r) <= PromptLen[r] - prefill_offset[r]
<1>1. PromptLen[r] \in Nat /\ prefill_offset[r] \in Nat /\ prefill_offset[r] <= PromptLen[r]
  BY RequestsAssumption DEF TypeOK, OffsetsInPrompt
<1>2. prefill_chunk_size[r] \in Nat
  BY LimitsAssumption DEF TypeOK
<1>. QED  BY <1>1, <1>2 DEF ChunkTokens

LEMMA OffsetsStay == ASSUME TypeOK, OffsetsInPrompt, [Next]_vars PROVE OffsetsInPrompt'
<1>1. CASE UNCHANGED prefill_offset
  BY <1>1 DEF OffsetsInPrompt
<1>2. ASSUME NEW r \in Requests, NEW n \in (prefill_offset[r] + 1)..PromptLen[r],
             AdvancePrefill(r, n)
      PROVE  OffsetsInPrompt'
  <2>1. prefill_offset' = [prefill_offset EXCEPT ![r] = n]
    BY <1>2 DEF AdvancePrefill
  <2>2. n <= PromptLen[r]
    BY RequestsAssumption DEF TypeOK
  <2>. QED  BY <2>1, <2>2 DEF OffsetsInPrompt, TypeOK
<1>. QED  BY <1>1, <1>2 DEF Next, vars, AddRequest, Schedule, MarkPrefillDone, MarkDecodeDone,
                            CancelRequest, Reconfigure

(* The rows of a step, and what a row left out of it would have cost. *)
LEMMA StepBudget ==
  ASSUME IInv, Schedule, NEW f \in [Requests -> Nat], \A r \in Requests : f[r] = ChunkTokens(r)
  PROVE  LET R == prefill_requests'
             d == Cardinality(decode_requests')
             p == Total(f, R)
         IN /\ IsFiniteSet(decode_requests') /\ IsFiniteSet(R) /\ R \subseteq Requests
            /\ d \in Nat /\ p \in Nat /\ d + p <= max_tokens_per_step
            /\ \A i \in DOMAIN running' :
                 LET r == running'[i] IN
                   /\ r \in Requests
                   /\ state'[r] = "decode" /\ r \notin decode_requests' => d = max_tokens_per_step
                   /\ state'[r] = "prefill" /\ r \notin R => d + p + f[r] > max_tokens_per_step
<1>. DEFINE run == running'
            st == state'
            budget == max_tokens_per_step
            D == decode_requests'
            R == prefill_requests'
            left == budget - Cardinality(D)
<1>1. run \in Seq(Requests) /\ IsInjective(run)
  BY ScheduleKeeps DEF IInv, TypeOK, OnePlace
<1>2. budget \in Nat
  BY LimitsAssumption DEF IInv, TypeOK
<1>3. D = DecodeRows(run, st, budget) /\ R = PrefillRows(run, st, left)
  BY DEF Schedule
<1>. HIDE DEF run, st, budget, D, R
<1>4. /\ IsFiniteSet(D) /\ Cardinality(D) \in Nat /\ Cardinality(D) <= budget
      /\ \A i \in 1..Len(run) : st[run[i]] = "decode" /\ run[i] \notin D => Cardinality(D) = budget
  BY <1>1, <1>2, <1>3, DecodeBudget
<1>5. left \in Nat
  BY <1>2, <1>4
<1>6. /\ IsFiniteSet(R) /\ R \subseteq Requests
      /\ Total(f, R) \in Nat /\ Total(f, R) <= left
      /\ \A i \in 1..Len(run) : st[run[i]] = "prefill" /\ run[i] \notin R =>
           Total(f, R) + f[run[i]] > left
  <2>. HIDE DEF left
  <2>. QED  BY <1>1, <1>3, <1>5, PrefillBudget
<1>7. DOMAIN run = 1..Len(run) /\ \A i \in 1..Len(run) : run[i] \in Requests
  BY <1>1, LenProperties, ElementOfSeq
<1>8. Cardinality(D) + Total(f, R) <= budget
  BY <1>2, <1>4, <1>6
<1>9. ASSUME NEW i \in 1..Len(run), st[run[i]] = "prefill", run[i] \notin R
      PROVE  Cardinality(D) + Total(f, R) + f[run[i]] > budget
  <2>1. f[run[i]] \in Nat /\ Total(f, R) + f[run[i]] > left
    BY <1>6, <1>7, <1>9
  <2>. QED  BY <1>2, <1>4, <1>6, <2>1
<1>. QED  BY <1>4, <1>6, <1>7, <1>8, <1>9 DEF run, st, budget, D, R

(* The tokens of a step never exceed its budget, a row is left out only when
   the budget does not cover it, and no request waits while a slot is free. *)
THEOREM BudgetIsKept == Spec => BatchWithinBudget
<1>. DEFINE Kept ==
       BetweenSteps /\ ~BetweenSteps' =>
         /\ StepCost' <= max_tokens_per_step
         /\ \A i \in DOMAIN running' :
              LET r == running'[i] IN
                /\ state'[r] = "decode" /\ r \notin decode_requests' =>
                     Cardinality(decode_requests') = max_tokens_per_step
                /\ state'[r] = "prefill" /\ r \notin prefill_requests' =>
                     StepCost' + ChunkTokens(r) > max_tokens_per_step
         /\ waiting' # <<>> => free_slots' = <<>>
<1>1. ASSUME IInv, OffsetsInPrompt, Schedule PROVE Kept
  <2>. DEFINE f == [r \in Requests |-> ChunkTokens(r)]
              R == prefill_requests'
  <2>1. f \in [Requests -> Nat] /\ \A r \in Requests : f[r] = ChunkTokens(r)
    BY <1>1, ChunkTypes DEF IInv
  <2>2. \A r : ChunkTokens(r)' = ChunkTokens(r)
    BY <1>1 DEF Schedule, ChunkTokens
  <2>. HIDE DEF f
  <2>3. /\ IsFiniteSet(R) /\ R \subseteq Requests
        /\ Cardinality(decode_requests') \in Nat /\ Total(f, R) \in Nat
        /\ Cardinality(decode_requests') + Total(f, R) <= max_tokens_per_step
        /\ \A i \in DOMAIN running' :
             LET r == running'[i] IN
               /\ r \in Requests
               /\ state'[r] = "decode" /\ r \notin decode_requests' =>
                    Cardinality(decode_requests') = max_tokens_per_step
               /\ state'[r] = "prefill" /\ r \notin R =>
                    Cardinality(decode_requests') + Total(f, R) + f[r] > max_tokens_per_step
    BY <1>1, <2>1, StepBudget
  <2>4. MapThenSumSet(ChunkTokens, R) = Total(f, R)
    BY <2>1, <2>3, CostIsTotal
  <2>5. StepCost' = Cardinality(decode_requests') + Total(f, R)
    BY <2>2, <2>4 DEF StepCost, MapThenSumSet, MapThenFoldSet
  <2>6. waiting' # <<>> => free_slots' = <<>>
    <3>1. waiting \in Seq(Requests) /\ free_slots \in Seq(Nat)
      BY <1>1 DEF IInv, TypeOK
    <3>2. /\ waiting' = SubSeq(waiting, AdmitCount + 1, Len(waiting))
          /\ free_slots' = SubSeq(free_slots, AdmitCount + 1, Len(free_slots))
      BY <1>1 DEF Schedule, AssignWaitingToSlots
    <3>3. Len(waiting) \in Nat /\ Len(free_slots) \in Nat
      BY <3>1, LenProperties
    <3>4. CASE AdmitCount = Len(waiting)
      BY <3>1, <3>2, <3>3, <3>4, SubSeqProperties
    <3>5. CASE AdmitCount = Len(free_slots)
      BY <3>1, <3>2, <3>3, <3>5, SubSeqProperties
    <3>. QED  BY <3>4, <3>5 DEF AdmitCount
  <2>. HIDE DEF R
  <2>. QED  BY <2>1, <2>3, <2>5, <2>6 DEF R
<1>2. ASSUME Next, ~Schedule PROVE BetweenSteps => BetweenSteps'
  BY <1>2 DEF Next, AddRequest, AdvancePrefill, MarkPrefillDone, MarkDecodeDone, CancelRequest,
              Reconfigure, BetweenSteps, batchVars
<1>3. IInv /\ OffsetsInPrompt /\ [Next]_vars => [Kept]_vars
  BY <1>1, <1>2
<1>4. Init => OffsetsInPrompt
  BY RequestsAssumption DEF Init, OffsetsInPrompt
<1>5. IInv /\ OffsetsInPrompt /\ [Next]_vars => OffsetsInPrompt'
  BY OffsetsStay DEF IInv
<1>. QED  BY <1>3, <1>4, <1>5, Invariance, PTL DEF Spec, BatchWithinBudget
=============================================================================
