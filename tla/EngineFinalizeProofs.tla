------------------------- MODULE EngineFinalizeProofs -------------------------
(***************************************************************************)
(* What holds of EngineFinalize for every number of callbacks, owners,     *)
(* ULTs and references: Margo's reference count is exact and each callback *)
(* has one fate, and, where no pop runs beside a finalization, Margo's     *)
(* entries point to live functions of live owners.                         *)
(***************************************************************************)
EXTENDS EngineFinalize, FiniteSetTheorems, SequenceTheorems, WellFoundedInduction, TLAPS

-----------------------------------------------------------------------------
(* Margo's lists                                                           *)

\* A set of positions that is not empty has a last one.
LEMMA LastExists ==
  ASSUME NEW n \in Nat, NEW P \in SUBSET (1..n), P # {}
  PROVE  \E i \in P : \A j \in P : j <= i
<1> DEFINE T == {n - i : i \in P}
           R == OpToRel(<, Nat)
<1>1. T \subseteq Nat /\ T # {}
  <2>1. \A i \in P : n - i \in Nat
    OBVIOUS
  <2> QED
    BY <2>1
<1>2. PICK x \in T : \A y \in T : ~ (<<y, x>> \in R)
  <2>1. IsWellFoundedOn(R, Nat)
    BY NatLessThanWellFounded
  <2> HIDE DEF T, R
  <2> QED
    BY <1>1, <2>1, WFMin
<1>3. \A y \in T : ~(y < x)
  <2>1. \A y, z \in Nat : y < z => <<y, z>> \in R
    BY DEF OpToRel
  <2> HIDE DEF R
  <2> QED
    BY <1>1, <1>2, <2>1
<1>4. PICK i \in P : x = n - i
  OBVIOUS
<1>5. \A j \in P : j <= i
  <2> SUFFICES ASSUME NEW j \in P PROVE j <= i
    OBVIOUS
  <2>1. ~(n - j < n - i)
    BY <1>3, <1>4
  <2> QED
    BY <2>1
<1> QED
  BY <1>5

\* A list without its ith entry.
LEMMA WithoutProperties ==
  ASSUME NEW S, NEW s \in Seq(S), NEW i \in DOMAIN s
  PROVE  /\ Without(s, i) \in Seq(S)
         /\ Len(Without(s, i)) = Len(s) - 1
         /\ \A j \in 1..(Len(s) - 1) : Without(s, i)[j] = IF j < i THEN s[j] ELSE s[j + 1]
<1> DEFINE n == Len(s)
           a == SubSeq(s, 1, i - 1)
           b == SubSeq(s, i + 1, n)
<1>1. n \in Nat /\ DOMAIN s = 1..n /\ i \in 1..n /\ \A j \in 1..n : s[j] \in S
  BY LenProperties
<1>2. a \in Seq(S) /\ Len(a) = i - 1 /\ \A j \in 1..(i - 1) : a[j] = s[j]
  <2>1. \A j \in 1..(i - 1) : s[j] \in S
    BY <1>1
  <2> QED
    BY <1>1, <2>1, SubSeqProperties
<1>3. b \in Seq(S) /\ Len(b) = n - i /\ \A j \in 1..(n - i) : b[j] = s[i + j]
  <2>1. \A j \in (i + 1)..n : s[j] \in S
    BY <1>1
  <2>2. /\ b \in Seq(S) /\ Len(b) = (IF i + 1 <= n THEN n - (i + 1) + 1 ELSE 0)
        /\ \A j \in 1..(n - (i + 1) + 1) : b[j] = s[i + 1 + j - 1]
    BY <1>1, <2>1, SubSeqProperties
  <2>3. Len(b) = n - i
    BY <1>1, <2>2
  <2>4. ASSUME NEW j \in 1..(n - i) PROVE b[j] = s[i + j]
    <3>1. j \in 1..(n - (i + 1) + 1) /\ i + 1 + j - 1 = i + j
      BY <1>1
    <3>2. b[j] = s[i + 1 + j - 1]
      BY <2>2, <3>1
    <3> QED
      BY <3>1, <3>2
  <2> HIDE DEF b
  <2> QED
    BY <2>2, <2>3, <2>4
<1>4. Without(s, i) = a \o b
  BY DEF Without
<1> HIDE DEF a, b
<1>5. /\ a \o b \in Seq(S) /\ Len(a \o b) = Len(a) + Len(b)
      /\ \A j \in 1..(Len(a) + Len(b)) :
           (a \o b)[j] = IF j <= Len(a) THEN a[j] ELSE b[j - Len(a)]
  BY <1>2, <1>3, ConcatProperties
<1>6. \A j \in 1..(n - 1) : (a \o b)[j] = IF j < i THEN s[j] ELSE s[j + 1]
  <2> SUFFICES ASSUME NEW j \in 1..(n - 1)
               PROVE  (a \o b)[j] = IF j < i THEN s[j] ELSE s[j + 1]
    OBVIOUS
  <2>1. (a \o b)[j] = IF j <= i - 1 THEN a[j] ELSE b[j - (i - 1)]
    BY SMTT(20), <1>1, <1>2, <1>3, <1>5
  <2>2. CASE j < i
    BY <1>1, <1>2, <2>1, <2>2
  <2>3. CASE ~(j < i)
    <3>1. j - (i - 1) \in 1..(n - i) /\ i + (j - (i - 1)) = j + 1
      BY <1>1, <2>3
    <3>2. b[j - (i - 1)] = s[j + 1]
      BY <1>3, <3>1
    <3> QED
      BY <1>1, <2>1, <2>3, <3>2
  <2> QED
    BY <2>2, <2>3
<1> QED
  BY <1>1, <1>2, <1>3, <1>4, <1>5, <1>6

\* To drop the last entry is to be without it.
LEMMA DropLast ==
  ASSUME NEW S, NEW s \in Seq(S), s # <<>>
  PROVE  Len(s) \in DOMAIN s /\ SubSeq(s, 1, Len(s) - 1) = Without(s, Len(s))
<1>1. Len(s) \in Nat \ {0} /\ DOMAIN s = 1..Len(s) /\ \A j \in 1..Len(s) : s[j] \in S
  BY LenProperties, EmptySeq
<1>2. SubSeq(s, Len(s) + 1, Len(s)) = <<>>
  BY <1>1, SubSeqEmpty
<1>3. SubSeq(s, 1, Len(s) - 1) \in Seq(S)
  BY <1>1, SubSeqProperties
<1>4. SubSeq(s, 1, Len(s) - 1) \o <<>> = SubSeq(s, 1, Len(s) - 1)
  BY <1>3, ConcatEmptySeq
<1> QED
  BY <1>1, <1>2, <1>4 DEF Without

StackType == stack \in [Kind -> Seq(Entry)]

\* The topmost entry of an owner is one of its entries, and above all others.
LEMMA TopmostIs ==
  ASSUME StackType, NEW k \in Kind, NEW o, Positions(k, o) # {}
  PROVE  /\ Topmost(k, o) \in Positions(k, o)
         /\ \A j \in Positions(k, o) : j <= Topmost(k, o)
<1>1. stack[k] \in Seq(Entry)
  BY DEF StackType
<1>2. Len(stack[k]) \in Nat /\ Positions(k, o) \in SUBSET (1..Len(stack[k]))
  BY <1>1, LenProperties DEF Positions
<1>3. \E i \in Positions(k, o) : \A j \in Positions(k, o) : j <= i
  BY <1>2, LastExists
<1> QED
  BY <1>3 DEF Topmost

\* What the removal of entry i of list k does to the entries.
LEMMA RemoveEffect ==
  ASSUME StackType, NEW k \in Kind, NEW i \in DOMAIN stack[k],
         stack' = [stack EXCEPT ![k] = Without(@, i)]
  PROVE  /\ StackType'
         /\ \A l \in Kind : \A j \in DOMAIN stack'[l] : \E m \in DOMAIN stack[l] :
              (l = k => m # i) /\ stack'[l][j] = stack[l][m]
         /\ \A l \in Kind : \A j, h \in DOMAIN stack'[l] : j # h =>
              \E m, n \in DOMAIN stack[l] :
                m # n /\ stack'[l][j] = stack[l][m] /\ stack'[l][h] = stack[l][n]
<1> DEFINE s == stack[k]
           r == Without(s, i)
           at(j) == IF j < i THEN j ELSE j + 1
<1>1. s \in Seq(Entry) /\ DOMAIN stack = Kind
  BY DEF StackType
<1>2. /\ r \in Seq(Entry) /\ Len(r) = Len(s) - 1
      /\ \A j \in 1..(Len(s) - 1) : r[j] = IF j < i THEN s[j] ELSE s[j + 1]
  BY <1>1, WithoutProperties
<1>3. stack'[k] = r /\ \A l \in Kind \ {k} : stack'[l] = stack[l]
  BY <1>1
<1>4. StackType'
  BY <1>2 DEF StackType
<1>5. DOMAIN s = 1..Len(s) /\ Len(s) \in Nat /\ DOMAIN r = 1..(Len(s) - 1)
  BY <1>1, <1>2, LenProperties
<1> HIDE DEF r, s
<1>6. \A j \in DOMAIN r : at(j) \in DOMAIN s /\ at(j) # i /\ r[j] = s[at(j)]
  BY <1>2, <1>5 DEF s
<1>7. \A j, h \in DOMAIN r : j # h => at(j) # at(h)
  BY <1>5 DEF s
<1> HIDE DEF at
<1>8. /\ \A j \in DOMAIN r : \E m \in DOMAIN s : m # i /\ r[j] = s[m]
      /\ \A j, h \in DOMAIN r : j # h =>
           \E m, n \in DOMAIN s : m # n /\ r[j] = s[m] /\ r[h] = s[n]
  BY <1>6, <1>7
<1>9. ASSUME NEW l \in Kind, NEW j \in DOMAIN stack'[l]
      PROVE  \E m \in DOMAIN stack[l] : (l = k => m # i) /\ stack'[l][j] = stack[l][m]
  <2>1. CASE l = k
    BY <1>3, <1>8, <1>9, <2>1 DEF s
  <2>2. CASE l # k
    BY <1>3, <1>9, <2>2
  <2> QED
    BY <2>1, <2>2
<1>10. ASSUME NEW l \in Kind, NEW j \in DOMAIN stack'[l], NEW h \in DOMAIN stack'[l],
              j # h
       PROVE  \E m, n \in DOMAIN stack[l] :
                m # n /\ stack'[l][j] = stack[l][m] /\ stack'[l][h] = stack[l][n]
  <2>1. CASE l = k
    BY <1>3, <1>8, <1>10, <2>1 DEF s
  <2>2. CASE l # k
    BY <1>3, <1>10, <2>2
  <2> QED
    BY <2>1, <2>2
<1> QED
  BY <1>4, <1>9, <1>10

-----------------------------------------------------------------------------
(* The reference count                                                     *)

Refs == holds \subseteq Holder /\ RefsExact

\* The count follows one margo_instance_ref more, and one less.
LEMMA Counting ==
  ASSUME holds \subseteq Holder
  PROVE  /\ Cardinality(holds) \in Nat
         /\ \A d \in Holder \ holds : Cardinality(holds \cup {d}) = Cardinality(holds) + 1
         /\ \A s \in holds : Cardinality(holds \ {s}) = Cardinality(holds) - 1
         /\ \A s \in holds : \A d \in Holder \ holds :
              Cardinality((holds \ {s}) \cup {d}) = Cardinality(holds)
<1>1. IsFiniteSet(holds)
  BY HoldersAreFinite, FS_Subset
<1>2. Cardinality(holds) \in Nat
  BY <1>1, FS_CardinalityType
<1>3. \A d \in Holder \ holds : Cardinality(holds \cup {d}) = Cardinality(holds) + 1
  BY <1>1, FS_AddElement
<1>4. \A s \in holds : IsFiniteSet(holds \ {s})
                       /\ Cardinality(holds \ {s}) = Cardinality(holds) - 1
  BY <1>1, FS_RemoveElement
<1>5. ASSUME NEW s \in holds, NEW d \in Holder \ holds
      PROVE  Cardinality((holds \ {s}) \cup {d}) = Cardinality(holds)
  <2>1. d \notin holds \ {s} /\ IsFiniteSet(holds \ {s})
    BY <1>4
  <2>2. Cardinality((holds \ {s}) \cup {d}) = Cardinality(holds \ {s}) + 1
    BY <2>1, FS_AddElement
  <2> QED
    BY <1>2, <1>4, <2>2
<1> QED
  BY <1>2, <1>3, <1>4, <1>5

\* Every step keeps the count.
LEMMA RefsStep ==
  ASSUME Refs, [Next]_vars
  PROVE  Refs'
<1> DEFINE Extra == IF Finalizing THEN 1 ELSE 0
<1>0. holds \subseteq Holder /\ refs = Cardinality(holds) + Extra
  BY DEF Refs, RefsExact
<1>a. SUFFICES holds' \subseteq Holder /\ refs' = Cardinality(holds') + Extra'
  BY DEF Refs, RefsExact
<1>1. CASE StackStep
  BY <1>0, <1>1
     DEF StackStep, PopCallback, PushCallback, DestroyOwner, NewOwner, PopEnd, Push,
         PopBegin, Finalizing
<1>2. ASSUME NEW d \in Holder, NEW s \in Holder, CopyRef(d, s)
      PROVE  holds' \subseteq Holder /\ refs' = Cardinality(holds') + Extra'
  BY <1>0, <1>2, Counting DEF CopyRef, Finalizing
<1>3. ASSUME NEW d \in Holder, NEW s \in Holder, MoveRef(d, s)
      PROVE  holds' \subseteq Holder /\ refs' = Cardinality(holds') + Extra'
  BY <1>0, <1>3, Counting DEF MoveRef, Finalizing
<1>4. ASSUME NEW s \in Holder, DropRef(s)
      PROVE  holds' \subseteq Holder /\ refs' = Cardinality(holds') + Extra'
  BY <1>0, <1>4, Counting DEF DropRef, Finalizing
<1>5. ASSUME NEW s \in Holder, DropLastRef(s)
      PROVE  holds' \subseteq Holder /\ refs' = Cardinality(holds') + Extra'
  BY <1>0, <1>5, Counting DEF DropLastRef, Finalizing
<1>6. ASSUME NEW t \in Thread, Finalize(t)
      PROVE  holds' \subseteq Holder /\ refs' = Cardinality(holds') + Extra'
  BY <1>0, <1>6, Counting DEF Finalize, Finalizing
<1>7. CASE FinalizeReturns
  BY <1>0, <1>7, Counting DEF FinalizeReturns, Finalizing
<1>8. CASE StopProgress
  BY <1>0, <1>8 DEF StopProgress, Finalizing
<1>9. CASE CallbackReturns
  BY <1>0, <1>9 DEF CallbackReturns, Finalizing
<1>10. ASSUME NEW k \in Kind, RunTop(k)
       PROVE  holds' \subseteq Holder /\ refs' = Cardinality(holds') + Extra'
  BY <1>0, <1>10 DEF RunTop, Finalizing
<1>11. CASE UNCHANGED vars
  BY <1>0, <1>11 DEF vars, Finalizing
<1> HIDE DEF Extra
<1> QED
  BY <1>1, <1>2, <1>3, <1>4, <1>5, <1>6, <1>7, <1>8, <1>9, <1>10, <1>11
     DEF Next, RefStep, FinalizeStep

-----------------------------------------------------------------------------
(* Types                                                                   *)

\* TypeOK, apart from the lists and the reference count.
OtherTypes ==
  /\ heap    \in [Callback -> {"unused", "live", "freed"}]
  /\ owner   \in [Owner -> {"none", "alive", "dead"}]
  /\ popping \in [Thread -> [kind : Kind, owner : Owner \cup {Null}] \cup {Idle}]
  /\ phase   \in {"running", "prefinalize", "finalize", "done"}
  /\ current \in Entry \cup {NoEntry}
  /\ ran \in Seq(Callback) /\ popped \subseteq Callback
  /\ fault \in {"none", "use after free"}

\* Entries have an owner and a callback; no entry, and no pop, are nobody's.
LEMMA EntryFields ==
  /\ \A e \in Entry : e.owner \in Owner \cup {Null} /\ e.callback \in Callback
  /\ NoEntry \notin Entry
  /\ \A p \in [kind : Kind, owner : Owner \cup {Null}] : p # Idle /\ p.kind \in Kind
<1>1. NoEntry.callback = Null /\ Idle.kind = "none" /\ "none" \notin Kind
  BY DEF NoEntry, Idle, Kind
<1> QED
  BY <1>1, NullIsFresh DEF Entry

\* The members of Margo's lists are entries.
LEMMA EntriesOf ==
  ASSUME StackType, NEW k \in Kind
  PROVE  \A i \in DOMAIN stack[k] : stack[k][i] \in Entry
<1>1. stack[k] \in Seq(Entry)
  BY DEF StackType
<1> QED
  BY <1>1, LenProperties

\* The beginning of a pop.
LEMMA PopBeginTypes ==
  ASSUME StackType, OtherTypes, NEW t \in Thread, NEW k \in Kind,
         NEW o \in Owner \cup {Null}, PopBegin(t, k, o)
  PROVE  /\ Topmost(k, o) \in DOMAIN stack[k] /\ stack[k][Topmost(k, o)].owner = o
         /\ stack[k][Topmost(k, o)].callback \in Callback
         /\ stack' = stack /\ phase' = phase /\ current' = current /\ ran' = ran
         /\ heap'    \in [Callback -> {"unused", "live", "freed"}]
         /\ popping' \in [Thread -> [kind : Kind, owner : Owner \cup {Null}] \cup {Idle}]
         /\ popped' \subseteq Callback
         /\ fault' \in {"none", "use after free"}
<1>1. Topmost(k, o) \in Positions(k, o)
  BY TopmostIs DEF PopBegin
<1>2. Topmost(k, o) \in DOMAIN stack[k] /\ stack[k][Topmost(k, o)].owner = o
  BY <1>1 DEF Positions
<1>3. stack[k][Topmost(k, o)].callback \in Callback
  BY <1>2, EntriesOf, EntryFields
<1>4. heap' \in [Callback -> {"unused", "live", "freed"}]
  BY <1>3 DEF PopBegin, OtherTypes
<1>5. popping' \in [Thread -> [kind : Kind, owner : Owner \cup {Null}] \cup {Idle}]
  BY DEF PopBegin, OtherTypes
<1>6. /\ popped' \subseteq Callback /\ fault' \in {"none", "use after free"}
      /\ stack' = stack /\ phase' = phase /\ current' = current /\ ran' = ran
  BY <1>3 DEF PopBegin, OtherTypes
<1> QED
  BY <1>2, <1>3, <1>4, <1>5, <1>6

\* The removal at the end of a pop.
LEMMA PopEndRemoves ==
  ASSUME StackType, OtherTypes, NEW t \in Thread, PopEnd(t)
  PROVE  \E k \in Kind, o \in Owner \cup {Null} :
           /\ popping[t] = [kind |-> k, owner |-> o]
           /\ \/ Positions(k, o) = {} /\ stack' = stack
              \/ /\ Topmost(k, o) \in Positions(k, o)
                 /\ \A j \in Positions(k, o) : j <= Topmost(k, o)
                 /\ stack' = [stack EXCEPT ![k] = Without(@, Topmost(k, o))]
<1>1. popping[t] \in [kind : Kind, owner : Owner \cup {Null}]
  BY DEF PopEnd, OtherTypes
<1>2. PICK k \in Kind, o \in Owner \cup {Null} : popping[t] = [kind |-> k, owner |-> o]
  BY <1>1
<1>3. stack' = IF Positions(k, o) = {} THEN stack
               ELSE [stack EXCEPT ![k] = Without(@, Topmost(k, o))]
  BY <1>2 DEF PopEnd
<1>4. CASE Positions(k, o) = {}
  BY <1>2, <1>3, <1>4
<1>5. CASE Positions(k, o) # {}
  <2>1. /\ Topmost(k, o) \in Positions(k, o)
        /\ \A j \in Positions(k, o) : j <= Topmost(k, o)
    BY <1>5, TopmostIs
  <2> QED
    BY <1>2, <1>3, <1>5, <2>1
<1> QED
  BY <1>4, <1>5

\* The removal of the entry whose callback margo_finalize calls.
LEMMA RunTopRemoves ==
  ASSUME StackType, NEW k \in Kind, RunTop(k)
  PROVE  /\ Len(stack[k]) \in DOMAIN stack[k]
         /\ current' = stack[k][Len(stack[k])] /\ current' \in Entry
         /\ stack' = [stack EXCEPT ![k] = Without(@, Len(stack[k]))]
<1>1. stack[k] \in Seq(Entry) /\ stack[k] # <<>>
  BY DEF StackType, RunTop
<1>2. /\ Len(stack[k]) \in DOMAIN stack[k]
      /\ SubSeq(stack[k], 1, Len(stack[k]) - 1) = Without(stack[k], Len(stack[k]))
  BY <1>1, DropLast
<1> QED
  BY <1>2, EntriesOf DEF RunTop

\* A push.
LEMMA PushTypes ==
  ASSUME StackType, NEW k \in Kind, NEW o \in Owner \cup {Null}, NEW c \in Callback,
         Push(k, o, c)
  PROVE  /\ StackType'
         /\ \A l \in Kind : \A j \in DOMAIN stack'[l] :
              \/ j \in DOMAIN stack[l] /\ stack'[l][j] = stack[l][j]
              \/ /\ l = k /\ j = Len(stack[k]) + 1
                 /\ stack'[l][j] = [owner |-> o, callback |-> c]
<1>e. PICK e \in Entry : e = [owner |-> o, callback |-> c]
  BY DEF Entry
<1>p. stack' = [stack EXCEPT ![k] = Append(@, e)]
  BY <1>e DEF Push
<1>1. stack[k] \in Seq(Entry) /\ DOMAIN stack = Kind
  BY DEF StackType
<1>2. /\ Append(stack[k], e) \in Seq(Entry)
      /\ Len(Append(stack[k], e)) = Len(stack[k]) + 1
      /\ \A i \in 1..Len(stack[k]) : Append(stack[k], e)[i] = stack[k][i]
      /\ Append(stack[k], e)[Len(stack[k]) + 1] = e
  BY <1>1, AppendProperties
<1>3. stack'[k] = Append(stack[k], e) /\ \A l \in Kind \ {k} : stack'[l] = stack[l]
  BY <1>1, <1>p
<1>4. StackType'
  BY <1>2, <1>p DEF StackType
<1>5. /\ DOMAIN stack[k] = 1..Len(stack[k]) /\ Len(stack[k]) \in Nat
      /\ DOMAIN Append(stack[k], e) = 1..(Len(stack[k]) + 1)
  BY <1>1, <1>2, LenProperties
<1>6. \A j \in DOMAIN stack'[k] :
        \/ j \in DOMAIN stack[k] /\ stack'[k][j] = stack[k][j]
        \/ j = Len(stack[k]) + 1 /\ stack'[k][j] = e
  BY <1>2, <1>3, <1>5
<1>7. /\ StackType'
      /\ \A l \in Kind : \A j \in DOMAIN stack'[l] :
           \/ j \in DOMAIN stack[l] /\ stack'[l][j] = stack[l][j]
           \/ l = k /\ j = Len(stack[k]) + 1 /\ stack'[l][j] = e
  BY <1>3, <1>4, <1>6
<1> QED
  BY <1>e, <1>7

\* Every step keeps the types, apart from that of the reference count.
LEMMA TypeStep ==
  ASSUME StackType, OtherTypes, [Next]_vars
  PROVE  StackType' /\ OtherTypes'
<1>1. ASSUME NEW k \in Kind, NEW o \in Owner \cup {Null}, NEW c \in Callback,
             Push(k, o, c), owner' \in [Owner -> {"none", "alive", "dead"}]
      PROVE  StackType' /\ OtherTypes'
  <2>1. StackType'
    BY <1>1, PushTypes
  <2>2. heap' \in [Callback -> {"unused", "live", "freed"}]
    BY <1>1 DEF Push, OtherTypes
  <2>3. UNCHANGED <<popping, phase, current, ran, popped, fault>>
    BY <1>1 DEF Push
  <2> QED
    BY <1>1, <2>1, <2>2, <2>3 DEF OtherTypes
<1>2. ASSUME NEW t \in Thread, NEW k \in Kind, NEW o \in Owner \cup {Null},
             PopBegin(t, k, o), owner' \in [Owner -> {"none", "alive", "dead"}]
      PROVE  StackType' /\ OtherTypes'
  <2>1. /\ stack' = stack /\ phase' = phase /\ current' = current /\ ran' = ran
        /\ heap'    \in [Callback -> {"unused", "live", "freed"}]
        /\ popping' \in [Thread -> [kind : Kind, owner : Owner \cup {Null}] \cup {Idle}]
        /\ popped' \subseteq Callback
        /\ fault' \in {"none", "use after free"}
    BY <1>2, PopBeginTypes
  <2> QED
    BY <1>2, <2>1 DEF StackType, OtherTypes
<1>3. owner \in [Owner -> {"none", "alive", "dead"}]
  BY DEF OtherTypes
<1>4. ASSUME NEW k \in Kind, NEW c \in Callback, PushCallback(k, c)
      PROVE  StackType' /\ OtherTypes'
  BY <1>1, <1>3, <1>4 DEF PushCallback
<1>5. ASSUME NEW o \in Owner, NEW c \in Callback, NewOwner(o, c)
      PROVE  StackType' /\ OtherTypes'
  <2>1. owner' \in [Owner -> {"none", "alive", "dead"}]
    BY <1>3, <1>5 DEF NewOwner
  <2> QED
    BY <1>1, <1>5, <2>1 DEF NewOwner, Kind
<1>6. ASSUME NEW t \in Thread, NEW k \in Kind, PopCallback(t, k)
      PROVE  StackType' /\ OtherTypes'
  BY <1>2, <1>3, <1>6 DEF PopCallback
<1>7. ASSUME NEW t \in Thread, NEW o \in Owner, DestroyOwner(t, o)
      PROVE  StackType' /\ OtherTypes'
  <2>1. owner' \in [Owner -> {"none", "alive", "dead"}]
    BY <1>3, <1>7 DEF DestroyOwner
  <2>2. CASE PopBegin(t, "finalize", o)
    BY <1>2, <2>1, <2>2 DEF Kind
  <2>3. CASE UNCHANGED <<stack, heap, popping, phase, current, ran, popped, holds, refs,
                         fault>>
    BY <2>1, <2>3 DEF StackType, OtherTypes
  <2> QED
    BY <1>7, <2>2, <2>3 DEF DestroyOwner
<1>8. ASSUME NEW t \in Thread, PopEnd(t)
      PROVE  StackType' /\ OtherTypes'
  <2>1. PICK k \in Kind, o \in Owner \cup {Null} :
          \/ stack' = stack
          \/ /\ Topmost(k, o) \in Positions(k, o)
             /\ stack' = [stack EXCEPT ![k] = Without(@, Topmost(k, o))]
    BY <1>8, PopEndRemoves
  <2>2. StackType'
    <3>1. CASE stack' = stack
      BY <3>1 DEF StackType
    <3>2. CASE stack' # stack
      <4>1. Topmost(k, o) \in DOMAIN stack[k]
        BY <2>1, <3>2 DEF Positions
      <4> QED
        BY <2>1, <3>2, <4>1, RemoveEffect
    <3> QED
      BY <3>1, <3>2
  <2>3. popping' \in [Thread -> [kind : Kind, owner : Owner \cup {Null}] \cup {Idle}]
    BY <1>8 DEF PopEnd, OtherTypes
  <2>4. UNCHANGED <<heap, owner, phase, current, ran, popped, fault>>
    BY <1>8 DEF PopEnd
  <2> QED
    BY <2>2, <2>3, <2>4 DEF OtherTypes
<1>9. CASE RefStep
  <2>1. UNCHANGED callbacks /\ UNCHANGED <<current, ran, popped, fault>>
        /\ phase' \in {phase, "prefinalize"}
    BY <1>9 DEF RefStep, CopyRef, MoveRef, DropRef, DropLastRef
  <2> QED
    BY <2>1 DEF StackType, OtherTypes, callbacks
<1>10. ASSUME NEW t \in Thread, Finalize(t)
       PROVE  StackType' /\ OtherTypes'
  BY <1>10 DEF Finalize, StackType, OtherTypes, callbacks
<1>11. ASSUME NEW k \in Kind, RunTop(k)
       PROVE  StackType' /\ OtherTypes'
  <2>1. /\ Len(stack[k]) \in DOMAIN stack[k] /\ current' \in Entry
        /\ stack' = [stack EXCEPT ![k] = Without(@, Len(stack[k]))]
    BY <1>11, RunTopRemoves
  <2>2. StackType'
    BY <2>1, RemoveEffect
  <2>3. UNCHANGED <<heap, owner, popping, phase, ran, popped, fault>>
    BY <1>11 DEF RunTop
  <2> QED
    BY <2>1, <2>2, <2>3 DEF OtherTypes
<1>12. CASE CallbackReturns
  <2>1. current.callback \in Callback
    BY <1>12, EntryFields DEF CallbackReturns, OtherTypes
  <2>2. heap' \in [Callback -> {"unused", "live", "freed"}] /\ current' = NoEntry
        /\ fault' \in {"none", "use after free"}
    BY <1>12 DEF CallbackReturns, OtherTypes
  <2>3. ran' \in Seq(Callback)
    <3>1. ran' = ran \/ ran' = Append(ran, current.callback)
      BY <1>12 DEF CallbackReturns
    <3>2. ran \in Seq(Callback)
      BY DEF OtherTypes
    <3>3. Append(ran, current.callback) \in Seq(Callback)
      BY <2>1, <3>2, AppendProperties
    <3> QED
      BY <3>1, <3>2, <3>3
  <2>4. UNCHANGED <<stack, owner, popping, phase, popped>>
    BY <1>12 DEF CallbackReturns
  <2> QED
    BY <2>2, <2>3, <2>4 DEF StackType, OtherTypes
<1>13. CASE StopProgress
  BY <1>13 DEF StopProgress, StackType, OtherTypes, callbacks
<1>14. CASE FinalizeReturns
  BY <1>14 DEF FinalizeReturns, StackType, OtherTypes, callbacks
<1>15. CASE UNCHANGED vars
  BY <1>15 DEF vars, StackType, OtherTypes, callbacks
<1> QED
  BY <1>4, <1>5, <1>6, <1>7, <1>8, <1>9, <1>10, <1>11, <1>12, <1>13, <1>14, <1>15
     DEF Next, StackStep, FinalizeStep

\* The type invariant, and its parts.
LEMMA TypeParts == TypeOK <=> StackType /\ OtherTypes /\ holds \subseteq Holder /\ refs \in Nat
BY DEF TypeOK, StackType, OtherTypes

\* A count of references is a number.
LEMMA CountIsNatural == ASSUME Refs PROVE refs \in Nat
BY Counting DEF Refs, RefsExact

-----------------------------------------------------------------------------
(* The fate of a callback                                                  *)

\* Every step keeps OneFate.
LEMMA FateStep ==
  ASSUME StackType, OtherTypes, OneFate, [Next]_vars
  PROVE  OneFate'
<1> DEFINE Same == ran' = ran /\ popped' = popped
                   /\ \A c \in Callback : heap'[c] = "freed" <=> heap[c] = "freed"
<1>1. ASSUME Same
      PROVE  OneFate'
  BY <1>1 DEF OneFate, HasRun
<1>2. ASSUME NEW k \in Kind, NEW o, NEW c \in Callback, Push(k, o, c)
      PROVE  Same
  BY <1>2 DEF Push, OtherTypes
<1>3. ASSUME NEW t \in Thread, NEW k \in Kind, NEW o \in Owner \cup {Null},
             PopBegin(t, k, o)
      PROVE  OneFate'
  <2> DEFINE c == stack[k][Topmost(k, o)].callback
  <2>1. c \in Callback /\ ran' = ran
    BY <1>3, PopBeginTypes
  <2>2. CASE heap[c] = "freed"
    <3>1. Same
      BY <1>3, <2>1, <2>2 DEF PopBegin
    <3> QED
      BY <1>1, <3>1
  <2>3. CASE heap[c] # "freed"
    <3>1. heap' = [heap EXCEPT ![c] = "freed"] /\ popped' = popped \cup {c}
      BY <1>3, <2>3 DEF PopBegin
    <3> HIDE DEF c
    <3>2. heap'[c] = "freed" /\ \A d \in Callback \ {c} : heap'[d] = heap[d]
      BY <2>1, <3>1 DEF OtherTypes
    <3> QED
      BY <2>1, <2>3, <3>1, <3>2 DEF OneFate, HasRun
  <2> QED
    BY <2>2, <2>3
<1>4. CASE CallbackReturns
  <2> DEFINE c == current.callback
  <2>1. c \in Callback
    BY <1>4, EntryFields DEF CallbackReturns, OtherTypes
  <2>2. popped' = popped
    BY <1>4 DEF CallbackReturns
  <2>3. CASE heap[c] = "freed"
    <3>1. Same
      BY <1>4, <2>3 DEF CallbackReturns
    <3> QED
      BY <1>1, <3>1
  <2>4. CASE heap[c] # "freed"
    <3>1. heap' = [heap EXCEPT ![c] = "freed"] /\ ran' = Append(ran, c)
      BY <1>4, <2>4 DEF CallbackReturns
    <3> HIDE DEF c
    <3>2. heap'[c] = "freed" /\ \A d \in Callback \ {c} : heap'[d] = heap[d]
      BY <2>1, <3>1 DEF OtherTypes
    <3>3. ran \in Seq(Callback) /\ DOMAIN ran = 1..Len(ran) /\ Len(ran) \in Nat
      BY LenProperties DEF OtherTypes
    <3>4. /\ ran' \in Seq(Callback) /\ Len(ran') = Len(ran) + 1
          /\ \A i \in 1..Len(ran) : ran'[i] = ran[i]
          /\ ran'[Len(ran) + 1] = c
      BY <2>1, <3>1, <3>3, AppendProperties
    <3>5. DOMAIN ran' = 1..(Len(ran) + 1)
      BY <3>4, LenProperties
    <3>6. ~HasRun(c) /\ c \notin popped
      BY <2>1, <2>4 DEF OneFate
    <3>7. \A i, j \in DOMAIN ran' : ran'[i] = ran'[j] => i = j
      BY <3>3, <3>4, <3>5, <3>6 DEF OneFate, HasRun
    <3>8. \A d \in Callback : HasRun(d)' <=> HasRun(d) \/ d = c
      BY <3>3, <3>4, <3>5 DEF HasRun
    <3>9. \A d \in Callback : ~(HasRun(d)' /\ d \in popped')
      BY <2>2, <3>6, <3>8 DEF OneFate
    <3>10. \A d \in Callback : heap'[d] = "freed" <=> HasRun(d)' \/ d \in popped'
      BY <2>2, <3>2, <3>8 DEF OneFate
    <3> QED
      BY <3>7, <3>9, <3>10 DEF OneFate
  <2> QED
    BY <2>3, <2>4
<1>5. ASSUME NEW t \in Thread, NEW o \in Owner, DestroyOwner(t, o)
      PROVE  OneFate'
  <2>1. CASE PopBegin(t, "finalize", o)
    BY <1>3, <2>1 DEF Kind
  <2>2. CASE UNCHANGED <<stack, heap, popping, phase, current, ran, popped, holds, refs,
                         fault>>
    BY <1>1, <2>2
  <2> QED
    BY <1>5, <2>1, <2>2 DEF DestroyOwner
<1>6. ASSUME NEW t \in Thread, PopEnd(t)
      PROVE  Same
  BY <1>6 DEF PopEnd
<1>7. ASSUME RefStep \/ StopProgress \/ FinalizeReturns \/ UNCHANGED vars
      PROVE  Same
  BY <1>7 DEF RefStep, CopyRef, MoveRef, DropRef, DropLastRef, StopProgress,
              FinalizeReturns, callbacks, vars
<1>8. ASSUME NEW t \in Thread, Finalize(t)
      PROVE  Same
  BY <1>8 DEF Finalize, callbacks
<1>9. ASSUME NEW k \in Kind, RunTop(k)
      PROVE  Same
  BY <1>9 DEF RunTop
<1> HIDE DEF Same
<1>10. CASE StackStep
  <2>1. ASSUME NEW t \in Thread, NEW k \in Kind, PopCallback(t, k)
        PROVE  OneFate'
    BY <1>3, <2>1 DEF PopCallback
  <2>2. ASSUME NEW k \in Kind, NEW c \in Callback, PushCallback(k, c)
        PROVE  OneFate'
    BY <1>1, <1>2, <2>2 DEF PushCallback
  <2>3. ASSUME NEW o \in Owner, NEW c \in Callback, NewOwner(o, c)
        PROVE  OneFate'
    BY <1>1, <1>2, <2>3 DEF NewOwner, Kind
  <2> QED
    BY <1>1, <1>5, <1>6, <1>10, <2>1, <2>2, <2>3 DEF StackStep
<1> QED
  BY <1>1, <1>4, <1>7, <1>8, <1>9, <1>10 DEF Next, FinalizeStep

-----------------------------------------------------------------------------
(* The entries of Margo's lists, where no pop runs beside a finalization   *)

\* The entry that a pop is about to remove.
Busy(k, i) ==
  \E t \in Thread :
    /\ popping[t] = [kind |-> k, owner |-> stack[k][i].owner]
    /\ \A j \in DOMAIN stack[k] : stack[k][j].owner = stack[k][i].owner => j <= i

OnePop   == \A t, u \in Thread : popping[t] # Idle /\ popping[u] # Idle => t = u
Live     == \A k \in Kind : \A i \in DOMAIN stack[k] :
              Busy(k, i) \/ heap[stack[k][i].callback] = "live"
Distinct == \A k, l \in Kind : \A i \in DOMAIN stack[k] : \A j \in DOMAIN stack[l] :
              stack[k][i].callback = stack[l][j].callback => k = l /\ i = j
Apart    == current # NoEntry =>
              /\ heap[current.callback] = "live"
              /\ \A k \in Kind : \A i \in DOMAIN stack[k] :
                   stack[k][i].callback # current.callback
Started  == \A k \in Kind : \A i \in DOMAIN stack[k] : stack[k][i].owner # Null =>
              k = "finalize" /\ owner[stack[k][i].owner] # "none"
Alive    == \A k \in Kind : \A i \in DOMAIN stack[k] : stack[k][i].owner # Null =>
              Busy(k, i) \/ owner[stack[k][i].owner] = "alive"
OneEach  == \A i, j \in DOMAIN stack["finalize"] :
              stack["finalize"][i].owner # Null
                /\ stack["finalize"][i].owner = stack["finalize"][j].owner => i = j

Lists == OnePop /\ Live /\ Distinct /\ Apart /\ Started /\ Alive /\ OneEach
         /\ NoUseAfterFree

\* When no pop is in progress, all entries are live and so are their owners.
LEMMA Quiet ==
  ASSUME Lists, NoPop
  PROVE  \A k \in Kind : \A i \in DOMAIN stack[k] :
           /\ heap[stack[k][i].callback] = "live"
           /\ stack[k][i].owner # Null => owner[stack[k][i].owner] = "alive"
<1>1. ASSUME NEW k \in Kind, NEW i PROVE ~Busy(k, i)
  <2>1. [kind |-> k, owner |-> stack[k][i].owner] # Idle
    BY DEF Idle, Kind
  <2> QED
    BY <2>1 DEF Busy, NoPop
<1> QED
  BY <1>1 DEF Lists, Live, Alive

\* A step that touches no list, no callback and no owner keeps all of this.
LEMMA Untouched ==
  ASSUME Lists, UNCHANGED <<stack, heap, owner, popping, current, fault>>
  PROVE  Lists'
<1>1. \A k, i : Busy(k, i)' <=> Busy(k, i)
  BY DEF Busy
<1>2. Live' /\ Alive'
  BY <1>1 DEF Lists, Live, Alive
<1>3. OnePop' /\ Distinct' /\ Apart' /\ Started' /\ OneEach' /\ NoUseAfterFree'
  BY DEF Lists, OnePop, Distinct, Apart, Started, OneEach, NoUseAfterFree
<1> QED
  BY <1>2, <1>3 DEF Lists

\* A push adds an entry apart from all others.
LEMMA PushLists ==
  ASSUME StackType, OtherTypes, Lists, NoPop,
         NEW k \in Kind, NEW o \in Owner \cup {Null}, NEW c \in Callback, Push(k, o, c),
         owner' \in [Owner -> {"none", "alive", "dead"}],
         \A q \in Owner \ {o} : owner'[q] = owner[q],
         o # Null => k = "finalize" /\ owner[o] = "none" /\ owner'[o] = "alive"
  PROVE  Lists'
<1> DEFINE new == Len(stack[k]) + 1
<1>1. \A l \in Kind : \A j \in DOMAIN stack'[l] :
        \/ j \in DOMAIN stack[l] /\ stack'[l][j] = stack[l][j]
        \/ l = k /\ j = new /\ stack'[l][j] = [owner |-> o, callback |-> c]
  BY PushTypes
<1>2. heap[c] = "unused" /\ heap' = [heap EXCEPT ![c] = "live"]
      /\ UNCHANGED <<popping, current, fault>>
  BY DEF Push
<1>3. heap'[c] = "live" /\ \A d \in Callback \ {c} : heap'[d] = heap[d]
  BY <1>2 DEF OtherTypes
<1>4. \A l \in Kind : \A j \in DOMAIN stack[l] :
        /\ heap[stack[l][j].callback] = "live" /\ stack[l][j].callback # c
        /\ stack[l][j].callback \in Callback /\ stack[l][j].owner \in Owner \cup {Null}
        /\ stack[l][j].owner # Null =>
             owner[stack[l][j].owner] = "alive" /\ stack[l][j].owner # o
  <2>1. \A l \in Kind : \A j \in DOMAIN stack[l] :
          /\ heap[stack[l][j].callback] = "live"
          /\ stack[l][j].owner # Null => owner[stack[l][j].owner] = "alive"
    BY Quiet
  <2>2. \A l \in Kind : \A j \in DOMAIN stack[l] : stack[l][j] \in Entry
    BY EntriesOf
  <2> QED
    BY <1>2, <2>1, <2>2, EntryFields
<1>5. Live'
  BY <1>1, <1>3, <1>4 DEF Live
<1> HIDE DEF new
<1>6. Distinct'
  BY <1>1, <1>4 DEF Lists, Distinct
<1>7. Apart'
  <2>1. current # NoEntry => heap[current.callback] = "live" /\ current.callback \in Callback
    BY EntryFields DEF Lists, Apart, OtherTypes
  <2> QED
    BY <1>1, <1>2, <1>3, <2>1 DEF Lists, Apart
<1>8. Started' /\ Alive'
  BY <1>1, <1>4 DEF Lists, Started, Alive
<1>9. OneEach'
  <2>1. "finalize" \in Kind
    BY DEF Kind
  <2> DEFINE f == "finalize"
  <2>2. \A j \in DOMAIN stack'[f] :
          \/ j \in DOMAIN stack[f] /\ stack'[f][j] = stack[f][j]
          \/ f = k /\ j = new /\ stack'[f][j].owner = o
    BY <1>1, <2>1
  <2>3. \A j \in DOMAIN stack[f] : stack[f][j].owner # Null => stack[f][j].owner # o
    BY <1>4, <2>1
  <2>4. \A i, j \in DOMAIN stack[f] : stack[f][i].owner # Null
          /\ stack[f][i].owner = stack[f][j].owner => i = j
    BY DEF Lists, OneEach
  <2> HIDE DEF f
  <2>5. \A i, j \in DOMAIN stack'[f] : stack'[f][i].owner # Null
          /\ stack'[f][i].owner = stack'[f][j].owner => i = j
    BY <2>2, <2>3, <2>4
  <2> QED
    BY <2>5 DEF OneEach, f
<1>10. OnePop' /\ NoUseAfterFree'
  BY <1>2 DEF Lists, OnePop, NoUseAfterFree
<1> QED
  BY <1>5, <1>6, <1>7, <1>8, <1>9, <1>10 DEF Lists

\* The first half of a pop deletes only the function of the entry that the
\* second half removes.
LEMMA PopBeginLists ==
  ASSUME StackType, OtherTypes, Lists,
         NEW t \in Thread, NEW k \in Kind, NEW o \in Owner \cup {Null}, PopBegin(t, k, o),
         owner' = owner \/ (o # Null /\ k = "finalize"
                            /\ owner' = [owner EXCEPT ![o] = "dead"])
  PROVE  Lists'
<1>0. PICK i, c : i = Topmost(k, o) /\ c = stack[k][i].callback
  OBVIOUS
<1>1. /\ i \in DOMAIN stack[k] /\ stack[k][i].owner = o /\ c \in Callback
      /\ stack' = stack /\ current' = current
  BY <1>0, PopBeginTypes
<1>2. \A j \in DOMAIN stack[k] : stack[k][j].owner = o => j <= i
  BY <1>0, TopmostIs DEF PopBegin, Positions
<1>3. NoPop
  BY DEF PopBegin, Free
<1>4. \A l \in Kind : \A j \in DOMAIN stack[l] :
        /\ heap[stack[l][j].callback] = "live" /\ stack[l][j].callback \in Callback
        /\ stack[l][j].owner # Null =>
             stack[l][j].owner \in Owner /\ owner[stack[l][j].owner] = "alive"
  BY <1>3, Quiet, EntriesOf, EntryFields
<1>5. heap[c] = "live"
  BY <1>0, <1>1, <1>4
<1>6. heap' = [heap EXCEPT ![c] = "freed"] /\ fault' = fault
      /\ popping' = [popping EXCEPT ![t] = [kind |-> k, owner |-> o]]
  BY <1>0, <1>5 DEF PopBegin
<1>7. /\ \A d \in Callback \ {c} : heap'[d] = heap[d]
      /\ popping'[t] = [kind |-> k, owner |-> o]
      /\ \A u \in Thread \ {t} : popping'[u] = Idle
  BY <1>1, <1>3, <1>6 DEF OtherTypes, NoPop
<1>8. Busy(k, i)'
  BY <1>1, <1>2, <1>7 DEF Busy
<1>9. \A l \in Kind : \A j \in DOMAIN stack[l] :
        stack[l][j].callback = c => l = k /\ j = i
  BY <1>0, <1>1 DEF Lists, Distinct
<1>10. Live'
  BY <1>1, <1>4, <1>7, <1>8, <1>9 DEF Live
<1>11. OnePop' /\ Distinct' /\ OneEach' /\ NoUseAfterFree'
  BY <1>1, <1>6, <1>7 DEF Lists, OnePop, Distinct, OneEach, NoUseAfterFree
<1>12. Apart'
  <2>1. current # NoEntry => current.callback \in Callback /\ current.callback # c
    BY <1>0, <1>1, EntryFields DEF Lists, Apart, OtherTypes
  <2> QED
    BY <1>1, <1>7, <2>1 DEF Lists, Apart
<1>13. Started' /\ Alive'
  <2>1. CASE owner' = owner
    BY <1>1, <1>4, <2>1 DEF Lists, Started, Alive
  <2>2. CASE o # Null /\ k = "finalize" /\ owner' = [owner EXCEPT ![o] = "dead"]
    <3>1. /\ owner'[o] = "dead" /\ \A q \in Owner \ {o} : owner'[q] = owner[q]
      BY <2>2 DEF OtherTypes
    <3>2. \A l \in Kind : \A j \in DOMAIN stack[l] :
            stack[l][j].owner = o => l = k /\ j = i
      BY <1>1, <2>2 DEF Lists, Started, OneEach
    <3>3. Alive'
      BY <1>1, <1>4, <1>8, <3>1, <3>2 DEF Alive
    <3>4. Started'
      BY <1>1, <1>4, <3>1 DEF Lists, Started
    <3> QED
      BY <3>3, <3>4
  <2> QED
    BY <2>1, <2>2
<1> QED
  BY <1>10, <1>11, <1>12, <1>13 DEF Lists

\* Removing entry i of list k is harmless when every other entry is settled.
LEMMA RemoveLists ==
  ASSUME StackType, OtherTypes, Lists, NEW k \in Kind, NEW i \in DOMAIN stack[k],
         stack' = [stack EXCEPT ![k] = Without(@, i)],
         \A l \in Kind : \A m \in DOMAIN stack[l] :
           (l = k /\ m = i) \/ ~Busy(l, m),
         UNCHANGED <<heap, owner>>
  PROVE  Live' /\ Distinct' /\ Started' /\ Alive' /\ OneEach'
<1>1. /\ \A l \in Kind : \A j \in DOMAIN stack'[l] : \E m \in DOMAIN stack[l] :
            (l = k => m # i) /\ stack'[l][j] = stack[l][m]
      /\ \A l \in Kind : \A j, h \in DOMAIN stack'[l] : j # h =>
            \E m, n \in DOMAIN stack[l] :
              m # n /\ stack'[l][j] = stack[l][m] /\ stack'[l][h] = stack[l][n]
  BY RemoveEffect
<1>2. \A l \in Kind : \A m \in DOMAIN stack[l] : ~(l = k /\ m = i) =>
        /\ heap[stack[l][m].callback] = "live"
        /\ stack[l][m].owner # Null => owner[stack[l][m].owner] = "alive"
  BY DEF Lists, Live, Alive
<1>3. Live' /\ Alive'
  <2>1. heap' = heap /\ owner' = owner
    OBVIOUS
  <2>2. ASSUME NEW l \in Kind, NEW j \in DOMAIN stack'[l]
        PROVE  /\ heap[stack'[l][j].callback] = "live"
               /\ stack'[l][j].owner # Null => owner[stack'[l][j].owner] = "alive"
    <3>1. PICK m \in DOMAIN stack[l] : (l = k => m # i) /\ stack'[l][j] = stack[l][m]
      BY <1>1
    <3>2. ~(l = k /\ m = i)
      BY <3>1
    <3> QED
      BY <1>2, <3>1, <3>2
  <2>3. Live'
    BY <2>1, <2>2 DEF Live
  <2>4. Alive'
    BY <2>1, <2>2 DEF Alive
  <2> QED
    BY <2>3, <2>4
<1>4. Started'
  BY <1>1 DEF Lists, Started
<1>5. Distinct'
  <2> SUFFICES ASSUME NEW l \in Kind, NEW g \in Kind,
                      NEW j \in DOMAIN stack'[l], NEW h \in DOMAIN stack'[g],
                      stack'[l][j].callback = stack'[g][h].callback
               PROVE  l = g /\ j = h
    BY DEF Distinct
  <2>1. \A m \in DOMAIN stack[l] : \A n \in DOMAIN stack[g] :
          stack[l][m].callback = stack[g][n].callback => l = g /\ m = n
    BY DEF Lists, Distinct
  <2>2. PICK m \in DOMAIN stack[l] : stack'[l][j] = stack[l][m]
    BY <1>1
  <2>3. PICK n \in DOMAIN stack[g] : stack'[g][h] = stack[g][n]
    <3>1. \A f \in Kind : \A y \in DOMAIN stack'[f] : \E n \in DOMAIN stack[f] :
            stack'[f][y] = stack[f][n]
      BY <1>1
    <3> QED
      BY <3>1
  <2>4. l = g
    BY <2>1, <2>2, <2>3
  <2>5. j = h
    BY <1>1, <2>1, <2>4
  <2> QED
    BY <2>4, <2>5
<1>6. OneEach'
  BY <1>1 DEF Lists, OneEach, Kind
<1> QED
  BY <1>3, <1>4, <1>5, <1>6

\* The second half of a pop removes the entry whose function is gone.
LEMMA PopEndLists ==
  ASSUME StackType, OtherTypes, Lists, NEW t \in Thread, PopEnd(t)
  PROVE  Lists'
<1>1. PICK k \in Kind, o \in Owner \cup {Null} :
        /\ popping[t] = [kind |-> k, owner |-> o]
        /\ \/ Positions(k, o) = {} /\ stack' = stack
           \/ /\ Topmost(k, o) \in Positions(k, o)
              /\ \A j \in Positions(k, o) : j <= Topmost(k, o)
              /\ stack' = [stack EXCEPT ![k] = Without(@, Topmost(k, o))]
  BY PopEndRemoves
<1>2. /\ UNCHANGED <<heap, owner, current, fault>>
      /\ popping' = [popping EXCEPT ![t] = Idle] /\ popping[t] # Idle
  BY DEF PopEnd
<1>3. \A u \in Thread : popping'[u] = Idle
  BY <1>2 DEF Lists, OnePop, OtherTypes
<1>4. \A l \in Kind : \A m \in DOMAIN stack[l] : Busy(l, m) =>
        /\ l = k /\ m \in Positions(k, o) /\ \A j \in Positions(k, o) : j <= m
  <2> SUFFICES ASSUME NEW l \in Kind, NEW m \in DOMAIN stack[l], Busy(l, m)
               PROVE  l = k /\ m \in Positions(k, o) /\ \A j \in Positions(k, o) : j <= m
    OBVIOUS
  <2>1. PICK u \in Thread :
          /\ popping[u] = [kind |-> l, owner |-> stack[l][m].owner]
          /\ \A j \in DOMAIN stack[l] : stack[l][j].owner = stack[l][m].owner => j <= m
    BY DEF Busy
  <2>2. popping[u] # Idle
    BY <2>1 DEF Idle, Kind
  <2>3. u = t
    BY <1>2, <2>2 DEF Lists, OnePop
  <2>4. l = k /\ stack[l][m].owner = o
    BY <1>1, <2>1, <2>3
  <2> QED
    BY <2>1, <2>4 DEF Positions
<1>5. OnePop' /\ NoUseAfterFree'
  BY <1>2, <1>3 DEF Lists, OnePop, NoUseAfterFree
<1>6. CASE Positions(k, o) = {} /\ stack' = stack
  <2>1. \A l \in Kind : \A m \in DOMAIN stack[l] : ~Busy(l, m)
    BY <1>4, <1>6
  <2>2. Live' /\ Alive'
    BY <1>2, <1>6, <2>1 DEF Lists, Live, Alive
  <2>3. Distinct' /\ Apart' /\ Started' /\ OneEach'
    BY <1>2, <1>6 DEF Lists, Distinct, Apart, Started, OneEach
  <2> QED
    BY <1>5, <2>2, <2>3 DEF Lists
<1>7. CASE /\ Topmost(k, o) \in Positions(k, o)
           /\ \A j \in Positions(k, o) : j <= Topmost(k, o)
           /\ stack' = [stack EXCEPT ![k] = Without(@, Topmost(k, o))]
  <2>1. PICK i \in DOMAIN stack[k] : i = Topmost(k, o)
    BY <1>7 DEF Positions
  <2>2. \A l \in Kind : \A m \in DOMAIN stack[l] : (l = k /\ m = i) \/ ~Busy(l, m)
    <3>1. \A m \in Positions(k, o) : m \in Int
      <4>1. stack[k] \in Seq(Entry)
        BY DEF StackType
      <4> QED
        BY <4>1, LenProperties DEF Positions
    <3>2. i \in Positions(k, o) /\ \A j \in Positions(k, o) : j <= i
      BY <1>7, <2>1
    <3> QED
      BY <1>4, <3>1, <3>2
  <2>3. stack' = [stack EXCEPT ![k] = Without(@, i)]
    BY <1>7, <2>1
  <2>4. Live' /\ Distinct' /\ Started' /\ Alive' /\ OneEach'
    BY <1>2, <2>2, <2>3, RemoveLists
  <2>5. Apart'
    <3>1. \A l \in Kind : \A j \in DOMAIN stack'[l] : \E m \in DOMAIN stack[l] :
            (l = k => m # i) /\ stack'[l][j] = stack[l][m]
      BY ZenonT(40), <2>3, RemoveEffect
    <3> QED
      BY <1>2, <3>1 DEF Lists, Apart
  <2> QED
    BY <1>5, <2>4, <2>5 DEF Lists
<1> QED
  BY <1>1, <1>6, <1>7

\* margo_finalize takes a live entry off its list, whose owner is alive.
LEMMA RunTopLists ==
  ASSUME StackType, OtherTypes, Lists, NEW k \in Kind, RunTop(k), NoPop
  PROVE  /\ Lists'
         /\ current'.owner # Null => owner[current'.owner] = "alive"
<1>1. PICK i \in DOMAIN stack[k] :
        /\ i = Len(stack[k]) /\ current' = stack[k][i] /\ current' \in Entry
        /\ stack' = [stack EXCEPT ![k] = Without(@, i)]
  BY RunTopRemoves
<1>2. UNCHANGED <<heap, owner, popping, fault>>
  BY DEF RunTop
<1>3. \A l \in Kind : \A m \in DOMAIN stack[l] : ~Busy(l, m)
  <2>1. \A l \in Kind : \A m : [kind |-> l, owner |-> stack[l][m].owner] # Idle
    BY DEF Idle, Kind
  <2> QED
    BY <2>1 DEF Busy, NoPop
<1>4. Live' /\ Distinct' /\ Started' /\ Alive' /\ OneEach'
  BY <1>1, <1>2, <1>3, RemoveLists
<1>5. Apart'
  <2>1. \A l \in Kind : \A j \in DOMAIN stack'[l] : \E m \in DOMAIN stack[l] :
          (l = k => m # i) /\ stack'[l][j] = stack[l][m]
    BY ZenonT(40), <1>1, RemoveEffect
  <2>2. \A l \in Kind : \A m \in DOMAIN stack[l] :
          stack[l][m].callback = stack[k][i].callback => l = k /\ m = i
    BY DEF Lists, Distinct
  <2>3. heap[stack[k][i].callback] = "live"
    BY Quiet
  <2> QED
    BY <1>1, <1>2, <2>1, <2>2, <2>3 DEF Apart
<1>6. OnePop' /\ NoUseAfterFree'
  BY <1>2 DEF Lists, OnePop, NoUseAfterFree
<1>7. current'.owner # Null => owner[current'.owner] = "alive"
  BY <1>1, Quiet
<1> QED
  BY <1>4, <1>5, <1>6, <1>7 DEF Lists

\* The callback that returns is not on any list.
LEMMA CallbackReturnsLists ==
  ASSUME StackType, OtherTypes, Lists, CallbackReturns
  PROVE  Lists'
<1>1. PICK c : c = current.callback
  OBVIOUS
<1>2. /\ c \in Callback /\ heap[c] = "live"
      /\ \A k \in Kind : \A i \in DOMAIN stack[k] : stack[k][i].callback # c
  BY <1>1, EntryFields DEF CallbackReturns, OtherTypes, Lists, Apart
<1>3. /\ heap' = [heap EXCEPT ![c] = "freed"] /\ current' = NoEntry
      /\ UNCHANGED <<stack, owner, popping, fault>>
  BY <1>1, <1>2 DEF CallbackReturns
<1>4. \A d \in Callback \ {c} : heap'[d] = heap[d]
  BY <1>2, <1>3 DEF OtherTypes
<1>5. \A k, i : Busy(k, i)' <=> Busy(k, i)
  BY <1>3 DEF Busy
<1>6. \A k \in Kind : \A i \in DOMAIN stack[k] : stack[k][i].callback \in Callback
  BY EntriesOf, EntryFields
<1>7. Live' /\ Alive'
  BY <1>2, <1>3, <1>4, <1>5, <1>6 DEF Lists, Live, Alive
<1>8. OnePop' /\ Distinct' /\ Apart' /\ Started' /\ OneEach' /\ NoUseAfterFree'
  BY <1>3 DEF Lists, OnePop, Distinct, Apart, Started, OneEach, NoUseAfterFree
<1> QED
  BY <1>7, <1>8 DEF Lists

\* No callback starts for an owner that has been destroyed.
Silent == (current' # NoEntry /\ current'.owner # Null) =>
            (current' = current \/ owner[current'.owner] = "alive")

\* Every step keeps the lists in order.
LEMMA ListsStep ==
  ASSUME ~Concurrent, StackType, OtherTypes, Lists, [Next]_vars
  PROVE  Lists' /\ [Silent]_vars
<1>0. owner \in [Owner -> {"none", "alive", "dead"}]
  BY DEF OtherTypes
<1>1. ASSUME NEW k \in Kind, NEW c \in Callback, PushCallback(k, c)
      PROVE  Lists' /\ Silent
  <2>1. /\ NoPop /\ Push(k, Null, c) /\ owner' = owner /\ current' = current
    BY <1>1 DEF PushCallback, Free, Push
  <2> QED
    BY <1>0, <2>1, PushLists DEF Silent
<1>2. ASSUME NEW o \in Owner, NEW c \in Callback, NewOwner(o, c)
      PROVE  Lists' /\ Silent
  <2>1. /\ NoPop /\ Push("finalize", o, c) /\ current' = current
        /\ owner[o] = "none" /\ owner' = [owner EXCEPT ![o] = "alive"]
    BY <1>2 DEF NewOwner, Free, Push
  <2>2. /\ owner' \in [Owner -> {"none", "alive", "dead"}] /\ owner'[o] = "alive"
        /\ \A q \in Owner \ {o} : owner'[q] = owner[q]
    BY <1>0, <2>1
  <2> QED
    BY <2>1, <2>2, PushLists DEF Silent, Kind
<1>3. ASSUME NEW t \in Thread, NEW k \in Kind, PopCallback(t, k)
      PROVE  Lists' /\ Silent
  <2>1. PopBegin(t, k, Null) /\ owner' = owner /\ current' = current
    BY <1>3 DEF PopCallback, PopBegin
  <2> QED
    BY <2>1, PopBeginLists DEF Silent
<1>4. ASSUME NEW t \in Thread, NEW o \in Owner, DestroyOwner(t, o)
      PROVE  Lists' /\ Silent
  <2>1. owner' = [owner EXCEPT ![o] = "dead"] /\ o # Null /\ current' = current
    BY <1>4, NullIsFresh DEF DestroyOwner, PopBegin
  <2>2. CASE PopBegin(t, "finalize", o)
    BY <2>1, <2>2, PopBeginLists DEF Silent, Kind
  <2>3. CASE /\ Positions("finalize", o) = {}
             /\ UNCHANGED <<stack, heap, popping, phase, current, ran, popped, holds, refs,
                            fault>>
    <3>1. \A k \in Kind : \A i \in DOMAIN stack[k] : stack[k][i].owner # o
      BY <2>1, <2>3 DEF Positions, Lists, Started
    <3>2. owner'[o] = "dead" /\ \A q \in Owner \ {o} : owner'[q] = owner[q]
      BY <1>0, <2>1
    <3>3. \A k, i : Busy(k, i)' <=> Busy(k, i)
      BY <2>3 DEF Busy
    <3>4. \A k \in Kind : \A i \in DOMAIN stack[k] : stack[k][i].owner \in Owner \cup {Null}
      BY EntriesOf, EntryFields
    <3>5. Live'
      BY <2>3, <3>3 DEF Lists, Live
    <3>6. Started' /\ Alive'
      BY <2>3, <3>1, <3>2, <3>3, <3>4 DEF Lists, Started, Alive
    <3>7. OnePop' /\ Distinct' /\ Apart' /\ OneEach' /\ NoUseAfterFree'
      BY <2>3 DEF Lists, OnePop, Distinct, Apart, OneEach, NoUseAfterFree
    <3> QED
      BY <2>1, <3>5, <3>6, <3>7 DEF Lists, Silent
  <2> QED
    BY <1>4, <2>2, <2>3 DEF DestroyOwner
<1>5. ASSUME NEW t \in Thread, PopEnd(t)
      PROVE  Lists' /\ Silent
  <2>1. current' = current
    BY <1>5 DEF PopEnd
  <2> QED
    BY <1>5, <2>1, PopEndLists DEF Silent
<1>6. CASE RefStep
  <2>1. UNCHANGED <<stack, heap, owner, popping, current, fault>>
    BY <1>6 DEF RefStep, CopyRef, MoveRef, DropRef, DropLastRef, callbacks
  <2> QED
    BY <2>1, Untouched DEF Silent
<1>7. ASSUME NEW t \in Thread, Finalize(t)
      PROVE  Lists' /\ Silent
  <2>1. UNCHANGED <<stack, heap, owner, popping, current, fault>>
    BY <1>7 DEF Finalize, callbacks
  <2> QED
    BY <2>1, Untouched DEF Silent
<1>8. ASSUME NEW k \in Kind, RunTop(k)
      PROVE  Lists' /\ Silent
  <2>1. NoPop
    BY <1>8 DEF RunTop
  <2> QED
    BY <1>8, <2>1, RunTopLists DEF Silent
<1>9. CASE CallbackReturns
  <2>1. current' = NoEntry
    BY <1>9 DEF CallbackReturns
  <2> QED
    BY <1>9, <2>1, CallbackReturnsLists DEF Silent
<1>10. CASE StopProgress \/ FinalizeReturns
  <2>1. UNCHANGED <<stack, heap, owner, popping, current, fault>>
    BY <1>10 DEF StopProgress, FinalizeReturns, callbacks
  <2> QED
    BY <2>1, Untouched DEF Silent
<1>11. CASE UNCHANGED vars
  <2>1. UNCHANGED <<stack, heap, owner, popping, current, fault>>
    BY <1>11 DEF vars, callbacks
  <2> QED
    BY <1>11, <2>1, Untouched
<1> QED
  BY <1>1, <1>2, <1>3, <1>4, <1>5, <1>6, <1>7, <1>8, <1>9, <1>10, <1>11
     DEF Next, StackStep, FinalizeStep

-----------------------------------------------------------------------------
(* The theorems                                                            *)

\* Everything holds initially.
LEMMA InitAll ==
  ASSUME Init
  PROVE  StackType /\ OtherTypes /\ Refs /\ OneFate /\ Lists
<1>1. /\ stack = [k \in Kind |-> <<>>] /\ heap = [c \in Callback |-> "unused"]
      /\ owner = [o \in Owner |-> "none"] /\ popping = [t \in Thread |-> Idle]
      /\ phase = "running" /\ current = NoEntry /\ ran = <<>> /\ popped = {}
      /\ refs = 1 /\ fault = "none"
  BY DEF Init
<1>2. PICK e \in Holder : holds = {e}
  BY DEF Init
<1>3. <<>> \in Seq(Entry) /\ <<>> \in Seq(Callback) /\ DOMAIN <<>> = {}
  BY EmptySeq
<1>4. StackType
  BY <1>1, <1>3 DEF StackType
<1>5. OtherTypes
  BY <1>1, <1>3 DEF OtherTypes
<1>6. Refs
  <2>1. Cardinality({e}) = 1
    BY FS_Singleton
  <2> QED
    BY <1>1, <1>2, <2>1 DEF Refs, RefsExact, Finalizing
<1>7. OneFate
  BY <1>1, <1>3 DEF OneFate, HasRun
<1>8. \A k \in Kind : DOMAIN stack[k] = {}
  BY <1>1, <1>3
<1>9. "finalize" \in Kind
  BY DEF Kind
<1>10. Lists
  BY <1>1, <1>8, <1>9 DEF Lists, OnePop, Live, Distinct, Apart, Started, Alive, OneEach,
     NoUseAfterFree
<1> QED
  BY <1>4, <1>5, <1>6, <1>7, <1>10

\* For every number of callbacks, owners, ULTs and references, finalize called
\* beside a pop or not: the variables have their types, and Margo's count, which the
\* types only say is never negative, is exact.
LEMMA RefsInvariant == Spec => [](TypeOK /\ RefsExact)
<1> DEFINE Inv == StackType /\ OtherTypes /\ Refs
<1>1. Init => Inv
  BY InitAll
<1>2. Inv /\ [Next]_vars => Inv'
  BY TypeStep, RefsStep
<1>3. Inv => TypeOK /\ RefsExact
  BY TypeParts, CountIsNatural DEF Refs
<1> QED
  BY <1>1, <1>2, <1>3, PTL DEF Spec

\* Lists, owners and pops in progress have their types, and no reference is released
\* more often than it was taken.
THEOREM TypeCorrect == Spec => []TypeOK
BY RefsInvariant, PTL

\* Margo's count is the number of margo_instance_refs, and one more while the instance
\* is being finalized, whatever callbacks and pops run beside it.
THEOREM RefsExactHolds == Spec => []RefsExact
BY RefsInvariant, PTL

\* Likewise: a callback runs once, or is returned by one pop, and its function
\* is deleted exactly then.
THEOREM OneFateHolds == Spec => []OneFate
<1> DEFINE Inv == StackType /\ OtherTypes /\ OneFate
<1>1. Init => Inv
  BY InitAll
<1>2. Inv /\ [Next]_vars => Inv'
  BY TypeStep, FateStep
<1>3. Inv => OneFate
  OBVIOUS
<1> QED
  BY <1>1, <1>2, <1>3, PTL DEF Spec

\* Where nobody is inside a pop when finalize is called, Margo's entries point
\* to functions that are live, and none is used after it has been deleted.
THEOREM EntriesLiveHolds ==
  ASSUME ~Concurrent PROVE Spec => [](EntriesLive /\ NoUseAfterFree)
<1> DEFINE Inv == StackType /\ OtherTypes /\ Lists
<1>1. Init => Inv
  BY InitAll
<1>2. Inv /\ [Next]_vars => Inv'
  BY TypeStep, ListsStep
<1>3. Inv => EntriesLive /\ NoUseAfterFree
  <2> SUFFICES ASSUME Inv
               PROVE  EntriesLive
    BY DEF Lists
  <2>1. ASSUME NEW k \in Kind, NEW i \in DOMAIN stack[k], Busy(k, i)
        PROVE  BeingPopped(k, i)
    <3>1. PICK t \in Thread :
            /\ popping[t] = [kind |-> k, owner |-> stack[k][i].owner]
            /\ \A j \in DOMAIN stack[k] : stack[k][j].owner = stack[k][i].owner => j <= i
      BY <2>1 DEF Busy
    <3>2. PICK o : o = stack[k][i].owner
      OBVIOUS
    <3>3. i \in Positions(k, o) /\ \A j \in Positions(k, o) : j <= i
      BY <3>1, <3>2 DEF Positions
    <3>4. /\ Topmost(k, o) \in Positions(k, o)
          /\ \A j \in Positions(k, o) : j <= Topmost(k, o)
      BY <3>3, TopmostIs
    <3>5. \A j \in Positions(k, o) : j \in Int
      <4>1. stack[k] \in Seq(Entry)
        BY DEF StackType
      <4> QED
        BY <4>1, LenProperties DEF Positions
    <3>6. i = Topmost(k, o)
      BY <3>3, <3>4, <3>5
    <3> QED
      BY <3>1, <3>2, <3>6 DEF BeingPopped
  <2> QED
    BY <2>1 DEF Lists, Live, Distinct, EntriesLive
<1> QED
  BY <1>1, <1>2, <1>3, PTL DEF Spec

\* And no callback is started for a provider that has been destroyed.
THEOREM DeadOwnersSilentHolds ==
  ASSUME ~Concurrent PROVE Spec => DeadOwnersSilent
<1> DEFINE Inv == StackType /\ OtherTypes /\ Lists
<1>1. Init => Inv
  BY InitAll
<1>2. Inv /\ [Next]_vars => Inv'
  BY TypeStep, ListsStep
<1>3. Inv /\ [Next]_vars => [Silent]_vars
  BY ListsStep
<1>4. Spec => [][Silent]_vars
  <2> HIDE DEF Inv
  <2> QED
    BY <1>1, <1>2, <1>3, PTL DEF Spec
<1> QED
  BY <1>4 DEF DeadOwnersSilent, Silent
=============================================================================
