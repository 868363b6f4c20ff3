-------------------------- MODULE BulkTransferProofs --------------------------
(***************************************************************************)
(* What holds of BulkTransfer for every number of transfers and objects    *)
(* and every size: somebody waits for each running transfer, selections    *)
(* that stay in range are exact, and a transfer whose destination is one   *)
(* of them writes only what was selected.                                  *)
(***************************************************************************)
EXTENDS BulkTransfer, FiniteSetTheorems, TLAPS

OpRecord == [state : OpState, to : Side, local : Word, remote : Word, size : Word,
             moved : Word, timed : BOOLEAN, scope : SUBSET Word, wild : BOOLEAN]

ObjectType == [request : Op \cup {Null, Dead}, size : Word \cup {Null}]
ResultType == [kind : {"none", "blocked", "returned", "dropped", "timeout", "exception"},
               size : Word]

\* Each transfer is awaited by one ULT or one object, from its start to its end.
NotBeforeStart == \A x \in Op : op[x].state = "idle" =>
                    result[x].kind # "blocked" /\ \A a \in Object : object[a].request # x
OneHolder  == \A x \in Op : \A a, b \in Object :
                object[a].request = x /\ object[b].request = x => a = b
ObjectOrUlt == \A x \in Op : \A a \in Object :
                object[a].request = x => result[x].kind # "blocked"
Awaited    == \A x \in Op : op[x].state = "active" =>
                result[x].kind = "blocked" \/ \E a \in Object : object[a].request = x

Waiting == NotBeforeStart /\ OneHolder /\ ObjectOrUlt /\ Awaited

\* A transfer that is not wild lies in the scope of its segment.
InScope == \A x \in Op : op[x].state = "active" /\ ~op[x].wild =>
  Span(At(x), op[x].size) \subseteq op[x].scope

-----------------------------------------------------------------------------
(* Arithmetic and types                                                    *)

USE DEF Side

\* Sizes and offsets are words, and so are the bytes of a bulk.
LEMMA Words ==
  /\ Width \in Nat /\ LocalSize \in Word /\ RemoteSize \in Word
  /\ 0 \in Word
  /\ \A w \in Word : w \in Nat /\ w < Width
  /\ \A s \in Side : Size[s] \in Word /\ Bytes(s) \subseteq Word
BY SizesFit DEF Word, Size, Bytes

\* The arithmetic of size_t gives words.
LEMMA Wraps == \A i \in Int : i % Width \in Word
<1>1. Width \in Nat /\ Width > 0
  BY Words
<1> QED
  BY <1>1 DEF Word

\* Nothing wraps in a sum that is a word.
LEMMA NoWrap == \A i \in Word : i % Width = i
<1>1. Width \in Nat
  BY Words
<1> QED
  BY <1>1 DEF Word

\* The size of a subsegment is a word.
LEMMA EffectiveSizeType ==
  \A size, o, n \in Word : EffectiveSize(size, o, n) \in Word
<1> SUFFICES ASSUME NEW size \in Word, NEW o \in Word, NEW n \in Word
             PROVE  EffectiveSize(size, o, n) \in Word
  OBVIOUS
<1>1. size - o \in Int
  BY Words
<1>2. (size - o) % Width \in Word
  BY <1>1, Wraps
<1> QED
  BY <1>2 DEF EffectiveSize

\* What TypeOK says of each variable.
LEMMA Shape ==
  ASSUME TypeOK
  PROVE  /\ op \in [Op -> OpRecord]
         /\ object \in [Object -> ObjectType]
         /\ result \in [Op -> ResultType]
         /\ segment \in [Side -> [offset : Word, size : Word]]
         /\ wild \in [Side -> BOOLEAN]
BY DEF TypeOK, OpRecord, ObjectType, ResultType

\* The fields of a segment and of a transfer.
LEMMA Fields ==
  ASSUME TypeOK
  PROVE  /\ \A s \in Side : segment[s].offset \in Word /\ segment[s].size \in Word
         /\ \A s \in Side : chosen[s] \subseteq Word
         /\ \A x \in Op : /\ op[x].local \in Word /\ op[x].remote \in Word
                          /\ op[x].size \in Word /\ op[x].moved \in Word
                          /\ op[x].to \in Side /\ op[x].scope \subseteq Word
<1>1. segment \in [Side -> [offset : Word, size : Word]] /\ op \in [Op -> OpRecord]
  BY Shape
<1>2. \A s \in Side : segment[s].offset \in Word /\ segment[s].size \in Word
  BY <1>1
<1>3. \A s \in Side : chosen[s] \subseteq Word
  BY Words DEF TypeOK
<1>4. \A x \in Op : /\ op[x].local \in Word /\ op[x].remote \in Word
                    /\ op[x].size \in Word /\ op[x].moved \in Word
                    /\ op[x].to \in Side /\ op[x].scope \subseteq Word
  BY <1>1 DEF OpRecord
<1> QED
  BY <1>2, <1>3, <1>4

\* A transfer is not longer than either segment.
LEMMA TransferSizeBound ==
  ASSUME TypeOK
  PROVE  TransferSize \in Word /\ \A s \in Side : TransferSize <= segment[s].size
BY Fields, Words DEF TransferSize, CutSize

\* A function changed at one argument, and at two.
LEMMA Changed ==
  ASSUME NEW S, NEW T, NEW f \in [S -> T], NEW x \in S, NEW v
  PROVE  /\ [f EXCEPT ![x] = v][x] = v
         /\ \A y \in S \ {x} : [f EXCEPT ![x] = v][y] = f[y]
         /\ v \in T => [f EXCEPT ![x] = v] \in [S -> T]
OBVIOUS

-----------------------------------------------------------------------------
(* What each step does                                                     *)

\* How a transfer starts.
LEMMA PostEffect ==
  ASSUME TypeOK, NEW x \in Op, NEW to \in Side, NEW timed \in BOOLEAN, Post(x, to, timed)
  PROVE  /\ op[x].state = "idle"
         /\ op' \in [Op -> OpRecord]
         /\ op'[x].state = IF Fits THEN "active" ELSE "failed"
         /\ op'[x].moved = 0
         /\ op'[x].moved <= op'[x].size
         /\ \A y \in Op \ {x} : op'[y] = op[y]
<1> DEFINE r == IF Fits
         THEN [state |-> "active", to |-> to, local |-> segment["local"].offset,
               remote |-> segment["remote"].offset, size |-> TransferSize,
               moved |-> 0, timed |-> timed, scope |-> chosen[to], wild |-> wild[to]]
         ELSE [Idle EXCEPT !.state = "failed"]
<1>1. op' = [op EXCEPT ![x] = r] /\ op[x].state = "idle"
  BY DEF Post
<1>2. r \in OpRecord
  BY Shape, Fields, TransferSizeBound, Words DEF OpRecord, OpState, Idle
<1>3. op \in [Op -> OpRecord]
  BY Shape
<1>4. op'[x] = r /\ op' \in [Op -> OpRecord] /\ \A y \in Op \ {x} : op'[y] = op[y]
  <2> HIDE DEF r
  <2> QED
    BY <1>1, <1>2, <1>3, Changed
<1>5. r.state = (IF Fits THEN "active" ELSE "failed") /\ r.moved = 0
  BY DEF Idle
<1>6. r.size \in Word
  BY <1>2 DEF OpRecord
<1>7. 0 <= r.size
  <2> HIDE DEF r
  <2> QED
    BY <1>6, Words
<1> HIDE DEF r
<1> QED
  BY <1>1, <1>4, <1>5, <1>7

\* How a transfer ends.
LEMMA EndsEffect ==
  ASSUME TypeOK, NEW x \in Op, NEW st \in {"done", "expired", "failed"},
         NEW n \in 0..op[x].size, Ends(x, st, n)
  PROVE  /\ op[x].state = "active"
         /\ op' \in [Op -> OpRecord]
         /\ op'[x].state = st /\ op'[x].moved = n /\ op'[x].size = op[x].size
         /\ \A y \in Op \ {x} : op'[y] = op[y]
<1> DEFINE r == [Idle EXCEPT !.state = st, !.size = op[x].size, !.moved = n]
<1>1. op' = [op EXCEPT ![x] = r] /\ op[x].state = "active"
  BY DEF Ends
<1>2. op[x].size \in Word /\ n \in Word
  BY Fields, Words DEF Word
<1>3. r \in OpRecord
  BY <1>2, Words DEF OpRecord, OpState, Idle
<1>4. op \in [Op -> OpRecord]
  BY Shape
<1>5. op'[x] = r /\ op' \in [Op -> OpRecord] /\ \A y \in Op \ {x} : op'[y] = op[y]
  <2> HIDE DEF r
  <2> QED
    BY <1>1, <1>3, <1>4, Changed
<1>6. r.state = st /\ r.moved = n /\ r.size = op[x].size
  BY DEF Idle
<1> HIDE DEF r
<1> QED
  BY <1>1, <1>5, <1>6

\* Mercury's steps are ends of a transfer.
LEMMA MercuryEnds ==
  ASSUME TypeOK, NEW x \in Op, Completes(x) \/ Expires(x) \/ Fails(x)
  PROVE  \E st \in {"done", "expired", "failed"}, n \in 0..op[x].size : Ends(x, st, n)
<1>1. op[x].size \in 0..op[x].size
  BY Fields, Words
<1> QED
  BY <1>1 DEF Completes, Expires, Fails

\* What waiting can report: any result but that the caller is blocked.
WaitResult == {r \in ResultType : r.kind # "blocked"}

\* What waiting gives is such a result, whatever size is reported.
LEMMA OutcomeType ==
  ASSUME NEW x \in Op
  PROVE  /\ \A n \in Word : Outcome(x, n) \in WaitResult
         /\ OutcomeDropped(x) \in WaitResult
<1>1. 0 \in Word
  BY Words
<1>2. \A n \in Word : Outcome(x, n) \in WaitResult
  BY <1>1 DEF Outcome, Without, WaitResult, ResultType
<1>3. Without("dropped") \in WaitResult
  BY <1>1 DEF Without, WaitResult, ResultType
<1> QED
  BY <1>1, <1>2, <1>3 DEF OutcomeDropped

\* How an async_bulk_op gets its request.
LEMMA AsyncEffect ==
  ASSUME TypeOK, NEW x \in Op, NEW a \in Object, NEW to \in Side, NEW timed \in BOOLEAN,
         Async(x, a, to, timed)
  PROVE  /\ Post(x, to, timed)
         /\ object[a].request = Dead
         /\ Fits => /\ object'[a].request = x
                    /\ \A b \in Object \ {a} : object'[b] = object[b]
                    /\ result' = result
         /\ ~Fits => /\ object' = object
                     /\ result'[x].kind = "exception"
                     /\ \A y \in Op \ {x} : result'[y] = result[y]
         /\ object' \in [Object -> ObjectType]
         /\ result' \in [Op -> ResultType]
<1>1. /\ object \in [Object -> ObjectType]
      /\ result \in [Op -> ResultType]
  BY Shape
<1>2. 0 \in Word
  BY Words
<1>3. CASE Fits
  <2>1. object' = [object EXCEPT ![a] = [request |-> x, size |-> TransferSize]] /\ result' = result
    BY <1>3 DEF Async
  <2>2. [request |-> x, size |-> TransferSize] \in ObjectType
    BY TransferSizeBound DEF ObjectType
  <2> QED
    BY <1>1, <1>3, <2>1, <2>2 DEF Async
<1>4. CASE ~Fits
  <2>1. object' = object
        /\ result' = [result EXCEPT ![x] = [kind |-> "exception", size |-> 0]]
    BY <1>4 DEF Async, Without
  <2>2. [kind |-> "exception", size |-> 0] \in ResultType
    BY <1>2 DEF ResultType
  <2> QED
    BY <1>1, <1>4, <2>1, <2>2 DEF Async
<1> QED
  BY <1>3, <1>4

\* How a blocking call starts.
LEMMA BlockingEffect ==
  ASSUME TypeOK, NEW x \in Op, NEW to \in Side, NEW timed \in BOOLEAN,
         Blocking(x, to, timed)
  PROVE  /\ Post(x, to, timed)
         /\ object' = object
         /\ result'[x].kind = IF Fits THEN "blocked" ELSE "exception"
         /\ \A y \in Op \ {x} : result'[y] = result[y]
         /\ result' \in [Op -> ResultType]
<1>1. result \in [Op -> ResultType]
  BY Shape
<1>2. 0 \in Word
  BY Words
<1>3. result' = [result EXCEPT ![x] =
        [kind |-> IF Fits THEN "blocked" ELSE "exception", size |-> 0]]
  BY DEF Blocking, Without
<1>4. [kind |-> IF Fits THEN "blocked" ELSE "exception", size |-> 0] \in ResultType
  BY <1>2 DEF ResultType
<1> QED
  BY <1>1, <1>3, <1>4 DEF Blocking

\* A request handed from one object to another.
LEMMA Handed ==
  ASSUME object \in [Object -> ObjectType],
         NEW a \in Object, NEW b \in Object
  PROVE  /\ [object EXCEPT ![a] = [request |-> object[b].request, size |-> Null], ![b].request = Null]
              \in [Object -> ObjectType]
         /\ [object EXCEPT ![a].request = object[b].request, ![b].request = Null]
              \in [Object -> ObjectType]
<1>1. /\ [request |-> object[b].request, size |-> Null] \in ObjectType
      /\ [object[a] EXCEPT !.request = object[b].request] \in ObjectType
  BY DEF ObjectType
<1>2. ASSUME NEW g \in [Object -> ObjectType]
      PROVE  [g EXCEPT ![b].request = Null] \in [Object -> ObjectType]
  BY DEF ObjectType
<1>3. [object EXCEPT ![a] = [request |-> object[b].request, size |-> Null]] \in [Object -> ObjectType]
  BY <1>1
<1>4. [object EXCEPT ![a].request = object[b].request] \in [Object -> ObjectType]
  BY <1>1
<1>5. [[object EXCEPT ![a] = [request |-> object[b].request, size |-> Null]]
         EXCEPT ![b].request = Null] \in [Object -> ObjectType]
  BY <1>2, <1>3
<1>6. [[object EXCEPT ![a].request = object[b].request] EXCEPT ![b].request = Null] \in [Object -> ObjectType]
  BY <1>2, <1>4
<1> QED
  BY <1>5, <1>6

\* A transfer whose result changes is over, and the new result is what waiting gives.
Reported == \A x \in Op : result'[x] # result[x] => Over(x) /\ result'[x] \in WaitResult

\* Waiting changes objects and results only, and only those of ended transfers.
LEMMA ObjectEffect ==
  ASSUME TypeOK, ObjectStep
  PROVE  /\ op' = op /\ UNCHANGED <<segment, chosen, wild, selects, memory>>
         /\ Reported
         /\ result' \in [Op -> ResultType]
         /\ object' \in [Object -> ObjectType]
         /\ fault' \in {"none", "terminate"}
<1> DEFINE Rest == /\ op' = op /\ UNCHANGED <<segment, chosen, wild, selects, memory>>
                   /\ fault' \in {"none", "terminate"}
<1>1. /\ object \in [Object -> ObjectType] /\ result \in [Op -> ResultType]
      /\ fault \in {"none", "terminate"}
  BY Shape DEF TypeOK
<1>2. ASSUME NEW x \in Op, Over(x), NEW r \in WaitResult, result' = [result EXCEPT ![x] = r]
      PROVE  Reported /\ result' \in [Op -> ResultType]
  <2>1. r \in ResultType
    BY DEF WaitResult
  <2> QED
    BY <1>1, <1>2, <2>1 DEF Reported
<1>3. ASSUME result' = result
      PROVE  Reported /\ result' \in [Op -> ResultType]
  BY <1>1, <1>3 DEF Reported
<1>4. ASSUME NEW a \in Object
      PROVE  /\ [object EXCEPT ![a].request = Null] \in [Object -> ObjectType]
             /\ [object EXCEPT ![a] = Unborn] \in [Object -> ObjectType]
             /\ object[a].size # Null => object[a].size \in Word
  <2>1. /\ [object[a] EXCEPT !.request = Null] \in ObjectType
        /\ Unborn \in ObjectType
        /\ object[a].size # Null => object[a].size \in Word
    BY <1>1 DEF ObjectType, Unborn
  <2> QED
    BY <1>1, <2>1
<1>5. ASSUME NEW x \in Op, Return(x)
      PROVE  Rest /\ Reported /\ result' \in [Op -> ResultType]
             /\ object' \in [Object -> ObjectType]
  <2>1. Outcome(x, op[x].size) \in WaitResult
    BY Fields, OutcomeType
  <2>2. Rest /\ Over(x) /\ result' = [result EXCEPT ![x] = Outcome(x, op[x].size)]
        /\ object' = object
    BY <1>1, <1>5 DEF Return
  <2> QED
    BY <1>1, <1>2, <2>1, <2>2
<1>6. ASSUME NEW a \in Object, Wait(a)
      PROVE  Rest /\ Reported /\ result' \in [Op -> ResultType]
             /\ object' \in [Object -> ObjectType]
  <2> DEFINE x == object[a].request
  <2>1. PICK n \in IF object[a].size = Null THEN Word ELSE {object[a].size} :
          result' = [result EXCEPT ![x] = Outcome(x, n)]
    BY <1>6 DEF Wait
  <2>2. Rest /\ x \in Op /\ Over(x) /\ object' = [object EXCEPT ![a].request = Null]
    BY <1>1, <1>6 DEF Wait
  <2>3. n \in Word
    BY <1>4, <2>1
  <2>4. Outcome(x, n) \in WaitResult
    BY <2>2, <2>3, OutcomeType
  <2> HIDE DEF x
  <2> QED
    BY <1>2, <1>4, <2>1, <2>2, <2>4
<1>7. ASSUME NEW a \in Object, OpDestroy(a)
      PROVE  Rest /\ Reported /\ result' \in [Op -> ResultType]
             /\ object' \in [Object -> ObjectType]
  <2> DEFINE x == object[a].request
  <2>1. /\ Rest /\ object' = [object EXCEPT ![a] = Unborn] /\ (x \in Op => Over(x))
        /\ result' = IF x \in Op THEN [result EXCEPT ![x] = OutcomeDropped(x)] ELSE result
    BY <1>1, <1>7 DEF OpDestroy
  <2>2. x \in Op => OutcomeDropped(x) \in WaitResult
    BY OutcomeType
  <2> HIDE DEF x
  <2> QED
    BY <1>2, <1>3, <1>4, <2>1, <2>2
<1>8. ASSUME NEW a \in Object, NEW b \in Object, OpMoveConstruct(a, b)
      PROVE  Rest /\ Reported /\ result' \in [Op -> ResultType]
             /\ object' \in [Object -> ObjectType]
  <2>1. /\ Rest /\ result' = result
        /\ object' = [object EXCEPT ![a] = [request |-> object[b].request, size |-> Null],
                                    ![b].request = Null]
    BY <1>1, <1>8 DEF OpMoveConstruct
  <2> QED
    BY <1>1, <1>3, <2>1, Handed
<1>9. ASSUME NEW a \in Object, NEW b \in Object, OpMoveAssign(a, b)
      PROVE  Rest /\ Reported /\ result' \in [Op -> ResultType]
             /\ object' \in [Object -> ObjectType]
  <2> DEFINE x == object[a].request
  <2>1. /\ Rest /\ (x \in Op => Over(x))
        /\ \/ object' = [object EXCEPT ![a].request = Null]
           \/ object' = [object EXCEPT ![a].request = object[b].request, ![b].request = Null]
        /\ result' = IF x \in Op THEN [result EXCEPT ![x] = OutcomeDropped(x)] ELSE result
    BY <1>1, <1>9 DEF OpMoveAssign
  <2>2. x \in Op => OutcomeDropped(x) \in WaitResult
    BY OutcomeType
  <2>3. /\ [object EXCEPT ![a].request = Null] \in [Object -> ObjectType]
        /\ [object EXCEPT ![a].request = object[b].request, ![b].request = Null]
             \in [Object -> ObjectType]
    BY <1>1, <1>4, Handed
  <2> HIDE DEF x
  <2> QED
    BY <1>2, <1>3, <2>1, <2>2, <2>3
<1> QED
  BY <1>5, <1>6, <1>7, <1>8, <1>9 DEF ObjectStep

-----------------------------------------------------------------------------
(* Types                                                                   *)

\* A transfer is started by a blocking or by an asynchronous call.
LEMMA TransferCases ==
  ASSUME TransferStep
  PROVE  \E x \in Op, to \in Side, timed \in BOOLEAN :
           Blocking(x, to, timed) \/ \E a \in Object : Async(x, a, to, timed)
BY DEF TransferStep, Pull, Push, PullTo, PushFrom, TransferTimed, ItransferTimed

\* The segments that are left when a transfer has been started.
LEMMA PostOthers ==
  ASSUME TypeOK, NEW x \in Op, NEW to \in Side, NEW timed \in BOOLEAN, Post(x, to, timed)
  PROVE  /\ segment' \in [Side -> [offset : Word, size : Word]]
         /\ DOMAIN chosen' = Side /\ \A s \in Side : chosen'[s] = Bytes(s)
         /\ \A s \in Side : segment'[s].offset = 0 /\ segment'[s].size = Size[s]
         /\ wild' \in [Side -> BOOLEAN]
         /\ UNCHANGED <<selects, memory, fault>>
<1>1. segment' = [s \in Side |-> Whole(s)] /\ chosen' = [s \in Side |-> Bytes(s)]
      /\ wild' = [s \in Side |-> FALSE]
      /\ UNCHANGED <<selects, memory, fault>>
  BY DEF Post
<1> QED
  BY <1>1, Words DEF Whole

\* What a selection leaves.
LEMMA SelectEffect ==
  ASSUME TypeOK, SelectStep
  PROVE  /\ segment' \in [Side -> [offset : Word, size : Word]]
         /\ DOMAIN chosen' = Side /\ \A s \in Side : chosen'[s] \subseteq Bytes(s)
         /\ selects' \in 0..MaxSelects /\ wild' \in [Side -> BOOLEAN]
         /\ UNCHANGED <<memory, op, object, result, fault>>
<1>0. /\ segment \in [Side -> [offset : Word, size : Word]] /\ wild \in [Side -> BOOLEAN]
      /\ DOMAIN chosen = Side /\ \A s \in Side : chosen[s] \subseteq Bytes(s)
      /\ selects \in 0..MaxSelects
  BY DEF TypeOK
<1>1. ASSUME NEW s \in Side, NEW o \in Word, NEW n \in Word, BulkSelect(s, o, n)
      PROVE  /\ segment' \in [Side -> [offset : Word, size : Word]]
             /\ DOMAIN chosen' = Side /\ \A z \in Side : chosen'[z] \subseteq Bytes(z)
             /\ selects' \in 0..MaxSelects /\ wild' \in [Side -> BOOLEAN]
             /\ UNCHANGED <<memory, op, object, result, fault>>
  <2>1. /\ selects < MaxSelects /\ selects' = selects + 1
        /\ segment' = [segment EXCEPT ![s] = [offset |-> o, size |-> n]]
        /\ chosen' = [chosen EXCEPT ![s] = Span(o, n) \cap Bytes(s)]
        /\ wild' = [wild EXCEPT ![s] = FALSE]
        /\ UNCHANGED <<memory, op, object, result, fault>>
    BY <1>1 DEF BulkSelect
  <2>2. selects' \in 0..MaxSelects /\ wild' \in [Side -> BOOLEAN]
    BY <1>0, <2>1, BoundsAreNatural
  <2>3. segment' \in [Side -> [offset : Word, size : Word]]
    BY <1>0, <2>1
  <2>4. DOMAIN chosen' = Side /\ \A z \in Side : chosen'[z] \subseteq Bytes(z)
    BY <1>0, <2>1
  <2> QED
    BY <2>1, <2>2, <2>3, <2>4
<1>2. ASSUME NEW s \in Side, NEW o \in Word, NEW n \in Word, SubSelect(s, o, n)
      PROVE  /\ segment' \in [Side -> [offset : Word, size : Word]]
             /\ DOMAIN chosen' = Side /\ \A z \in Side : chosen'[z] \subseteq Bytes(z)
             /\ selects' \in 0..MaxSelects /\ wild' \in [Side -> BOOLEAN]
             /\ UNCHANGED <<memory, op, object, result, fault>>
  <2> DEFINE from == (segment[s].offset + o) % Width
             eff  == EffectiveSize(segment[s].size, o, n)
             out  == o > segment[s].size \/ o + n >= Width \/ segment[s].offset + o >= Width
  <2>1. /\ selects < MaxSelects /\ selects' = selects + 1
        /\ segment' = [segment EXCEPT ![s] = [offset |-> from, size |-> eff]]
        /\ chosen' = [chosen EXCEPT ![s] = @ \cap Span(segment[s].offset + o, n)]
        /\ wild' = [wild EXCEPT ![s] = wild[s] \/ out]
        /\ UNCHANGED <<memory, op, object, result, fault>>
    BY <1>2 DEF SubSelect
  <2>2. selects' \in 0..MaxSelects /\ wild' \in [Side -> BOOLEAN]
    <3>1. selects' \in 0..MaxSelects
      BY <1>0, <2>1, BoundsAreNatural
    <3>2. (wild[s] \/ out) \in BOOLEAN
      OBVIOUS
    <3> HIDE DEF out
    <3>3. wild' \in [Side -> BOOLEAN]
      BY <1>0, <2>1, <3>2
    <3> QED
      BY <3>1, <3>3
  <2>3. from \in Word /\ eff \in Word
    <3>1. segment[s].offset \in Word /\ segment[s].size \in Word
      BY Fields
    <3>2. segment[s].offset + o \in Int
      BY <3>1, Words
    <3> QED
      BY <3>1, <3>2, Wraps, EffectiveSizeType
  <2>4. segment' \in [Side -> [offset : Word, size : Word]]
    <3> HIDE DEF from, eff
    <3> QED
      BY <1>0, <2>1, <2>3
  <2>5. DOMAIN chosen' = Side /\ \A z \in Side : chosen'[z] \subseteq Bytes(z)
    BY <1>0, <2>1
  <2> QED
    BY <2>1, <2>2, <2>4, <2>5
<1> QED
  BY <1>1, <1>2 DEF SelectStep

\* What a transfer writes leaves the memory a map of its bytes.
LEMMA EndsOthers ==
  ASSUME TypeOK, NEW x \in Op, NEW st, NEW n \in Nat, Ends(x, st, n)
  PROVE  /\ DOMAIN memory' = Side
         /\ \A s \in Side : memory'[s] \in [Bytes(s) -> Op \cup {Null}]
         /\ \A s \in Side : \A c \in Bytes(s) : memory'[s][c] # memory[s][c] =>
              op[x].to = s /\ c \in Span(At(x), n)
         /\ UNCHANGED <<segment, chosen, wild, selects, object, result, fault>>
<1> DEFINE to == op[x].to
           new == [c \in DOMAIN memory[to] |->
                     IF c \in Span(At(x), n) THEN x ELSE memory[to][c]]
<1>1. /\ memory' = [memory EXCEPT ![to] = new]
      /\ UNCHANGED <<segment, chosen, wild, selects, object, result, fault>>
  BY DEF Ends
<1>2. DOMAIN memory = Side /\ \A s \in Side : memory[s] \in [Bytes(s) -> Op \cup {Null}]
  BY DEF TypeOK
<1>3. to \in Side
  BY Fields
<1>4. /\ new \in [Bytes(to) -> Op \cup {Null}]
      /\ \A c \in Bytes(to) : new[c] # memory[to][c] => c \in Span(At(x), n)
  <2> HIDE DEF to
  <2> QED
    BY <1>2, <1>3
<1> HIDE DEF to, new
<1>5. memory'[to] = new /\ DOMAIN memory' = Side
      /\ \A s \in Side \ {to} : memory'[s] = memory[s]
  BY <1>1, <1>2, <1>3
<1> QED
  BY <1>1, <1>2, <1>3, <1>4, <1>5 DEF to

\* Types are kept.
LEMMA TypeStep ==
  ASSUME TypeOK, [Next]_vars
  PROVE  TypeOK'
<1> DEFINE Parts ==
             /\ segment' \in [Side -> [offset : Word, size : Word]]
             /\ DOMAIN chosen' = Side /\ \A s \in Side : chosen'[s] \subseteq Bytes(s)
             /\ DOMAIN memory' = Side
             /\ \A s \in Side : memory'[s] \in [Bytes(s) -> Op \cup {Null}]
             /\ selects' \in 0..MaxSelects /\ wild' \in [Side -> BOOLEAN]
             /\ op' \in [Op -> OpRecord] /\ \A x \in Op : op'[x].moved <= op'[x].size
             /\ object' \in [Object -> ObjectType] /\ result' \in [Op -> ResultType]
             /\ fault' \in {"none", "terminate"}
<1>0. /\ op \in [Op -> OpRecord] /\ object \in [Object -> ObjectType]
      /\ result \in [Op -> ResultType]
      /\ fault \in {"none", "terminate"} /\ \A x \in Op : op[x].moved <= op[x].size
  BY Shape DEF TypeOK
<1>a. SUFFICES Parts
  BY DEF TypeOK, OpRecord, ObjectType, ResultType
<1>b. /\ segment \in [Side -> [offset : Word, size : Word]]
      /\ DOMAIN chosen = Side /\ \A s \in Side : chosen[s] \subseteq Bytes(s)
      /\ DOMAIN memory = Side
      /\ \A s \in Side : memory[s] \in [Bytes(s) -> Op \cup {Null}]
      /\ selects \in 0..MaxSelects /\ wild \in [Side -> BOOLEAN]
  BY DEF TypeOK
<1>1. CASE SelectStep
  <2> QED
    BY <1>0, <1>b, <1>1, SelectEffect
<1>2. ASSUME NEW x \in Op, NEW to \in Side, NEW timed \in BOOLEAN,
             Blocking(x, to, timed) \/ \E a \in Object : Async(x, a, to, timed)
      PROVE  Parts
  <2>1. Post(x, to, timed)
    BY <1>2 DEF Blocking, Async
  <2>2. object' \in [Object -> ObjectType] /\ result' \in [Op -> ResultType]
    BY <1>0, <1>2, BlockingEffect, AsyncEffect
  <2>3. op' \in [Op -> OpRecord] /\ \A y \in Op : op'[y].moved <= op'[y].size
    BY <1>0, <2>1, PostEffect
  <2>4. /\ segment' \in [Side -> [offset : Word, size : Word]]
        /\ DOMAIN chosen' = Side /\ \A s \in Side : chosen'[s] \subseteq Bytes(s)
        /\ wild' \in [Side -> BOOLEAN]
        /\ UNCHANGED <<selects, memory, fault>>
    BY <2>1, PostOthers
  <2> QED
    BY <1>0, <1>b, <2>2, <2>3, <2>4
<1>3. ASSUME NEW x \in Op, Completes(x) \/ Expires(x) \/ Fails(x)
      PROVE  Parts
  <2>1. PICK st \in {"done", "expired", "failed"}, n \in 0..op[x].size :
          Ends(x, st, n)
    BY <1>3, MercuryEnds
  <2>2. n \in Nat /\ n <= op[x].size
    BY Fields, Words
  <2>3. op' \in [Op -> OpRecord] /\ \A y \in Op : op'[y].moved <= op'[y].size
    BY <1>0, <2>1, <2>2, EndsEffect
  <2>4. /\ DOMAIN memory' = Side
        /\ \A s \in Side : memory'[s] \in [Bytes(s) -> Op \cup {Null}]
        /\ UNCHANGED <<segment, chosen, wild, selects, object, result, fault>>
    BY <2>1, <2>2, EndsOthers
  <2> QED
    BY <1>0, <1>b, <2>3, <2>4
<1>4. CASE ObjectStep
  <2>1. /\ op' = op /\ UNCHANGED <<segment, chosen, wild, selects, memory>>
        /\ object' \in [Object -> ObjectType] /\ result' \in [Op -> ResultType]
        /\ fault' \in {"none", "terminate"}
    BY <1>4, ObjectEffect
  <2> QED
    BY <1>0, <1>b, <2>1
<1>5. CASE UNCHANGED vars
  <2> QED
    BY <1>0, <1>b, <1>5 DEF vars
<1> HIDE DEF Parts
<1>6. CASE TransferStep
  BY <1>2, <1>6, TransferCases
<1> QED
  BY <1>1, <1>3, <1>4, <1>5, <1>6 DEF Next, MercuryStep

\* Initially the types hold.
LEMMA TypeInit == ASSUME Init PROVE TypeOK
<1>1. /\ segment = [s \in Side |-> Whole(s)] /\ chosen = [s \in Side |-> Bytes(s)]
      /\ memory = [s \in Side |-> [c \in Bytes(s) |-> Null]] /\ selects = 0
      /\ op = [x \in Op |-> Idle] /\ object = [a \in Object |-> Unborn]
      /\ result = [x \in Op |-> [kind |-> "none", size |-> 0]] /\ fault = "none"
      /\ wild = [s \in Side |-> FALSE]
  BY DEF Init, Without
<1>2. segment \in [Side -> [offset : Word, size : Word]]
  BY <1>1, Words DEF Whole
<1>3. DOMAIN memory = Side /\ \A s \in Side : memory[s] \in [Bytes(s) -> Op \cup {Null}]
  BY <1>1
<1>4. op \in [Op -> OpRecord] /\ \A x \in Op : op[x].moved <= op[x].size
  BY <1>1, Words DEF Idle, OpRecord, OpState
<1>5. object \in [Object -> ObjectType]
  BY <1>1 DEF Unborn, ObjectType
<1>6. result \in [Op -> ResultType]
  BY <1>1, Words DEF ResultType
<1>7. selects \in 0..MaxSelects /\ wild \in [Side -> BOOLEAN]
  BY <1>1, BoundsAreNatural
<1> QED
  BY <1>1, <1>2, <1>3, <1>4, <1>5, <1>6, <1>7 DEF TypeOK, OpRecord, ObjectType, ResultType

-----------------------------------------------------------------------------
(* Who waits for a transfer                                                *)

\* What the steps of the objects do to the requests: none appears, two objects
\* never end up with one, and that of a running transfer is not lost.
Requests ==
  /\ \A x \in Op : \A a \in Object :
       object'[a].request = x => \E b \in Object : object[b].request = x
  /\ OneHolder'
  /\ \A x \in Op : \A a \in Object : object[a].request = x /\ ~Over(x) =>
       \E b \in Object : object'[b].request = x

\* Requests are not transfers when they are null or gone.
LEMMA Markers == Null \notin Op /\ Dead \notin Op /\ Null # Dead
BY MarkersAreFresh DEF Op

\* No step of an object loses or duplicates a request.
LEMMA RequestsKept ==
  ASSUME TypeOK, OneHolder, ObjectStep
  PROVE  Requests
<1>0. object \in [Object -> ObjectType]
  BY Shape
<1>1. ASSUME NEW a \in Object, NEW q \in {Null, Dead},
             object'[a].request = q, \A b \in Object \ {a} : object'[b] = object[b],
             object[a].request \in Op => Over(object[a].request)
      PROVE  Requests
  BY <1>1, Markers DEF Requests, OneHolder
<1>2. ASSUME NEW a \in Object, NEW b \in Object, a # b,
             object'[a].request = object[b].request, object'[b].request = Null,
             \A c \in Object \ {a, b} : object'[c] = object[c],
             object[a].request \in Op => Over(object[a].request)
      PROVE  Requests
  <2>1. \A x \in Op : \A c \in Object :
          object'[c].request = x => \E d \in Object : object[d].request = x
    BY <1>2, Markers
  <2>2. OneHolder'
    BY <1>2, Markers DEF OneHolder
  <2>3. \A x \in Op : \A c \in Object : object[c].request = x /\ ~Over(x) =>
          \E d \in Object : object'[d].request = x
    BY <1>2, Markers
  <2> QED
    BY <2>1, <2>2, <2>3 DEF Requests
<1>3. ASSUME object' = object
      PROVE  Requests
  BY <1>3 DEF Requests, OneHolder
<1>4. ASSUME NEW x \in Op, Return(x)
      PROVE  Requests
  BY <1>3, <1>4 DEF Return
<1>5. ASSUME NEW a \in Object, Wait(a)
      PROVE  Requests
  <2>1. Over(object[a].request) /\ object' = [object EXCEPT ![a].request = Null]
    BY <1>5 DEF Wait
  <2>2. object'[a].request = Null /\ \A b \in Object \ {a} : object'[b] = object[b]
    BY <1>0, <2>1
  <2> QED
    BY <1>1, <2>1, <2>2
<1>6. ASSUME NEW a \in Object, OpDestroy(a)
      PROVE  Requests
  <2>1. /\ object[a].request \in Op => Over(object[a].request)
        /\ object' = [object EXCEPT ![a] = Unborn]
    BY <1>6 DEF OpDestroy
  <2>2. object'[a].request = Dead /\ \A b \in Object \ {a} : object'[b] = object[b]
    BY <1>0, <2>1 DEF Unborn
  <2> QED
    BY <1>1, <2>1, <2>2
<1>7. ASSUME NEW a \in Object, NEW b \in Object, OpMoveConstruct(a, b)
      PROVE  Requests
  <2>1. /\ object[a].request = Dead /\ object[b].request # Dead /\ a # b
        /\ object' = [object EXCEPT ![a] = [request |-> object[b].request, size |-> Null],
                                    ![b].request = Null]
    BY <1>7 DEF OpMoveConstruct
  <2>2. /\ object'[a].request = object[b].request /\ object'[b].request = Null
        /\ \A c \in Object \ {a, b} : object'[c] = object[c]
    BY <1>0, <2>1
  <2> QED
    BY <1>2, <2>1, <2>2, Markers
<1>8. ASSUME NEW a \in Object, NEW b \in Object, OpMoveAssign(a, b)
      PROVE  Requests
  <2>1. a # b /\ (object[a].request \in Op => Over(object[a].request))
    BY <1>8 DEF OpMoveAssign
  <2>2. CASE object' = [object EXCEPT ![a].request = Null]
    <3>1. object'[a].request = Null /\ \A c \in Object \ {a} : object'[c] = object[c]
      BY <1>0, <2>2
    <3> QED
      BY <1>1, <2>1, <3>1
  <2>3. CASE object' = [object EXCEPT ![a].request = object[b].request, ![b].request = Null]
    <3>1. /\ object'[a].request = object[b].request /\ object'[b].request = Null
          /\ \A c \in Object \ {a, b} : object'[c] = object[c]
      BY <1>0, <2>1, <2>3 DEF ObjectType
    <3> QED
      BY <1>2, <2>1, <3>1
  <2> QED
    BY <1>8, <2>2, <2>3 DEF OpMoveAssign
<1> QED
  BY <1>4, <1>5, <1>6, <1>7, <1>8 DEF ObjectStep

\* Somebody goes on waiting for each running transfer.
LEMMA WaitingStep ==
  ASSUME TypeOK, Waiting, [Next]_vars
  PROVE  Waiting'
<1>1. CASE SelectStep
  BY <1>1, SelectEffect
     DEF Waiting, NotBeforeStart, OneHolder, ObjectOrUlt, Awaited
<1>2. ASSUME NEW x \in Op, NEW to \in Side, NEW timed \in BOOLEAN,
             Blocking(x, to, timed)
      PROVE  Waiting'
  <2>1. Post(x, to, timed) /\ object' = object
    BY <1>2 DEF Blocking
  <2>2. /\ op[x].state = "idle" /\ op'[x].state \in {"active", "failed"}
        /\ op'[x].state = "active" => Fits
        /\ \A y \in Op \ {x} : op'[y] = op[y]
    BY <2>1, PostEffect
  <2>3. /\ result'[x].kind = IF Fits THEN "blocked" ELSE "exception"
        /\ \A y \in Op \ {x} : result'[y] = result[y]
    BY <1>2, BlockingEffect
  <2>4. NotBeforeStart'
    BY <2>1, <2>2, <2>3 DEF Waiting, NotBeforeStart
  <2>5. OneHolder'
    BY <2>1 DEF Waiting, OneHolder
  <2>6. ObjectOrUlt'
    BY <2>1, <2>2, <2>3 DEF Waiting, NotBeforeStart, ObjectOrUlt
  <2>7. Awaited'
    BY <2>1, <2>2, <2>3 DEF Waiting, Awaited
  <2> QED
    BY <2>4, <2>5, <2>6, <2>7 DEF Waiting
<1>3. ASSUME NEW x \in Op, NEW a \in Object, NEW to \in Side, NEW timed \in BOOLEAN,
             Async(x, a, to, timed)
      PROVE  Waiting'
  <2>1. Post(x, to, timed)
    BY <1>3 DEF Async
  <2>2. /\ op[x].state = "idle" /\ op'[x].state \in {"active", "failed"}
        /\ op'[x].state = "active" => Fits
        /\ \A y \in Op \ {x} : op'[y] = op[y]
    BY <2>1, PostEffect
  <2>3. /\ object[a].request = Dead
        /\ Fits => object'[a].request = x /\ result' = result
                   /\ \A b \in Object \ {a} : object'[b] = object[b]
        /\ ~Fits => object' = object /\ result'[x].kind = "exception"
                   /\ \A y \in Op \ {x} : result'[y] = result[y]
    BY <1>3, AsyncEffect
  <2>4. /\ result'[x].kind # "blocked"
        /\ \A y \in Op \ {x} : result'[y] = result[y]
    BY <2>2, <2>3 DEF Waiting, NotBeforeStart
  <2>5. \A y \in Op \ {x} : \A b \in Object :
          object'[b].request = y <=> object[b].request = y
    BY <2>3, Markers
  <2>6. \A b \in Object : object'[b].request = x => b = a
    BY <2>2, <2>3 DEF Waiting, NotBeforeStart
  <2>7. NotBeforeStart'
    BY <2>2, <2>4, <2>5 DEF Waiting, NotBeforeStart
  <2>8. OneHolder'
    BY <2>5, <2>6 DEF Waiting, OneHolder
  <2>9. ObjectOrUlt'
    BY <2>4, <2>5 DEF Waiting, ObjectOrUlt
  <2>10. Awaited'
    BY <2>2, <2>3, <2>4, <2>5 DEF Waiting, Awaited
  <2> QED
    BY <2>7, <2>8, <2>9, <2>10 DEF Waiting
<1>4. ASSUME NEW x \in Op, Completes(x) \/ Expires(x) \/ Fails(x)
      PROVE  Waiting'
  <2>1. PICK st \in {"done", "expired", "failed"}, n \in 0..op[x].size : Ends(x, st, n)
    BY <1>4, MercuryEnds
  <2>2. op'[x].state = st /\ \A y \in Op \ {x} : op'[y] = op[y]
    BY <2>1, EndsEffect
  <2>3. result' = result /\ object' = object
    BY <2>1 DEF Ends
  <2> QED
    BY <2>2, <2>3 DEF Waiting, NotBeforeStart, OneHolder, ObjectOrUlt, Awaited
<1>5. CASE ObjectStep
  <2>1. Requests
    BY <1>5, RequestsKept DEF Waiting
  <2>2. op' = op /\ \A x \in Op : result'[x] # result[x] => Over(x) /\ result'[x] \in WaitResult
    BY <1>5, ObjectEffect DEF Reported
  <2>3. \A x \in Op : result'[x] \in WaitResult => result'[x].kind # "blocked"
    BY DEF WaitResult
  <2>4. NotBeforeStart'
    BY <2>1, <2>2, <2>3 DEF Waiting, NotBeforeStart, Requests
  <2>5. ObjectOrUlt'
    BY <2>1, <2>2, <2>3 DEF Waiting, ObjectOrUlt, Requests
  <2>6. Awaited'
    BY <2>1, <2>2 DEF Waiting, Awaited, Requests, Over
  <2> QED
    BY <2>1, <2>4, <2>5, <2>6 DEF Waiting, Requests
<1>6. CASE UNCHANGED vars
  BY <1>6 DEF vars, Waiting, NotBeforeStart, OneHolder, ObjectOrUlt, Awaited
<1>7. CASE TransferStep
  BY <1>2, <1>3, <1>7, TransferCases
<1> QED
  BY <1>1, <1>4, <1>5, <1>6, <1>7 DEF Next, MercuryStep

-----------------------------------------------------------------------------
(* Where a transfer writes                                                 *)

\* A selection from a segment that begins inside it, and whose sums are words, is
\* the part of the segment that was asked for.
LEMMA SubsegmentExact ==
  ASSUME NEW base \in Word, NEW size \in Word, NEW o \in Word, NEW n \in Word,
         o <= size, o + n < Width, base + o < Width
  PROVE  Span((base + o) % Width, EffectiveSize(size, o, n))
           = Span(base, size) \cap Span(base + o, n)
<1>1. /\ Width \in Nat /\ base \in Nat /\ size \in Nat /\ o \in Nat /\ n \in Nat
      /\ size < Width
  BY Words
<1>2. base + o \in Word /\ o + n \in Word /\ size - o \in Word
  BY <1>1 DEF Word
<1>3. /\ (base + o) % Width = base + o /\ (o + n) % Width = o + n
      /\ (size - o) % Width = size - o
  BY <1>2, NoWrap
<1>4. EffectiveSize(size, o, n) = IF o + n > size THEN size - o ELSE n
  BY <1>3 DEF EffectiveSize
<1>5. CASE o + n > size
  <2>1. EffectiveSize(size, o, n) = size - o
    BY <1>4, <1>5
  <2>2. base + o + (size - o) - 1 = base + size - 1
    BY <1>1
  <2>3. Span(base + o, size - o) = Span(base, size) \cap Span(base + o, n)
    BY <1>1, <1>5, <2>2 DEF Span
  <2> QED
    BY <1>3, <2>1, <2>3
<1>6. CASE o + n <= size
  <2>1. EffectiveSize(size, o, n) = n
    BY <1>1, <1>4, <1>6
  <2>2. Span(base + o, n) = Span(base, size) \cap Span(base + o, n)
    BY <1>1, <1>6 DEF Span
  <2> QED
    BY <1>3, <2>1, <2>2
<1> QED
  BY <1>1, <1>5, <1>6

\* Selections keep denoting what was asked for, unless they are wild.
LEMMA SelectKeepsExact ==
  ASSUME TypeOK, SelectionExact, SelectStep
  PROVE  SelectionExact'
<1>0. /\ segment \in [Side -> [offset : Word, size : Word]] /\ DOMAIN chosen = Side
      /\ wild \in [Side -> BOOLEAN]
  BY DEF TypeOK
<1>1. ASSUME NEW s \in Side, NEW o \in Word, NEW n \in Word, BulkSelect(s, o, n)
      PROVE  SelectionExact'
  <2>1. /\ segment' = [segment EXCEPT ![s] = [offset |-> o, size |-> n]]
        /\ chosen' = [chosen EXCEPT ![s] = Span(o, n) \cap Bytes(s)]
        /\ wild' = [wild EXCEPT ![s] = FALSE]
    BY <1>1 DEF BulkSelect
  <2>2. /\ segment'[s].offset = o /\ segment'[s].size = n
        /\ chosen'[s] = Span(o, n) \cap Bytes(s)
        /\ \A z \in Side \ {s} : /\ segment'[z] = segment[z] /\ chosen'[z] = chosen[z]
                                /\ wild'[z] = wild[z]
    BY <1>0, <2>1
  <2> QED
    BY <2>2 DEF SelectionExact
<1>2. ASSUME NEW s \in Side, NEW o \in Word, NEW n \in Word, SubSelect(s, o, n)
      PROVE  SelectionExact'
  <2> DEFINE base == segment[s].offset
             size == segment[s].size
             from == (base + o) % Width
             eff  == EffectiveSize(size, o, n)
             out  == o > size \/ o + n >= Width \/ base + o >= Width
  <2>1. /\ segment' = [segment EXCEPT ![s] = [offset |-> from, size |-> eff]]
        /\ chosen' = [chosen EXCEPT ![s] = chosen[s] \cap Span(base + o, n)]
        /\ wild' = [wild EXCEPT ![s] = wild[s] \/ out]
    BY <1>2 DEF SubSelect
  <2>2. base \in Word /\ size \in Word
    BY Fields
  <2>3. ~out => Span(from, eff) = Span(base, size) \cap Span(base + o, n)
    <3>1. Width \in Nat /\ base \in Nat /\ size \in Nat /\ o \in Nat /\ n \in Nat
      BY <2>2, Words
    <3>2. ~out => o <= size /\ o + n < Width /\ base + o < Width
      BY <3>1
    <3> QED
      BY <2>2, <3>2, SubsegmentExact
  <2> HIDE DEF base, size, from, eff, out
  <2>4. /\ segment'[s].offset = from /\ segment'[s].size = eff
        /\ chosen'[s] = chosen[s] \cap Span(base + o, n)
        /\ ~wild'[s] => ~wild[s] /\ ~out
        /\ \A z \in Side \ {s} : /\ segment'[z] = segment[z] /\ chosen'[z] = chosen[z]
                                /\ wild'[z] = wild[z]
    BY <1>0, <2>1
  <2>5. ~wild[s] => Span(base, size) \cap Bytes(s) = chosen[s]
    BY DEF SelectionExact, base, size
  <2>6. ~wild'[s] => Span(segment'[s].offset, segment'[s].size) \cap Bytes(s) = chosen'[s]
    BY <2>3, <2>4, <2>5
  <2> QED
    BY <2>4, <2>6 DEF SelectionExact
<1> QED
  BY <1>1, <1>2 DEF SelectStep

\* The whole of a bulk denotes its bytes.
LEMMA WholeIsExact ==
  \A s \in Side : Span(0, Size[s]) \cap Bytes(s) = Bytes(s)
<1> SUFFICES ASSUME NEW s \in Side
             PROVE  Span(0, Size[s]) \cap Bytes(s) = Bytes(s)
  OBVIOUS
<1>1. Size[s] \in Nat
  BY Words
<1> QED
  BY <1>1 DEF Span, Bytes

\* A transfer that starts has the scope that was chosen for its destination.
LEMMA PostInScope ==
  ASSUME TypeOK, SelectionExact, NEW x \in Op, NEW to \in Side, NEW timed \in BOOLEAN,
         Post(x, to, timed), Fits
  PROVE  ~op'[x].wild => Span(At(x)', op'[x].size) \subseteq op'[x].scope
<1> DEFINE r == [state |-> "active", to |-> to, local |-> segment["local"].offset,
                 remote |-> segment["remote"].offset, size |-> TransferSize,
                 moved |-> 0, timed |-> timed, scope |-> chosen[to], wild |-> wild[to]]
<1>1. op' = [op EXCEPT ![x] = r]
  BY DEF Post
<1>2. op \in [Op -> OpRecord]
  BY Shape
<1>3. op'[x] = r
  <2> HIDE DEF r
  <2> QED
    BY <1>1, <1>2, Changed
<1>4. op'[x].size = TransferSize /\ op'[x].scope = chosen[to] /\ op'[x].wild = wild[to]
      /\ (At(x)' = segment[to].offset)
  BY <1>3 DEF At
<1>5. /\ segment[to].offset + TransferSize <= Size[to]
      /\ TransferSize <= segment[to].size
      /\ segment[to].offset \in Nat /\ segment[to].size \in Nat /\ TransferSize \in Nat
      /\ Size[to] \in Nat
  BY Fields, TransferSizeBound, Words DEF Fits
<1>6. Span(segment[to].offset, TransferSize)
        \subseteq Span(segment[to].offset, segment[to].size) \cap Bytes(to)
  BY <1>5 DEF Span, Bytes
<1>7. ~wild[to] => Span(segment[to].offset, segment[to].size) \cap Bytes(to) = chosen[to]
  BY DEF SelectionExact
<1> QED
  BY <1>4, <1>6, <1>7

\* Selections stay exact, and transfers inside their scope.
LEMMA ScopeStep ==
  ASSUME TypeOK, SelectionExact, InScope, [Next]_vars
  PROVE  (SelectionExact /\ InScope)'
<1>0. ASSUME NEW y \in Op, op'[y] = op[y]
      PROVE  (At(y)' = At(y))
  BY <1>0 DEF At
<1>1. CASE SelectStep
  <2>1. op' = op
    BY <1>1, SelectEffect
  <2> QED
    BY <1>0, <1>1, <2>1, SelectKeepsExact DEF InScope
<1>2. ASSUME NEW x \in Op, NEW to \in Side, NEW timed \in BOOLEAN,
             Blocking(x, to, timed) \/ \E a \in Object : Async(x, a, to, timed)
      PROVE  (SelectionExact /\ InScope)'
  <2>1. Post(x, to, timed)
    BY <1>2 DEF Blocking, Async
  <2>2. \A s \in Side : chosen'[s] = Bytes(s) /\ segment'[s].offset = 0
                        /\ segment'[s].size = Size[s]
    BY <2>1, PostOthers
  <2>3. SelectionExact'
    BY <2>2, WholeIsExact DEF SelectionExact
  <2>4. op'[x].state = "active" => Fits /\ \A y \in Op \ {x} : op'[y] = op[y]
    BY <2>1, PostEffect
  <2>5. \A y \in Op \ {x} : op'[y] = op[y]
    BY <2>1, PostEffect
  <2>6. op'[x].state = "active" /\ ~op'[x].wild =>
          Span(At(x)', op'[x].size) \subseteq op'[x].scope
    BY <2>1, <2>4, PostInScope
  <2>7. InScope'
    BY <1>0, <2>5, <2>6 DEF InScope
  <2> QED
    BY <2>3, <2>7
<1>3. ASSUME NEW x \in Op, Completes(x) \/ Expires(x) \/ Fails(x)
      PROVE  (SelectionExact /\ InScope)'
  <2>1. PICK st \in {"done", "expired", "failed"}, n \in 0..op[x].size : Ends(x, st, n)
    BY <1>3, MercuryEnds
  <2>2. op'[x].state = st /\ \A y \in Op \ {x} : op'[y] = op[y]
    BY <2>1, EndsEffect
  <2>3. segment' = segment /\ chosen' = chosen /\ wild' = wild
    BY <2>1 DEF Ends
  <2>4. InScope'
    BY <1>0, <2>2 DEF InScope
  <2> QED
    BY <2>3, <2>4 DEF SelectionExact
<1>4. CASE ObjectStep
  <2>1. op' = op /\ segment' = segment /\ chosen' = chosen /\ wild' = wild
    BY <1>4, ObjectEffect
  <2> QED
    BY <1>0, <2>1 DEF SelectionExact, InScope
<1>5. CASE UNCHANGED vars
  BY <1>0, <1>5 DEF vars, SelectionExact, InScope
<1>6. CASE TransferStep
  BY <1>2, <1>6, TransferCases
<1> QED
  BY <1>1, <1>3, <1>4, <1>5, <1>6 DEF Next, MercuryStep

\* Only a transfer that ends writes, and, unless it is wild, only in its scope.
LEMMA WritesInScope ==
  ASSUME TypeOK, InScope, [Next]_vars
  PROVE  \A s \in Side : \A c \in Bytes(s) : memory'[s][c] # memory[s][c] =>
           \/ Writers(s, c) # {}
           \/ \E x \in Op : op[x].state = "active" /\ op[x].to = s /\ op[x].wild
<1>1. CASE memory' = memory
  BY <1>1
<1>2. ASSUME NEW x \in Op, Completes(x) \/ Expires(x) \/ Fails(x),
             NEW s \in Side, NEW c \in Bytes(s), memory'[s][c] # memory[s][c]
      PROVE  /\ op[x].state = "active" /\ op[x].to = s
             /\ op[x].wild \/ c \in op[x].scope
  <2>1. PICK st \in {"done", "expired", "failed"}, n \in 0..op[x].size : Ends(x, st, n)
    BY <1>2, MercuryEnds
  <2>2. n \in Nat /\ n <= op[x].size /\ op[x].size \in Nat /\ At(x) \in Nat
    BY Fields, Words DEF At
  <2>3. op[x].to = s /\ c \in Span(At(x), n)
    BY <1>2, <2>1, <2>2, EndsOthers
  <2>4. Span(At(x), n) \subseteq Span(At(x), op[x].size)
    BY <2>2 DEF Span
  <2>5. op[x].state = "active"
    BY <2>1 DEF Ends
  <2> QED
    BY <2>3, <2>4, <2>5 DEF InScope
<1>3. CASE SelectStep
  BY <1>1, <1>3, SelectEffect
<1>4. CASE TransferStep
  <2>1. PICK x \in Op, to \in Side, timed \in BOOLEAN : Post(x, to, timed)
    BY <1>4, TransferCases DEF Blocking, Async
  <2> QED
    BY <1>1, <2>1, PostOthers
<1>5. CASE ObjectStep
  BY <1>1, <1>5, ObjectEffect
<1>6. CASE UNCHANGED vars
  BY <1>1, <1>6 DEF vars
<1>7. CASE MercuryStep
  <2>1. PICK x \in Op : Completes(x) \/ Expires(x) \/ Fails(x)
    BY <1>7 DEF MercuryStep
  <2> QED
    BY <1>2, <2>1 DEF Writers
<1> QED
  BY <1>3, <1>4, <1>5, <1>6, <1>7 DEF Next

-----------------------------------------------------------------------------
(* The theorems                                                            *)

IInv == TypeOK /\ Waiting /\ SelectionExact /\ InScope

\* The parts of the invariant hold initially.
LEMMA InitInvariant == ASSUME Init PROVE IInv
<1>1. TypeOK
  BY TypeInit
<1>2. /\ op = [x \in Op |-> Idle] /\ object = [a \in Object |-> Unborn]
      /\ result = [x \in Op |-> [kind |-> "none", size |-> 0]]
      /\ segment = [s \in Side |-> Whole(s)] /\ chosen  = [s \in Side |-> Bytes(s)]
  BY DEF Init, Without
<1>3. /\ \A x \in Op : op[x].state = "idle" /\ result[x].kind = "none"
      /\ \A a \in Object : object[a].request = Dead
  BY <1>2 DEF Idle, Unborn
<1>4. InScope
  BY <1>3 DEF InScope
<1>5. Waiting
  BY <1>3, Markers DEF Waiting, NotBeforeStart, OneHolder, ObjectOrUlt, Awaited
<1>6. SelectionExact
  BY <1>2, WholeIsExact DEF SelectionExact, Whole
<1> QED
  BY <1>1, <1>4, <1>5, <1>6 DEF IInv

\* For every number of transfers, objects and bytes, and whatever is selected, the
\* invariant holds: types, who waits, exact selections and transfers in their scope.
LEMMA Invariant == Spec => []IInv
<1>1. Init => IInv
  BY InitInvariant
<1>2. IInv /\ [Next]_vars => IInv'
  BY TypeStep, WaitingStep, ScopeStep DEF IInv
<1> QED
  BY <1>1, <1>2, PTL DEF Spec

\* Segments, memory, transfers and what waits for them have their types: no transfer
\* moves more than its size, though sizes are added and cut modulo the word.
THEOREM TypeCorrect == Spec => []TypeOK
<1>1. IInv => TypeOK
  BY DEF IInv
<1> QED
  BY <1>1, Invariant, PTL

\* The arithmetic of select, in machine words of any width, is right for every
\* chain of selections none of which begins beyond its segment or ends where no
\* size_t can say: the segment denotes exactly the bytes that were asked for.
THEOREM SelectionExactHolds == Spec => []SelectionExact
<1>1. IInv => SelectionExact
  BY DEF IInv
<1> QED
  BY <1>1, Invariant, PTL

\* As long as Mercury may touch the memory of a transfer, one async_bulk_op or
\* the ULT that called stands for it.
THEOREM SomebodyWaitsHolds == Spec => []SomebodyWaits
<1>1. IInv => SomebodyWaits
  <2> SUFFICES ASSUME IInv, NEW x \in Op
               PROVE  LET holders == {a \in Object : object[a].request = x} IN
                      /\ Cardinality(holders) <= 1
                      /\ op[x].state = "active" =>
                           (holders # {} <=> result[x].kind # "blocked")
    BY DEF SomebodyWaits
  <2> DEFINE holders == {a \in Object : object[a].request = x}
  <2>1. \A a, b \in holders : a = b
    BY DEF IInv, Waiting, OneHolder
  <2>2. Cardinality(holders) <= 1
    <3>1. CASE holders = {}
      <4> HIDE DEF holders
      <4> QED
        BY <3>1, FS_EmptySet
    <3>2. CASE holders # {}
      <4> HIDE DEF holders
      <4>1. PICK a : a \in holders
        BY <3>2
      <4>2. holders = {a}
        BY <2>1, <4>1
      <4>3. Cardinality({a}) = 1
        BY FS_Singleton
      <4> QED
        BY <4>2, <4>3
    <3> QED
      BY <3>1, <3>2
  <2>3. op[x].state = "active" => (holders # {} <=> result[x].kind # "blocked")
    BY DEF IInv, Waiting, Awaited, ObjectOrUlt
  <2> QED
    BY <2>2, <2>3
<1> QED
  BY <1>1, Invariant, PTL

\* A transfer writes only bytes that its program selected on the side it writes
\* to, unless that destination is itself a wild selection: for every width of
\* size_t, whatever is selected on the other side, and wherever transfers stop.
THEOREM ConfinedHolds == Spec => Confined
<1> DEFINE Write == \A s \in Side : \A c \in Bytes(s) : memory'[s][c] # memory[s][c] =>
             \/ Writers(s, c) # {}
             \/ \E x \in Op : op[x].state = "active" /\ op[x].to = s /\ op[x].wild
<1>1. IInv /\ [Next]_vars => [Write]_vars
  BY WritesInScope DEF IInv
<1>2. Spec => [][Write]_vars
  <2>1. Spec => [][Next]_vars
    BY DEF Spec
  <2> HIDE DEF Write
  <2> QED
    BY <1>1, <2>1, Invariant, PTL
<1> QED
  BY <1>2 DEF Confined
=============================================================================
