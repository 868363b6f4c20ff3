---------------------------- MODULE RpcCallProofs ----------------------------
(***************************************************************************)
(* What holds of RpcCall for every number of calls and handles: a response *)
(* that is expected has one waiter, through every erase from the vector;   *)
(* calls keep the promise of RpcPromise; and a packed_data gives access to *)
(* the response to its own call, if callables are used as documented.      *)
(***************************************************************************)
EXTENDS RpcCall, FiniteSetTheorems, SequenceTheorems, TLAPS

-----------------------------------------------------------------------------
(* Types                                                                   *)

ResultKind == {"unissued", "pending", "data", "empty", "timeout"}
OpState    == {"idle", "posted", "answered", "expired"}

\* The variables that an operation changes on its way, and the rest.
OpTypes ==
  /\ last    \in [Handle -> Call \cup {Null}]
  /\ op      \in [Handle -> OpState]
  /\ output  \in [Handle -> Call \cup {Null}]
  /\ timeout \in [Call -> Timeouts \cup {0}]
  /\ ignore  \in [Call -> BOOLEAN]
  /\ result  \in [Call -> ResultKind]
  /\ net     \subseteq Message
  /\ server  \in [Call -> {"idle", "running", "responded", "silent"}]

UseTypes ==
  /\ blocking \subseteq Call
  /\ reqs    \in Seq(AsyncResponse)
  /\ packed  \in [Call -> Handle \cup {Null}]
  /\ spent   \subseteq Call
  /\ fault   \in {"none", "terminate", "double wait"}

\* The type invariant, in two parts.
LEMMA TypeParts == TypeOK <=> OpTypes /\ UseTypes
BY DEF TypeOK, OpTypes, UseTypes, ResultKind, OpState

\* Null is neither a call nor a handle.
LEMMA Fresh == Null \notin Call /\ Null \notin Handle
BY NullIsFresh

\* What waiting for a call gives.
LEMMA Outcomes ==
  ASSUME OpTypes, NEW k \in Call, NEW h \in Handle
  PROVE  /\ Outcome(k, h) \in {"data", "empty", "timeout"}
         /\ Outcome(k, h) = "timeout" <=> op[h] = "expired"
         /\ Outcome(k, h) = "empty" => ignore[k]
         /\ Outcome(k, h) = "data" => ~ignore[k]
BY DEF Outcome, OpTypes

\* The fields of the vector's elements.
LEMMA Elements ==
  ASSUME UseTypes
  PROVE  /\ Len(reqs) \in Nat /\ DOMAIN reqs = 1..Len(reqs)
         /\ reqs \in [1..Len(reqs) -> AsyncResponse]
         /\ \A i \in DOMAIN reqs : /\ reqs[i].request \in Call \cup {Null}
                                   /\ reqs[i].handle \in Handle \cup {Null}
                                   /\ reqs[i].call \in Call \cup {Null}
<1>1. reqs \in Seq(AsyncResponse)
  BY DEF UseTypes
<1>2. /\ Len(reqs) \in Nat /\ DOMAIN reqs = 1..Len(reqs)
      /\ reqs \in [1..Len(reqs) -> AsyncResponse]
  BY <1>1, LenProperties
<1> QED
  BY <1>2 DEF AsyncResponse

\* A function on 1..n is a sequence.
LEMMA FunctionsAreSequences ==
  ASSUME NEW S, NEW n \in Nat, NEW f \in [1..n -> S]
  PROVE  f \in Seq(S)
BY SeqDef

-----------------------------------------------------------------------------
(* The vector                                                              *)

Unique == \A i, j \in DOMAIN reqs :
  reqs[i].request # Null /\ reqs[i].request = reqs[j].request => i = j

\* The element at which the one at position j of the vector was before erase(i).
Source(i, j) == IF j < i THEN j ELSE j + 1

\* What erase leaves: elements of the vector or empty ones, and each of the
\* others that carries a request.
LEMMA EraseEffect ==
  ASSUME UseTypes, Unique, NEW i \in DOMAIN reqs, reqs' = Erased(i)
  PROVE  /\ reqs' \in Seq(AsyncResponse) /\ DOMAIN reqs' = 1..(Len(reqs) - 1)
         /\ \A j \in DOMAIN reqs' :
              reqs'[j] = MovedFrom \/ \E m \in DOMAIN reqs : reqs'[j] = reqs[m]
         /\ \A j \in DOMAIN reqs' : reqs'[j].request # Null =>
              /\ Source(i, j) \in DOMAIN reqs \ {i}
              /\ reqs'[j] = reqs[Source(i, j)]
         /\ \A m \in DOMAIN reqs \ {i} : reqs[m].request # Null =>
              \E j \in DOMAIN reqs' : reqs'[j] = reqs[m]
<1> DEFINE n == Len(reqs)
<1>1. n \in Nat /\ DOMAIN reqs = 1..n /\ i \in 1..n
      /\ \A m \in 1..n : reqs[m] \in AsyncResponse
  BY Elements
<1>2. MovedFrom \in AsyncResponse /\ MovedFrom.request = Null
  BY DEF MovedFrom, Entry, AsyncResponse
<1>3. reqs' = [j \in 1..(n - 1) |->
                 IF j < i THEN reqs[j]
                 ELSE IF Assigned(i, j) THEN reqs[j + 1] ELSE ContentBefore(i, j)]
  BY DEF Erased
<1>4. DOMAIN reqs' = 1..(n - 1)
  BY <1>3
<1>5. ASSUME NEW j \in 1..(n - 1)
      PROVE  /\ j < i => reqs'[j] = reqs[j]
             /\ ~(j < i) /\ Assigned(i, j) => reqs'[j] = reqs[j + 1]
             /\ ~(j < i) /\ ~Assigned(i, j) => reqs'[j] = ContentBefore(i, j)
  BY <1>3
<1>6. ASSUME NEW j \in 1..(n - 1)
      PROVE  ContentBefore(i, j) = MovedFrom \/ ContentBefore(i, j) = reqs[j]
  BY DEF ContentBefore
<1>7. ASSUME NEW j \in 1..(n - 1), ~(j < i), ~Assigned(i, j)
      PROVE  reqs[j + 1].request = Null /\ ContentBefore(i, j).request = Null
  <2>1. j \in 1..n /\ j + 1 \in 1..n /\ j # j + 1 /\ j \in Nat
    BY <1>1
  <2>2. CASE j = i
    <3>1. reqs[i].request = reqs[i + 1].request
      BY <1>7, <2>2 DEF Assigned, RequestBefore
    <3>2. reqs[i].request = Null
      BY <1>1, <2>1, <2>2, <3>1 DEF Unique
    <3>3. ContentBefore(i, i) = reqs[i]
      BY <1>1 DEF ContentBefore
    <3> QED
      BY <2>2, <3>1, <3>2, <3>3
  <2>3. CASE j # i
    <3>1. reqs[j + 1].request = Null /\ j > i /\ j - 1 \in 1..(n - 1) /\ j - 1 + 1 = j
      BY <1>1, <1>7, <2>1, <2>3 DEF Assigned, RequestBefore
    <3>2. CASE Assigned(i, j - 1)
      BY <1>2, <3>1, <3>2 DEF ContentBefore
    <3>3. CASE ~Assigned(i, j - 1)
      <4>1. ContentBefore(i, j) = reqs[j]
        BY <3>3 DEF ContentBefore
      <4>2. RequestBefore(i, j - 1) = reqs[j].request
        BY <3>1, <3>3 DEF Assigned
      <4>3. CASE j - 1 = i
        <5>1. reqs[i].request = reqs[j].request /\ i # j
          BY <3>1, <4>2, <4>3 DEF RequestBefore
        <5> QED
          BY <1>1, <2>1, <3>1, <4>1, <5>1 DEF Unique
      <4>4. CASE j - 1 # i
        BY <3>1, <4>1, <4>2, <4>4 DEF RequestBefore
      <4> QED
        BY <4>3, <4>4
    <3> QED
      BY <3>1, <3>2, <3>3
  <2> QED
    BY <2>2, <2>3
<1>8. ASSUME NEW j \in 1..(n - 1)
      PROVE  /\ reqs'[j] = MovedFrom \/ \E m \in 1..n : reqs'[j] = reqs[m]
             /\ reqs'[j].request # Null =>
                  Source(i, j) \in 1..n /\ Source(i, j) # i
                  /\ reqs'[j] = reqs[Source(i, j)]
  <2>1. j \in 1..n /\ j + 1 \in 1..n
    BY <1>1
  <2>2. CASE j < i
    BY <1>5, <2>1, <2>2 DEF Source
  <2>3. CASE ~(j < i) /\ Assigned(i, j)
    BY <1>1, <1>5, <2>1, <2>3 DEF Source
  <2>4. CASE ~(j < i) /\ ~Assigned(i, j)
    BY <1>5, <1>6, <1>7, <2>1, <2>4
  <2> QED
    BY <2>2, <2>3, <2>4
<1>9. ASSUME NEW m \in 1..n, m # i, reqs[m].request # Null
      PROVE  \E j \in 1..(n - 1) : reqs'[j] = reqs[m]
  <2>1. CASE m < i
    <3>1. m \in 1..(n - 1)
      BY <1>1, <2>1
    <3> QED
      BY <1>5, <2>1, <3>1
  <2>2. CASE m > i
    <3>1. m - 1 \in 1..(n - 1) /\ ~(m - 1 < i) /\ m - 1 + 1 = m
      BY <1>1, <2>2
    <3>2. Assigned(i, m - 1)
      BY <1>7, <1>9, <3>1
    <3> QED
      BY <1>5, <3>1, <3>2
  <2> QED
    BY <1>1, <1>9, <2>1, <2>2
<1>10. reqs' \in Seq(AsyncResponse)
  <2>1. n - 1 \in Nat
    BY <1>1
  <2>2. \A j \in 1..(n - 1) : reqs'[j] \in AsyncResponse
    BY <1>1, <1>2, <1>8
  <2>3. reqs' \in [1..(n - 1) -> AsyncResponse]
    BY <1>3, <2>2
  <2> QED
    BY <2>1, <2>3, FunctionsAreSequences
<1>11. \A j \in DOMAIN reqs' :
         reqs'[j] = MovedFrom \/ \E m \in DOMAIN reqs : reqs'[j] = reqs[m]
  BY <1>1, <1>4, <1>8
<1>12. \A j \in DOMAIN reqs' : reqs'[j].request # Null =>
         Source(i, j) \in DOMAIN reqs \ {i} /\ reqs'[j] = reqs[Source(i, j)]
  BY <1>1, <1>4, <1>8
<1>13. \A m \in DOMAIN reqs \ {i} : reqs[m].request # Null =>
         \E j \in DOMAIN reqs' : reqs'[j] = reqs[m]
  <2>1. \A m \in 1..n : m # i /\ reqs[m].request # Null =>
          \E j \in 1..(n - 1) : reqs'[j] = reqs[m]
    BY <1>9
  <2> HIDE DEF n
  <2> QED
    BY <1>1, <1>4, <2>1
<1> QED
  BY <1>4, <1>10, <1>11, <1>12, <1>13

-----------------------------------------------------------------------------
(* Invariants of the operations                                            *)

Injective == \A g, h \in Handle : last[g] # Null /\ last[g] = last[h] => g = h
InUse     == \A h \in Handle : op[h] # "idle" =>
               last[h] \in Call /\ result[last[h]] = "pending"
LastKnown == \A h \in Handle : last[h] # Null => result[last[h]] # "unissued"
NotBefore == \A k \in Call : result[k] = "unissued" =>
               /\ timeout[k] = 0 /\ ~ignore[k] /\ server[k] = "idle"
               /\ Request(k) \notin net
InFlight  == \A k \in Call : /\ Request(k) \in net => server[k] = "idle"
                             /\ Response(k) \in net => server[k] = "responded"
Answers   == \A h \in Handle : op[h] = "answered" /\ ~ignore[last[h]] =>
               output[h] = last[h] /\ server[last[h]] = "responded"
Expiries  == \A h \in Handle : op[h] = "expired" => Armed(timeout[last[h]])
Results   == \A k \in Call : /\ result[k] = "data" => server[k] = "responded"
                             /\ result[k] = "empty" => ignore[k]

OpInv == /\ Injective /\ InUse /\ LastKnown /\ NotBefore /\ InFlight /\ Answers
         /\ Expiries /\ Results

\* The end of an operation, whoever waits for it.
EndOp(k, h) ==
  /\ last[h] = k /\ Over(h)
  /\ op'     = [op EXCEPT ![h] = "idle"]
  /\ result' = [result EXCEPT ![k] = Outcome(k, h)]
  /\ UNCHANGED <<last, output, params, net, server, fault>>

\* A step of the program that no operation notices.
Unnoticed == UNCHANGED <<last, op, output, params, result, net, server>>

-----------------------------------------------------------------------------
(* Invariants of the waiters                                               *)

Carried  == \A i \in DOMAIN reqs : reqs[i].request # Null =>
              /\ reqs[i].handle # Null /\ reqs[i].request = reqs[i].call
              /\ result[reqs[i].request] # "unissued"
              /\ reqs[i].request \notin blocking
Unspent  == \A i \in DOMAIN reqs :
              reqs[i].request # Null /\ reqs[i].request \notin spent =>
                last[reqs[i].handle] = reqs[i].request /\ op[reqs[i].handle] # "idle"
Blocked  == \A k \in blocking : result[k] # "unissued"
Expected == \A h \in Handle : op[h] # "idle" /\ last[h] \notin blocking =>
              \E i \in DOMAIN reqs : reqs[i].request = last[h] /\ reqs[i].handle = h

WaitInv == Carried /\ Unique /\ Unspent /\ Blocked /\ Expected

\* Waiting for an element of the vector ends the operation that it stands for.
LEMMA ElementEnds ==
  ASSUME OpTypes, UseTypes, WaitInv, NEW i \in DOMAIN reqs,
         reqs[i].request \in Call \ spent
  PROVE  /\ reqs[i].handle \in Handle /\ op[reqs[i].handle] # "idle"
         /\ last[reqs[i].handle] = reqs[i].request
<1>1. reqs[i].request # Null /\ reqs[i].handle \in Handle \cup {Null}
  BY Fresh, Elements
<1> QED
  BY <1>1 DEF WaitInv, Carried, Unspent

\* The steps that end operations.
LEMMA Ends ==
  ASSUME OpTypes, UseTypes, WaitInv, NEW i \in DOMAIN reqs,
         \/ Wait(i) \/ WaitAny(i) \/ EraseThrows(i)
         \/ Erase(i) /\ reqs[i].request # Null
  PROVE  /\ EndOp(reqs[i].request, reqs[i].handle)
         /\ reqs[i].request \in Call \ spent /\ reqs[i].handle \in Handle
         /\ spent' = spent \cup {reqs[i].request} /\ blocking' = blocking
<1>1. reqs[i].request \in Call \ spent
  BY Elements DEF Wait, WaitAny, EraseThrows, Erase
<1>2. /\ reqs[i].handle \in Handle /\ op[reqs[i].handle] # "idle"
      /\ last[reqs[i].handle] = reqs[i].request
  BY <1>1, ElementEnds
<1>3. Over(reqs[i].handle)
  BY DEF Wait, WaitAny, EraseThrows, Erase, Over
<1>4. /\ op' = [op EXCEPT ![reqs[i].handle] = "idle"]
      /\ result' = [result EXCEPT ![reqs[i].request] =
                      Outcome(reqs[i].request, reqs[i].handle)]
      /\ UNCHANGED <<last, output, params, net, server, fault, blocking>>
      /\ spent' = spent \cup {reqs[i].request}
  BY DEF Wait, WaitAny, EraseThrows, Erase, Finish
<1> QED
  BY <1>1, <1>2, <1>3, <1>4 DEF EndOp

\* The kinds of steps, as the operations see them.
Kinds ==
  \/ \E k \in Call, h \in Handle, t \in Timeouts, ign \in BOOLEAN : Post(k, h, t, ign)
  \/ \E k \in Call, h \in Handle : EndOp(k, h)
  \/ Unnoticed
  \/ Progress

\* Every step is of one of these kinds.
LEMMA StepKinds ==
  ASSUME OpTypes, UseTypes, WaitInv, [Next]_vars
  PROVE  Kinds
<1>1. ASSUME NEW k \in Call, NEW h \in Handle, ForwardReturns(k, h)
      PROVE  EndOp(k, h)
  BY <1>1 DEF ForwardReturns, Finish, EndOp
<1>2. ASSUME NEW i \in DOMAIN reqs, Wait(i) \/ WaitAny(i) \/ EraseThrows(i)
      PROVE  Kinds
  <2>1. EndOp(reqs[i].request, reqs[i].handle)
        /\ reqs[i].request \in Call /\ reqs[i].handle \in Handle
    BY <1>2, Ends
  <2> QED
    BY <2>1 DEF Kinds
<1>3. ASSUME NEW i \in DOMAIN reqs, Erase(i)
      PROVE  Kinds
  <2>1. CASE reqs[i].request = Null
    BY <1>3, <2>1 DEF Erase, Unnoticed, Kinds
  <2>2. CASE reqs[i].request # Null
    <3>1. EndOp(reqs[i].request, reqs[i].handle)
          /\ reqs[i].request \in Call /\ reqs[i].handle \in Handle
      BY <1>3, <2>2, Ends
    <3> QED
      BY <3>1 DEF Kinds
  <2> QED
    BY <2>1, <2>2
<1>4. ASSUME NEW i \in DOMAIN reqs, WaitAgain(i) \/ DoubleWait(i) \/ EraseTerminates(i)
      PROVE  Unnoticed
  BY <1>4 DEF WaitAgain, DoubleWait, EraseTerminates, Unnoticed, client
<1>5. ASSUME NEW k \in Call, Read(k)
      PROVE  Unnoticed
  BY <1>5 DEF Read, Unnoticed
<1>6. CASE UNCHANGED vars
  BY <1>6 DEF vars, client, Unnoticed, Kinds
<1>7. CASE ClientStep
  <2>1. ASSUME NEW k \in Call, NEW h \in Handle, NEW t \in Timeouts, NEW ign \in BOOLEAN,
               Forward(k, h, t, ign) \/ IForward(k, h, t, ign)
        PROVE  Kinds
    BY <2>1 DEF Forward, IForward, Kinds
  <2>2. Unnoticed => Kinds
    BY DEF Kinds
  <2>3. \A k \in Call, h \in Handle : ForwardReturns(k, h) => Kinds
    BY <1>1 DEF Kinds
  <2> QED
    BY <1>2, <1>3, <1>4, <1>5, <1>7, <2>1, <2>2, <2>3 DEF ClientStep
<1> QED
  BY <1>6, <1>7 DEF Next, Kinds

-----------------------------------------------------------------------------
(* Steps of the operations                                                 *)

\* How an operation starts.
LEMMA PostEffect ==
  ASSUME OpTypes, NEW k \in Call, NEW h \in Handle, NEW t \in Timeouts,
         NEW ign \in BOOLEAN, Post(k, h, t, ign)
  PROVE  /\ result[k] = "unissued" /\ op[h] = "idle"
         /\ last'[h] = k /\ op'[h] = "posted" /\ output'[h] = Null
         /\ \A g \in Handle \ {h} : last'[g] = last[g] /\ op'[g] = op[g] /\ output'[g] = output[g]
         /\ result'[k] = "pending" /\ timeout'[k] = t /\ ignore'[k] = ign
         /\ \A c \in Call \ {k} : /\ result'[c] = result[c] /\ timeout'[c] = timeout[c]
                                  /\ ignore'[c] = ignore[c]
         /\ net' = net \cup {Request(k)}
         /\ server' = server /\ fault' = fault /\ packed' = packed /\ spent' = spent
BY DEF Post, OpTypes

\* How it ends.
LEMMA EndEffect ==
  ASSUME OpTypes, NEW k \in Call, NEW h \in Handle, EndOp(k, h)
  PROVE  /\ last[h] = k /\ op[h] \in {"answered", "expired"} /\ op'[h] = "idle"
         /\ \A g \in Handle \ {h} : op'[g] = op[g]
         /\ result'[k] = Outcome(k, h)
         /\ \A c \in Call \ {k} : result'[c] = result[c]
         /\ UNCHANGED <<last, output, timeout, ignore, net, server, fault>>
BY DEF EndOp, OpTypes, Over, params

\* Messages are told apart by their kind and their call.
LEMMA Messages ==
  /\ \A j, k : /\ Request(j) = Request(k) => j = k
               /\ Response(j) = Response(k) => j = k
               /\ Request(j) # Response(k)
  /\ \A k \in Call : Request(k) \in Message /\ Response(k) \in Message
<1>1. \A k : /\ Request(k).kind = "request" /\ Response(k).kind = "response"
             /\ Request(k).call = k /\ Response(k).call = k
  BY DEF Request, Response
<1>2. \A k \in Call : Request(k) \in Message /\ Response(k) \in Message
  BY DEF Request, Response, Message
<1> QED
  BY <1>1, <1>2

\* What the server, the network and the clock do to operations.
LEMMA ProgressEffect ==
  ASSUME OpTypes, Progress
  PROVE  /\ UNCHANGED <<last, timeout, ignore, blocking, reqs, result, packed, spent, fault>>
         /\ OpTypes'
         /\ \A h \in Handle : op'[h] = "idle" <=> op[h] = "idle"
<1>1. ASSUME NEW k \in Call, Serve(k) \/ Respond(k) \/ Silent(k)
      PROVE  /\ UNCHANGED <<last, op, timeout, ignore, blocking, reqs, result, packed, spent, fault>>
             /\ OpTypes'
  <2>1. UNCHANGED <<client, fault>>
    BY <1>1 DEF Serve, Respond, Silent
  <2>2. net' \subseteq Message
    BY <1>1, Messages DEF Serve, Respond, Silent, OpTypes
  <2>3. server' \in [Call -> {"idle", "running", "responded", "silent"}]
    BY <1>1 DEF Serve, Respond, Silent, OpTypes
  <2> QED
    BY <2>1, <2>2, <2>3 DEF client, params, OpTypes
<1>2. ASSUME NEW k \in Call, ArriveLate(k)
      PROVE  /\ UNCHANGED <<last, op, timeout, ignore, blocking, reqs, result, packed, spent, fault>>
             /\ OpTypes'
  BY <1>2 DEF ArriveLate, client, params, OpTypes
<1>3. ASSUME NEW k \in Call, NEW h \in Handle, Arrive(k, h)
      PROVE  /\ UNCHANGED <<last, timeout, ignore, blocking, reqs, result, packed, spent, fault>>
             /\ OpTypes'
             /\ \A g \in Handle : op'[g] = "idle" <=> op[g] = "idle"
  <2>1. UNCHANGED <<last, timeout, ignore, blocking, reqs, result, packed, spent, server, fault>>
    BY <1>3 DEF Arrive, params
  <2>2. op' \in [Handle -> OpState] /\ output' \in [Handle -> Call \cup {Null}]
    BY <1>3 DEF Arrive, OpTypes, OpState
  <2>3. \A g \in Handle : op'[g] = "idle" <=> op[g] = "idle"
    BY <1>3 DEF Arrive, OpTypes
  <2>4. net' \subseteq Message
    BY <1>3 DEF Arrive, OpTypes
  <2> QED
    BY <2>1, <2>2, <2>3, <2>4 DEF OpTypes
<1>4. ASSUME NEW h \in Handle, SendCompletes(h) \/ Expire(h)
      PROVE  /\ UNCHANGED <<last, timeout, ignore, blocking, reqs, result, packed, spent, fault>>
             /\ OpTypes'
             /\ \A g \in Handle : op'[g] = "idle" <=> op[g] = "idle"
  <2>1. /\ UNCHANGED <<last, output, timeout, ignore, blocking, reqs, result, packed, spent>>
        /\ UNCHANGED <<net, server, fault>>
    BY <1>4 DEF SendCompletes, Expire, params
  <2>2. op' \in [Handle -> OpState]
    BY <1>4 DEF SendCompletes, Expire, OpTypes, OpState
  <2>3. \A g \in Handle : op'[g] = "idle" <=> op[g] = "idle"
    BY <1>4 DEF SendCompletes, Expire, OpTypes
  <2> QED
    BY <2>1, <2>2, <2>3 DEF OpTypes
<1> QED
  BY <1>1, <1>2, <1>3, <1>4 DEF Progress

\* The types of the operations are kept by every kind of step.
LEMMA OpTypesStep ==
  ASSUME OpTypes, Kinds
  PROVE  OpTypes'
<1>1. ASSUME NEW k \in Call, NEW h \in Handle, NEW t \in Timeouts, NEW ign \in BOOLEAN,
             Post(k, h, t, ign)
      PROVE  OpTypes'
  <2>1. /\ last' \in [Handle -> Call \cup {Null}] /\ op' \in [Handle -> OpState]
        /\ output' \in [Handle -> Call \cup {Null}]
    BY <1>1 DEF Post, OpTypes, OpState
  <2>2. timeout' \in [Call -> Timeouts \cup {0}] /\ ignore' \in [Call -> BOOLEAN]
    BY <1>1 DEF Post, OpTypes
  <2>3. result' \in [Call -> ResultKind]
    BY <1>1 DEF Post, OpTypes, ResultKind
  <2>4. net' \subseteq Message /\ server' = server
    BY <1>1, Messages DEF Post, OpTypes
  <2> QED
    BY <2>1, <2>2, <2>3, <2>4 DEF OpTypes
<1>2. ASSUME NEW k \in Call, NEW h \in Handle, EndOp(k, h)
      PROVE  OpTypes'
  <2>1. op' \in [Handle -> OpState]
    BY <1>2 DEF EndOp, OpTypes, OpState
  <2>2. Outcome(k, h) \in ResultKind
    BY Outcomes DEF ResultKind
  <2>3. result' \in [Call -> ResultKind]
    BY <1>2, <2>2 DEF EndOp, OpTypes
  <2>4. UNCHANGED <<last, output, timeout, ignore, net, server>>
    BY <1>2 DEF EndOp, params
  <2> QED
    BY <2>1, <2>3, <2>4 DEF OpTypes
<1>3. CASE Unnoticed
  BY <1>3 DEF Unnoticed, OpTypes, params
<1> QED
  BY <1>1, <1>2, <1>3, ProgressEffect DEF Kinds

\* And so is what holds of them.
LEMMA OpStep ==
  ASSUME OpTypes, OpInv, Kinds
  PROVE  OpInv'
<1>0. \A h \in Handle : last[h] \in Call \cup {Null}
  BY DEF OpTypes
<1>1. ASSUME NEW k \in Call, NEW h \in Handle, NEW t \in Timeouts, NEW ign \in BOOLEAN,
             Post(k, h, t, ign)
      PROVE  OpInv'
  <2>1. /\ result[k] = "unissued" /\ op[h] = "idle"
        /\ last'[h] = k /\ op'[h] = "posted" /\ output'[h] = Null
        /\ \A g \in Handle \ {h} : last'[g] = last[g] /\ op'[g] = op[g] /\ output'[g] = output[g]
        /\ result'[k] = "pending" /\ timeout'[k] = t /\ ignore'[k] = ign
        /\ \A c \in Call \ {k} : /\ result'[c] = result[c] /\ timeout'[c] = timeout[c]
                                 /\ ignore'[c] = ignore[c]
        /\ net' = net \cup {Request(k)}
        /\ server' = server
    BY <1>1, PostEffect
  <2>2. \A g \in Handle \ {h} : last[g] # k
    BY <2>1, Fresh DEF OpInv, LastKnown
  <2>3. Injective' /\ LastKnown'
    BY <1>0, <2>1, <2>2 DEF OpInv, Injective, LastKnown
  <2>4. InUse'
    BY <1>0, <2>1, <2>2 DEF OpInv, InUse
  <2>5. NotBefore'
    BY <2>1, Messages DEF OpInv, NotBefore
  <2>6. InFlight'
    BY <2>1, Messages DEF OpInv, InFlight, NotBefore
  <2>7. Answers' /\ Expiries'
    BY <2>1, <2>2 DEF OpInv, InUse, Answers, Expiries
  <2>8. Results'
    BY <2>1 DEF OpInv, Results
  <2> QED
    BY <2>3, <2>4, <2>5, <2>6, <2>7, <2>8 DEF OpInv
<1>2. ASSUME NEW k \in Call, NEW h \in Handle, EndOp(k, h)
      PROVE  OpInv'
  <2>1. /\ last[h] = k /\ op[h] \in {"answered", "expired"} /\ op'[h] = "idle"
        /\ \A g \in Handle \ {h} : op'[g] = op[g]
        /\ result'[k] = Outcome(k, h)
        /\ \A c \in Call \ {k} : result'[c] = result[c]
        /\ UNCHANGED <<last, output, timeout, ignore, net, server>>
    BY <1>2, EndEffect
  <2>2. /\ Outcome(k, h) \in {"data", "empty", "timeout"}
        /\ Outcome(k, h) = "timeout" <=> op[h] = "expired"
        /\ Outcome(k, h) = "empty" => ignore[k]
        /\ Outcome(k, h) = "data" => ~ignore[k]
    BY Outcomes
  <2>3. \A g \in Handle \ {h} : last[g] # k
    BY <2>1, Fresh DEF OpInv, Injective
  <2>4. Injective' /\ LastKnown'
    BY <1>0, <2>1, <2>2 DEF OpInv, Injective, LastKnown
  <2>5. InUse'
    BY <2>1, <2>3 DEF OpInv, InUse
  <2>6. NotBefore' /\ InFlight'
    BY <2>1, <2>2 DEF OpInv, NotBefore, InFlight
  <2>7. Answers' /\ Expiries'
    BY <2>1 DEF OpInv, Answers, Expiries
  <2>8. Results'
    BY <2>1, <2>2 DEF OpInv, Results, Answers
  <2> QED
    BY <2>4, <2>5, <2>6, <2>7, <2>8 DEF OpInv
<1>3. CASE Unnoticed
  BY <1>3 DEF Unnoticed, params, OpInv, Injective, InUse, LastKnown, NotBefore, InFlight,
              Answers, Expiries, Results
<1>4. ASSUME Progress
      PROVE  Injective' /\ LastKnown' /\ InUse'
  BY <1>4, ProgressEffect DEF OpInv, Injective, InUse, LastKnown
<1>5. ASSUME NEW k \in Call, Serve(k) \/ Respond(k) \/ Silent(k)
      PROVE  NotBefore' /\ InFlight' /\ Answers' /\ Expiries' /\ Results'
  <2>1. /\ UNCHANGED <<last, op, output, timeout, ignore, result>>
    BY <1>5 DEF Serve, Respond, Silent, client, params
  <2>2. \/ /\ server[k] = "idle" /\ Request(k) \in net /\ server'[k] = "running"
           /\ net' = net \ {Request(k)}
        \/ /\ server[k] = "running" /\ server'[k] = "responded"
           /\ net' = net \cup {Response(k)}
        \/ /\ server[k] = "running" /\ server'[k] = "silent" /\ net' = net
    BY <1>5 DEF Serve, Respond, Silent, OpTypes, OpInv, InFlight
  <2>3. \A c \in Call \ {k} : server'[c] = server[c]
    BY <1>5 DEF Serve, Respond, Silent, OpTypes
  <2>4. NotBefore'
    BY <2>1, <2>2, <2>3, Messages DEF OpInv, NotBefore
  <2>5. InFlight'
    BY <2>2, <2>3, Messages DEF OpInv, InFlight
  <2>6. \A c \in Call : server[c] = "responded" => server'[c] = "responded"
    BY <2>2, <2>3
  <2>7. Answers'
    BY <1>0, <2>1, <2>6 DEF OpInv, Answers, InUse
  <2>8. Expiries' /\ Results'
    BY <2>1, <2>6 DEF OpInv, Expiries, Results
  <2> QED
    BY <2>4, <2>5, <2>7, <2>8
<1>6. ASSUME NEW k \in Call, ArriveLate(k) \/ \E h \in Handle : Arrive(k, h)
      PROVE  NotBefore' /\ InFlight' /\ Answers' /\ Expiries' /\ Results'
  <2>1. /\ UNCHANGED <<last, timeout, ignore, result, server>>
        /\ Response(k) \in net /\ net' = net \ {Response(k)}
    BY <1>6 DEF ArriveLate, Arrive, client, params
  <2>2. NotBefore' /\ InFlight' /\ Results'
    BY <2>1, Messages DEF OpInv, NotBefore, InFlight, Results
  <2>3. \A h \in Handle : \/ op'[h] = op[h] /\ output'[h] = output[h]
                          \/ op'[h] = "answered" /\ output'[h] = k /\ last[h] = k
    BY <1>6 DEF ArriveLate, Arrive, client, OpTypes
  <2>4. server[k] = "responded"
    BY <2>1 DEF OpInv, InFlight
  <2>5. Answers' /\ Expiries'
    BY <2>1, <2>3, <2>4 DEF OpInv, Answers, Expiries
  <2> QED
    BY <2>2, <2>5
<1>7. ASSUME NEW h \in Handle, SendCompletes(h) \/ Expire(h)
      PROVE  NotBefore' /\ InFlight' /\ Answers' /\ Expiries' /\ Results'
  <2>1. UNCHANGED <<last, output, timeout, ignore, result, net, server>>
    BY <1>7 DEF SendCompletes, Expire, params
  <2>2. /\ \A g \in Handle \ {h} : op'[g] = op[g]
        /\ \/ op'[h] = "answered" /\ ignore[last[h]]
           \/ op'[h] = "expired" /\ Armed(timeout[last[h]])
    BY <1>7 DEF SendCompletes, Expire, OpTypes
  <2>3. NotBefore' /\ InFlight' /\ Results'
    BY <2>1 DEF OpInv, NotBefore, InFlight, Results
  <2>4. Answers' /\ Expiries'
    BY <2>1, <2>2 DEF OpInv, Answers, Expiries
  <2> QED
    BY <2>3, <2>4
<1>8. CASE Progress
  <2>1. NotBefore' /\ InFlight' /\ Answers' /\ Expiries' /\ Results'
    BY <1>5, <1>6, <1>7, <1>8 DEF Progress
  <2> QED
    BY <1>4, <1>8, <2>1 DEF OpInv
<1> QED
  BY <1>1, <1>2, <1>3, <1>8 DEF Kinds

-----------------------------------------------------------------------------
(* Steps of the waiters                                                    *)

\* The vector after a wait that clears m_request.
Cleared(i) == [reqs EXCEPT ![i].request = Null]

\* Clearing a request keeps the vector a vector, and touches one element.
LEMMA ClearEffect ==
  ASSUME UseTypes, NEW i \in DOMAIN reqs, reqs' = Cleared(i)
  PROVE  /\ reqs' \in Seq(AsyncResponse) /\ DOMAIN reqs' = DOMAIN reqs
         /\ reqs'[i].request = Null
         /\ \A j \in DOMAIN reqs \ {i} : reqs'[j] = reqs[j]
<1> DEFINE n == Len(reqs)
<1>1. /\ n \in Nat /\ DOMAIN reqs = 1..n
      /\ reqs \in [1..n -> AsyncResponse]
  BY Elements
<1>2. DOMAIN reqs' = 1..n /\ \A j \in 1..n \ {i} : reqs'[j] = reqs[j]
  BY <1>1 DEF Cleared
<1>3. reqs'[i] = [reqs[i] EXCEPT !.request = Null] /\ reqs[i] \in AsyncResponse
  BY <1>1 DEF Cleared
<1>4. reqs'[i] \in AsyncResponse /\ reqs'[i].request = Null
  BY <1>3 DEF AsyncResponse
<1>5. reqs' \in [1..n -> AsyncResponse]
  <2>1. reqs' = [j \in 1..n |-> IF j = i THEN [reqs[i] EXCEPT !.request = Null] ELSE reqs[j]]
    BY <1>1 DEF Cleared
  <2>2. \A j \in 1..n : reqs'[j] \in AsyncResponse
    BY <1>1, <1>2, <1>4
  <2> QED
    BY <2>1, <2>2
<1>6. reqs' \in Seq(AsyncResponse)
  BY <1>1, <1>5, FunctionsAreSequences
<1> QED
  BY <1>1, <1>2, <1>4, <1>6

\* push_back of the async_response of call k.
LEMMA PushEffect ==
  ASSUME UseTypes, NEW k \in Call, NEW h \in Handle, reqs' = Append(reqs, Entry(k, h))
  PROVE  /\ reqs' \in Seq(AsyncResponse) /\ DOMAIN reqs' = 1..(Len(reqs) + 1)
         /\ DOMAIN reqs = 1..Len(reqs) /\ Len(reqs) \in Nat
         /\ reqs'[Len(reqs) + 1] = Entry(k, h)
         /\ \A j \in DOMAIN reqs : reqs'[j] = reqs[j]
<1>1. reqs \in Seq(AsyncResponse) /\ Entry(k, h) \in AsyncResponse
  BY DEF UseTypes, Entry, AsyncResponse
<1>2. Len(reqs) \in Nat /\ DOMAIN reqs = 1..Len(reqs)
  BY Elements
<1> QED
  BY <1>1, <1>2, AppendProperties

\* The types of the waiters are kept.
LEMMA UseTypesStep ==
  ASSUME OpTypes, UseTypes, WaitInv, [Next]_vars
  PROVE  UseTypes'
<1>1. ASSUME NEW k \in Call, NEW h \in Handle, NEW t \in Timeouts, NEW ign \in BOOLEAN,
             Forward(k, h, t, ign) \/ IForward(k, h, t, ign)
      PROVE  UseTypes'
  <2>1. UNCHANGED <<packed, spent, fault>>
    BY <1>1 DEF Forward, IForward, Post
  <2>2. blocking' \subseteq Call
    BY <1>1 DEF Forward, IForward, UseTypes
  <2>3. reqs' \in Seq(AsyncResponse)
    BY <1>1, PushEffect DEF Forward, IForward, UseTypes
  <2> QED
    BY <2>1, <2>2, <2>3 DEF UseTypes
<1>2. ASSUME NEW k \in Call, NEW h \in Handle, ForwardReturns(k, h)
      PROVE  UseTypes'
  BY <1>2 DEF ForwardReturns, Finish, UseTypes
<1>3. ASSUME NEW k \in Call, Read(k)
      PROVE  UseTypes'
  BY <1>3 DEF Read, UseTypes
<1>4. ASSUME NEW i \in DOMAIN reqs, Wait(i) \/ WaitAny(i) \/ EraseThrows(i)
      PROVE  UseTypes'
  <2>1. reqs[i].handle \in Handle /\ spent' \subseteq Call /\ blocking' = blocking
    BY <1>4, Ends DEF UseTypes
  <2>2. packed' = [packed EXCEPT ![reqs[i].request] =
                     IF Outcome(reqs[i].request, reqs[i].handle) = "data"
                     THEN reqs[i].handle ELSE Null]
    BY <1>4 DEF Wait, WaitAny, EraseThrows, Finish
  <2>3. packed' \in [Call -> Handle \cup {Null}]
    BY <2>1, <2>2 DEF UseTypes
  <2>4. fault' = fault /\ (reqs' = reqs \/ reqs' = Cleared(i))
    BY <1>4 DEF Wait, WaitAny, EraseThrows, Cleared
  <2>5. reqs' \in Seq(AsyncResponse)
    BY <2>4, ClearEffect DEF UseTypes
  <2> QED
    BY <2>1, <2>3, <2>4, <2>5 DEF UseTypes
<1>5. ASSUME NEW i \in DOMAIN reqs, WaitAgain(i)
      PROVE  UseTypes'
  <2>1. reqs[i].handle \in Handle \cup {Null} /\ reqs[i].call \in Call \cup {Null}
    BY Elements
  <2> QED
    BY <1>5, <2>1 DEF WaitAgain, UseTypes
<1>6. ASSUME NEW i \in DOMAIN reqs, DoubleWait(i) \/ EraseTerminates(i)
      PROVE  UseTypes'
  BY <1>6 DEF DoubleWait, EraseTerminates, client, UseTypes
<1>7. ASSUME NEW i \in DOMAIN reqs, Erase(i)
      PROVE  UseTypes'
  <2>1. reqs' \in Seq(AsyncResponse)
    BY <1>7, EraseEffect DEF Erase, WaitInv
  <2>2. UNCHANGED <<blocking, packed, fault>>
    BY <1>7 DEF Erase
  <2>3. spent' \subseteq Call
    <3>1. reqs[i].request \in Call \cup {Null}
      BY Elements
    <3> QED
      BY <1>7, <3>1 DEF Erase, UseTypes
  <2> QED
    BY <2>1, <2>2, <2>3 DEF UseTypes
<1>8. CASE Progress
  BY <1>8, ProgressEffect DEF UseTypes
<1>9. CASE UNCHANGED vars
  BY <1>9 DEF vars, client, UseTypes
<1> QED
  BY <1>1, <1>2, <1>3, <1>4, <1>5, <1>6, <1>7, <1>8, <1>9 DEF Next, ClientStep

\* What the waiters rely on is disturbed neither by the end of the operation
\* of element i nor by the loss of its request.
Reduced(i) ==
  /\ \A j \in DOMAIN reqs' : reqs'[j].request # Null =>
       \E m \in DOMAIN reqs : reqs'[j] = reqs[m]
  /\ \A m \in DOMAIN reqs \ {i} : reqs[m].request # Null =>
       \E j \in DOMAIN reqs' : reqs'[j] = reqs[m]
  /\ \A j, l \in DOMAIN reqs' :
       reqs'[j].request # Null /\ reqs'[j].request = reqs'[l].request => j = l

\* Each of the ways to wait for element i leaves a reduced vector.
LEMMA Reductions ==
  ASSUME UseTypes, WaitInv, NEW i \in DOMAIN reqs,
         reqs' = reqs \/ reqs' = Cleared(i) \/ reqs' = Erased(i)
  PROVE  Reduced(i)
<1>1. CASE reqs' = reqs
  BY <1>1 DEF Reduced, WaitInv, Unique
<1>2. CASE reqs' = Cleared(i)
  <2>1. /\ DOMAIN reqs' = DOMAIN reqs /\ reqs'[i].request = Null
        /\ \A j \in DOMAIN reqs \ {i} : reqs'[j] = reqs[j]
    BY <1>2, ClearEffect
  <2> QED
    BY <2>1 DEF Reduced, WaitInv, Unique
<1>3. CASE reqs' = Erased(i)
  <2>1. /\ DOMAIN reqs' = 1..(Len(reqs) - 1)
        /\ \A j \in DOMAIN reqs' : reqs'[j].request # Null =>
             /\ Source(i, j) \in DOMAIN reqs \ {i}
             /\ reqs'[j] = reqs[Source(i, j)]
        /\ \A m \in DOMAIN reqs \ {i} : reqs[m].request # Null =>
             \E j \in DOMAIN reqs' : reqs'[j] = reqs[m]
    BY <1>3, EraseEffect DEF WaitInv
  <2>2. Len(reqs) \in Nat /\ DOMAIN reqs = 1..Len(reqs)
    BY Elements
  <2>3. ASSUME NEW j \in DOMAIN reqs', NEW l \in DOMAIN reqs',
               reqs'[j].request # Null, reqs'[j].request = reqs'[l].request
        PROVE  j = l
    <3>1. Source(i, j) = Source(i, l)
      BY <2>1, <2>3 DEF WaitInv, Unique
    <3> QED
      BY <2>1, <2>2, <3>1 DEF Source
  <2> QED
    BY <2>1, <2>3 DEF Reduced
<1> QED
  BY <1>1, <1>2, <1>3

\* A wait for element i, whichever it is, keeps the waiters' invariant.
LEMMA WaitStepElement ==
  ASSUME OpTypes, UseTypes, OpInv, WaitInv, NEW i \in DOMAIN reqs,
         EndOp(reqs[i].request, reqs[i].handle), Reduced(i),
         reqs[i].request \in Call \ spent, reqs[i].handle \in Handle,
         spent' = spent \cup {reqs[i].request}, blocking' = blocking
  PROVE  WaitInv'
<1>1. PICK k \in Call, h \in Handle : k = reqs[i].request /\ h = reqs[i].handle
  OBVIOUS
<1>2. /\ last[h] = k /\ op[h] # "idle" /\ op'[h] = "idle"
      /\ \A g \in Handle \ {h} : op'[g] = op[g]
      /\ result'[k] \in {"data", "empty", "timeout"}
      /\ \A c \in Call \ {k} : result'[c] = result[c]
      /\ last' = last
  <2>1. EndOp(k, h)
    BY <1>1
  <2> QED
    BY <2>1, EndEffect, Outcomes
<1>3. /\ \A j \in DOMAIN reqs' : reqs'[j].request # Null =>
           \E m \in DOMAIN reqs : reqs'[j] = reqs[m]
      /\ \A m \in DOMAIN reqs \ {i} : reqs[m].request # Null =>
           \E j \in DOMAIN reqs' : reqs'[j] = reqs[m]
      /\ Unique'
  BY DEF Reduced, Unique
<1>4. \A m \in DOMAIN reqs : /\ reqs[m].request \in Call \cup {Null}
                             /\ reqs[m].handle \in Handle \cup {Null}
  BY Elements
<1>5. \A c \in Call : result'[c] = "unissued" => result[c] = "unissued"
  BY <1>2
<1>6. Blocked'
  <2>1. \A c \in blocking : c \in Call /\ result[c] # "unissued"
    BY DEF WaitInv, Blocked, UseTypes
  <2> QED
    BY <1>5, <2>1 DEF Blocked
<1>7. Carried'
  <2>1. ASSUME NEW m \in DOMAIN reqs, reqs[m].request # Null
        PROVE  /\ reqs[m].handle # Null /\ reqs[m].request = reqs[m].call
               /\ result'[reqs[m].request] # "unissued"
               /\ reqs[m].request \notin blocking
    BY <1>4, <1>5, <2>1 DEF WaitInv, Carried
  <2> QED
    BY <1>3, <2>1 DEF Carried
<1>8. Unspent'
  <2>1. ASSUME NEW m \in DOMAIN reqs, reqs[m].request # Null, reqs[m].request \notin spent'
        PROVE  last'[reqs[m].handle] = reqs[m].request /\ op'[reqs[m].handle] # "idle"
    <3>1. /\ last[reqs[m].handle] = reqs[m].request /\ op[reqs[m].handle] # "idle"
          /\ reqs[m].handle \in Handle /\ reqs[m].request # k
      BY <1>1, <1>4, <2>1 DEF WaitInv, Carried, Unspent
    <3> QED
      BY <1>2, <3>1
  <2> QED
    BY <1>3, <2>1 DEF Unspent
<1>9. Expected'
  <2>1. ASSUME NEW g \in Handle, op'[g] # "idle", last'[g] \notin blocking'
        PROVE  \E j \in DOMAIN reqs' : reqs'[j].request = last'[g] /\ reqs'[j].handle = g
    <3>1. g # h /\ op[g] # "idle" /\ last[g] \notin blocking
      BY <1>2, <2>1
    <3>2. PICK m \in DOMAIN reqs : reqs[m].request = last[g] /\ reqs[m].handle = g
      BY <3>1 DEF WaitInv, Expected
    <3>3. last[g] \in Call /\ m # i /\ reqs[m].request # Null
      BY <1>1, <3>1, <3>2, Fresh DEF OpInv, InUse
    <3> QED
      BY <1>2, <1>3, <3>2, <3>3
  <2> QED
    BY <2>1 DEF Expected
<1> QED
  BY <1>3, <1>6, <1>7, <1>8, <1>9 DEF WaitInv

\* Steps that leave the waiters, and who waits for what, alone.
LEMMA WaitStepOther ==
  ASSUME OpTypes, UseTypes, WaitInv,
         \A h \in Handle : op'[h] = "idle" <=> op[h] = "idle",
         UNCHANGED <<last, blocking, reqs, result, spent>>
  PROVE  WaitInv'
<1>1. \A m \in DOMAIN reqs : reqs[m].handle \in Handle \cup {Null}
  BY Elements
<1>2. Carried' /\ Unique' /\ Blocked' /\ Expected'
  BY DEF WaitInv, Carried, Unique, Blocked, Expected
<1>3. Unspent'
  BY <1>1 DEF WaitInv, Carried, Unspent
<1> QED
  BY <1>2, <1>3 DEF WaitInv

\* A call that starts gets its waiter, which no other operation has.
LEMMA WaitStepPost ==
  ASSUME OpTypes, UseTypes, OpInv, WaitInv, NEW k \in Call, NEW h \in Handle,
         NEW t \in Timeouts, NEW ign \in BOOLEAN,
         Forward(k, h, t, ign) \/ IForward(k, h, t, ign)
  PROVE  WaitInv'
<1>1. /\ result[k] = "unissued" /\ op[h] = "idle"
      /\ last'[h] = k /\ op'[h] = "posted"
      /\ \A g \in Handle \ {h} : last'[g] = last[g] /\ op'[g] = op[g]
      /\ result'[k] = "pending" /\ \A c \in Call \ {k} : result'[c] = result[c]
      /\ spent' = spent
  BY PostEffect DEF Forward, IForward
<1>2. \A m \in DOMAIN reqs : /\ reqs[m].request \in Call \cup {Null}
                             /\ reqs[m].handle \in Handle \cup {Null}
  BY Elements
<1>3. \A m \in DOMAIN reqs : reqs[m].request # k
  BY <1>1, Fresh DEF WaitInv, Carried
<1>4. \A c \in blocking : c \in Call /\ result[c] # "unissued"
  BY DEF WaitInv, Blocked, UseTypes
<1>5. ASSUME NEW m \in DOMAIN reqs, reqs[m].request # Null
      PROVE  /\ reqs[m].handle # Null /\ reqs[m].request = reqs[m].call
             /\ result'[reqs[m].request] # "unissued"
             /\ reqs[m].request \notin blocking'
             /\ reqs[m].request \notin spent =>
                  last'[reqs[m].handle] = reqs[m].request /\ op'[reqs[m].handle] # "idle"
  <2>1. reqs[m].request \in Call \ {k} /\ reqs[m].handle \in Handle
    BY <1>2, <1>3, <1>5 DEF WaitInv, Carried
  <2>2. reqs[m].request \notin blocking'
    BY <1>5, <2>1 DEF Forward, IForward, WaitInv, Carried
  <2>3. reqs[m].request \notin spent =>
          last[reqs[m].handle] = reqs[m].request /\ op[reqs[m].handle] # "idle"
    BY <1>5 DEF WaitInv, Unspent
  <2>4. reqs[m].request = reqs[m].call /\ result'[reqs[m].request] # "unissued"
    BY <1>1, <1>5, <2>1 DEF WaitInv, Carried
  <2> QED
    BY <1>1, <2>1, <2>2, <2>3, <2>4, Fresh
<1>6. Blocked'
  BY <1>1, <1>4 DEF Forward, IForward, Blocked
<1>7. ASSUME NEW g \in Handle \ {h}, op'[g] # "idle", last'[g] \notin blocking'
      PROVE  \E m \in DOMAIN reqs : reqs[m].request = last'[g] /\ reqs[m].handle = g
  <2>1. op[g] # "idle" /\ last[g] \notin blocking
    BY <1>1, <1>7 DEF Forward, IForward
  <2> QED
    BY <1>1, <2>1 DEF WaitInv, Expected
<1>8. CASE Forward(k, h, t, ign)
  <2>1. reqs' = reqs /\ k \in blocking'
    BY <1>8 DEF Forward
  <2>2. Carried' /\ Unspent'
    BY <1>1, <1>5, <2>1 DEF Carried, Unspent
  <2>3. Unique'
    BY <2>1 DEF WaitInv, Unique
  <2>4. Expected'
    BY <1>1, <1>7, <2>1 DEF Expected
  <2> QED
    BY <1>6, <2>2, <2>3, <2>4 DEF WaitInv
<1>9. CASE IForward(k, h, t, ign)
  <2>1. blocking' = blocking /\ reqs' = Append(reqs, Entry(k, h))
    BY <1>9 DEF IForward
  <2>2. PICK n \in Nat : n = Len(reqs)
    BY Elements
  <2>3. /\ DOMAIN reqs' = 1..(n + 1) /\ DOMAIN reqs = 1..n
        /\ reqs'[n + 1] = Entry(k, h)
        /\ \A j \in 1..n : reqs'[j] = reqs[j]
    BY <2>1, <2>2, PushEffect
  <2>4. /\ reqs'[n + 1].request = k /\ reqs'[n + 1].handle = h /\ reqs'[n + 1].call = k
        /\ k # Null /\ h # Null /\ k \notin blocking'
    BY <1>1, <1>4, <2>1, <2>3, Fresh DEF Entry
  <2>5. \A j \in DOMAIN reqs' : (j \in DOMAIN reqs /\ reqs'[j] = reqs[j]) \/ j = n + 1
    BY <2>3
  <2>6. Carried'
    BY <1>1, <1>5, <2>4, <2>5 DEF Carried
  <2>7. Unspent'
    BY <1>1, <1>5, <2>4, <2>5 DEF Unspent
  <2>8. Unique'
    BY <1>3, <2>4, <2>5 DEF WaitInv, Unique
  <2>9. Expected'
    <3>1. ASSUME NEW g \in Handle, op'[g] # "idle", last'[g] \notin blocking'
          PROVE  \E j \in DOMAIN reqs' : reqs'[j].request = last'[g] /\ reqs'[j].handle = g
      <4>1. CASE g = h
        <5>1. n + 1 \in DOMAIN reqs'
          BY <2>3
        <5> QED
          BY <1>1, <2>4, <4>1, <5>1
      <4>2. CASE g # h
        <5>1. PICK m \in 1..n : reqs[m].request = last'[g] /\ reqs[m].handle = g
          BY <1>7, <2>3, <3>1, <4>2
        <5>2. m \in DOMAIN reqs'
          BY <2>3
        <5> QED
          BY <2>3, <5>1, <5>2
      <4> QED
        BY <4>1, <4>2
    <3> QED
      BY <3>1 DEF Expected
  <2> QED
    BY <1>6, <2>6, <2>7, <2>8, <2>9 DEF WaitInv
<1> QED
  BY <1>8, <1>9

\* forward returns to the one ULT that is blocked in it.
LEMMA WaitStepReturn ==
  ASSUME OpTypes, UseTypes, OpInv, WaitInv, NEW k \in Call, NEW h \in Handle,
         ForwardReturns(k, h)
  PROVE  WaitInv'
<1>1. EndOp(k, h) /\ k \in blocking /\ blocking' = blocking \ {k}
      /\ reqs' = reqs /\ spent' = spent
  BY DEF ForwardReturns, Finish, EndOp
<1>2. /\ last[h] = k /\ op'[h] = "idle"
      /\ \A g \in Handle \ {h} : op'[g] = op[g]
      /\ result'[k] \in {"data", "empty", "timeout"}
      /\ \A c \in Call \ {k} : result'[c] = result[c]
      /\ last' = last
  BY <1>1, EndEffect, Outcomes
<1>3. \A m \in DOMAIN reqs : /\ reqs[m].request \in Call \cup {Null}
                             /\ reqs[m].handle \in Handle \cup {Null}
  BY Elements
<1>4. \A m \in DOMAIN reqs : reqs[m].request # k
  BY <1>1, Fresh DEF WaitInv, Carried
<1>5. Blocked'
  BY <1>1, <1>2 DEF WaitInv, Blocked, UseTypes
<1>6. Carried'
  BY <1>1, <1>2, <1>3, <1>4 DEF WaitInv, Carried
<1>7. Unique'
  BY <1>1 DEF WaitInv, Unique
<1>8. Unspent'
  <2>1. ASSUME NEW m \in DOMAIN reqs, reqs[m].request # Null, reqs[m].request \notin spent
        PROVE  last[reqs[m].handle] = reqs[m].request /\ op'[reqs[m].handle] # "idle"
    BY <1>2, <1>3, <1>4, <2>1 DEF WaitInv, Carried, Unspent
  <2> QED
    BY <1>1, <1>2, <2>1 DEF Unspent
<1>9. Expected'
  <2>1. ASSUME NEW g \in Handle, op'[g] # "idle", last[g] \notin blocking'
        PROVE  op[g] # "idle" /\ last[g] \notin blocking
    <3>1. g # h /\ op[g] # "idle"
      BY <1>2, <2>1
    <3>2. last[g] # k
      BY <1>2, <3>1, Fresh DEF OpInv, Injective
    <3> QED
      BY <1>1, <2>1, <3>1, <3>2
  <2> QED
    BY <1>1, <1>2, <2>1 DEF WaitInv, Expected
<1> QED
  BY <1>5, <1>6, <1>7, <1>8, <1>9 DEF WaitInv

\* The waiters' invariant is kept.
LEMMA WaitStep ==
  ASSUME OpTypes, UseTypes, OpInv, WaitInv, [Next]_vars
  PROVE  WaitInv'
<1>1. ASSUME NEW i \in DOMAIN reqs, Wait(i) \/ WaitAny(i) \/ EraseThrows(i)
      PROVE  WaitInv'
  <2>1. reqs' = reqs \/ reqs' = Cleared(i)
    BY <1>1 DEF Wait, WaitAny, EraseThrows, Cleared
  <2>2. Reduced(i)
    BY <2>1, Reductions
  <2> QED
    BY <1>1, <2>2, Ends, WaitStepElement
<1>2. ASSUME NEW i \in DOMAIN reqs, Erase(i)
      PROVE  WaitInv'
  <2>1. reqs' = Erased(i)
    BY <1>2 DEF Erase
  <2>2. Reduced(i)
    BY <2>1, Reductions
  <2>3. CASE reqs[i].request # Null
    BY <1>2, <2>2, <2>3, Ends, WaitStepElement
  <2>4. CASE reqs[i].request = Null
    <3>1. UNCHANGED <<last, op, blocking, result, spent>>
      BY <1>2, <2>4 DEF Erase
    <3>2. /\ \A j \in DOMAIN reqs' : reqs'[j].request # Null =>
               \E m \in DOMAIN reqs : reqs'[j] = reqs[m]
          /\ \A m \in DOMAIN reqs \ {i} : reqs[m].request # Null =>
               \E j \in DOMAIN reqs' : reqs'[j] = reqs[m]
          /\ Unique'
      BY <2>2 DEF Reduced, Unique
    <3>3. Carried' /\ Unspent' /\ Blocked'
      BY <3>1, <3>2 DEF WaitInv, Carried, Unspent, Blocked
    <3>4. Expected'
      <4>1. ASSUME NEW g \in Handle, op[g] # "idle", last[g] \notin blocking
            PROVE  \E j \in DOMAIN reqs' : reqs'[j].request = last[g] /\ reqs'[j].handle = g
        <5>1. PICK m \in DOMAIN reqs : reqs[m].request = last[g] /\ reqs[m].handle = g
          BY <4>1 DEF WaitInv, Expected
        <5>2. m # i /\ reqs[m].request # Null
          BY <2>4, <4>1, <5>1, Fresh DEF OpInv, InUse
        <5> QED
          BY <3>2, <5>1, <5>2
      <4> QED
        BY <3>1, <4>1 DEF Expected
    <3> QED
      BY <3>2, <3>3, <3>4 DEF WaitInv
  <2> QED
    BY <2>3, <2>4
<1>3. ASSUME NEW i \in DOMAIN reqs, WaitAgain(i) \/ DoubleWait(i) \/ EraseTerminates(i)
      PROVE  WaitInv'
  <2>1. UNCHANGED <<last, op, blocking, reqs, result, spent>>
    BY <1>3 DEF WaitAgain, DoubleWait, EraseTerminates, client
  <2> QED
    BY <2>1, WaitStepOther
<1>4. ASSUME NEW k \in Call, Read(k)
      PROVE  WaitInv'
  <2>1. UNCHANGED <<last, op, blocking, reqs, result, spent>>
    BY <1>4 DEF Read
  <2> QED
    BY <2>1, WaitStepOther
<1>5. CASE Progress
  BY <1>5, ProgressEffect, WaitStepOther
<1>6. CASE UNCHANGED vars
  <2>1. UNCHANGED <<last, op, blocking, reqs, result, spent>>
    BY <1>6 DEF vars, client
  <2> QED
    BY <2>1, WaitStepOther
<1> QED
  BY <1>1, <1>2, <1>3, <1>4, <1>5, <1>6, WaitStepPost, WaitStepReturn DEF Next, ClientStep

-----------------------------------------------------------------------------
(* One waiter                                                              *)

CallInv == OpTypes /\ UseTypes /\ OpInv /\ WaitInv

\* Initially nothing is going on.
LEMMA CallInit == Init => CallInv
<1> SUFFICES ASSUME Init PROVE CallInv
  OBVIOUS
<1>1. OpTypes
  BY DEF Init, OpTypes, OpState, ResultKind
<1>2. UseTypes
  BY DEF Init, UseTypes
<1>3. OpInv
  BY DEF Init, OpInv, Injective, InUse, LastKnown, NotBefore, InFlight, Answers,
         Expiries, Results
<1>4. DOMAIN reqs = {}
  BY DEF Init
<1>5. WaitInv
  BY <1>4 DEF Init, WaitInv, Carried, Unique, Unspent, Blocked, Expected
<1> QED
  BY <1>1, <1>2, <1>3, <1>5 DEF CallInv

\* The inductive invariant.
LEMMA CallInvHolds == Spec => []CallInv
<1>1. CallInv /\ [Next]_vars => CallInv'
  BY StepKinds, OpTypesStep, OpStep, UseTypesStep, WaitStep DEF CallInv
<1> QED
  BY <1>1, CallInit, PTL DEF Spec

\* One waiter follows from the invariant.
LEMMA WaiterIsOne == CallInv => OneWaiter
<1> SUFFICES ASSUME CallInv, NEW h \in Handle, op[h] # "idle"
             PROVE  IF last[h] \in blocking THEN Waiters(last[h], h) = {}
                    ELSE Cardinality(Waiters(last[h], h)) = 1
  BY DEF OneWaiter
<1>1. last[h] # Null
  BY Fresh DEF CallInv, OpInv, InUse
<1>2. CASE last[h] \in blocking
  BY <1>1, <1>2 DEF CallInv, WaitInv, Carried, Waiters
<1>3. CASE last[h] \notin blocking
  <2>1. PICK i \in DOMAIN reqs : reqs[i].request = last[h] /\ reqs[i].handle = h
    BY <1>3 DEF CallInv, WaitInv, Expected
  <2>2. Waiters(last[h], h) = {i}
    BY <1>1, <2>1 DEF CallInv, WaitInv, Unique, Waiters
  <2> QED
    BY <1>3, <2>2, FS_Singleton
<1> QED
  BY <1>2, <1>3

\* Every operation in progress can be waited for, and by one party only: no
\* erase from a vector of any length, and nothing else, drops a response that is
\* still expected or has two parties wait for it.
THEOREM OneWaiterHolds == Spec => []OneWaiter
<1>1. CallInv => OneWaiter
  BY WaiterIsOne DEF CallInv
<1> QED
  BY <1>1, CallInvHolds, PTL

\* The state of handles, calls and messages is always one that the types describe,
\* for any number of calls, handles reused among them and requests in a vector.
THEOREM TypeCorrect == Spec => []TypeOK
<1>1. CallInv => TypeOK
  BY TypeParts DEF CallInv
<1> QED
  BY <1>1, CallInvHolds, PTL

-----------------------------------------------------------------------------
(* The promise                                                             *)

replied  == {k \in Call : server[k] = "responded"}
deadline == {k \in Call : Armed(timeout[k])}
oneway   == {k \in Call : ignore[k]}

\* A step that starts a call issues it.
LEMMA PostIssues ==
  ASSUME CallInv, NEW k \in Call, NEW h \in Handle, NEW t \in Timeouts,
         NEW ign \in BOOLEAN, Post(k, h, t, ign)
  PROVE  Promise!Issue(k)
<1>1. /\ result[k] = "unissued" /\ timeout'[k] = t /\ ignore'[k] = ign
      /\ \A c \in Call \ {k} : timeout'[c] = timeout[c] /\ ignore'[c] = ignore[c]
      /\ server' = server
  BY PostEffect DEF CallInv
<1>2. ~ignore[k] /\ timeout[k] = 0
  BY <1>1 DEF CallInv, OpInv, NotBefore
<1>3. ~Armed(timeout[k])
  BY <1>2 DEF Armed
<1>4. deadline' \in {deadline, deadline \cup {k}}
  <2>1. CASE Armed(t)
    BY <1>1, <1>3, <2>1 DEF deadline
  <2>2. CASE ~Armed(t)
    BY <1>1, <1>3, <2>2 DEF deadline
  <2> QED
    BY <2>1, <2>2
<1>5. oneway' \in {oneway, oneway \cup {k}}
  <2>1. CASE ign = TRUE
    BY <1>1, <1>2, <2>1 DEF oneway
  <2>2. CASE ign = FALSE
    BY <1>1, <1>2, <2>2 DEF oneway
  <2> QED
    BY <2>1, <2>2
<1>6. result' = [result EXCEPT ![k] = "pending"]
  BY DEF Post
<1> QED
  BY <1>1, <1>4, <1>5, <1>6 DEF Promise!Issue, deadline, oneway

\* A wait that ends an operation ends its call as promised.
LEMMA EndEnds ==
  ASSUME CallInv, NEW k \in Call, NEW h \in Handle, EndOp(k, h)
  PROVE  Promise!End(k, Outcome(k, h))
<1>1. /\ last[h] = k /\ op[h] \in {"answered", "expired"}
      /\ UNCHANGED <<timeout, ignore, server>>
  BY EndEffect DEF CallInv
<1>2. /\ Outcome(k, h) \in {"data", "empty", "timeout"}
      /\ Outcome(k, h) = "timeout" <=> op[h] = "expired"
      /\ Outcome(k, h) = "empty" => ignore[k]
      /\ Outcome(k, h) = "data" => ~ignore[k]
  BY Outcomes DEF CallInv
<1>3. result[k] = "pending"
  BY <1>1 DEF CallInv, OpInv, InUse
<1>4. Outcome(k, h) = "data" => server[k] = "responded"
  BY <1>1, <1>2 DEF CallInv, OpInv, Answers
<1>5. Outcome(k, h) = "timeout" => Armed(timeout[k])
  BY <1>1, <1>2 DEF CallInv, OpInv, Expiries
<1>6. result' = [result EXCEPT ![k] = Outcome(k, h)]
  BY DEF EndOp
<1>7. CASE Outcome(k, h) = "data"
  BY <1>1, <1>3, <1>4, <1>6, <1>7 DEF Promise!End
<1>8. CASE Outcome(k, h) = "timeout"
  BY <1>1, <1>3, <1>5, <1>6, <1>8 DEF Promise!End
<1>9. CASE Outcome(k, h) = "empty"
  BY <1>1, <1>2, <1>3, <1>6, <1>9 DEF Promise!End
<1> QED
  BY <1>2, <1>7, <1>8, <1>9

\* A response is a reply; the rest of what the server, the network and the
\* clock do is not seen.
LEMMA ProgressReplies ==
  ASSUME CallInv, Progress
  PROVE  [Promise!Next]_(Promise!promise)
<1>1. UNCHANGED <<result, timeout, ignore>>
  BY ProgressEffect DEF CallInv
<1>2. CASE server' = server
  BY <1>1, <1>2 DEF Promise!promise
<1>3. ASSUME NEW k \in Call, Serve(k) \/ Silent(k)
      PROVE  UNCHANGED Promise!promise
  <2>1. server[k] # "responded"
    BY <1>3 DEF Serve, Silent, CallInv, OpInv, InFlight
  <2>2. \A c \in Call : server'[c] = "responded" <=> server[c] = "responded"
    BY <1>3, <2>1 DEF Serve, Silent, CallInv, OpTypes
  <2> QED
    BY <1>1, <2>2 DEF Promise!promise
<1>4. ASSUME NEW k \in Call, Respond(k)
      PROVE  Promise!Reply(k)
  <2>1. server[k] = "running" /\ ~ignore[k]
    BY <1>4 DEF Respond
  <2>2. result[k] \in {"pending", "timeout"}
    BY <2>1 DEF CallInv, OpTypes, ResultKind, OpInv, NotBefore, Results
  <2>3. server'[k] = "responded" /\ \A c \in Call \ {k} : server'[c] = server[c]
    BY <1>4 DEF Respond, CallInv, OpTypes
  <2>4. replied' = replied \cup {k}
    BY <2>3 DEF replied
  <2> QED
    BY <1>1, <2>1, <2>2, <2>4 DEF Promise!Reply, replied
<1>5. \/ server' = server
      \/ \E k \in Call : Serve(k) \/ Silent(k) \/ Respond(k)
  BY DEF Progress, ArriveLate, Arrive, SendCompletes, Expire
<1> QED
  BY <1>2, <1>3, <1>4, <1>5 DEF Promise!Next

\* Calls keep the promise of RpcPromise: at most one outcome, never revised,
\* data only after the handler of that call responded, a timeout only if one
\* was set, nothing only if responses were disabled.
THEOREM KeepsPromiseHolds == Spec => KeepsPromise
<1>1. Init => Promise!Init
  BY DEF Init, Promise!Init, Armed
<1>2. CallInv /\ [Next]_vars => [Promise!Next]_(Promise!promise)
  <2> SUFFICES ASSUME CallInv, [Next]_vars
               PROVE  [Promise!Next]_(Promise!promise)
    OBVIOUS
  <2>1. Kinds
    BY StepKinds DEF CallInv
  <2>2. Unnoticed => UNCHANGED Promise!promise
    BY DEF Unnoticed, params, Promise!promise
  <2>3. ASSUME NEW k \in Call, NEW h \in Handle, EndOp(k, h)
        PROVE  Promise!Next
    <3>1. Outcome(k, h) \in {"data", "timeout", "empty"}
      BY Outcomes DEF CallInv
    <3> QED
      BY <2>3, <3>1, EndEnds DEF Promise!Next
  <2>4. ASSUME NEW k \in Call, NEW h \in Handle, NEW t \in Timeouts, NEW ign \in BOOLEAN,
               Post(k, h, t, ign)
        PROVE  Promise!Next
    BY <2>4, PostIssues DEF Promise!Next
  <2> QED
    BY <2>1, <2>2, <2>3, <2>4, ProgressReplies DEF Kinds
<1> QED
  BY <1>1, <1>2, CallInvHolds, PTL DEF Spec, KeepsPromise, Promise!Spec

-----------------------------------------------------------------------------
(* The response that is read                                               *)

\* What wait() may still build a packed_data from.
Kept == \A i \in DOMAIN reqs : reqs[i].handle # Null =>
  /\ reqs[i].call \in Call /\ last[reqs[i].handle] = reqs[i].call
  /\ result[reqs[i].call] = "data" => output[reqs[i].handle] = reqs[i].call

\* A handle whose output is being read is not in use.
Quiet == \A k \in Call, h \in Handle : packed[k] = h => op[h] = "idle"

PackInv == PackedHoldsOwnResponse /\ Quiet /\ Kept

\* No element of the vector designates another call than before.
Traced == \A j \in DOMAIN reqs' : reqs'[j].handle # Null =>
  \E m \in DOMAIN reqs : reqs[m].handle = reqs'[j].handle /\ reqs[m].call = reqs'[j].call

\* Each of the ways to wait for an element leaves the others traced.
LEMMA Traces ==
  ASSUME UseTypes, WaitInv, NEW i \in DOMAIN reqs,
         reqs' = reqs \/ reqs' = Cleared(i) \/ reqs' = Erased(i)
  PROVE  Traced
<1>1. CASE reqs' = reqs
  BY <1>1 DEF Traced
<1>2. CASE reqs' = Cleared(i)
  <2>1. /\ DOMAIN reqs' = DOMAIN reqs
        /\ \A j \in DOMAIN reqs \ {i} : reqs'[j] = reqs[j]
    BY <1>2, ClearEffect
  <2>2. reqs'[i] = [reqs[i] EXCEPT !.request = Null] /\ reqs[i] \in AsyncResponse
    BY <1>2, Elements DEF Cleared
  <2>3. reqs'[i].handle = reqs[i].handle /\ reqs'[i].call = reqs[i].call
    BY <2>2 DEF AsyncResponse
  <2> QED
    BY <2>1, <2>3 DEF Traced
<1>3. CASE reqs' = Erased(i)
  <2>1. \A j \in DOMAIN reqs' :
          reqs'[j] = MovedFrom \/ \E m \in DOMAIN reqs : reqs'[j] = reqs[m]
    BY <1>3, EraseEffect DEF WaitInv
  <2>2. MovedFrom.handle = Null
    BY DEF MovedFrom, Entry
  <2> QED
    BY <2>1, <2>2 DEF Traced
<1> QED
  BY <1>1, <1>2, <1>3

\* The end of an operation: what its waiter gets is the response to its call.
LEMMA PackStepEnd ==
  ASSUME CallInv, PackInv, NEW k \in Call, NEW h \in Handle, EndOp(k, h), Traced,
         \/ packed' = packed
         \/ packed' = [packed EXCEPT ![k] = IF Outcome(k, h) = "data" THEN h ELSE Null]
  PROVE  PackInv'
<1>1. /\ last[h] = k /\ op[h] \in {"answered", "expired"} /\ op'[h] = "idle"
      /\ \A g \in Handle \ {h} : op'[g] = op[g]
      /\ result'[k] = Outcome(k, h)
      /\ \A c \in Call \ {k} : result'[c] = result[c]
      /\ UNCHANGED <<last, output, timeout, ignore, net, server>>
  BY EndEffect DEF CallInv
<1>2. Outcome(k, h) = "data" => output[h] = k
  <2>1. Outcome(k, h) = "data" => op[h] # "expired" /\ ~ignore[k]
    BY Outcomes DEF CallInv
  <2> QED
    BY <1>1, <2>1 DEF CallInv, OpInv, Answers
<1>3. \A c \in Call : packed[c] \in Handle \cup {Null}
  BY DEF CallInv, UseTypes
<1>4. \A c \in Call : \/ packed'[c] = packed[c] \/ packed'[c] = Null
                      \/ c = k /\ packed'[c] = h /\ Outcome(k, h) = "data"
  BY DEF CallInv, UseTypes
<1>5. PackedHoldsOwnResponse'
  BY <1>1, <1>2, <1>4 DEF PackInv, PackedHoldsOwnResponse
<1>6. Quiet'
  BY <1>1, <1>4, Fresh DEF PackInv, Quiet
<1>7. Kept'
  <2>1. ASSUME NEW m \in DOMAIN reqs, reqs[m].handle # Null
        PROVE  /\ reqs[m].call \in Call /\ last[reqs[m].handle] = reqs[m].call
               /\ result'[reqs[m].call] = "data" => output[reqs[m].handle] = reqs[m].call
    <3>1. /\ reqs[m].call \in Call /\ last[reqs[m].handle] = reqs[m].call
          /\ result[reqs[m].call] = "data" => output[reqs[m].handle] = reqs[m].call
      BY <2>1 DEF PackInv, Kept
    <3>2. reqs[m].handle \in Handle
      BY <2>1, Elements DEF CallInv
    <3>3. CASE reqs[m].call = k
      <4>1. reqs[m].handle = h
        BY <1>1, <3>1, <3>2, <3>3, Fresh DEF CallInv, OpInv, Injective
      <4> QED
        BY <1>1, <1>2, <3>1, <3>3, <4>1
    <3>4. CASE reqs[m].call # k
      BY <1>1, <3>1, <3>4
    <3> QED
      BY <3>3, <3>4
  <2> QED
    BY <1>1, <2>1 DEF Kept, Traced
<1> QED
  BY <1>5, <1>6, <1>7 DEF PackInv

\* A call that starts takes a handle that nobody reads.
LEMMA PackStepPost ==
  ASSUME CallInv, PackInv, ~ReuseHandle, NEW k \in Call, NEW h \in Handle,
         NEW t \in Timeouts, NEW ign \in BOOLEAN,
         Forward(k, h, t, ign) \/ IForward(k, h, t, ign)
  PROVE  PackInv'
<1>1. /\ Post(k, h, t, ign) /\ Unshared(h)
  BY DEF Forward, IForward, Post
<1>2. /\ last'[h] = k /\ packed' = packed /\ result'[k] = "pending"
      /\ \A g \in Handle \ {h} : last'[g] = last[g] /\ op'[g] = op[g] /\ output'[g] = output[g]
      /\ \A c \in Call \ {k} : result'[c] = result[c]
  BY <1>1, PostEffect DEF CallInv
<1>3. \A c \in Call : packed[c] # h /\ packed[c] \in Handle \cup {Null}
  BY <1>1 DEF Unshared, CallInv, UseTypes
<1>4. PackedHoldsOwnResponse'
  BY <1>2, <1>3 DEF PackInv, PackedHoldsOwnResponse
<1>5. Quiet'
  BY <1>2, <1>3 DEF PackInv, Quiet
<1>6. ASSUME NEW m \in DOMAIN reqs, reqs[m].handle # Null
      PROVE  /\ reqs[m].call \in Call /\ last'[reqs[m].handle] = reqs[m].call
             /\ result'[reqs[m].call] = "data" => output'[reqs[m].handle] = reqs[m].call
  <2>1. reqs[m].handle \in Handle \ {h}
    BY <1>1, <1>6, Elements DEF Unshared, CallInv
  <2> QED
    BY <1>2, <1>6, <2>1 DEF PackInv, Kept
<1>7. CASE Forward(k, h, t, ign)
  <2>1. reqs' = reqs
    BY <1>7 DEF Forward
  <2>2. Kept'
    BY <1>6, <2>1 DEF Kept
  <2> QED
    BY <1>4, <1>5, <2>2 DEF PackInv
<1>8. CASE IForward(k, h, t, ign)
  <2>1. reqs' = Append(reqs, Entry(k, h))
    BY <1>8 DEF IForward
  <2>2. PICK n \in Nat : n = Len(reqs)
    BY Elements DEF CallInv
  <2>3. /\ DOMAIN reqs' = 1..(n + 1) /\ DOMAIN reqs = 1..n
        /\ reqs'[n + 1] = Entry(k, h)
        /\ \A j \in 1..n : reqs'[j] = reqs[j]
    BY <2>1, <2>2, PushEffect DEF CallInv
  <2>4. reqs'[n + 1].handle = h /\ reqs'[n + 1].call = k
    BY <2>3 DEF Entry
  <2>5. \A j \in DOMAIN reqs' : (j \in DOMAIN reqs /\ reqs'[j] = reqs[j]) \/ j = n + 1
    BY <2>3
  <2>6. Kept'
    BY <1>2, <1>6, <2>4, <2>5 DEF Kept
  <2> QED
    BY <1>4, <1>5, <2>6 DEF PackInv
<1> QED
  BY <1>7, <1>8

\* A response that arrives overwrites no output that is, or can be, read.
LEMMA PackStepProgress ==
  ASSUME CallInv, PackInv, Progress
  PROVE  PackInv'
<1>1. /\ UNCHANGED <<last, reqs, result, packed>>
      /\ \A g \in Handle : op'[g] = "idle" <=> op[g] = "idle"
  BY ProgressEffect DEF CallInv
<1>2. \A g \in Handle : output'[g] = output[g] \/ op[g] = "posted"
  <2>1. output' = output \/ \E k \in Call, h \in Handle : Arrive(k, h)
    BY DEF Progress, Serve, Respond, Silent, ArriveLate, SendCompletes, Expire, client
  <2>2. ASSUME NEW k \in Call, NEW h \in Handle, Arrive(k, h)
        PROVE  \A g \in Handle : output'[g] = output[g] \/ op[g] = "posted"
    BY <2>2 DEF Arrive, CallInv, OpTypes
  <2> QED
    BY <2>1, <2>2
<1>3. \A c \in Call : packed[c] \in Handle \cup {Null}
  BY DEF CallInv, UseTypes
<1>4. PackedHoldsOwnResponse'
  BY <1>1, <1>2, <1>3 DEF PackInv, PackedHoldsOwnResponse, Quiet
<1>5. Quiet'
  BY <1>1 DEF PackInv, Quiet
<1>6. Kept'
  <2>1. ASSUME NEW m \in DOMAIN reqs, reqs[m].handle # Null, result[reqs[m].call] = "data"
        PROVE  output'[reqs[m].handle] = reqs[m].call
    <3>1. /\ last[reqs[m].handle] = reqs[m].call
          /\ output[reqs[m].handle] = reqs[m].call
      BY <2>1 DEF PackInv, Kept
    <3>2. reqs[m].handle \in Handle
      BY <2>1, Elements DEF CallInv
    <3>3. op[reqs[m].handle] # "posted"
      BY <2>1, <3>1, <3>2 DEF CallInv, OpInv, InUse
    <3> QED
      BY <1>2, <3>1, <3>2, <3>3
  <2> QED
    BY <1>1, <2>1 DEF PackInv, Kept
<1> QED
  BY <1>4, <1>5, <1>6 DEF PackInv

\* wait() again finds the output that it found the first time.
LEMMA PackStepAgain ==
  ASSUME CallInv, PackInv, ~RetryTimeout, NEW i \in DOMAIN reqs, WaitAgain(i)
  PROVE  PackInv'
<1>1. PICK h \in Handle : h = reqs[i].handle
  BY Elements DEF CallInv, WaitAgain
<1>2. PICK k \in Call : k = reqs[i].call
  BY <1>1, Fresh DEF PackInv, Kept
<1>3. /\ packed' = [packed EXCEPT ![k] = h] /\ result[k] = "data"
      /\ UNCHANGED <<last, op, output, reqs, result>>
  BY <1>1, <1>2 DEF WaitAgain
<1>4. output[h] = k /\ last[h] = k
  BY <1>1, <1>2, <1>3, Fresh DEF PackInv, Kept
<1>5. op[h] = "idle"
  BY <1>3, <1>4 DEF CallInv, OpInv, InUse
<1>6. \A c \in Call : \/ packed'[c] = packed[c]
                      \/ c = k /\ packed'[c] = h
  <2>1. packed \in [Call -> Handle \cup {Null}]
    BY DEF CallInv, UseTypes
  <2> QED
    BY <1>3, <2>1
<1>7. PackedHoldsOwnResponse'
  BY <1>3, <1>4, <1>6 DEF PackInv, PackedHoldsOwnResponse
<1>8. Quiet'
  BY <1>3, <1>5, <1>6 DEF PackInv, Quiet
<1>9. Kept'
  BY <1>3 DEF PackInv, Kept
<1> QED
  BY <1>7, <1>8, <1>9 DEF PackInv

\* The invariant of what is read is kept.
LEMMA PackStep ==
  ASSUME CallInv, PackInv, ~ReuseHandle, ~RetryTimeout, [Next]_vars
  PROVE  PackInv'
<1>1. ASSUME NEW i \in DOMAIN reqs, Wait(i) \/ WaitAny(i) \/ EraseThrows(i)
      PROVE  PackInv'
  <2>1. /\ EndOp(reqs[i].request, reqs[i].handle)
        /\ reqs[i].request \in Call /\ reqs[i].handle \in Handle
    BY <1>1, Ends DEF CallInv
  <2>2. reqs' = reqs \/ reqs' = Cleared(i)
    BY <1>1 DEF Wait, WaitAny, EraseThrows, Cleared
  <2>3. Traced
    BY <2>2, Traces DEF CallInv
  <2>4. packed' = [packed EXCEPT ![reqs[i].request] =
                     IF Outcome(reqs[i].request, reqs[i].handle) = "data"
                     THEN reqs[i].handle ELSE Null]
    BY <1>1 DEF Wait, WaitAny, EraseThrows, Finish
  <2> QED
    BY <2>1, <2>3, <2>4, PackStepEnd
<1>2. ASSUME NEW i \in DOMAIN reqs, Erase(i)
      PROVE  PackInv'
  <2>1. reqs' = Erased(i) /\ packed' = packed
    BY <1>2 DEF Erase
  <2>2. Traced
    BY <2>1, Traces DEF CallInv
  <2>3. CASE reqs[i].request # Null
    <3>1. /\ EndOp(reqs[i].request, reqs[i].handle)
          /\ reqs[i].request \in Call /\ reqs[i].handle \in Handle
      BY <1>2, <2>3, Ends DEF CallInv
    <3> QED
      BY <2>1, <2>2, <3>1, PackStepEnd
  <2>4. CASE reqs[i].request = Null
    <3>1. UNCHANGED <<last, op, output, result, packed>>
      BY <1>2, <2>4 DEF Erase
    <3>2. PackedHoldsOwnResponse' /\ Quiet'
      BY <3>1 DEF PackInv, PackedHoldsOwnResponse, Quiet
    <3>3. Kept'
      BY <2>2, <3>1 DEF PackInv, Kept, Traced
    <3> QED
      BY <3>2, <3>3 DEF PackInv
  <2> QED
    BY <2>3, <2>4
<1>3. ASSUME UNCHANGED <<last, op, output, reqs, result, packed>>
      PROVE  PackInv'
  BY <1>3 DEF PackInv, PackedHoldsOwnResponse, Quiet, Kept
<1>4. ASSUME NEW i \in DOMAIN reqs, DoubleWait(i) \/ EraseTerminates(i)
      PROVE  PackInv'
  BY <1>3, <1>4 DEF DoubleWait, EraseTerminates, client
<1>5. ASSUME NEW k \in Call, Read(k)
      PROVE  PackInv'
  <2>1. UNCHANGED <<last, op, output, reqs, result>>
    BY <1>5 DEF Read
  <2>2. \A c \in Call : packed'[c] = packed[c] \/ packed'[c] = Null
    BY <1>5 DEF Read, CallInv, UseTypes
  <2>3. PackedHoldsOwnResponse' /\ Quiet'
    BY <2>1, <2>2, Fresh DEF PackInv, PackedHoldsOwnResponse, Quiet
  <2>4. Kept'
    BY <2>1 DEF PackInv, Kept
  <2> QED
    BY <2>3, <2>4 DEF PackInv
<1>6. ASSUME NEW k \in Call, NEW h \in Handle, ForwardReturns(k, h)
      PROVE  PackInv'
  <2>1. EndOp(k, h) /\ reqs' = reqs
    BY <1>6 DEF ForwardReturns, Finish, EndOp
  <2>2. packed' = [packed EXCEPT ![k] = IF Outcome(k, h) = "data" THEN h ELSE Null]
    BY <1>6 DEF ForwardReturns, Finish
  <2>3. Traced
    BY <2>1 DEF Traced
  <2> QED
    BY <2>1, <2>2, <2>3, PackStepEnd
<1>7. CASE UNCHANGED vars
  BY <1>3, <1>7 DEF vars, client
<1> QED
  BY <1>1, <1>2, <1>4, <1>5, <1>6, <1>7, PackStepPost, PackStepAgain, PackStepProgress
  DEF Next, ClientStep

\* If a callable is not called again while a result of it is unread, and wait()
\* not again after it threw timeout, a packed_data gives access to the response
\* to its own call, however late or lost other responses are.
THEOREM PackedHoldsOwnResponseHolds ==
  ASSUME ~ReuseHandle, ~RetryTimeout
  PROVE  Spec => []PackedHoldsOwnResponse
<1>1. Init => PackInv
  <2> SUFFICES ASSUME Init PROVE PackInv
    OBVIOUS
  <2>1. DOMAIN reqs = {}
    BY DEF Init
  <2> QED
    BY <2>1, Fresh DEF Init, PackInv, PackedHoldsOwnResponse, Quiet, Kept
<1>2. CallInv /\ PackInv /\ [Next]_vars => PackInv'
  BY PackStep
<1>3. PackInv => PackedHoldsOwnResponse
  BY DEF PackInv
<1> QED
  BY <1>1, <1>2, <1>3, CallInvHolds, PTL DEF Spec
=============================================================================
