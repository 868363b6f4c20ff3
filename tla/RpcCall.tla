------------------------------ MODULE RpcCall ------------------------------
(***************************************************************************)
(* A remote procedure call from end to end: callers that forward, one that *)
(* keeps a std::vector of async_response and waits for them one by one,    *)
(* with wait_any, or erases them; the network; the handler that responds   *)
(* now, later or never; timeouts that race with late answers.  Reference   *)
(* counts are RpcHandle's business: handles live here as long as needed.   *)
(***************************************************************************)
EXTENDS Integers, Sequences, FiniteSets

CONSTANTS
  Call,            \* invocations of an RPC; a call also names its margo_request
  Handle,          \* hg_handle_t of the callable_remote_procedures
  Null,            \* MARGO_REQUEST_NULL, HG_HANDLE_NULL
  Timeouts,        \* values of timeout_ms
  ReuseHandle,     \* may a callable be called again while a result is unread?
  RetryTimeout     \* may wait() be called again after it threw timeout?

ASSUME NullIsFresh == Null \notin Call \cup Handle
ASSUME TimeoutsAreInts == Timeouts \subseteq Int
ASSUME DisciplineIsBoolean == ReuseHandle \in BOOLEAN /\ RetryTimeout \in BOOLEAN

VARIABLES
  last,      \* the call last forwarded on each handle
  op,        \* state of Mercury's operation on each handle
  output,    \* the call whose response the handle's buffer holds
  timeout,   \* timeout_ms of each call
  ignore,    \* m_ignore_response of each call
  blocking,  \* the calls whose ULT is inside forward
  reqs,      \* the vector of async_response
  result,    \* what the call gave its caller
  packed,    \* handle of the packed_data that a call returned, until it is read
  spent,     \* margo_requests that a margo_wait has consumed and freed
  net,       \* requests and responses in flight
  server,    \* progress of the handler of each call
  fault      \* "none", or why the client process is gone

params == <<timeout, ignore>>
client == <<last, op, output, params, blocking, reqs, result, packed, spent>>
vars   == <<client, net, server, fault>>

\* m_request, m_handle, and (history) the call that made the async_response.
AsyncResponse ==
  [request : Call \cup {Null}, handle : Handle \cup {Null}, call : Call \cup {Null}]
Message       == [kind : {"request", "response"}, call : Call]

TypeOK ==
  /\ last    \in [Handle -> Call \cup {Null}]
  /\ op      \in [Handle -> {"idle", "posted", "answered", "expired"}]
  /\ output  \in [Handle -> Call \cup {Null}]
  /\ timeout \in [Call -> Timeouts \cup {0}]
  /\ ignore  \in [Call -> BOOLEAN]
  /\ blocking \subseteq Call
  /\ reqs    \in Seq(AsyncResponse)
  /\ result  \in [Call -> {"unissued", "pending", "data", "empty", "timeout"}]
  /\ packed  \in [Call -> Handle \cup {Null}]
  /\ spent   \subseteq Call
  /\ net     \subseteq Message
  /\ server  \in [Call -> {"idle", "running", "responded", "silent"}]
  /\ fault   \in {"none", "terminate", "double wait"}

Init ==
  /\ last    = [h \in Handle |-> Null]
  /\ op      = [h \in Handle |-> "idle"]
  /\ output  = [h \in Handle |-> Null]
  /\ timeout = [k \in Call |-> 0]
  /\ ignore  = [k \in Call |-> FALSE]
  /\ blocking = {}
  /\ reqs    = <<>>
  /\ result  = [k \in Call |-> "unissued"]
  /\ packed  = [k \in Call |-> Null]
  /\ spent   = {}
  /\ net     = {}
  /\ server  = [k \in Call |-> "idle"]
  /\ fault   = "none"

Request(k)  == [kind |-> "request", call |-> k]
Response(k) == [kind |-> "response", call |-> k]
Entry(k, h) == [request |-> k, handle |-> h, call |-> k]
ArmedIfNegative(t) == t < 0          \* mutant: the test is the wrong way round
Armed(t)    == t > 0                 \* forward and iforward test timeout_ms > 0.0
Over(h)     == op[h] \in {"answered", "expired"}

-----------------------------------------------------------------------------
(* Issuing a call                                                          *)

\* Nobody else can still be reading the output of this handle.
Unshared(h) ==
  /\ \A k \in Call : packed[k] # h
  /\ \A i \in DOMAIN reqs : reqs[i].handle # h

\* t is the timeout_ms of this call, ign says whether its remote_procedure had
\* disable_response called.
Post(k, h, t, ign) ==
  /\ result[k] = "unissued"
  /\ op[h] = "idle"                  \* a busy handle makes margo_forward throw
  /\ ReuseHandle \/ Unshared(h)
  /\ last'   = [last EXCEPT ![h] = k]
  /\ op'     = [op EXCEPT ![h] = "posted"]
  /\ output' = [output EXCEPT ![h] = Null]
  /\ result' = [result EXCEPT ![k] = "pending"]
  /\ timeout' = [timeout EXCEPT ![k] = t]
  /\ ignore' = [ignore EXCEPT ![k] = ign]
  /\ net'    = net \cup {Request(k)}
  /\ UNCHANGED <<packed, spent, server, fault>>

\* forward: the calling ULT now blocks.
Forward(k, h, t, ign) ==
  /\ Post(k, h, t, ign)
  /\ blocking' = blocking \cup {k}
  /\ UNCHANGED reqs

\* iforward, and push_back of the async_response.
IForward(k, h, t, ign) ==
  /\ Post(k, h, t, ign)
  /\ reqs' = Append(reqs, Entry(k, h))
  /\ UNCHANGED blocking

\* What margo_wait, or the end of margo_forward, on call k's handle h gives:
\* timeout is thrown, or a packed_data is built unless responses are ignored.
OutcomeWithoutTimeout(k, h) ==       \* mutant: HG_TIMEOUT is not looked at
  IF ignore[k] THEN "empty" ELSE "data"

Outcome(k, h) ==
  IF op[h] = "expired" THEN "timeout" ELSE IF ignore[k] THEN "empty" ELSE "data"

Finish(k, h) ==
  /\ op'     = [op EXCEPT ![h] = "idle"]
  /\ result' = [result EXCEPT ![k] = Outcome(k, h)]
  /\ packed' = [packed EXCEPT ![k] = IF Outcome(k, h) = "data" THEN h ELSE Null]

ForwardReturns(k, h) ==
  /\ last[h] = k /\ k \in blocking /\ Over(h)
  /\ Finish(k, h)
  /\ blocking' = blocking \ {k}
  /\ UNCHANGED <<last, output, params, reqs, spent, net, server, fault>>

\* packed_data::as, unpack, or a conversion, and its destructor.
Read(k) ==
  /\ packed[k] # Null
  /\ packed' = [packed EXCEPT ![k] = Null]
  /\ UNCHANGED <<last, op, output, params, blocking, reqs, result, spent, net,
                 server, fault>>

-----------------------------------------------------------------------------
(* async_response                                                          *)

\* margo_wait on a request that an earlier margo_wait has freed: undefined
\* behaviour, where this model stops.
DoubleWait(i) ==
  /\ reqs[i].request \in spent
  /\ fault' = "double wait"
  /\ UNCHANGED <<client, net, server>>

WaitClearsFirst(i) ==                \* mutant: m_request is null when waited for
  LET k == reqs[i].request  h == reqs[i].handle IN
  /\ k \in Call \ spent /\ Over(h)
  /\ Finish(k, h)
  /\ reqs'  = [reqs EXCEPT ![i].request = Null]
  /\ spent' = spent \cup {Null}
  /\ UNCHANGED <<last, output, params, blocking, net, server, fault>>

\* wait() on a response that has not been waited for yet; m_request becomes
\* null before timeout is thrown.
Wait(i) ==
  LET k == reqs[i].request  h == reqs[i].handle IN
  /\ k \in Call \ spent /\ Over(h)
  /\ Finish(k, h)
  /\ reqs'  = [reqs EXCEPT ![i].request = Null]
  /\ spent' = spent \cup {k}
  /\ UNCHANGED <<last, output, params, blocking, net, server, fault>>

\* wait() again: there is no request left, so it builds another packed_data
\* from whatever the handle holds.
WaitAgain(i) ==
  LET h == reqs[i].handle  k == reqs[i].call IN
  /\ reqs[i].request = Null /\ h # Null /\ packed[k] = Null
  /\ result[k] = "data" \/ (result[k] = "timeout" /\ RetryTimeout)
  /\ packed' = [packed EXCEPT ![k] = h]
  /\ UNCHANGED <<last, op, output, params, blocking, reqs, result, spent, net,
                 server, fault>>

\* wait_any over the whole vector: margo_wait_any skips the null requests,
\* then waits for one that is over.  m_request keeps its value.
WaitAny(i) ==
  LET k == reqs[i].request  h == reqs[i].handle IN
  /\ k \in Call \ spent /\ Over(h)
  /\ \A j \in 1..i : reqs[j].request \notin spent
  /\ Finish(k, h)
  /\ spent' = spent \cup {k}
  /\ UNCHANGED <<last, output, params, blocking, reqs, net, server, fault>>

MovedFrom == Entry(Null, Null)

\* reqs.erase(i) move-assigns each later element onto the one before it, and
\* destroys the last.  The request and the content of element j at the time it
\* is assigned to; operator= does nothing when the two requests are equal.
RequestBefore(i, j) == IF j = i THEN reqs[i].request ELSE Null
Assigned(i, j)      == RequestBefore(i, j) # reqs[j + 1].request
ContentBefore(i, j) ==
  IF j > i /\ Assigned(i, j - 1) THEN MovedFrom ELSE reqs[j]

EraseKeepsHandles(i) ==              \* mutant: m_handle is not moved
  [j \in 1..Len(reqs) - 1 |->
     IF j < i THEN reqs[j] ELSE [reqs[j + 1] EXCEPT !.handle = reqs[j].handle]]

Erased(i) ==
  [j \in 1..Len(reqs) - 1 |->
     IF j < i THEN reqs[j]
     ELSE IF Assigned(i, j) THEN reqs[j + 1]
     ELSE ContentBefore(i, j)]

\* Erasing a response that is pending waits for it and drops its result.
Erase(i) ==
  LET k == reqs[i].request  h == reqs[i].handle IN
  /\ k \notin spent
  /\ k # Null => op[h] = "answered"
  /\ reqs' = Erased(i)
  /\ IF k = Null THEN UNCHANGED <<op, result, spent>>
     ELSE /\ op'     = [op EXCEPT ![h] = "idle"]
          /\ result' = [result EXCEPT ![k] = Outcome(k, h)]
          /\ spent'  = spent \cup {k}
  /\ UNCHANGED <<last, output, params, blocking, packed, net, server, fault>>

\* The wait inside operator= throws timeout, out of erase.
EraseThrows(i) ==
  LET k == reqs[i].request  h == reqs[i].handle IN
  /\ k \in Call \ spent /\ op[h] = "expired" /\ i < Len(reqs)
  /\ Finish(k, h)
  /\ reqs'  = [reqs EXCEPT ![i].request = Null]
  /\ spent' = spent \cup {k}
  /\ UNCHANGED <<last, output, params, blocking, net, server, fault>>

\* The wait inside the noexcept destructor throws timeout.
EraseTerminates(i) ==
  /\ reqs[i].request \in Call \ spent /\ op[reqs[i].handle] = "expired"
  /\ i = Len(reqs)
  /\ fault' = "terminate"
  /\ UNCHANGED <<client, net, server>>

-----------------------------------------------------------------------------
(* The server's side, the network and the clock                            *)

\* thallium_generic_rpc calls the function given to engine::define.
Serve(k) ==
  /\ Request(k) \in net
  /\ net'    = net \ {Request(k)}
  /\ server' = [server EXCEPT ![k] = "running"]
  /\ UNCHANGED <<client, fault>>

RespondUnsent(k) ==                  \* mutant: margo_respond is not called
  /\ server[k] = "running" /\ ~ignore[k]
  /\ server' = [server EXCEPT ![k] = "responded"]
  /\ UNCHANGED <<client, net, fault>>

\* request::respond, in the handler or later through a copy of the request.
Respond(k) ==
  /\ server[k] = "running" /\ ~ignore[k]
  /\ net'    = net \cup {Response(k)}
  /\ server' = [server EXCEPT ![k] = "responded"]
  /\ UNCHANGED <<client, fault>>

\* The handler ends without a response: it has none to send, or its arguments
\* could not be decoded and the lambda of define returned an error code that
\* thallium_generic_rpc never sees.
Silent(k) ==
  /\ server[k] = "running"
  /\ server' = [server EXCEPT ![k] = "silent"]
  /\ UNCHANGED <<client, net, fault>>

\* Mercury drops a response that no operation of the handle waits for.
Arrive(k, h) ==
  /\ Response(k) \in net
  /\ net' = net \ {Response(k)}
  /\ last[h] = k
  /\ IF op[h] = "posted"
       THEN /\ op'     = [op EXCEPT ![h] = "answered"]
            /\ output' = [output EXCEPT ![h] = k]
       ELSE UNCHANGED <<op, output>>
  /\ UNCHANGED <<last, params, blocking, reqs, result, packed, spent, server, fault>>

\* The response to a call whose handle serves another one by now.
ArriveLate(k) ==
  /\ Response(k) \in net
  /\ \A h \in Handle : last[h] # k
  /\ net' = net \ {Response(k)}
  /\ UNCHANGED <<client, server, fault>>

\* Without a response to wait for, the operation ends once the request is sent.
SendCompletes(h) ==
  /\ op[h] = "posted" /\ ignore[last[h]]
  /\ op' = [op EXCEPT ![h] = "answered"]
  /\ UNCHANGED <<last, output, params, blocking, reqs, result, packed, spent, net,
                 server, fault>>

\* Margo's timer cancels the operation.
Expire(h) ==
  /\ op[h] = "posted" /\ Armed(timeout[last[h]])
  /\ op' = [op EXCEPT ![h] = "expired"]
  /\ UNCHANGED <<last, output, params, blocking, reqs, result, packed, spent, net,
                 server, fault>>

-----------------------------------------------------------------------------

ClientStep ==
  \/ \E k \in Call, h \in Handle, t \in Timeouts, ign \in BOOLEAN :
       Forward(k, h, t, ign) \/ IForward(k, h, t, ign)
  \/ \E k \in Call, h \in Handle : ForwardReturns(k, h)
  \/ \E k \in Call : Read(k)
  \/ \E i \in DOMAIN reqs :
       \/ Wait(i) \/ WaitAgain(i) \/ WaitAny(i) \/ DoubleWait(i)
       \/ Erase(i) \/ EraseThrows(i) \/ EraseTerminates(i)

Progress ==
  \/ \E k \in Call : Serve(k) \/ Respond(k) \/ Silent(k) \/ ArriveLate(k)
  \/ \E k \in Call, h \in Handle : Arrive(k, h)
  \/ \E h \in Handle : SendCompletes(h) \/ Expire(h)

Next == fault = "none" /\ (ClientStep \/ Progress)

\* Margo's progress loop and timers never stop, and a ULT blocked in forward is
\* resumed once the operation is over.  Nothing is assumed of the callers, nor
\* of the handlers.
Fairness ==
  /\ \A k \in Call, h \in Handle :
       /\ WF_vars(fault = "none" /\ ForwardReturns(k, h))
       /\ WF_vars(fault = "none" /\ Arrive(k, h))
  /\ \A h \in Handle :
       /\ WF_vars(fault = "none" /\ SendCompletes(h))
       /\ WF_vars(fault = "none" /\ Expire(h))

Spec     == Init /\ [][Next]_vars
FairSpec == Spec /\ Fairness

-----------------------------------------------------------------------------
(* Properties                                                              *)

Waiters(k, h) == {i \in DOMAIN reqs : reqs[i].request = k /\ reqs[i].handle = h}

\* An operation in progress can always be waited for, and by one party only:
\* the ULT that is blocked in forward, or the one async_response that carries
\* both its request and its handle.  Appending to the vector, and the chain of
\* move assignments of an erase anywhere in it, neither drop nor mix up a
\* response that is still expected.
OneWaiter ==
  \A h \in Handle : op[h] # "idle" =>
    IF last[h] \in blocking THEN Waiters(last[h], h) = {}
    ELSE Cardinality(Waiters(last[h], h)) = 1

\* A packed_data that a call returned gives access to the response to that
\* very call, whatever was delayed, timed out, erased or called again on the
\* same callable meanwhile.
PackedHoldsOwnResponse ==
  \A k \in Call : packed[k] # Null => output[packed[k]] = k

\* "Waits for the async_response to be ready": no margo_request is waited for,
\* or tested, after a wait has consumed it.
NoDoubleWait == fault # "double wait"

Issued(k) == result[k] # "unissued"

\* The RPC is over as far as the caller can see: forward returned or threw,
\* received() would be true, or wait() has been called.
Ended(k) ==
  \/ result[k] \notin {"unissued", "pending"}
  \/ \E h \in Handle : last[h] = k /\ k \notin blocking /\ Over(h)

\* A call with a positive timeout ends, even if the request or the response is
\* lost on the way or the handler never responds.
TimedCallsEnd ==
  \A k \in Call : (Issued(k) /\ timeout[k] > 0) ~> (Ended(k) \/ fault # "none")

\* A call whose handler responds ends, timeout or not.
AnsweredCallsEnd ==
  \A k \in Call : (server[k] = "responded") ~> (Ended(k) \/ fault # "none")

\* Calls keep the promise of RpcPromise: at most one outcome, never revised,
\* with data only after a response and a timeout only if one was set.
Promise == INSTANCE RpcPromise WITH
  outcome  <- result,
  replied  <- {k \in Call : server[k] = "responded"},
  deadline <- {k \in Call : Armed(timeout[k])},
  oneway   <- {k \in Call : ignore[k]}

KeepsPromise == Promise!Spec
=============================================================================
