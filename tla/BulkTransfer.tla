---------------------------- MODULE BulkTransfer ----------------------------
(***************************************************************************)
(* RDMA: segments selected from a local and a remote bulk, transfers       *)
(* between them - blocking or asynchronous, with or without a timeout -    *)
(* and the async_bulk_op objects through which their end is awaited.       *)
(* Who owns the hg_bulk_t handles is the business of Wrappers.             *)
(***************************************************************************)
EXTENDS Integers, FiniteSets

CONSTANTS
  Transfers,    \* bound on the number of transfers
  Object,       \* async_bulk_op variables
  Null,         \* MARGO_REQUEST_NULL
  Dead,         \* an async_bulk_op outside its lifetime
  LocalSize,    \* bulk::size() of the local bulk
  RemoteSize,   \* and of the remote one
  Width,        \* size_t is an integer modulo Width
  MaxSelects    \* bound on the selections, for all transfers together

\* Transfers, in the order they are started; each also names its margo_request.
Op == 1..Transfers
Side == {"local", "remote"}
Size == [s \in Side |-> IF s = "local" THEN LocalSize ELSE RemoteSize]
Word == 0..(Width - 1)

ASSUME MarkersAreFresh == Null # Dead /\ {Null, Dead} \cap (Op \cup Word) = {}
ASSUME SizesFit        == Width \in Nat /\ LocalSize \in Word /\ RemoteSize \in Word
ASSUME BoundsAreNatural == Transfers \in Nat /\ MaxSelects \in Nat

VARIABLES
  segment,   \* m_offset and m_size of the bulk_segments that the next transfer is
             \* to be between
  chosen,    \* (history) the bytes that were asked for when they were selected
  wild,      \* (history) was a subsegment selected whose offset is not in the
             \* segment, or whose end is not a size_t?
  selects,   \* selections made
  memory,    \* the last transfer that wrote each byte
  op,        \* Mercury's transfers
  object,    \* m_request and m_tranferred_size of each async_bulk_op, the latter
             \* Null while it is not initialized
  result,    \* what came of each transfer for the program
  fault      \* "none", or "terminate"

vars == <<segment, chosen, wild, selects, memory, op, object, result, fault>>

Bytes(s)     == 0..(Size[s] - 1)
Span(o, n)   == o..(o + n - 1)
Idle == [state |-> "idle", to |-> "local", local |-> 0, remote |-> 0, size |-> 0,
         moved |-> 0, timed |-> FALSE, scope |-> {}, wild |-> FALSE]

OpState == {"idle", "active", "done", "expired", "failed"}

TypeOK ==
  /\ segment \in [Side -> [offset : Word, size : Word]]
  /\ DOMAIN chosen = Side /\ \A s \in Side : chosen[s] \subseteq Bytes(s)
  /\ DOMAIN memory = Side /\ \A s \in Side : memory[s] \in [Bytes(s) -> Op \cup {Null}]
  /\ wild \in [Side -> BOOLEAN]
  /\ selects \in 0..MaxSelects
  /\ op \in [Op -> [state : OpState, to : Side, local : Word, remote : Word, size : Word,
                    moved : Word, timed : BOOLEAN, scope : SUBSET Word, wild : BOOLEAN]]
  /\ \A x \in Op : op[x].moved <= op[x].size
  /\ object \in [Object -> [request : Op \cup {Null, Dead}, size : Word \cup {Null}]]
  /\ result \in [Op -> [kind : {"none", "blocked", "returned", "dropped", "timeout", "exception"},
                        size : Word]]
  /\ fault  \in {"none", "terminate"}

\* bulk_segment(b), the whole of bulk b; operator>> and operator<< of bulk select
\* the same.
Whole(s) == [offset |-> 0, size |-> Size[s]]

Without(kind) == [kind |-> kind, size |-> 0]
Unborn == [request |-> Dead, size |-> Null]

Init ==
  /\ segment = [s \in Side |-> Whole(s)]
  /\ chosen  = [s \in Side |-> Bytes(s)]
  /\ memory  = [s \in Side |-> [c \in Bytes(s) |-> Null]]
  /\ wild    = [s \in Side |-> FALSE]
  /\ selects = 0
  /\ op      = [x \in Op |-> Idle]
  /\ object  = [a \in Object |-> Unborn]
  /\ result  = [x \in Op |-> Without("none")]
  /\ fault   = "none"

-----------------------------------------------------------------------------
(* Segments                                                                *)

\* There is a transfer for which to select.
Pending == \E x \in Op : op[x].state = "idle"

\* bulk::select cuts nothing: what lies outside the bulk is refused later.
BulkSelect(s, o, n) ==
  /\ selects < MaxSelects /\ Pending
  /\ segment' = [segment EXCEPT ![s] = [offset |-> o, size |-> n]]
  /\ chosen'  = [chosen EXCEPT ![s] = Span(o, n) \cap Bytes(s)]
  /\ wild'    = [wild EXCEPT ![s] = FALSE]
  /\ selects' = selects + 1
  /\ UNCHANGED <<memory, op, object, result, fault>>

EffectiveSizeUncut(size, o, n) == n  \* mutant: the size is taken as it is

EffectiveSizeSigned(size, o, n) ==   \* mutant: the wrong operand, and signed
  IF o + n > size THEN size - n ELSE n

\* The size of a subsegment, in the arithmetic of size_t.
EffectiveSize(size, o, n) ==
  IF (o + n) % Width > size THEN (size - o) % Width ELSE n

\* bulk_segment::select, and remote_bulk::select, which calls it: noexcept, and
\* for any offset and size.
SubSelect(s, o, n) ==
  LET from == segment[s].offset + o IN
  /\ selects < MaxSelects /\ Pending
  /\ segment' = [segment EXCEPT ![s] =
       [offset |-> from % Width, size |-> EffectiveSize(segment[s].size, o, n)]]
  /\ chosen'  = [chosen EXCEPT ![s] = @ \cap Span(from, n)]
  /\ wild'    = [wild EXCEPT ![s] =
       @ \/ o > segment[s].size \/ o + n >= Width \/ from >= Width]
  /\ selects' = selects + 1
  /\ UNCHANGED <<memory, op, object, result, fault>>

-----------------------------------------------------------------------------
(* Starting a transfer                                                     *)

\* remote_bulk::transfer and its five siblings all cut the local segment's size
\* to that of the remote one.
CutSizeLocal(l, r) == l              \* mutant: it is not cut
CutSize(l, r) == IF l > r THEN r ELSE l

TransferSize == CutSize(segment["local"].size, segment["remote"].size)

\* Mercury refuses what exceeds the memory that a handle exposes.
Fits == \A s \in Side : segment[s].offset + TransferSize <= Size[s]

\* The program goes on to other segments afterwards, starting from the whole bulks.
Post(x, to, timed) ==
  /\ op[x].state = "idle" /\ \A y \in Op : y < x => op[y].state # "idle"
  /\ op' = [op EXCEPT ![x] =
       IF Fits
         THEN [state |-> "active", to |-> to, local |-> segment["local"].offset,
               remote |-> segment["remote"].offset, size |-> TransferSize,
               moved |-> 0, timed |-> timed, scope |-> chosen[to], wild |-> wild[to]]
         ELSE [Idle EXCEPT !.state = "failed"]]
  /\ segment' = [s \in Side |-> Whole(s)]
  /\ chosen'  = [s \in Side |-> Bytes(s)]
  /\ wild'    = [s \in Side |-> FALSE]
  /\ UNCHANGED <<selects, memory, fault>>

\* The calling ULT blocks in margo_bulk_transfer, or gets an exception.
Blocking(x, to, timed) ==
  /\ Post(x, to, timed)
  /\ result' = [result EXCEPT ![x] = Without(IF Fits THEN "blocked" ELSE "exception")]
  /\ UNCHANGED object

\* The async_bulk_op is made of the size and the request.
Async(x, a, to, timed) ==
  /\ object[a].request = Dead
  /\ Post(x, to, timed)
  /\ IF Fits
       THEN /\ object' = [object EXCEPT ![a] = [request |-> x, size |-> TransferSize]]
            /\ UNCHANGED result
       ELSE /\ result' = [result EXCEPT ![x] = Without("exception")]
            /\ UNCHANGED object

Pull(x)          == Blocking(x, "local", FALSE)
Push(x)          == Blocking(x, "remote", FALSE)
PullTo(x, a)     == Async(x, a, "local", FALSE)
PushFrom(x, a)   == Async(x, a, "remote", FALSE)
TransferTimed(x, to)     == Blocking(x, to, TRUE)
ItransferTimed(x, a, to) == Async(x, a, to, TRUE)

-----------------------------------------------------------------------------
(* Mercury                                                                 *)

At(x) == IF op[x].to = "local" THEN op[x].local ELSE op[x].remote
Over(x) == op[x].state \in {"done", "expired", "failed"}

\* Transfer x ends in the given state, having moved n bytes.
Ends(x, state, n) ==
  /\ op[x].state = "active"
  /\ op' = [op EXCEPT ![x] = [Idle EXCEPT !.state = state, !.size = op[x].size, !.moved = n]]
  /\ memory' = [memory EXCEPT ![op[x].to] =
       [c \in DOMAIN @ |-> IF c \in Span(At(x), n) THEN x ELSE @[c]]]
  /\ UNCHANGED <<segment, chosen, wild, selects, object, result, fault>>

Completes(x) == Ends(x, "done", op[x].size)

\* Margo's timer cancels the transfer, at any moment.
Expires(x) == op[x].timed /\ \E n \in 0..op[x].size : Ends(x, "expired", n)

\* The peer went away.
Fails(x) == \E n \in 0..op[x].size : Ends(x, "failed", n)

-----------------------------------------------------------------------------
(* Waiting                                                                 *)

\* What waiting for x gives: a size, which is n, or the exception that is thrown.
Outcome(x, n) ==
  CASE op[x].state = "done"    -> [kind |-> "returned", size |-> n]
    [] op[x].state = "expired" -> Without("timeout")
    [] OTHER                   -> Without("exception")

\* The same where the size that wait() returns is not looked at.
OutcomeDropped(x) ==
  IF op[x].state = "done" THEN Without("dropped") ELSE Outcome(x, 0)

ReturnWhenDone(x) ==                 \* mutant: a timeout does not wake the caller
  /\ result[x].kind = "blocked" /\ op[x].state = "done"
  /\ result' = [result EXCEPT ![x] = Outcome(x, op[x].size)]
  /\ UNCHANGED <<segment, chosen, wild, selects, memory, op, object, fault>>

\* The blocking calls return the size.
Return(x) ==
  /\ result[x].kind = "blocked" /\ Over(x)
  /\ result' = [result EXCEPT ![x] = Outcome(x, op[x].size)]
  /\ UNCHANGED <<segment, chosen, wild, selects, memory, op, object, fault>>

\* async_bulk_op::wait: the request is null from then on, whether it throws or
\* not.  On a null request it throws at once, and nothing changes.  A size that
\* is not initialized can be any.
Wait(a) ==
  LET x == object[a].request IN
  /\ x \in Op /\ Over(x)
  /\ object' = [object EXCEPT ![a].request = Null]
  /\ \E n \in IF object[a].size = Null THEN Word ELSE {object[a].size} :
       result' = [result EXCEPT ![x] = Outcome(x, n)]
  /\ UNCHANGED <<segment, chosen, wild, selects, memory, op, fault>>

\* The move constructor takes the request; m_tranferred_size is not initialized.
OpMoveConstruct(a, b) ==
  /\ object[a].request = Dead /\ object[b].request # Dead
  /\ object' = [object EXCEPT ![a] = [request |-> object[b].request, size |-> Null],
                              ![b].request = Null]
  /\ UNCHANGED <<segment, chosen, wild, selects, memory, op, result, fault>>

OpMoveAssignDrops(a, b) ==           \* mutant: a's transfer is not waited for
  /\ object[a].request # Dead /\ object[b].request # Dead
  /\ a # b /\ object[a].request # object[b].request
  /\ object' = [object EXCEPT ![a].request = object[b].request, ![b].request = Null]
  /\ UNCHANGED <<segment, chosen, wild, selects, memory, op, result, fault>>

\* operator= waits for a's own transfer.  If that throws, b keeps its request;
\* otherwise a takes it, but keeps the size of its own transfer.
OpMoveAssign(a, b) ==
  LET x == object[a].request  y == object[b].request IN
  /\ x # Dead /\ y # Dead /\ a # b /\ x # y
  /\ x \in Op => Over(x)
  /\ object' = IF x \in Op /\ op[x].state # "done"
                 THEN [object EXCEPT ![a].request = Null]
                 ELSE [object EXCEPT ![a].request = y, ![b].request = Null]
  /\ result' = IF x \in Op THEN [result EXCEPT ![x] = OutcomeDropped(x)] ELSE result
  /\ UNCHANGED <<segment, chosen, wild, selects, memory, op, fault>>

\* The destructor waits; what wait() throws cannot leave it.
OpDestroy(a) ==
  LET x == object[a].request IN
  /\ x # Dead /\ (x \in Op => Over(x))
  /\ object' = [object EXCEPT ![a] = Unborn]
  /\ result' = IF x \in Op THEN [result EXCEPT ![x] = OutcomeDropped(x)] ELSE result
  /\ fault'  = IF x \in Op /\ op[x].state # "done" THEN "terminate" ELSE fault
  /\ UNCHANGED <<segment, chosen, wild, selects, memory, op>>

-----------------------------------------------------------------------------

SelectStep ==
  \E s \in Side, o, n \in Word : BulkSelect(s, o, n) \/ SubSelect(s, o, n)

TransferStep ==
  \E x \in Op :
    \/ Pull(x) \/ Push(x)
    \/ \E to \in Side : TransferTimed(x, to)
    \/ \E a \in Object :
         PullTo(x, a) \/ PushFrom(x, a) \/ \E to \in Side : ItransferTimed(x, a, to)

MercuryStep == \E x \in Op : Completes(x) \/ Expires(x) \/ Fails(x)

ObjectStep ==
  \/ \E x \in Op : Return(x)
  \/ \E a \in Object : Wait(a) \/ OpDestroy(a)
  \/ \E a, b \in Object : OpMoveConstruct(a, b) \/ OpMoveAssign(a, b)

Next == fault = "none" /\ (SelectStep \/ TransferStep \/ MercuryStep \/ ObjectStep)

Spec == Init /\ [][Next]_vars

\* Margo's timers fire, and ULTs whose transfer is over are scheduled again; the
\* network owes nothing.
Fairness ==
  \A x \in Op : WF_vars(fault = "none" /\ Expires(x)) /\ WF_vars(fault = "none" /\ Return(x))

FairSpec == Spec /\ Fairness

-----------------------------------------------------------------------------
(* Properties                                                              *)

\* A selection of a selection, computed in machine words, denotes exactly those
\* bytes of the bulk that its offsets and sizes ask for, all of them and no
\* others, unless one of the subsegments began beyond the end of its segment or
\* its end was no size_t.  "If the size is too large, the maximum possible size
\* is chosen" otherwise.
SelectionExact ==
  \A s \in Side : ~wild[s] =>
    Span(segment[s].offset, segment[s].size) \cap Bytes(s) = chosen[s]

\* The transfers that may write byte c of side s.
Writers(s, c) ==
  {x \in Op : op[x].state = "active" /\ op[x].to = s /\ c \in op[x].scope}

\* A transfer writes only bytes that its program selected on the side it writes
\* to, whatever was selected on the other side, in range or not, however much
\* the two sizes differ, and wherever it stops.  Only a destination that is not
\* in range, as above, lets it write elsewhere in the bulk.
Confined ==
  [][\A s \in Side : \A c \in Bytes(s) : memory'[s][c] # memory[s][c] =>
       \/ Writers(s, c) # {}
       \/ \E x \in Op : op[x].state = "active" /\ op[x].to = s /\ op[x].wild]_vars

\* What the documentation of select promises without that exception: a size that
\* is too large is cut, so that no transfer ever writes outside what its program
\* selected.
AlwaysConfined ==
  [][\A s \in Side : \A c \in Bytes(s) :
       memory'[s][c] # memory[s][c] => Writers(s, c) # {}]_vars

\* While Mercury may still touch the memory of a transfer, exactly one
\* async_bulk_op, or the ULT that is blocked in the call, stands for it: once
\* these are gone, the program may free its buffers.
SomebodyWaits ==
  \A x \in Op :
    LET holders == {a \in Object : object[a].request = x} IN
    /\ Cardinality(holders) <= 1
    /\ op[x].state = "active" => (holders # {} <=> result[x].kind # "blocked")

\* A blocking transfer with a timeout ends, even if the network never answers.
TimedTransfersEnd ==
  \A x \in Op : (result[x].kind = "blocked" /\ op[x].timed) ~> (result[x].kind # "blocked" \/ fault # "none")
=============================================================================
