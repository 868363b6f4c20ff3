--------------------------- MODULE EngineFinalize ---------------------------
(***************************************************************************)
(* Finalization of an engine: the two stacks of callbacks that thallium    *)
(* allocates and Margo stores, their push and pop by owner, the execution  *)
(* of what is left on them by engine::finalize, and the reference count    *)
(* that margo_instance_ref keeps of the Margo instance meanwhile.  A pop   *)
(* deletes the std::function first and removes Margo's entry afterwards.   *)
(***************************************************************************)
EXTENDS Integers, Sequences, FiniteSets

CONSTANTS
  Callback,    \* finalize_callback_t objects, one for each push
  Owner,       \* objects that push a callback about themselves: providers
  Thread,      \* ULTs that use the engine, on different execution streams
  Holder,      \* variables of a type derived from margo_instance_ref
  Null,        \* nullptr, and the owner of a callback without an owner
  Concurrent   \* may finalize be called while another ULT is inside a pop?

ASSUME NullIsFresh == Null \notin Callback \cup Owner
ASSUME HoldersAreFinite == IsFiniteSet(Holder) /\ Holder # {}
ASSUME ConcurrentIsBoolean == Concurrent \in BOOLEAN

VARIABLES
  stack,     \* Margo's list of callbacks of each kind, the top at the end
  heap,      \* state of each std::function
  owner,     \* lifetime of each owner
  popping,   \* the pop that each ULT is in the middle of
  phase,     \* of engine::finalize
  current,   \* the entry whose callback runs
  ran,       \* history: the callbacks that have run
  popped,    \* history: the callbacks that a pop has returned
  holds,     \* the margo_instance_refs that are not null
  refs,      \* Margo's reference count of the instance
  fault      \* "none", or what went wrong

callbacks == <<stack, heap, owner, popping>>
vars == <<callbacks, phase, current, ran, popped, holds, refs, fault>>

Kind  == {"prefinalize", "finalize"}
Entry == [owner : Owner \cup {Null}, callback : Callback]
Idle  == [kind |-> "none", owner |-> Null]
NoEntry == [owner |-> Null, callback |-> Null]

TypeOK ==
  /\ stack   \in [Kind -> Seq(Entry)]
  /\ heap    \in [Callback -> {"unused", "live", "freed"}]
  /\ owner   \in [Owner -> {"none", "alive", "dead"}]
  /\ popping \in [Thread -> [kind : Kind, owner : Owner \cup {Null}] \cup {Idle}]
  /\ phase   \in {"running", "prefinalize", "finalize", "done"}
  /\ current \in Entry \cup {NoEntry}
  /\ ran \in Seq(Callback) /\ popped \subseteq Callback
  /\ holds \subseteq Holder /\ refs \in Nat
  /\ fault \in {"none", "use after free"}

Init ==
  /\ stack   = [k \in Kind |-> <<>>]
  /\ heap    = [c \in Callback |-> "unused"]
  /\ owner   = [o \in Owner |-> "none"]
  /\ popping = [t \in Thread |-> Idle]
  /\ phase   = "running"
  /\ current = NoEntry
  /\ ran = <<>> /\ popped = {}
  /\ \E e \in Holder : holds = {e}         \* the engine, made by margo_init
  /\ refs = 1
  /\ fault = "none"

\* Margo's lists have no lock: whoever uses the engine sees to it that nobody
\* else is inside a pop.  Some margo_instance_ref must be there to reach it.
NoPop == \A t \in Thread : popping[t] = Idle
Free  == NoPop /\ holds # {}

\* Margo's entries of an owner, and its list without the topmost of them.
Positions(k, o) == {i \in DOMAIN stack[k] : stack[k][i].owner = o}
Topmost(k, o)   == CHOOSE i \in Positions(k, o) : \A j \in Positions(k, o) : j <= i
Without(s, i)   == SubSeq(s, 1, i - 1) \o SubSeq(s, i + 1, Len(s))

-----------------------------------------------------------------------------
(* Push and pop                                                            *)

Push(k, o, c) ==
  /\ heap[c] = "unused"
  /\ heap'  = [heap EXCEPT ![c] = "live"]
  /\ stack' = [stack EXCEPT ![k] = Append(@, [owner |-> o, callback |-> c])]
  /\ UNCHANGED <<popping, phase, current, ran, popped, holds, refs, fault>>

PushCallback(k, c) == Free /\ Push(k, Null, c) /\ UNCHANGED owner

\* The constructor of a provider pushes its cleanup with owner this.
NewOwner(o, c) ==
  /\ Free /\ owner[o] = "none" /\ phase = "running"
  /\ Push("finalize", o, c)
  /\ owner' = [owner EXCEPT ![o] = "alive"]

\* Pop, up to delete f: the topmost entry of the owner is looked up, its
\* std::function copied and deleted.
PopBegin(t, k, o) ==
  LET c == stack[k][Topmost(k, o)].callback IN
  /\ Free /\ Positions(k, o) # {}
  /\ IF heap[c] = "freed"
       THEN fault' = "use after free" /\ UNCHANGED <<heap, popped>>
       ELSE /\ heap'   = [heap EXCEPT ![c] = "freed"]
            /\ popped' = popped \cup {c}
            /\ UNCHANGED fault
  /\ popping' = [popping EXCEPT ![t] = [kind |-> k, owner |-> o]]
  /\ UNCHANGED <<stack, phase, current, ran, holds, refs>>

PopCallback(t, k) == PopBegin(t, k, Null) /\ UNCHANGED owner

DestroyOwnerOnly(t, o) ==            \* mutant: the destructor does not pop
  /\ owner[o] = "alive" /\ Free
  /\ owner' = [owner EXCEPT ![o] = "dead"]
  /\ UNCHANGED <<stack, heap, popping, phase, current, ran, popped, holds, refs, fault>>

\* The destructor of a provider pops its callback, which is not there any more
\* if that callback is what deletes the provider.
DestroyOwner(t, o) ==
  /\ owner[o] = "alive"
  /\ owner' = [owner EXCEPT ![o] = "dead"]
  /\ IF Positions("finalize", o) # {}
       THEN PopBegin(t, "finalize", o)
       ELSE /\ Free
            /\ UNCHANGED <<stack, heap, popping, phase, current, ran, popped, holds,
                           refs, fault>>

PopEndRemovesTop(t) ==               \* mutant: the owner is not passed on
  LET k == popping[t].kind IN
  /\ popping[t] # Idle
  /\ stack' = [stack EXCEPT ![k] = Without(@, Len(@))]
  /\ popping' = [popping EXCEPT ![t] = Idle]
  /\ UNCHANGED <<heap, owner, phase, current, ran, popped, holds, refs, fault>>

\* Then Margo's topmost entry of the owner, by now, is removed.
PopEnd(t) ==
  LET k == popping[t].kind  o == popping[t].owner IN
  /\ popping[t] # Idle
  /\ stack' = IF Positions(k, o) = {} THEN stack
              ELSE [stack EXCEPT ![k] = Without(@, Topmost(k, o))]
  /\ popping' = [popping EXCEPT ![t] = Idle]
  /\ UNCHANGED <<heap, owner, phase, current, ran, popped, holds, refs, fault>>

-----------------------------------------------------------------------------
(* margo_instance_ref                                                      *)

\* Copy constructor, or assignment to a null one.
CopyRef(d, s) ==
  /\ s \in holds /\ d \notin holds /\ refs > 0
  /\ holds' = holds \cup {d}
  /\ refs'  = refs + 1
  /\ UNCHANGED <<callbacks, phase, current, ran, popped, fault>>

MoveRefKeepsSource(d, s) ==          \* mutant: the source is not set to null
  /\ s \in holds /\ d \notin holds
  /\ holds' = holds \cup {d}
  /\ UNCHANGED <<callbacks, phase, current, ran, popped, refs, fault>>

\* Move constructor, or move assignment to a null one.
MoveRef(d, s) ==
  /\ s \in holds /\ d \notin holds
  /\ holds' = (holds \ {s}) \cup {d}
  /\ UNCHANGED <<callbacks, phase, current, ran, popped, refs, fault>>

\* Destructor.
DropRef(s) ==
  /\ s \in holds /\ (refs > 1 \/ phase = "done")
  /\ NoPop
  /\ holds' = holds \ {s}
  /\ refs'  = refs - 1
  /\ UNCHANGED <<callbacks, phase, current, ran, popped, fault>>

\* Dropping the last reference to an engine that nobody has finalized makes
\* Margo finalize it, and free the instance afterwards.
DropLastRef(s) ==
  /\ s \in holds /\ refs = 1 /\ phase = "running"
  /\ NoPop
  /\ holds' = holds \ {s}
  /\ phase' = "prefinalize"
  /\ UNCHANGED <<callbacks, current, ran, popped, refs, fault>>

-----------------------------------------------------------------------------
(* engine::finalize                                                        *)

FinalizeWithoutRef(t) ==             \* mutant: margo_instance_ref_incr is missing
  /\ popping[t] = Idle /\ (Concurrent \/ NoPop)
  /\ holds # {} /\ phase = "running"
  /\ phase' = "prefinalize"
  /\ UNCHANGED <<callbacks, current, ran, popped, holds, refs, fault>>

\* margo_instance_ref_incr, then margo_finalize.
Finalize(t) ==
  /\ popping[t] = Idle /\ (Concurrent \/ NoPop)
  /\ holds # {} /\ phase = "running"
  /\ phase' = "prefinalize"
  /\ refs'  = refs + 1
  /\ UNCHANGED <<callbacks, current, ran, popped, holds, fault>>

RunTopKeepsEntry(k) ==               \* mutant: the entry stays on the list
  /\ phase = k /\ current = NoEntry /\ stack[k] # <<>>
  /\ NoPop
  /\ current' = stack[k][Len(stack[k])]
  /\ UNCHANGED <<callbacks, phase, ran, popped, holds, refs, fault>>

\* margo_finalize takes the entry off its list before it calls the callback.
RunTop(k) ==
  LET top == stack[k][Len(stack[k])] IN
  /\ phase = k /\ current = NoEntry /\ stack[k] # <<>>
  /\ Concurrent \/ NoPop
  /\ current' = top
  /\ stack'   = [stack EXCEPT ![k] = SubSeq(@, 1, Len(@) - 1)]
  /\ UNCHANGED <<heap, owner, popping, phase, ran, popped, holds, refs, fault>>

CallbackReturnsUndeleted ==          \* mutant: delete cb is missing
  /\ current # NoEntry
  /\ ran' = Append(ran, current.callback)
  /\ current' = NoEntry
  /\ UNCHANGED <<callbacks, phase, popped, holds, refs, fault>>

\* finalize_callback_wrapper: (*cb)() and then delete cb.
CallbackReturns ==
  LET c == current.callback IN
  /\ current # NoEntry
  /\ IF heap[c] = "freed"
       THEN fault' = "use after free" /\ UNCHANGED <<heap, ran>>
       ELSE /\ heap' = [heap EXCEPT ![c] = "freed"]
            /\ ran'  = Append(ran, c)
            /\ UNCHANGED fault
  /\ current' = NoEntry
  /\ UNCHANGED <<stack, owner, popping, phase, popped, holds, refs>>

\* The prefinalize callbacks are done: the progress loop stops, Mercury goes.
StopProgress ==
  /\ phase = "prefinalize" /\ current = NoEntry /\ stack["prefinalize"] = <<>>
  /\ phase' = "finalize"
  /\ UNCHANGED <<callbacks, current, ran, popped, holds, refs, fault>>

\* margo_finalize ends by dropping one reference.
FinalizeReturns ==
  /\ phase = "finalize" /\ current = NoEntry /\ stack["finalize"] = <<>>
  /\ phase' = "done"
  /\ refs'  = refs - 1
  /\ UNCHANGED <<callbacks, current, ran, popped, holds, fault>>

-----------------------------------------------------------------------------

StackStep ==
  \E t \in Thread :
    \/ \E k \in Kind :
         PopCallback(t, k) \/ \E c \in Callback : PushCallback(k, c)
    \/ \E o \in Owner :
         DestroyOwner(t, o) \/ \E c \in Callback : NewOwner(o, c)
    \/ PopEnd(t)

RefStep ==
  \/ \E d, s \in Holder : CopyRef(d, s) \/ MoveRef(d, s)
  \/ \E s \in Holder : DropRef(s) \/ DropLastRef(s)

FinalizeStep ==
  \/ \E t \in Thread : Finalize(t)
  \/ \E k \in Kind : RunTop(k)
  \/ CallbackReturns
  \/ StopProgress
  \/ FinalizeReturns

Next == fault = "none" /\ (StackStep \/ RefStep \/ FinalizeStep)

Spec == Init /\ [][Next]_vars

\* margo_finalize goes on to its end, callbacks return, and so does a pop.
Fairness ==
  /\ WF_vars(fault = "none" /\ FinalizeStep)
  /\ \A t \in Thread : WF_vars(fault = "none" /\ PopEnd(t))

FairSpec == Spec /\ Fairness

-----------------------------------------------------------------------------
(* Properties                                                              *)

Finalizing == phase \in {"prefinalize", "finalize"}

\* Margo frees the instance neither while a margo_instance_ref points to it nor
\* in the middle of a finalization, and does free it once all are gone: the
\* increment in engine::finalize is what margo_finalize takes back.
RefsExact ==
  refs = Cardinality(holds) + (IF Finalizing THEN 1 ELSE 0)

HasRun(c) == \E i \in DOMAIN ran : ran[i] = c

\* A callback runs once, or is returned by one pop, and not both; its
\* std::function is deleted exactly then.
OneFate ==
  /\ \A i, j \in DOMAIN ran : ran[i] = ran[j] => i = j
  /\ \A c \in Callback : ~(HasRun(c) /\ c \in popped)
  /\ \A c \in Callback : heap[c] = "freed" <=> HasRun(c) \/ c \in popped

BeingPopped(k, i) ==
  \E t \in Thread :
    /\ popping[t] = [kind |-> k, owner |-> stack[k][i].owner]
    /\ i = Topmost(k, stack[k][i].owner)

\* Every entry of Margo's lists points to a std::function that has not been
\* deleted, apart from the one that a pop is about to remove, and no two
\* entries point to the same.
EntriesLive ==
  \A k \in Kind : \A i \in DOMAIN stack[k] :
    /\ BeingPopped(k, i) \/ heap[stack[k][i].callback] = "live"
    /\ \A l \in Kind : \A j \in DOMAIN stack[l] :
         stack[k][i].callback = stack[l][j].callback => k = l /\ i = j

\* No callback is started for a provider that has been destroyed before.
DeadOwnersSilent ==
  [][ (current' # NoEntry /\ current'.owner # Null) =>
        (current' = current \/ owner[current'.owner] = "alive") ]_vars

\* engine::finalize returns, whatever callbacks push, pop and delete meanwhile.
FinalizeEnds == (phase = "prefinalize") ~> (phase = "done")

\* The use of a std::function that has been deleted.
NoUseAfterFree == fault = "none"
=============================================================================
