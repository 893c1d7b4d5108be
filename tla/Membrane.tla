------------------------------ MODULE Membrane ------------------------------
(***************************************************************************)
(* The native membrane (internal/capability/native) behind the manager of  *)
(* Capability: an executor that runs an allow-listed function in one more  *)
(* goroutine, under a timeout of its own and within a bound on its output. *)
(* Every step of it is a step of an executor that computes, or none.       *)
(***************************************************************************)
EXTENDS Capability

CONSTANTS
    Native,     \* executors that are a NativeExecutor
    Allowed     \* requests whose library and symbol are on the allow-list

\* NewNativeExecutor: it is privileged, and it does not mutate.
ASSUME NativeAssumption ==
    /\ Native \subseteq Executor /\ Allowed \subseteq Request
    /\ \A e \in Native : ~Describe[e].mutating

VARIABLES
    inner,      \* the goroutine of Invoke for each call
    handed      \* calls whose goroutine of Invoke has sent and ended

nativeVars == <<inner, handed>>
membraneVars == <<vars, nativeVars>>

Answers == {"result", "error"}

NativeTypeOK ==
    /\ inner \in [Call -> {"none", "works"} \cup Answers]
    /\ handed \subseteq Call

MembraneInit ==
    /\ Init
    /\ inner = [c \in Call |-> "none"] /\ handed = {}

\* The executor of the call is in NativeExecutor.Execute.
InNative(c) == executor[c] = "running" /\ call[c].ran \in Native

\* NativeExecutor.Execute returns.
Replies(c, out) ==
    /\ executor' = [executor EXCEPT ![c] = out]
    /\ UNCHANGED <<entries, call, sent, expired, progressVars, history>>

----------------------------------------------------------------------------
\* Invoke: a symbol that is not allow-listed is refused.
RejectSymbol(c) ==
    /\ InNative(c) /\ inner[c] = "none" /\ Req(c) \notin Allowed
    /\ Replies(c, "failed")
    /\ UNCHANGED nativeVars

Invoke(c) ==
    /\ InNative(c) /\ inner[c] = "none" /\ Req(c) \in Allowed
    /\ inner' = [inner EXCEPT ![c] = "works"]
    /\ UNCHANGED <<vars, handed>>

\* The function has its output, or one beyond the bound.
Works(c) ==
    /\ inner[c] = "works"
    /\ \E a \in Answers : inner' = [inner EXCEPT ![c] = a]
    /\ UNCHANGED <<vars, handed>>

\* The goroutine of Invoke has an answer to send.
InnerAnswered(c) == inner[c] \in Answers /\ c \notin handed

\* select: the output or the error.
Collect(c) ==
    /\ InNative(c) /\ InnerAnswered(c)
    /\ Replies(c, IF inner[c] = "result" THEN "completed" ELSE "failed")
    /\ handed' = handed \cup {c}
    /\ UNCHANGED inner

\* Mutant of Abandon: it falls through to the output.
AbandonQuietly(c) ==
    /\ InNative(c) /\ inner[c] # "none"
    /\ Replies(c, "completed")
    /\ UNCHANGED nativeVars

\* select: the membrane's context is done, with its timeout or its caller's.
Abandon(c) ==
    /\ InNative(c) /\ inner[c] # "none"
    /\ Replies(c, "failed")
    /\ UNCHANGED nativeVars

\* Mutant of Kept: channels without a buffer.
KeptUnbuffered(c) == InNative(c)

\* Either channel takes one answer, read or not.
Kept(c) == TRUE

\* The goroutine ends with an answer nobody is left to read.
HandOver(c) ==
    /\ InnerAnswered(c) /\ ~InNative(c) /\ Kept(c)
    /\ handed' = handed \cup {c}
    /\ UNCHANGED <<vars, inner>>

NativeStep(c) ==
    \/ RejectSymbol(c) \/ Invoke(c) \/ Works(c) \/ Collect(c) \/ Abandon(c)
    \/ HandOver(c)

\* Every other step; other executors compute what they will.
OtherStep ==
    /\ \/ \E e \in Executor : Register(e)
       \/ \E c \in Call :
            \/ Called(c) \/ CallStep(c) \/ Expire(c) \/ Send(c)
            \/ ~InNative(c) /\ Computes(c)
    /\ UNCHANGED nativeVars

MembraneNext == OtherStep \/ \E c \in Call : NativeStep(c)

MembraneSpec == MembraneInit /\ [][MembraneNext]_membraneVars

\* What becomes of a call when its goroutines go on and its timers fire.
Proceeds(c) ==
    \/ (CallStep(c) \/ Expire(c) \/ Send(c)) /\ UNCHANGED nativeVars
    \/ NativeStep(c)

\* The runtime runs goroutines that can go on, and timers fire.  Nothing is
\* assumed of an executor that is not native: it may never answer.  What the
\* membrane runs are functions that end.  A call takes none of these steps for
\* ever, so that they need one fairness only.
FairMembraneSpec == MembraneSpec /\ \A c \in Call : WF_membraneVars(Proceeds(c))

----------------------------------------------------------------------------
\* A native execution that completed has run an allow-listed symbol to its
\* end within the bound, though timeouts of two layers race with it, and the
\* authority accepts nothing of it ("native execution does not gain
\* canonical-state authority").
NativeBounded ==
    /\ NativeTypeOK
    /\ \A c \in Call :
         call[c].ran \in Native =>
           /\ executor[c] # "large"
           /\ executor[c] = "completed" =>
                inner[c] = "result" /\ Req(c) \in Allowed
    /\ \A n \in DOMAIN history : call[history[n]].ran \notin Native

\* What completes and what is accepted was earned, native or not.
ExecutionsEarned == AcceptedEarned /\ NativeBounded

\* Nothing of a call goes on: it has returned, and the goroutines that had an
\* answer have handed it over.
AtRest(c) ==
    /\ At(c, "done")
    /\ ~Answered(c) /\ ~InNative(c)
    /\ inner[c] # "none" => c \in handed

\* Nothing waits for ever but an executor, not a native one, that never
\* answers (Execute's and Invoke's select, the buffers of their channels).
NothingWaits == \A c \in Call : []<>(At(c, "idle") \/ AtRest(c))

============================================================================
