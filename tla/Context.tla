------------------------------ MODULE Context -------------------------------
(***************************************************************************)
(* The coroutines of the front-end server (context.cc) as it builds them   *)
(* on pthreads: a context is a thread, a flag, a mutex and a condition     *)
(* variable, and switch_to() wakes one thread and puts its own to sleep.   *)
(* The flags are written outside the mutexes.  Threads may wake up from    *)
(* pthread_cond_wait for no reason.                                        *)
(***************************************************************************)
EXTENDS Naturals

VARIABLES
    flag,           \* per context
    mutex,          \* per context: the thread that holds it, or "free"
    cpc,            \* per thread: its place in switch_to() or init()
    asked           \* contexts that have been switched to and have not run yet

contextVars == <<flag, mutex, cpc, asked>>

\* target is the thread that made the other, host.
Contexts == {"target", "host"}
Other(c) == IF c = "target" THEN "host" ELSE "target"
Goto(c, l) == cpc' = [cpc EXCEPT ![c] = l]

ContextInit ==
    /\ flag = [c \in Contexts |-> IF c = "target" THEN 1 ELSE 0]
    /\ mutex = [c \in Contexts |-> "free"]
    /\ cpc = [c \in Contexts |-> IF c = "target" THEN "running" ELSE "none"]
    /\ asked = {}

\* init(): the creator starts the thread with its own mutex held, and waits.
CreateThread ==
    /\ cpc["target"] = "running" /\ cpc["host"] = "none"
    /\ mutex["target"] = "free"
    /\ mutex' = [mutex EXCEPT !["target"] = "target"]
    /\ flag' = [flag EXCEPT !["target"] = 0]
    /\ cpc' = [cpc EXCEPT !["target"] = "test", !["host"] = "running"]
    /\ UNCHANGED asked

\* switch_to(), called by the thread of c for the other context.
ClearFlag(c) ==
    /\ cpc[c] = "running" /\ cpc[Other(c)] # "none"
    /\ flag' = [flag EXCEPT ![c] = 0]
    /\ Goto(c, "set") /\ UNCHANGED <<mutex, asked>>
SetFlag(c) ==
    /\ cpc[c] = "set"
    /\ flag' = [flag EXCEPT ![Other(c)] = 1]
    /\ asked' = asked \cup {Other(c)}
    /\ Goto(c, "lock") /\ UNCHANGED mutex
LockOther(c) ==
    /\ cpc[c] = "lock" /\ mutex[Other(c)] = "free"
    /\ mutex' = [mutex EXCEPT ![Other(c)] = c]
    /\ Goto(c, "signal") /\ UNCHANGED <<flag, asked>>
Signal(c) ==
    /\ cpc[c] = "signal"
    /\ cpc' = [cpc EXCEPT ![c] = "unlock", ![Other(c)] = IF @ = "waiting" THEN "relock" ELSE @]
    /\ UNCHANGED <<flag, mutex, asked>>
UnlockOther(c) ==
    /\ cpc[c] = "unlock"
    /\ mutex' = [mutex EXCEPT ![Other(c)] = "free"]
    /\ Goto(c, "relock") /\ UNCHANGED <<flag, asked>>
\* Locks its own mutex, on the way to the wait and after it.
LockSelf(c) ==
    /\ cpc[c] = "relock" /\ mutex[c] = "free"
    /\ mutex' = [mutex EXCEPT ![c] = c]
    /\ Goto(c, "test") /\ UNCHANGED <<flag, asked>>
\* The flag is read with the mutex held; the wait releases it.
Test(c) ==
    /\ cpc[c] = "test"
    /\ IF flag[c] = 0 THEN Goto(c, "wait") /\ UNCHANGED <<mutex, asked>>
       ELSE /\ Goto(c, "running") /\ asked' = asked \ {c}
            /\ mutex' = [mutex EXCEPT ![c] = "free"]
    /\ UNCHANGED flag
Wait(c) ==
    /\ cpc[c] = "wait"
    /\ mutex' = [mutex EXCEPT ![c] = "free"]
    /\ Goto(c, "waiting") /\ UNCHANGED <<flag, asked>>
SpuriousWakeup(c) ==
    /\ cpc[c] = "waiting"
    /\ Goto(c, "relock") /\ UNCHANGED <<flag, mutex, asked>>

SwitchStep(c) ==
    \/ SetFlag(c) \/ LockOther(c) \/ Signal(c) \/ UnlockOther(c) \/ LockSelf(c) \/ Test(c)
    \/ Wait(c)
ContextStep ==
    CreateThread \/ \E c \in Contexts : ClearFlag(c) \/ SwitchStep(c) \/ SpuriousWakeup(c)
ContextSpec == ContextInit /\ [][ContextStep]_contextVars

\* The two threads are one program: never do both run the code of their
\* contexts, and one that is not running has a flag that says so, unless it
\* has just been asked to.
ContextsAlternate ==
    /\ ~(cpc["target"] = "running" /\ cpc["host"] = "running")
    /\ \A c \in Contexts : cpc[c] = "waiting" /\ flag[c] = 1 =>
          cpc[Other(c)] \in {"lock", "signal"}
====
