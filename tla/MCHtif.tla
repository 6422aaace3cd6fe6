------------------------------- MODULE MCHtif -------------------------------
(* The front-end server's parts, one in each behaviour: its loop with a    *)
(* target, its access to memory, and its coroutines.                       *)
EXTENDS Htif, Memif, Context

VARIABLE part

vars == <<part, htifVars, memifVars, contextVars>>

Sys(c) == [dev |-> "syscall", call |-> c, fd |-> 3, abs |-> FALSE, name |-> "f", dir |-> "none", code |-> 1]
SyscallRequests ==
    {Sys("openat"), [Sys("openat") EXCEPT !.abs = TRUE, !.name = "g"], Sys("close"),
     [Sys("close") EXCEPT !.fd = 1], Sys("read"), [Sys("fstat") EXCEPT !.fd = 1], [Sys("chdir") EXCEPT !.abs = TRUE]}
DeviceRequests ==
    {Sys("write"), Sys("path"), Sys("lstat"), Sys("getcwd"), Sys("sys_exit"), [dev |-> "disk"], [dev |-> "identify"],
     [dev |-> "getchar"], [dev |-> "null"], [dev |-> "putchar"],
     [dev |-> "exit", code |-> 2]}
MCRequests == SyscallRequests \cup DeviceRequests
MCSegments == {<<[paddr |-> 0, filesz |-> 5, memsz |-> 7], [paddr |-> 9, filesz |-> 0, memsz |-> 3]>>,
               <<[paddr |-> 3, filesz |-> 6, memsz |-> 8], [paddr |-> 2, filesz |-> 2, memsz |-> 3]>>}

Init == part \in {"htif", "memif", "context"} /\ HtifInit /\ MemifInit /\ ContextInit
            /\ (part # "htif" => ~posted /\ prog = "syscall") /\ (part # "memif" => segs = <<>>)

Host == part = "htif" /\ HostStep /\ UNCHANGED <<part, memifVars, contextVars>>
Wire == part = "htif" /\ Adapter /\ UNCHANGED <<part, memifVars, contextVars>>
Target == part = "htif" /\ TargetStep /\ UNCHANGED <<part, memifVars, contextVars>>
Interrupt == part = "htif" /\ handle_signal /\ UNCHANGED <<part, memifVars, contextVars>>
Memory == part = "memif" /\ MemifStep /\ UNCHANGED <<part, htifVars, contextVars>>
Threads == part = "context" /\ ContextStep /\ UNCHANGED <<part, htifVars, memifVars>>
Switch(c) == part = "context" /\ SwitchStep(c) /\ UNCHANGED <<part, htifVars, memifVars>>
Next == Host \/ Wire \/ Target \/ Interrupt \/ Memory \/ Threads

\* The host's thread, the target and its adapter keep running, and a thread
\* that waits for a mutex gets it.  What the target asks for is up to it.
Spec == Init /\ [][Next]_vars /\ WF_vars(Host) /\ WF_vars(Wire) /\ WF_vars(Target /\ TargetSeesResponse)
             /\ \A c \in Contexts : SF_vars(Switch(c))

\* A transfer in aligned chunks moves exactly the bytes asked for, and of host
\* and target coroutine exactly one runs (memif.cc, elfloader.cc, context.cc).
AccessExact == MemifExact /\ ContextsAlternate

\* Everything the target waits for comes, except a character nobody types and
\* the answer of a device that does not exist; an exit code ends the run,
\* also after a signal; and a context that is switched to runs: no wake-up is
\* lost between a flag and the wait on its condition.
Over == hp \in {"stopped", "dead"}
HtifLive ==
    /\ (tpc = "wait" /\ treq.dev \notin {"getchar", "null"}) ~> (tpc # "wait" \/ Over)
    /\ (exitcode # 0 \/ signal_exit) ~> Over
    /\ \A c \in Contexts : (c \in asked) ~> (cpc[c] = "running")
====
