------------------------------ MODULE MCDebug -------------------------------
(* The debug module under the front-end server's transport or, in other    *)
(* behaviours, under a debugger on the JTAG port.                          *)
EXTENDS Dtm, JtagDtm

VARIABLE port

vars == <<port, dmVars, hostVars, wireVars, jtagVars>>

MCOps ==
    {[op |-> "read", addr |-> 1, n |-> 2], [op |-> "write", addr |-> 1, n |-> 2, val |-> 50],
     [op |-> "write", addr |-> 2, n |-> 3, val |-> 60], [op |-> "clear", addr |-> 1, n |-> 2],
     [op |-> "csr", type |-> "clear", val |-> 1], [op |-> "reset", val |-> 5]}

Init == port \in {"dtm", "jtag"} /\ DmModuleInit /\ DtmInit /\ JtagInit /\ (port = "jtag" => width = 1)

Debugger == DtmStep /\ port = "dtm" /\ UNCHANGED <<port, jtagVars>>
Hart(h) == HartStep(h) /\ UNCHANGED <<port, hostVars, wireVars, jtagVars>>
Server == ServerStep /\ port = "jtag" /\ UNCHANGED <<port, hostVars, wireVars>>
Client == ClientStep /\ port = "jtag" /\ UNCHANGED <<port, hostVars, wireVars>>
Next == Debugger \/ (\E h \in Harts : Hart(h)) \/ Server \/ Client

\* The target's clock keeps ticking the transport, the simulator's main loop
\* steps every hart and calls the server's tick in turn, and the host
\* coroutine always runs to its next request.  The client owes nothing.
Spec == Init /\ [][Next]_vars /\ WF_vars(Debugger) /\ WF_vars(Server)
             /\ \A h \in Harts : WF_vars(Hart(h))

\* A halted hart's program gets its registers back, and what the transport
\* reads and writes through the program buffer is the memory, also when a
\* chunk's access faults half-way (dtm.cc, debug_rom).
DtmFaithful == RegistersRestored /\ TransfersExact

\* Everything asked for ends.  On the transport, neither the polls of halt and
\* resume nor that of a command, nor a fault inside one, leave the host waiting
\* for ever; on the JTAG port every scan is answered, although the server stops
\* a batch early to give the simulation its turn.
RequestsComplete ==
    /\ (port = "dtm" /\ todo # <<>>) ~> (todo = <<>>)
    /\ (port = "jtag" /\ client.connected) ~> (Answered \/ ~client.connected)
====
