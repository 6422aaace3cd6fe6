------------------------------ MODULE JtagDtm -------------------------------
(***************************************************************************)
(* The simulator's JTAG port: remote_bitbang.cc takes one-character        *)
(* commands from a socket and drives the pins of jtag_dtm.cc's TAP, whose  *)
(* DMI register reaches the debug module.                                  *)
(*                                                                         *)
(* The registers are narrow here: the instruction register has 2 bits, the *)
(* DMI register 2 of op, 2 of data and 1 of address, where address 0 is    *)
(* data0 and address 1 is none of the module's.  The client is external:   *)
(* what a debugger with a bit-bang driver sends.                           *)
(***************************************************************************)
EXTENDS DebugModule, SequencesExt, FiniteSetsExt

CONSTANTS
    buf_size,
    MaxScans        \* bound: DMI scans of the client

\* A batch of characters holds at least one.
ASSUME BufAssumption == buf_size \in Nat \ {0}

VARIABLES
    tap,            \* the TAP: pins, state, ir, dr, dr_length, dmi
    rb,             \* the server: client_fd, recv, send, the locals of execute_commands
    up, down,       \* characters on their way to and from the server
    client          \* the client's connection, its scans and what it has read

jtagVars == <<tap, rb, up, down, client>>

----------------------------------------------------------------------------
(* The TAP. *)

ir_length == 2
IR_IDCODE == 1
IR_DTMCONTROL == 2
IR_DBUS == 3
DmiLength == 5
Pow2 == <<1, 2, 4, 8, 16, 32>>      \* Pow2[k] = 2^(k-1)

\* The next state for tms = 0 and for tms = 1.
TapNext ==
    [TEST_LOGIC_RESET |-> <<"RUN_TEST_IDLE", "TEST_LOGIC_RESET">>,
     RUN_TEST_IDLE    |-> <<"RUN_TEST_IDLE", "SELECT_DR_SCAN">>,
     SELECT_DR_SCAN   |-> <<"CAPTURE_DR", "SELECT_IR_SCAN">>,
     CAPTURE_DR       |-> <<"SHIFT_DR", "EXIT1_DR">>,
     SHIFT_DR         |-> <<"SHIFT_DR", "EXIT1_DR">>,
     EXIT1_DR         |-> <<"PAUSE_DR", "UPDATE_DR">>,
     PAUSE_DR         |-> <<"PAUSE_DR", "EXIT2_DR">>,
     EXIT2_DR         |-> <<"SHIFT_DR", "UPDATE_DR">>,
     UPDATE_DR        |-> <<"RUN_TEST_IDLE", "SELECT_DR_SCAN">>,
     SELECT_IR_SCAN   |-> <<"CAPTURE_IR", "TEST_LOGIC_RESET">>,
     CAPTURE_IR       |-> <<"SHIFT_IR", "EXIT1_IR">>,
     SHIFT_IR         |-> <<"SHIFT_IR", "EXIT1_IR">>,
     EXIT1_IR         |-> <<"PAUSE_IR", "UPDATE_IR">>,
     PAUSE_IR         |-> <<"PAUSE_IR", "EXIT2_IR">>,
     EXIT2_IR         |-> <<"SHIFT_IR", "UPDATE_IR">>,
     UPDATE_IR        |-> <<"RUN_TEST_IDLE", "SELECT_DR_SCAN">>]

Shift(r, length, bit) == (r \div 2) + (bit * Pow2[length])
Shifted(t) ==
    CASE t.state = "SHIFT_DR" -> [t EXCEPT !.dr = Shift(@, t.dr_length, t.tdi)]
      [] t.state = "SHIFT_IR" -> [t EXCEPT !.ir = Shift(@, ir_length, t.tdi)]
      [] OTHER -> t
capture_dr(t) ==
    CASE t.ir = IR_IDCODE -> [t EXCEPT !.dr = 7, !.dr_length = 4]
      [] t.ir = IR_DTMCONTROL -> [t EXCEPT !.dr = 9, !.dr_length = 4]
      [] t.ir = IR_DBUS -> [t EXCEPT !.dr = t.dmi, !.dr_length = DmiLength]
      [] OTHER -> t
Arrived(t) ==
    CASE t.state = "TEST_LOGIC_RESET" -> [t EXCEPT !.ir = IR_IDCODE]
      [] t.state = "CAPTURE_DR" -> capture_dr(t)
      [] t.state = "SHIFT_DR" -> [t EXCEPT !.tdo = t.dr % 2]
      [] t.state = "SHIFT_IR" -> [t EXCEPT !.tdo = t.ir % 2]
      [] OTHER -> t
Latched(t, p) == [t EXCEPT !.tck = p[1], !.tms = p[2], !.tdi = p[3]]
\* Mutant: the shift is decided by the state after the edge.
PosEdgeLate(t) == Arrived(Shifted([t EXCEPT !.state = TapNext[t.state][t.tms + 1]]))
\* A rising tck moves the TAP by the tms and tdi of the call before.
PosEdge(t) == Arrived([Shifted(t) EXCEPT !.state = TapNext[t.state][t.tms + 1]])
Clocked(t, p) == IF t.tck = 0 /\ p[1] = 1 THEN PosEdge(t) ELSE t

Op(dr) == dr % 4
Data(dr) == (dr \div 4) % 4
Address(dr) == dr \div 16
Dbus(addr, data, o) == (16 * addr) + (4 * data) + o
DmiRequest(dr) ==
    [op |-> Op(dr), reg |-> IF Address(dr) = 0 THEN "data" ELSE "reserved", i |-> 1, val |-> Data(dr)]
\* update_dr: the DMI register keeps what was scanned, a read's value in it.
Updated(t, r) ==
    [t EXCEPT !.dmi = Dbus(Address(t.dr), IF Op(t.dr) = 1 /\ r.ok THEN r.val ELSE Data(t.dr),
                           IF r.ok THEN 0 ELSE 2)]
Updates(t, p) == t.tck = 0 /\ p[1] = 1 /\ TapNext[t.state][t.tms + 1] = "UPDATE_DR" /\ t.ir = IR_DBUS

set_pins(p) ==
    IF Updates(tap, p)
    THEN \E q \in {DmiRequest(tap.dr)} : \E r \in {Access(q)} :
            /\ Dmi(q, r)
            /\ tap' = Latched(Updated(PosEdge(tap), r), p)
            /\ client' = [client EXCEPT !.performed = Append(@, tap.dr)]
    ELSE tap' = Latched(Clocked(tap, p), p) /\ UNCHANGED <<client, dmVars>>

----------------------------------------------------------------------------
(* The server. *)

Pins == [c \in {"0", "1", "2", "3", "4", "5", "6", "7"} |->
    CASE c = "0" -> <<0, 0, 0>> [] c = "1" -> <<0, 0, 1>> [] c = "2" -> <<0, 1, 0>>
      [] c = "3" -> <<0, 1, 1>> [] c = "4" -> <<1, 0, 0>> [] c = "5" -> <<1, 0, 1>>
      [] c = "6" -> <<1, 1, 0>> [] c = "7" -> <<1, 1, 1>>]

accept ==
    /\ ~rb.busy /\ ~rb.client_fd /\ client.connected
    /\ rb' = [rb EXCEPT !.client_fd = TRUE]
    /\ UNCHANGED <<tap, up, down, client, dmVars>>
ExecuteCommands ==
    /\ ~rb.busy /\ rb.client_fd
    /\ rb' = [rb EXCEPT !.busy = TRUE, !.total = 0, !.quit = FALSE, !.in_rti = tap.state = "RUN_TEST_IDLE"]
    /\ UNCHANGED <<tap, up, down, client, dmVars>>

\* One turn of the inner loop; what it has to send is written when the
\* characters run out or the TAP enters RUN_TEST_IDLE.
Answer(c) == IF c = "R" THEN <<tap.tdo>> ELSE <<>>
\* Mutant: a batch that stops at RUN_TEST_IDLE drops what it had received.
EndOfTurnDrops(c, rest, entered) ==
    LET send == rb.send \o Answer(c)
        quit == rb.quit \/ c = "Q"
        flush == entered \/ rest = <<>> IN
    /\ down' = IF flush THEN down \o send ELSE down
    /\ rb' = [rb EXCEPT !.recv = IF entered THEN <<>> ELSE rest, !.send = IF flush THEN <<>> ELSE send,
                        !.quit = quit, !.total = rb.total + 1, !.in_rti = FALSE,
                        !.busy = ~(flush /\ (rb.total + 1 > buf_size \/ quit \/ entered))]
EndOfTurn(c, rest, entered) ==
    LET send == rb.send \o Answer(c)
        quit == rb.quit \/ c = "Q"
        flush == entered \/ rest = <<>> IN
    /\ down' = IF flush THEN down \o send ELSE down
    /\ rb' = [rb EXCEPT !.recv = rest, !.send = IF flush THEN <<>> ELSE send, !.quit = quit,
                        !.total = rb.total + 1, !.in_rti = FALSE,
                        !.busy = ~(flush /\ (rb.total + 1 > buf_size \/ quit \/ entered))]
Character(c, rest) ==
    /\ CASE c \in DOMAIN Pins -> set_pins(Pins[c])
         [] c = "r" -> tap' = [tap EXCEPT !.state = "TEST_LOGIC_RESET"] /\ UNCHANGED <<client, dmVars>>
         [] OTHER -> UNCHANGED <<tap, client, dmVars>>
    /\ EndOfTurn(c, rest, ~rb.in_rti /\ tap'.state = "RUN_TEST_IDLE")
    /\ UNCHANGED up
Turn == rb.busy /\ rb.recv # <<>> /\ Character(Head(rb.recv), Tail(rb.recv))
ReadSocket ==
    /\ rb.busy /\ rb.recv = <<>> /\ up # <<>>
    /\ \E k \in 1 .. Min({buf_size, Len(up)}) :
          rb' = [rb EXCEPT !.recv = SubSeq(up, 1, k)] /\ up' = SubSeq(up, k + 1, Len(up))
    /\ UNCHANGED <<tap, down, client, dmVars>>
\* EAGAIN, or the client has gone: its socket is closed.
ReadNothing ==
    /\ rb.busy /\ rb.recv = <<>> /\ up = <<>>
    /\ rb' = [rb EXCEPT !.busy = FALSE, !.client_fd = client.connected]
    /\ UNCHANGED <<tap, up, down, client, dmVars>>

----------------------------------------------------------------------------
(* The client (external): one scan at a time, some paused half way. *)

PinChar(tck, tms, tdi) == CHOOSE c \in DOMAIN Pins : Pins[c] = <<tck, tms, tdi>>
Clk(tms) == <<PinChar(0, tms, 0), PinChar(1, tms, 0)>>
ShiftBit(tms, tdi) == <<PinChar(0, tms, tdi), "R", PinChar(1, tms, tdi)>>
Bit(v, i) == (v \div Pow2[i]) % 2
Bits(v, length, pause) ==
    FlattenSeq([i \in 1 .. length |->
        IF i = pause THEN ShiftBit(1, Bit(v, i)) \o Clk(0) \o Clk(1) \o Clk(0)
        ELSE ShiftBit(IF i = length THEN 1 ELSE 0, Bit(v, i))])
DrScan(v, pause) == Clk(1) \o Clk(0) \o Clk(0) \o Bits(v, DmiLength, pause) \o Clk(1) \o Clk(0)
IrScan(v) == Clk(1) \o Clk(1) \o Clk(0) \o Clk(0) \o Bits(v, ir_length, 0) \o Clk(1) \o Clk(0)
\* Reset by five clocks of tms, or by the server's r command and idle clocks.
Open == {Clk(1) \o Clk(1) \o Clk(1) \o Clk(1) \o Clk(1) \o Clk(0) \o IrScan(IR_DBUS),
         <<"B", "r", "b">> \o Clk(0) \o Clk(0) \o Clk(0) \o IrScan(IR_DBUS)}

Connect ==
    /\ ~client.connected /\ ~rb.client_fd /\ up = <<>>
    /\ Len(client.scans) < MaxScans
    /\ \E s \in Open : up' = s
    /\ client' = [client EXCEPT !.connected = TRUE, !.awaits = ir_length]
    /\ down' = <<>>
    /\ UNCHANGED <<tap, rb, dmVars>>
Answered == client.connected /\ Len(down) = client.awaits
\* The value of the DmiLength bits that came back.
Read(d) == d[1] + (2 * d[2]) + (4 * d[3]) + (8 * d[4]) + (16 * d[5])
Requests == {Dbus(0, 2, 2), Dbus(0, 1, 2), Dbus(0, 3, 1), Dbus(1, 0, 1), Dbus(0, 3, 0)}
ClientScan ==
    /\ Answered /\ up = <<>> /\ Len(client.scans) < MaxScans
    /\ \E v \in Requests, pause \in {0, 3} :
          /\ up' = DrScan(v, pause)
          /\ client' = [client EXCEPT !.scans = Append(@, v), !.awaits = DmiLength,
                           !.results = IF client.awaits = DmiLength THEN Append(@, Read(down)) ELSE @]
    /\ down' = <<>>
    /\ UNCHANGED <<tap, rb, dmVars>>
Disconnect ==
    /\ Answered /\ up = <<>>
    /\ \E q \in {<<>>, <<"Q">>} : up' = q
    /\ client' = [client EXCEPT !.connected = FALSE,
                     !.results = IF client.awaits = DmiLength THEN Append(@, Read(down)) ELSE @]
    /\ UNCHANGED <<tap, rb, down, dmVars>>

JtagInit ==
    \* The constructor leaves ir, dr and dr_length unset.
    /\ tap \in {[tck |-> 0, tms |-> 0, tdi |-> 0, tdo |-> 0, state |-> "TEST_LOGIC_RESET",
                 ir |-> i, dr |-> 0, dr_length |-> 4, dmi |-> 0] : i \in {IR_IDCODE, IR_DBUS}}
    /\ rb = [client_fd |-> FALSE, recv |-> <<>>, send |-> <<>>, busy |-> FALSE, total |-> 0,
             quit |-> FALSE, in_rti |-> FALSE]
    /\ up = <<>> /\ down = <<>>
    /\ client = [connected |-> FALSE, awaits |-> 0, scans |-> <<>>, performed |-> <<>>, results |-> <<>>]

ServerStep == accept \/ ExecuteCommands \/ Turn \/ ReadSocket \/ ReadNothing
ClientStep == Connect \/ ClientScan \/ Disconnect

----------------------------------------------------------------------------
\* What the data register holds after the first n of the scans.
DataAfter(scans, n) ==
    LET writes == {k \in 1 .. n : Op(scans[k]) = 2 /\ Address(scans[k]) = 0} IN
    IF writes = {} THEN 0 ELSE Data(scans[Max(writes)])
Outcome(scans, n) ==
    LET s == scans[n] IN
    IF Address(s) = 1 THEN Dbus(1, Data(s), 2)
    ELSE Dbus(0, IF Op(s) = 1 THEN DataAfter(scans, n) ELSE Data(s), 0)

\* A debugger sees the debug module through this port: every DMI scan is
\* performed once and in order, and the bits read back during a scan are the
\* outcome of the scan before, however the socket cuts the characters up,
\* wherever the server stops a batch, across pauses, resets of the TAP, a
\* disconnect and a new connection.
JtagDelivers ==
    /\ IsPrefix(client.performed, client.scans)
    /\ Len(client.scans) - Len(client.performed) <= 2
    /\ \A n \in 1 .. Len(client.results) :
          client.results[n] = IF n = 1 THEN 0 ELSE Outcome(client.scans, n - 1)
====
