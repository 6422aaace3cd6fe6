-------------------------------- MODULE Htif --------------------------------
(***************************************************************************)
(* The front-end server proper (htif.cc, device.cc, syscall.cc, tsi.cc):   *)
(* the host polls tohost, hands the command to a device, and delivers the  *)
(* devices' responses through fromhost, one at a time.  Beside it the      *)
(* target programs of this repository: syscall() of benchmarks/common and  *)
(* do_tohost() of the virtual-memory environment.                          *)
(*                                                                         *)
(* Target and host take turns at every memory access of the host, as they  *)
(* do over TSI and the debug transport.  Over TSI a write is posted: it    *)
(* waits in in_data until the target's adapter takes it, and a read waits  *)
(* behind the writes before it.                                            *)
(***************************************************************************)
EXTENDS Integers, Sequences, FiniteSets

CONSTANTS
    Requests,       \* what the target's program may ask for
    MaxRequests,    \* bound: requests of a program
    MaxHostFds      \* bound: descriptors the host process may have open

\* syscall_t's table, calls that behave alike under one name; and the program
\* asks for calls that are in it: any other ends the server.
Calls == {"openat", "close", "read", "write", "path", "fstat", "lstat", "chdir", "getcwd", "sys_exit"}
ASSUME HtifAssumption ==
    /\ MaxHostFds \in Nat
    /\ \A r \in Requests : r.dev = "syscall" => r.call \in Calls
    /\ \A r \in Requests : (r.dev = "exit" \/ (r.dev = "syscall" /\ r.call = "sys_exit")) => r.code \in Nat

VARIABLES
    tmem,           \* target memory: tohost, fromhost, magic, buf
    in_data,        \* posted writes
    posted,         \* whether the transport posts writes (TSI)
    prog,           \* how the target's program talks: through syscall() or do_tohost()
    tpc, treq, issued,      \* its state and the commands it has issued
    hp, cmd, result,        \* the host's loop
    fromhost_queue, pending_reads, input,
    exitcode, signal_exit, stopped,
    fds, hostfd, cwd,       \* syscall_t's table, the host's descriptors, its directory
    handled, opened, output \* history: commands handled, what the target thinks it opened, its console

htifMem == <<tmem, in_data>>
targetVars == <<tpc, treq, issued>>
sysVars == <<fds, hostfd, cwd, opened>>
devVars == <<fromhost_queue, pending_reads, input, output>>
exitVars == <<exitcode, signal_exit, stopped>>
htifVars == <<htifMem, posted, prog, targetVars, hp, cmd, result, devVars, exitVars, sysVars, handled>>

No == [id |-> 0]
stdFds == <<0, 1, 2>>       \* dup(0), dup(1), dup(1)

HtifInit ==
    /\ tmem = [tohost |-> No, fromhost |-> No, magic |-> No, buf |-> "old"]
    /\ in_data = <<>> /\ posted \in BOOLEAN
    /\ prog \in {"syscall", "do_tohost"} /\ tpc = "program" /\ treq = No /\ issued = <<>>
    /\ hp = "loop" /\ cmd = No /\ result = [ret |-> 0, buf |-> "none"]
    /\ fromhost_queue = <<>> /\ pending_reads = <<>> /\ input = 1
    /\ exitcode = 0 /\ signal_exit = FALSE /\ stopped = FALSE
    /\ fds = stdFds /\ hostfd = [f \in 0 .. 2 |-> "tty"] /\ cwd = "jail"
    /\ handled = <<>> /\ opened = [f \in 0 .. 2 |-> "tty"] /\ output = <<>>

----------------------------------------------------------------------------
(* The target's programs. *)

\* syscall(): fills magic_mem, stores tohost and waits; exit does not wait.
TargetSyscall(r) ==
    /\ tpc = "program" /\ Len(issued) < MaxRequests /\ prog = "syscall" /\ r.dev # "putchar"
    /\ \E q \in {[id |-> Len(issued) + 1, dev |-> r.dev, req |-> r]} :
          /\ tmem' = [tmem EXCEPT !.tohost = q, !.magic = q, !.buf = "old"]
          /\ treq' = q /\ issued' = Append(issued, q.id)
    /\ tpc' = IF r.dev = "exit" THEN "exited" ELSE "wait"
    /\ UNCHANGED <<in_data, posted, prog, hp, cmd, result, devVars, exitVars, sysVars, handled>>
TargetSeesResponse ==
    /\ tpc = "wait" /\ tmem.fromhost # No
    /\ tmem' = [tmem EXCEPT !.fromhost = No]
    /\ tpc' = "program"
    /\ UNCHANGED <<in_data, posted, prog, treq, issued, hp, cmd, result, devVars, exitVars, sysVars, handled>>
\* do_tohost(): waits for the last command to be taken, clearing fromhost.
DoTohost(r) ==
    /\ tpc = "program" /\ Len(issued) < MaxRequests /\ prog = "do_tohost" /\ r.dev \in {"putchar", "exit"}
    /\ IF tmem.tohost # No
       THEN tmem' = [tmem EXCEPT !.fromhost = No] /\ UNCHANGED <<tpc, treq, issued>>
       ELSE \E q \in {[id |-> Len(issued) + 1, dev |-> r.dev, req |-> r]} :
               /\ tmem' = [tmem EXCEPT !.tohost = q]
               /\ treq' = q /\ issued' = Append(issued, q.id)
               /\ tpc' = IF r.dev = "exit" THEN "exited" ELSE "program"
    /\ UNCHANGED <<in_data, posted, prog, hp, cmd, result, devVars, exitVars, sysVars, handled>>

----------------------------------------------------------------------------
(* Access to target memory. *)

Put(m, w) == [m EXCEPT ![w.loc] = w.val]
Post(ws) ==
    IF posted THEN in_data' = in_data \o ws /\ UNCHANGED tmem
    ELSE /\ tmem' = IF Len(ws) = 2 THEN Put(Put(tmem, ws[1]), ws[2]) ELSE Put(tmem, ws[1])
         /\ UNCHANGED in_data
Readable == in_data = <<>>      \* read_chunk waits for out_data
\* The adapter (external) takes the oldest command.
Adapter ==
    /\ in_data # <<>>
    /\ tmem' = Put(tmem, in_data[1]) /\ in_data' = Tail(in_data)
    /\ UNCHANGED <<posted, prog, targetVars, hp, cmd, result, devVars, exitVars, sysVars, handled>>

----------------------------------------------------------------------------
(* htif_t::run *)

Poll ==
    /\ hp = "loop"
    /\ IF signal_exit \/ exitcode # 0 THEN hp' = "stop" /\ UNCHANGED cmd
       ELSE /\ Readable
            /\ cmd' = tmem.tohost
            /\ hp' = IF tmem.tohost # No THEN "clear" ELSE "tick"
    /\ UNCHANGED <<htifMem, posted, prog, targetVars, result, devVars, exitVars, sysVars, handled>>
ClearTohost ==
    /\ hp = "clear"
    /\ Post(<<[loc |-> "tohost", val |-> No]>>)
    /\ hp' = "handle"
    /\ UNCHANGED <<posted, prog, targetVars, cmd, result, devVars, exitVars, sysVars, handled>>

respond(q) == fromhost_queue' = Append(fromhost_queue, q)

\* handle_command.  A proxied system call goes on to dispatch; the disk and
\* identify move their data to memory before they respond.
HandleSyscall ==
    /\ hp = "handle" /\ cmd.dev = "syscall"
    /\ hp' = "dispatch" /\ handled' = Append(handled, cmd.id)
    /\ UNCHANGED <<htifMem, posted, prog, targetVars, cmd, result, devVars, exitVars, sysVars>>
HandleExit ==
    /\ hp = "handle" /\ cmd.dev = "exit"
    /\ exitcode' = (2 * cmd.req.code) + 1
    /\ hp' = "tick" /\ handled' = Append(handled, cmd.id)
    /\ UNCHANGED <<htifMem, posted, prog, targetVars, cmd, result, devVars, signal_exit, stopped, sysVars>>
\* Mutant: identify writes its answer and does not respond.
HandleDiskSilent ==
    /\ hp = "handle" /\ cmd.dev \in {"disk", "identify"} /\ Readable
    /\ Post(<<[loc |-> "buf", val |-> cmd.dev]>>)
    /\ (IF cmd.dev = "disk" THEN respond(cmd) ELSE UNCHANGED fromhost_queue)
    /\ hp' = "tick" /\ handled' = Append(handled, cmd.id)
    /\ UNCHANGED <<posted, prog, targetVars, cmd, result, pending_reads, input, output, exitVars, sysVars>>
HandleDisk ==
    /\ hp = "handle" /\ cmd.dev \in {"disk", "identify"} /\ Readable
    /\ Post(<<[loc |-> "buf", val |-> cmd.dev]>>)
    /\ respond(cmd)
    /\ hp' = "tick" /\ handled' = Append(handled, cmd.id)
    /\ UNCHANGED <<posted, prog, targetVars, cmd, result, pending_reads, input, output, exitVars, sysVars>>
HandleBcdRead ==
    /\ hp = "handle" /\ cmd.dev = "getchar"
    /\ pending_reads' = Append(pending_reads, cmd)
    /\ hp' = "tick" /\ handled' = Append(handled, cmd.id)
    /\ UNCHANGED <<htifMem, posted, prog, targetVars, cmd, result, fromhost_queue, input, output, exitVars, sysVars>>
HandleBcdWrite ==
    /\ hp = "handle" /\ cmd.dev = "putchar"
    /\ output' = Append(output, cmd.id)
    /\ hp' = "tick" /\ handled' = Append(handled, cmd.id)
    /\ UNCHANGED <<htifMem, posted, prog, targetVars, cmd, result, fromhost_queue, pending_reads, input, exitVars, sysVars>>
\* A device nobody registered answers nothing.
HandleNull ==
    /\ hp = "handle" /\ cmd.dev = "null"
    /\ hp' = "tick" /\ handled' = Append(handled, cmd.id)
    /\ UNCHANGED <<htifMem, posted, prog, targetVars, cmd, result, devVars, exitVars, sysVars>>

----------------------------------------------------------------------------
(* syscall_t: dispatch, the descriptor table and the calls. *)

Dispatch ==
    /\ hp = "dispatch" /\ Readable
    /\ hp' = tmem.magic.req.call
    /\ UNCHANGED <<htifMem, posted, prog, targetVars, cmd, result, devVars, exitVars, sysVars, handled>>

lookup(fd) == IF fd \in 0 .. Len(fds) - 1 THEN fds[fd + 1] ELSE -1
FirstFree(t) == CHOOSE i \in 1 .. Len(t) + 1 :
    (i > Len(t) \/ t[i] = -1) /\ \A j \in 1 .. i - 1 : t[j] # -1
alloc(fd, t) ==
    [i \in 1 .. (IF FirstFree(t) > Len(t) THEN Len(t) + 1 ELSE Len(t)) |-> IF i = FirstFree(t) THEN fd ELSE t[i]]
dealloc(fd, t) == [t EXCEPT ![fd + 1] = -1]
HostOpen(h) == h \in DOMAIN hostfd

\* The host's side of a path: a chroot is prefixed to absolute paths that are
\* relative to AT_FDCWD, and to no others.
do_chroot(r) == IF r.abs THEN [r EXCEPT !.dir = "jail"] ELSE [r EXCEPT !.dir = cwd]

Args == cmd.req
Result(ret, b) == result' = [ret |-> ret, buf |-> b] /\ hp' = "reply"
callVars == <<htifMem, posted, prog, targetVars, cmd, devVars, exitVars, handled>>

\* The host's openat uses the lowest free descriptor, or fails.
FreeHostFd == CHOOSE h \in 0 .. MaxHostFds : h \notin DOMAIN hostfd /\ \A g \in 0 .. h - 1 : g \in DOMAIN hostfd
sys_openat ==
    /\ hp = "openat"
    /\ \/ /\ Result(-1, "none") /\ UNCHANGED sysVars
       \/ /\ Cardinality(DOMAIN hostfd) < MaxHostFds
          /\ \E h \in {FreeHostFd}, file \in {<<do_chroot(Args).dir, Args.name>>} :
                /\ hostfd' = [x \in DOMAIN hostfd \cup {h} |-> IF x = h THEN file ELSE hostfd[x]]
                /\ fds' = alloc(h, fds)
                /\ opened' = [x \in DOMAIN opened \cup {FirstFree(fds) - 1} |->
                                IF x = FirstFree(fds) - 1 THEN file ELSE opened[x]]
          /\ Result(FirstFree(fds) - 1, "none") /\ UNCHANGED cwd
    /\ UNCHANGED callVars
\* Mutant: the slot of a closed descriptor is kept.
sys_closeKeeps ==
    /\ hp = "close"
    /\ IF HostOpen(lookup(Args.fd))
       THEN /\ hostfd' = [x \in DOMAIN hostfd \ {lookup(Args.fd)} |-> hostfd[x]]
            /\ opened' = [x \in DOMAIN opened \ {Args.fd} |-> opened[x]]
            /\ Result(0, "none") /\ UNCHANGED <<cwd, fds>>
       ELSE Result(-9, "none") /\ UNCHANGED sysVars
    /\ UNCHANGED callVars
sys_close ==
    /\ hp = "close"
    /\ IF HostOpen(lookup(Args.fd))
       THEN /\ hostfd' = [x \in DOMAIN hostfd \ {lookup(Args.fd)} |-> hostfd[x]]
            /\ fds' = dealloc(Args.fd, fds)
            /\ opened' = [x \in DOMAIN opened \ {Args.fd} |-> opened[x]]
            /\ Result(0, "none") /\ UNCHANGED cwd
       ELSE Result(-9, "none") /\ UNCHANGED sysVars
    /\ UNCHANGED callVars
\* read, pread: only a positive count writes the buffer.
sys_read ==
    /\ hp = "read"
    /\ IF HostOpen(lookup(Args.fd))
       THEN \/ Result(1, "data")
            \/ Result(0, "none")
       ELSE Result(-9, "none")
    /\ UNCHANGED <<callVars, sysVars>>
\* write, pwrite, lseek, fcntl, ftruncate, and the calls on paths.
sys_write ==
    /\ hp = "write"
    /\ Result(IF HostOpen(lookup(Args.fd)) THEN 1 ELSE -9, "none")
    /\ UNCHANGED <<callVars, sysVars>>
sys_pathcall ==
    /\ hp = "path"
    /\ \E ret \in {0, -2} : Result(ret, "none")
    /\ UNCHANGED <<callVars, sysVars>>
\* The buffer is written unless ret is -1, which is EPERM and no other error:
\* after an error the uninitialized stat goes to the target.
sys_fstat ==
    /\ hp = "fstat"
    /\ Result(IF HostOpen(lookup(Args.fd)) THEN 0 ELSE -9,
              IF HostOpen(lookup(Args.fd)) THEN "stat" ELSE "garbage")
    /\ UNCHANGED <<callVars, sysVars>>
sys_lstat ==
    /\ hp = "lstat"
    /\ (Result(0, "stat") \/ Result(-2, "garbage"))
    /\ UNCHANGED <<callVars, sysVars>>
\* chdir takes the target's path as it is.
sys_chdir ==
    /\ hp = "chdir"
    /\ cwd' = IF Args.abs THEN "root" ELSE cwd
    /\ Result(0, "none")
    /\ UNCHANGED <<callVars, fds, hostfd, opened>>
\* getcwd and getmainvars: written unless the buffer is too small (ENOMEM).
sys_getcwd ==
    /\ hp = "getcwd"
    /\ (Result(-12, "none") \/ Result(1, "text"))
    /\ UNCHANGED <<callVars, sysVars>>
sys_exit ==
    /\ hp = "sys_exit"
    /\ exitcode' = (2 * Args.code) + 1
    /\ Result(0, "none")
    /\ UNCHANGED <<htifMem, posted, prog, targetVars, cmd, devVars, signal_exit, stopped, sysVars, handled>>

\* The end of dispatch and of handle_syscall.
\* Mutant: the response is posted before the result.
ReplyEarly ==
    /\ hp = "reply"
    /\ LET m == [loc |-> "magic", val |-> [id |-> cmd.id, ret |-> result.ret]] IN
       Post(<<[loc |-> "fromhost", val |-> cmd], m>>)
    /\ hp' = "tick"
    /\ UNCHANGED <<posted, prog, targetVars, cmd, result, devVars, exitVars, sysVars, handled>>
Reply ==
    /\ hp = "reply"
    /\ LET m == [loc |-> "magic", val |-> [id |-> cmd.id, ret |-> result.ret]] IN
       Post(IF result.buf = "none" THEN <<m>> ELSE <<[loc |-> "buf", val |-> result.buf], m>>)
    /\ respond(cmd)
    /\ hp' = "tick"
    /\ UNCHANGED <<posted, prog, targetVars, cmd, result, pending_reads, input, output, exitVars, sysVars, handled>>

----------------------------------------------------------------------------
\* device_list.tick(): a character typed answers the oldest pending read.
Tick ==
    /\ hp = "tick"
    /\ IF pending_reads # <<>> /\ input > 0
       THEN respond(pending_reads[1]) /\ pending_reads' = Tail(pending_reads) /\ input' = input - 1
       ELSE UNCHANGED <<fromhost_queue, pending_reads, input>>
    /\ hp' = "check"
    /\ UNCHANGED <<htifMem, posted, prog, targetVars, cmd, result, output, exitVars, sysVars, handled>>
CheckFromhost ==
    /\ hp = "check"
    /\ fromhost_queue # <<>> => Readable
    /\ hp' = IF fromhost_queue # <<>> /\ tmem.fromhost = No THEN "deliver" ELSE "loop"
    /\ UNCHANGED <<htifMem, posted, prog, targetVars, cmd, result, devVars, exitVars, sysVars, handled>>
Deliver ==
    /\ hp = "deliver"
    /\ Post(<<[loc |-> "fromhost", val |-> fromhost_queue[1]]>>)
    /\ fromhost_queue' = Tail(fromhost_queue)
    /\ hp' = "loop"
    /\ UNCHANGED <<posted, prog, targetVars, cmd, result, pending_reads, input, output, exitVars, sysVars, handled>>
stop ==
    /\ hp = "stop"
    /\ stopped' = TRUE /\ hp' = "stopped"
    /\ UNCHANGED <<htifMem, posted, prog, targetVars, cmd, result, devVars, exitcode, signal_exit, sysVars, handled>>
\* SIGINT or SIGTERM; the second one ends the process.
handle_signal ==
    /\ hp \notin {"stopped", "dead"}
    /\ IF signal_exit THEN hp' = "dead" /\ UNCHANGED signal_exit
       ELSE signal_exit' = TRUE /\ UNCHANGED hp
    /\ UNCHANGED <<htifMem, posted, prog, targetVars, cmd, result, devVars, exitcode, stopped, sysVars, handled>>

HostStep ==
    \/ Poll \/ ClearTohost \/ HandleSyscall \/ HandleExit \/ HandleDisk \/ HandleBcdRead \/ HandleBcdWrite
    \/ HandleNull \/ Dispatch \/ sys_openat \/ sys_close \/ sys_read \/ sys_write \/ sys_pathcall \/ sys_fstat \/ sys_lstat
    \/ sys_chdir \/ sys_getcwd \/ sys_exit \/ Reply \/ Tick \/ CheckFromhost \/ Deliver \/ stop
TargetStep == (\E r \in Requests : TargetSyscall(r) \/ DoTohost(r)) \/ TargetSeesResponse

HtifNext == HostStep \/ Adapter \/ TargetStep \/ handle_signal
HtifSpec == HtifInit /\ [][HtifNext]_htifVars

----------------------------------------------------------------------------
\* Commands are handled once and in order, with at most one taken and one
\* stored behind it; and a response that the target can see is the one to the command it waits for, with the call's result and
\* data already in memory: the target reads them as soon as fromhost changes.
HtifProtocol ==
    /\ Len(handled) <= Len(issued) /\ \A i \in DOMAIN handled : handled[i] = i
    /\ Len(issued) - Len(handled) <= (IF tmem.tohost # No THEN 1 ELSE 0) + (IF hp \in {"handle", "dead"} THEN 1 ELSE 0)
    /\ tmem.fromhost # No =>
          /\ tpc = "wait" /\ tmem.fromhost.id = treq.id
          /\ treq.dev = "syscall" => "ret" \in DOMAIN tmem.magic /\ tmem.magic.id = treq.id
          /\ (treq.dev = "syscall" /\ treq.req.call \in {"read", "fstat"}) =>
                (tmem.magic.ret > 0 => tmem.buf # "old")
    /\ \A i, j \in DOMAIN output : i < j => output[i] < output[j]

\* A descriptor of the target leads to the file it was opened on, for as long
\* as it is open: slots of the table and descriptors of the host are both
\* reused, and fail and close in any order.
FdsFollow ==
    hp # "reply" =>
        /\ \A fd \in DOMAIN opened : HostOpen(lookup(fd)) /\ hostfd[lookup(fd)] = opened[fd]
        /\ \A i \in 1 .. Len(fds) : fds[i] # -1 => (i - 1) \in DOMAIN opened
        /\ \A i, j \in 1 .. Len(fds) : i # j /\ fds[i] # -1 => fds[i] # fds[j]
====
