----------------------------- MODULE HtifProofs -----------------------------
(***************************************************************************)
(* That the host-target interface keeps its protocol, whatever the target  *)
(* asks for, however many requests it makes, and whether or not the        *)
(* transport posts its writes; and that the descriptors of the proxied     *)
(* system calls lead to the files they were opened on.  Then that accesses *)
(* to memory are exact and that the contexts take turns (MCHtif's          *)
(* AccessExact): the three parts share no variable.                        *)
(***************************************************************************)
EXTENDS MCHtif, FiniteSetTheorems, SequenceTheorems, WellFoundedInduction, TLAPS

Commands == {c \in [id : Nat \ {0}, dev : {r.dev : r \in Requests}, req : Requests] : c.dev = c.req.dev}
Returns == [id : Nat, ret : Int]
Buffers == {"disk", "identify", "data", "stat", "garbage", "text"}
PostedWrites == [loc : {"tohost"}, val : {No}] \cup [loc : {"fromhost"}, val : Commands]
                    \cup [loc : {"magic"}, val : Returns] \cup [loc : {"buf"}, val : Buffers]
HostPcs == Calls \cup {"loop", "clear", "handle", "dispatch", "reply", "tick", "check", "deliver",
                       "stop", "stopped", "dead"}

HtifTypeOK ==
    /\ tmem \in [tohost : {No} \cup Commands, fromhost : {No} \cup Commands,
                 magic : {No} \cup Commands \cup Returns, buf : {"old"} \cup Buffers]
    /\ in_data \in Seq(PostedWrites)
    /\ posted \in BOOLEAN /\ prog \in {"syscall", "do_tohost"}
    /\ tpc \in {"program", "wait", "exited"}
    /\ treq \in {No} \cup Commands /\ issued \in Seq(Nat)
    /\ hp \in HostPcs /\ cmd \in {No} \cup Commands
    /\ result \in [ret : Int, buf : {"none"} \cup Buffers]
    /\ fromhost_queue \in Seq(Commands) /\ pending_reads \in Seq(Commands) /\ input \in Nat
    /\ handled \in Seq(Nat) /\ output \in Seq(Nat)
    /\ exitcode \in Nat

\* A write to tohost on its way to the target, which is the one that clears
\* it; and a response on its way.
Clearing == in_data # <<>> /\ in_data[1].loc = "tohost"
Sent == in_data # <<>> /\ in_data[1].loc = "fromhost"
\* Commands in tohost that the host has not seen.
Waiting == IF tmem.tohost # No /\ ~Clearing THEN 1 ELSE 0

\* Commands are numbered, and what has been issued has been handled, is about
\* to be, or waits in tohost.
OrderInv ==
    /\ \A i \in DOMAIN handled : handled[i] = i
    /\ treq.id = Len(issued)
    /\ tmem.tohost # No => tmem.tohost.id = Len(issued)
    /\ Clearing => tmem.tohost # No
    /\ hp = "clear" => cmd = tmem.tohost /\ cmd # No /\ in_data = <<>>
    /\ hp = "handle" => cmd # No /\ cmd.id = Len(handled) + 1
    /\ hp = "handle" => Len(issued) = Len(handled) + Waiting + 1
    /\ hp = "dead" => Len(issued) \in {Len(handled) + Waiting, Len(handled) + Waiting + 1}
    /\ hp \notin {"handle", "dead"} => Len(issued) = Len(handled) + Waiting
    /\ \A i \in DOMAIN output : output[i] \in 1 .. Len(handled)
    /\ \A i, j \in DOMAIN output : i < j => output[i] < output[j]

\* What the posted writes may be.
WiresInv ==
    /\ Len(in_data) <= 2
    /\ Len(in_data) = 2 => in_data[1].loc = "buf" /\ in_data[2].loc = "magic"
    /\ in_data # <<>> /\ in_data[1].loc \in {"buf", "magic"} => fromhost_queue # <<>>
    /\ hp \in {"reply", "deliver"} \cup Calls => in_data = <<>>

Busy == hp \in {"dispatch", "reply"} \cup Calls
Answering == fromhost_queue # <<>> \/ pending_reads # <<>> \/ Sent \/ tmem.fromhost # No

\* The program that waits has one request, which is in one place.
AnswerInv ==
    /\ prog = "syscall" =>
          /\ tpc = "program" => in_data = <<>> /\ tmem.tohost = No /\ Len(handled) = Len(issued)
          /\ tpc = "wait" => treq # No /\ treq.dev \notin {"exit", "putchar"}
          /\ tpc = "exited" => treq.dev = "exit"
          /\ tmem.tohost # No => tmem.tohost = treq
          /\ hp \in {"clear", "handle"} => cmd = treq
    /\ prog = "do_tohost" =>
          /\ tpc # "wait"
          /\ tmem.tohost # No => tmem.tohost.dev \in {"exit", "putchar"}
          /\ hp \in {"clear", "handle"} => cmd.dev \in {"exit", "putchar"}
    /\ Busy \/ Answering => tpc = "wait" /\ Len(handled) = Len(issued)
    /\ Busy => ~Answering /\ cmd = treq /\ cmd.dev = "syscall"
    /\ fromhost_queue # <<>> =>
          Len(fromhost_queue) = 1 /\ fromhost_queue[1] = treq /\ pending_reads = <<>> /\ ~Sent /\ tmem.fromhost = No
    /\ pending_reads # <<>> =>
          Len(pending_reads) = 1 /\ pending_reads[1] = treq /\ treq.dev = "getchar" /\ ~Sent /\ tmem.fromhost = No
    /\ Sent => in_data[1].val = treq /\ tmem.fromhost = No
    /\ tmem.fromhost # No => tmem.fromhost = treq /\ in_data = <<>>
    /\ hp = "deliver" => fromhost_queue # <<>>

\* magic_mem: the request until the host replies, and the reply when the
\* posted writes have arrived.
Replied(magic, filled) ==
    /\ magic \in Returns /\ magic.id = treq.id
    /\ treq.req.call \in {"read", "fstat"} => (magic.ret > 0 => filled)
DataInv ==
    prog = "syscall" /\ tpc = "wait" /\ treq.dev = "syscall" =>
        /\ Len(handled) # Len(issued) \/ Busy => tmem.magic = treq
        /\ hp \in Calls => hp = treq.req.call
        /\ hp = "reply" /\ treq.req.call \in {"read", "fstat"} =>
              (result.ret > 0 => result.buf # "none")
        /\ Answering =>
              /\ Len(in_data) = 2 => Replied(in_data[2].val, TRUE)
              /\ Len(in_data) = 1 /\ in_data[1].loc = "magic" => Replied(in_data[1].val, tmem.buf # "old")
              /\ Len(in_data) = 0 \/ (Len(in_data) = 1 /\ in_data[1].loc # "magic") => Replied(tmem.magic, tmem.buf # "old")

\* A slot in use leads to a descriptor of the host's, which is the target's
\* file and no other slot's.
FdsInv ==
    /\ fds \in Seq(Int) /\ DOMAIN hostfd \subseteq Nat /\ IsFiniteSet(DOMAIN hostfd)
    /\ \A i \in 1 .. Len(fds) : fds[i] # -1 <=> (i - 1) \in DOMAIN opened
    /\ \A fd \in DOMAIN opened : fd \in Nat /\ fd + 1 \in 1 .. Len(fds)
    /\ \A fd \in DOMAIN opened : fds[fd + 1] \in DOMAIN hostfd /\ hostfd[fds[fd + 1]] = opened[fd]
    /\ \A i, j \in 1 .. Len(fds) : i # j /\ fds[i] # -1 => fds[i] # fds[j]


----------------------------------------------------------------------------
(* Sequences, and writes to target memory. *)

\* The lengths a queue of at most two can have.
LEMMA Short == ASSUME NEW n
               PROVE  /\ n \in {0, 1} => n <= 2 /\ n # 2
                      /\ n = 2 => n <= 2 /\ n \notin {0, 1}
                      /\ n \in Nat /\ n >= 1 /\ n <= 2 => n \in {1, 2}
  OBVIOUS
\* A sequence is empty exactly when its length is zero.
LEMMA NoElements == ASSUME NEW S, NEW s \in Seq(S)
                  PROVE  s = <<>> <=> Len(s) = 0
  OBVIOUS

\* What appending adds to a queue.
LEMMA Singles ==
  ASSUME NEW S, NEW s \in Seq(S), NEW x \in S
  PROVE  /\ Append(s, x) \in Seq(S) /\ Append(s, x) # <<>> /\ Len(Append(s, x)) = Len(s) + 1
         /\ Append(s, x)[Len(s) + 1] = x
         /\ \A i \in 1 .. Len(s) : Append(s, x)[i] = s[i]
         /\ DOMAIN s = 1 .. Len(s) /\ DOMAIN Append(s, x) = 1 .. (Len(s) + 1)
  OBVIOUS
\* What taking the first element leaves of a queue of one or two.
LEMMA Tails ==
  ASSUME NEW S, NEW s \in Seq(S), s # <<>>
  PROVE  /\ Tail(s) \in Seq(S) /\ Len(s) >= 1 /\ s[1] \in S
         /\ Len(s) = 1 => Tail(s) = <<>>
         /\ Len(s) = 2 => Len(Tail(s)) = 1 /\ Tail(s) # <<>> /\ Tail(s)[1] = s[2] /\ s[2] \in S
  <1>1. /\ Tail(s) \in Seq(S) /\ Len(Tail(s)) = Len(s) - 1
        /\ \A i \in 1 .. Len(Tail(s)) : Tail(s)[i] = s[i + 1]
    BY HeadTailProperties
  <1>2. Len(s) >= 1 /\ s[1] \in S /\ (Len(s) >= 2 => s[2] \in S)
    OBVIOUS
  <1>3. Tail(s) = <<>> <=> Len(Tail(s)) = 0
    BY <1>1, NoElements
  <1> QED BY <1>1, <1>2, <1>3

Memories == [tohost : {No} \cup Commands, fromhost : {No} \cup Commands,
             magic : {No} \cup Commands \cup Returns, buf : {"old"} \cup Buffers]
\* A write changes its own location of target memory and keeps the others.
LEMMA PutIs ==
  ASSUME NEW m \in Memories, NEW w \in PostedWrites
  PROVE  /\ Put(m, w) \in Memories
         /\ Put(m, w).tohost = IF w.loc = "tohost" THEN w.val ELSE m.tohost
         /\ Put(m, w).fromhost = IF w.loc = "fromhost" THEN w.val ELSE m.fromhost
         /\ Put(m, w).magic = IF w.loc = "magic" THEN w.val ELSE m.magic
         /\ Put(m, w).buf = IF w.loc = "buf" THEN w.val ELSE m.buf
  BY DEF Put, Memories, PostedWrites

\* With the wires empty, a write is performed or it is alone on its way.
LEMMA PostOne ==
  ASSUME tmem \in Memories, in_data = <<>>, NEW w \in PostedWrites, Post(<<w>>), posted \in BOOLEAN
  PROVE  /\ tmem' \in Memories /\ in_data' \in Seq(PostedWrites)
         /\ \/ /\ in_data' # <<>> /\ Len(in_data') = 1 /\ in_data'[1] = w /\ tmem' = tmem
            \/ in_data' = <<>> /\ tmem' = Put(tmem, w)
  <1>1. CASE posted
    <2>1. in_data' = <<>> \o <<w>> /\ tmem' = tmem
      BY <1>1 DEF Post
    <2>2. <<w>> \in Seq(PostedWrites)
      OBVIOUS
    <2>3. in_data' = <<w>>
      BY <2>1, <2>2, ConcatEmptySeq
    <2> QED BY <2>1, <2>2, <2>3
  <1>2. CASE ~posted
    BY <1>2, PutIs DEF Post
  <1> QED BY <1>1, <1>2
\* With the wires empty, two writes are both performed or both on their way, in order.
LEMMA PostTwo ==
  ASSUME tmem \in Memories, in_data = <<>>, posted \in BOOLEAN,
         NEW b \in PostedWrites, NEW w \in PostedWrites, Post(<<b, w>>)
  PROVE  /\ tmem' \in Memories /\ in_data' \in Seq(PostedWrites)
         /\ \/ /\ in_data' # <<>> /\ Len(in_data') = 2 /\ in_data'[1] = b /\ in_data'[2] = w /\ tmem' = tmem
            \/ in_data' = <<>> /\ tmem' = Put(Put(tmem, b), w)
  <1>1. CASE posted
    <2>1. in_data' = <<>> \o <<b, w>> /\ tmem' = tmem
      BY <1>1 DEF Post
    <2>2. <<b, w>> \in Seq(PostedWrites)
      OBVIOUS
    <2>3. in_data' = <<b, w>>
      BY <2>1, <2>2, ConcatEmptySeq
    <2> QED BY <2>1, <2>2, <2>3
  <1>2. CASE ~posted
    BY <1>2, PutIs DEF Post
  <1> QED BY <1>1, <1>2

----------------------------------------------------------------------------
(* The steps of the server, the adapter and the target. *)

ServerInv == HtifTypeOK /\ OrderInv /\ WiresInv /\ AnswerInv /\ DataInv

\* A command is not the empty one: its number is at least one.
LEMMA CommandsAre ==
  /\ No.id = 0
  /\ \A c \in Commands : c # No /\ c.id \in Nat /\ c.id >= 1 /\ c.req \in Requests
  BY DEF No, Commands
\* What a command asks for agrees with the device it names.
LEMMA RequestsAre ==
  ASSUME NEW c \in Commands
  PROVE  /\ c.dev = c.req.dev /\ (c.dev = "syscall" => c.req.call \in Calls)
         /\ (c.dev = "exit" \/ (c.dev = "syscall" /\ c.req.call = "sys_exit")) => c.req.code \in Nat
  BY HtifAssumption DEF Commands

\* A command handled is the next one.
LEMMA HandledNext ==
  ASSUME ServerInv, hp = "handle", handled' = Append(handled, cmd.id)
  PROVE  /\ handled' \in Seq(Nat) /\ Len(handled') = Len(handled) + 1
         /\ \A i \in DOMAIN handled' : handled'[i] = i
         /\ cmd \in Commands /\ cmd.id = Len(handled) + 1
         /\ Len(handled) \in Nat /\ Len(issued) \in Nat
         /\ \A i \in DOMAIN output : output[i] \in 1 .. Len(handled')
  <1> USE CommandsAre DEF ServerInv, HtifTypeOK, OrderInv
  <1>1. cmd \in Commands /\ cmd.id = Len(handled) + 1
    OBVIOUS
  <1>2. cmd.id \in Nat
    BY <1>1
  <1>3. /\ handled' \in Seq(Nat) /\ Len(handled') = Len(handled) + 1 /\ DOMAIN handled' = 1 .. (Len(handled) + 1)
        /\ handled'[Len(handled) + 1] = cmd.id /\ Len(handled) \in Nat /\ DOMAIN handled = 1 .. Len(handled)
        /\ \A i \in 1 .. Len(handled) : handled'[i] = handled[i]
    BY <1>2, Singles
  <1>4. \A i \in DOMAIN handled' : handled'[i] = i
    BY <1>1, <1>3
  <1>5. Len(issued) \in Nat /\ \A i \in DOMAIN output : output[i] \in 1 .. Len(handled')
    BY <1>3
  <1> QED BY <1>1, <1>3, <1>4, <1>5

\* A system call that does not end the program: it yields a result.
CallStep ==
    /\ hp \in Calls /\ hp' = "reply"
    /\ result' \in [ret : Int, buf : {"none"} \cup Buffers]
    /\ hp \in {"read", "fstat"} => (result'.ret > 0 => result'.buf # "none")
    /\ exitcode' \in Nat
    /\ UNCHANGED <<htifMem, posted, prog, targetVars, cmd, devVars, handled>>

\* The loop reads tohost and keeps what it found.
LEMMA PollInv ==
  ASSUME ServerInv, Poll
  PROVE  ServerInv'
  <1> USE CommandsAre DEF ServerInv
  <1>1. HtifTypeOK'
    BY DEF HtifTypeOK, HostPcs, Calls, Memories, Poll, Readable, htifMem, targetVars, devVars, exitVars, sysVars
  <1>2. OrderInv'
    BY DEF HtifTypeOK, OrderInv, Waiting, Clearing, Calls, WiresInv, Poll, Readable, htifMem, targetVars, devVars, exitVars, sysVars
  <1>3. WiresInv'
    BY DEF HtifTypeOK, WiresInv, AnswerInv, Answering, Busy, Calls, Poll, Readable, htifMem, targetVars, devVars, exitVars, sysVars
  <1>4. AnswerInv'
    BY DEF HtifTypeOK, OrderInv, WiresInv, AnswerInv, Busy, Answering, Sent, Clearing, Waiting, Calls, Poll, Readable, htifMem, targetVars, devVars, exitVars, sysVars
  <1>5. DataInv'
    BY DEF HtifTypeOK, OrderInv, WiresInv, AnswerInv, DataInv, Replied, Busy, Answering, Sent, Clearing, Waiting, Calls, Poll, Readable, htifMem, targetVars, devVars, exitVars, sysVars
  <1> QED BY <1>1, <1>2, <1>3, <1>4, <1>5

\* An answer waits until the target has taken the last one.
LEMMA CheckFromhostInv ==
  ASSUME ServerInv, CheckFromhost
  PROVE  ServerInv'
  <1> USE CommandsAre DEF ServerInv
  <1>1. HtifTypeOK'
    BY DEF HtifTypeOK, HostPcs, Calls, Memories, CheckFromhost, Readable, htifMem, targetVars, devVars, exitVars, sysVars
  <1>2. OrderInv'
    BY DEF HtifTypeOK, OrderInv, Waiting, Clearing, Calls, WiresInv, CheckFromhost, Readable, htifMem, targetVars, devVars, exitVars, sysVars
  <1>3. WiresInv'
    BY DEF HtifTypeOK, WiresInv, AnswerInv, Answering, Busy, Calls, CheckFromhost, Readable, htifMem, targetVars, devVars, exitVars, sysVars
  <1>4. AnswerInv'
    BY DEF HtifTypeOK, OrderInv, WiresInv, AnswerInv, Busy, Answering, Sent, Clearing, Waiting, Calls, CheckFromhost, Readable, htifMem, targetVars, devVars, exitVars, sysVars
  <1>5. DataInv'
    BY DEF HtifTypeOK, OrderInv, WiresInv, AnswerInv, DataInv, Replied, Busy, Answering, Sent, Clearing, Waiting, Calls, CheckFromhost, Readable, htifMem, targetVars, devVars, exitVars, sysVars
  <1> QED BY <1>1, <1>2, <1>3, <1>4, <1>5

\* After its loop the server stops.
LEMMA stopInv ==
  ASSUME ServerInv, stop
  PROVE  ServerInv'
  <1> USE CommandsAre DEF ServerInv
  <1>1. HtifTypeOK'
    BY DEF HtifTypeOK, HostPcs, Calls, Memories, stop, Readable, htifMem, targetVars, devVars, exitVars, sysVars
  <1>2. OrderInv'
    BY DEF HtifTypeOK, OrderInv, Waiting, Clearing, Calls, WiresInv, stop, Readable, htifMem, targetVars, devVars, exitVars, sysVars
  <1>3. WiresInv'
    BY DEF HtifTypeOK, WiresInv, AnswerInv, Answering, Busy, Calls, stop, Readable, htifMem, targetVars, devVars, exitVars, sysVars
  <1>4. AnswerInv'
    BY DEF HtifTypeOK, OrderInv, WiresInv, AnswerInv, Busy, Answering, Sent, Clearing, Waiting, Calls, stop, Readable, htifMem, targetVars, devVars, exitVars, sysVars
  <1>5. DataInv'
    BY DEF HtifTypeOK, OrderInv, WiresInv, AnswerInv, DataInv, Replied, Busy, Answering, Sent, Clearing, Waiting, Calls, stop, Readable, htifMem, targetVars, devVars, exitVars, sysVars
  <1> QED BY <1>1, <1>2, <1>3, <1>4, <1>5

\* A signal changes only how the run ends.
LEMMA handle_signalInv ==
  ASSUME ServerInv, handle_signal
  PROVE  ServerInv'
  <1> USE CommandsAre DEF ServerInv
  <1>1. HtifTypeOK'
    BY DEF HtifTypeOK, HostPcs, Calls, Memories, handle_signal, Readable, htifMem, targetVars, devVars, exitVars, sysVars
  <1>2. OrderInv'
    BY DEF HtifTypeOK, OrderInv, Waiting, Clearing, Calls, WiresInv, handle_signal, Readable, htifMem, targetVars, devVars, exitVars, sysVars
  <1>3. WiresInv'
    BY DEF HtifTypeOK, WiresInv, AnswerInv, Answering, Busy, Calls, handle_signal, Readable, htifMem, targetVars, devVars, exitVars, sysVars
  <1>4. AnswerInv'
    BY DEF HtifTypeOK, OrderInv, WiresInv, AnswerInv, Busy, Answering, Sent, Clearing, Waiting, Calls, handle_signal, Readable, htifMem, targetVars, devVars, exitVars, sysVars
  <1>5. DataInv'
    BY DEF HtifTypeOK, OrderInv, WiresInv, AnswerInv, DataInv, Replied, Busy, Answering, Sent, Clearing, Waiting, Calls, handle_signal, Readable, htifMem, targetVars, devVars, exitVars, sysVars
  <1> QED BY <1>1, <1>2, <1>3, <1>4, <1>5

\* A system call sets the result or the exit code, and goes on.
LEMMA CallStepInv ==
  ASSUME ServerInv, CallStep
  PROVE  ServerInv'
  <1> USE CommandsAre DEF ServerInv
  <1>1. HtifTypeOK'
    BY DEF HtifTypeOK, HostPcs, Calls, Memories, CallStep, Readable, htifMem, targetVars, devVars, exitVars, sysVars
  <1>2. OrderInv'
    BY DEF HtifTypeOK, OrderInv, Waiting, Clearing, Calls, WiresInv, CallStep, Readable, htifMem, targetVars, devVars, exitVars, sysVars
  <1>3. WiresInv'
    BY DEF HtifTypeOK, WiresInv, AnswerInv, Answering, Busy, Calls, CallStep, Readable, htifMem, targetVars, devVars, exitVars, sysVars
  <1>4. AnswerInv'
    BY DEF HtifTypeOK, OrderInv, WiresInv, AnswerInv, Busy, Answering, Sent, Clearing, Waiting, Calls, CallStep, Readable, htifMem, targetVars, devVars, exitVars, sysVars
  <1>5. DataInv'
    BY DEF HtifTypeOK, OrderInv, WiresInv, AnswerInv, DataInv, Replied, Busy, Answering, Sent, Clearing, Waiting, Calls, CallStep, Readable, htifMem, targetVars, devVars, exitVars, sysVars
  <1> QED BY <1>1, <1>2, <1>3, <1>4, <1>5

\* A command for no device counts as handled and is not answered.
LEMMA HandleNullInv ==
  ASSUME ServerInv, HandleNull
  PROVE  ServerInv'
  <1> USE CommandsAre DEF ServerInv
  <1>h. /\ handled' \in Seq(Nat) /\ Len(handled') = Len(handled) + 1
        /\ \A i \in DOMAIN handled' : handled'[i] = i
        /\ cmd \in Commands /\ cmd.id = Len(handled) + 1
        /\ Len(handled) \in Nat /\ Len(issued) \in Nat
        /\ \A i \in DOMAIN output : output[i] \in 1 .. Len(handled')
    BY HandledNext DEF HandleNull
  <1>1. HtifTypeOK'
    BY <1>h DEF HtifTypeOK, HostPcs, Calls, Memories, HandleNull, Readable, htifMem, targetVars, devVars, exitVars, sysVars
  <1>2. OrderInv'
    <2>1. /\ Waiting' = Waiting /\ Clearing' = Clearing /\ hp = "handle" /\ hp' \in {"dispatch", "tick"}
          /\ UNCHANGED <<treq, tmem, in_data, issued, output>> /\ Waiting \in {0, 1}
      BY DEF HandleNull, Waiting, Clearing, htifMem, targetVars, devVars
    <2>2. Len(issued) = Len(handled') + Waiting
      BY <1>h, <2>1 DEF OrderInv
    <2> QED BY <1>h, <2>1, <2>2 DEF OrderInv
  <1>3. WiresInv'
    BY <1>h DEF HtifTypeOK, WiresInv, AnswerInv, Answering, Busy, Calls, HandleNull, Readable, htifMem, targetVars, devVars, exitVars, sysVars
  <1>4. AnswerInv'
    BY <1>h DEF HtifTypeOK, OrderInv, WiresInv, AnswerInv, Busy, Answering, Sent, Clearing, Waiting, Calls, HandleNull, Readable, htifMem, targetVars, devVars, exitVars, sysVars
  <1>5. DataInv'
    BY <1>h DEF HtifTypeOK, OrderInv, WiresInv, AnswerInv, DataInv, Replied, Busy, Answering, Sent, Clearing, Waiting, Calls, HandleNull, Readable, htifMem, targetVars, devVars, exitVars, sysVars
  <1> QED BY <1>1, <1>2, <1>3, <1>4, <1>5

\* A system call is dispatched from the command in hand.
LEMMA HandleSyscallInv ==
  ASSUME ServerInv, HandleSyscall
  PROVE  ServerInv'
  <1> USE CommandsAre DEF ServerInv
  <1>h. /\ handled' \in Seq(Nat) /\ Len(handled') = Len(handled) + 1
        /\ \A i \in DOMAIN handled' : handled'[i] = i
        /\ cmd \in Commands /\ cmd.id = Len(handled) + 1
        /\ Len(handled) \in Nat /\ Len(issued) \in Nat
        /\ \A i \in DOMAIN output : output[i] \in 1 .. Len(handled')
    BY HandledNext DEF HandleSyscall
  <1>1. HtifTypeOK'
    BY <1>h DEF HtifTypeOK, HostPcs, Calls, Memories, HandleSyscall, Readable, htifMem, targetVars, devVars, exitVars, sysVars
  <1>2. OrderInv'
    <2>1. /\ Waiting' = Waiting /\ Clearing' = Clearing /\ hp = "handle" /\ hp' \in {"dispatch", "tick"}
          /\ UNCHANGED <<treq, tmem, in_data, issued, output>> /\ Waiting \in {0, 1}
      BY DEF HandleSyscall, Waiting, Clearing, htifMem, targetVars, devVars
    <2>2. Len(issued) = Len(handled') + Waiting
      BY <1>h, <2>1 DEF OrderInv
    <2> QED BY <1>h, <2>1, <2>2 DEF OrderInv
  <1>3. WiresInv'
    BY <1>h DEF HtifTypeOK, WiresInv, AnswerInv, Answering, Busy, Calls, HandleSyscall, Readable, htifMem, targetVars, devVars, exitVars, sysVars
  <1>4. AnswerInv'
    <2>1. prog = "syscall" /\ cmd = treq /\ tpc = "wait" /\ ~Answering /\ ~Busy
      BY <1>h DEF HandleSyscall, AnswerInv, OrderInv, HtifTypeOK, Busy, Calls
    <2>2. Len(handled') = Len(issued)
      BY <1>h, <2>1 DEF OrderInv
    <2>3. /\ UNCHANGED <<prog, treq, tpc, issued, cmd, tmem, in_data, fromhost_queue>>
          /\ tmem.fromhost = No /\ ~Sent /\ fromhost_queue = <<>> /\ pending_reads = <<>>
      BY <2>1 DEF HandleSyscall, htifMem, targetVars, devVars, Answering
    <2> QED BY <1>h, <2>1, <2>2, <2>3 DEF HandleSyscall, devVars, AnswerInv, Answering, Sent, Busy, Calls
  <1>5. DataInv'
    BY <1>h DEF HtifTypeOK, OrderInv, WiresInv, AnswerInv, DataInv, Replied, Busy, Answering, Sent, Clearing, Waiting, Calls, HandleSyscall, Readable, htifMem, targetVars, devVars, exitVars, sysVars
  <1> QED BY <1>1, <1>2, <1>3, <1>4, <1>5

\* An exit command sets the exit code, its low bit set.
LEMMA HandleExitInv ==
  ASSUME ServerInv, HandleExit
  PROVE  ServerInv'
  <1> USE CommandsAre DEF ServerInv
  <1>h. /\ handled' \in Seq(Nat) /\ Len(handled') = Len(handled) + 1
        /\ \A i \in DOMAIN handled' : handled'[i] = i
        /\ cmd \in Commands /\ cmd.id = Len(handled) + 1
        /\ Len(handled) \in Nat /\ Len(issued) \in Nat
        /\ \A i \in DOMAIN output : output[i] \in 1 .. Len(handled')
    BY HandledNext DEF HandleExit
  <1>e. exitcode' \in Nat
    BY <1>h, RequestsAre DEF HandleExit
  <1>1. HtifTypeOK'
    BY <1>h, <1>e DEF HtifTypeOK, HostPcs, Calls, Memories, HandleExit, Readable, htifMem, targetVars, devVars, exitVars, sysVars
  <1>2. OrderInv'
    <2>1. /\ Waiting' = Waiting /\ Clearing' = Clearing /\ hp = "handle" /\ hp' \in {"dispatch", "tick"}
          /\ UNCHANGED <<treq, tmem, in_data, issued, output>> /\ Waiting \in {0, 1}
      BY DEF HandleExit, Waiting, Clearing, htifMem, targetVars, devVars
    <2>2. Len(issued) = Len(handled') + Waiting
      BY <1>h, <2>1 DEF OrderInv
    <2> QED BY <1>h, <2>1, <2>2 DEF OrderInv
  <1>3. WiresInv'
    BY <1>h, <1>e DEF HtifTypeOK, WiresInv, AnswerInv, Answering, Busy, Calls, HandleExit, Readable, htifMem, targetVars, devVars, exitVars, sysVars
  <1>4. AnswerInv'
    BY <1>h, <1>e DEF HtifTypeOK, OrderInv, WiresInv, AnswerInv, Busy, Answering, Sent, Clearing, Waiting, Calls, HandleExit, Readable, htifMem, targetVars, devVars, exitVars, sysVars
  <1>5. DataInv'
    BY <1>h, <1>e DEF HtifTypeOK, OrderInv, WiresInv, AnswerInv, DataInv, Replied, Busy, Answering, Sent, Clearing, Waiting, Calls, HandleExit, Readable, htifMem, targetVars, devVars, exitVars, sysVars
  <1> QED BY <1>1, <1>2, <1>3, <1>4, <1>5

\* A read of the console waits in pending_reads for a character.
LEMMA HandleBcdReadInv ==
  ASSUME ServerInv, HandleBcdRead
  PROVE  ServerInv'
  <1> USE CommandsAre DEF ServerInv
  <1>h. /\ handled' \in Seq(Nat) /\ Len(handled') = Len(handled) + 1
        /\ \A i \in DOMAIN handled' : handled'[i] = i
        /\ cmd \in Commands /\ cmd.id = Len(handled) + 1
        /\ Len(handled) \in Nat /\ Len(issued) \in Nat
        /\ \A i \in DOMAIN output : output[i] \in 1 .. Len(handled')
    BY HandledNext DEF HandleBcdRead
  <1>p. /\ pending_reads' \in Seq(Commands) /\ pending_reads' # <<>>
        /\ pending_reads = <<>> => Len(pending_reads') = 1 /\ pending_reads'[1] = cmd
    <2>1. pending_reads \in Seq(Commands) /\ pending_reads' = Append(pending_reads, cmd) /\ cmd \in Commands
      BY <1>h DEF HandleBcdRead, HtifTypeOK
    <2>2. /\ pending_reads' \in Seq(Commands) /\ pending_reads' # <<>> /\ pending_reads'[Len(pending_reads) + 1] = cmd
          /\ Len(pending_reads') = Len(pending_reads) + 1
      BY <2>1, Singles
    <2>3. pending_reads = <<>> => Len(pending_reads) = 0
      OBVIOUS
    <2> QED BY <2>1, <2>2, <2>3
  <1>1. HtifTypeOK'
    BY <1>h, <1>p DEF HtifTypeOK, HostPcs, Calls, Memories, HandleBcdRead, Readable, htifMem, targetVars, devVars, exitVars, sysVars
  <1>2. OrderInv'
    <2>1. /\ Waiting' = Waiting /\ Clearing' = Clearing /\ hp = "handle" /\ hp' \in {"dispatch", "tick"}
          /\ UNCHANGED <<treq, tmem, in_data, issued, output>> /\ Waiting \in {0, 1}
      BY DEF HandleBcdRead, Waiting, Clearing, htifMem, targetVars, devVars
    <2>2. Len(issued) = Len(handled') + Waiting
      BY <1>h, <2>1 DEF OrderInv
    <2> QED BY <1>h, <2>1, <2>2 DEF OrderInv
  <1>3. WiresInv'
    BY <1>h, <1>p DEF HtifTypeOK, WiresInv, AnswerInv, Answering, Busy, Calls, HandleBcdRead, Readable, htifMem, targetVars, devVars, exitVars, sysVars
  <1>4. AnswerInv'
    <2>1. prog = "syscall" /\ cmd = treq /\ tpc = "wait" /\ ~Answering /\ ~Busy
      <3>1. hp = "handle" /\ cmd.dev = "getchar"
        BY DEF HandleBcdRead
      <3>2. Len(handled) # Len(issued)
        BY <1>h, <3>1 DEF OrderInv, HtifTypeOK, Waiting
      <3>3. prog = "syscall"
        BY <3>1 DEF AnswerInv, HtifTypeOK
      <3>4. cmd = treq
        BY <3>1, <3>3 DEF AnswerInv
      <3>5. tpc = "wait"
        BY <3>1, <3>2, <3>3, <3>4 DEF AnswerInv, HtifTypeOK
      <3> QED BY <3>1, <3>2, <3>3, <3>4, <3>5 DEF AnswerInv, Busy, Calls
    <2>2. Len(handled') = Len(issued)
      BY <1>h, <2>1 DEF OrderInv
    <2>3. /\ UNCHANGED <<prog, treq, tpc, issued, cmd, tmem, in_data, fromhost_queue>>
          /\ tmem.fromhost = No /\ ~Sent /\ fromhost_queue = <<>> /\ pending_reads = <<>>
      BY <2>1 DEF HandleBcdRead, htifMem, targetVars, devVars, Answering
    <2> QED BY <1>h, <1>p, <2>1, <2>2, <2>3 DEF HandleBcdRead, AnswerInv, Answering, Sent, Busy, Calls
  <1>5. DataInv'
    BY <1>h, <1>p DEF HtifTypeOK, OrderInv, WiresInv, AnswerInv, DataInv, Replied, Busy, Answering, Sent, Clearing, Waiting, Calls, HandleBcdRead, Readable, htifMem, targetVars, devVars, exitVars, sysVars
  <1> QED BY <1>1, <1>2, <1>3, <1>4, <1>5

\* A character written is the next one of the output.
LEMMA HandleBcdWriteInv ==
  ASSUME ServerInv, HandleBcdWrite
  PROVE  ServerInv'
  <1> USE CommandsAre DEF ServerInv
  <1>h. /\ handled' \in Seq(Nat) /\ Len(handled') = Len(handled) + 1
        /\ \A i \in DOMAIN handled' : handled'[i] = i
        /\ cmd \in Commands /\ cmd.id = Len(handled) + 1
        /\ Len(handled) \in Nat /\ Len(issued) \in Nat
        /\ \A i \in DOMAIN output : output[i] \in 1 .. Len(handled')
    BY HandledNext DEF HandleBcdWrite
  <1>o. /\ output' \in Seq(Nat) /\ DOMAIN output' = 1 .. Len(output) + 1 /\ DOMAIN output = 1 .. Len(output)
        /\ output'[Len(output) + 1] = Len(handled')
        /\ \A i \in 1 .. Len(output) : output'[i] = output[i]
    BY <1>h, Singles DEF HandleBcdWrite, HtifTypeOK
  <1>1. HtifTypeOK'
    BY <1>h, <1>o DEF HtifTypeOK, HostPcs, Calls, Memories, HandleBcdWrite, Readable, htifMem, targetVars, devVars, exitVars, sysVars
  <1>2. OrderInv'
    <2>1. /\ Waiting' = Waiting /\ Clearing' = Clearing /\ hp = "handle" /\ hp' \in {"dispatch", "tick"}
          /\ UNCHANGED <<treq, tmem, in_data, issued>> /\ Waiting \in {0, 1}
      BY DEF HandleBcdWrite, Waiting, Clearing, htifMem, targetVars, devVars
    <2>2. Len(issued) = Len(handled') + Waiting
      BY <1>h, <2>1 DEF OrderInv
    <2>3. /\ Len(output) \in Nat /\ Len(handled) \in Nat
          /\ \A i \in 1 .. Len(output) : output[i] \in 1 .. Len(handled)
          /\ \A i, j \in 1 .. Len(output) : i < j => output[i] < output[j]
      <3>1. Len(output) \in Nat /\ Len(handled) \in Nat
        BY DEF HtifTypeOK
      <3>2. /\ \A i \in DOMAIN output : output[i] \in 1 .. Len(handled)
            /\ \A i, j \in DOMAIN output : i < j => output[i] < output[j]
        BY DEF OrderInv
      <3>3. DOMAIN output = 1 .. Len(output)
        BY <1>o
      <3> QED BY <3>1, <3>2, <3>3
    <2>4. \A i \in DOMAIN output' : output'[i] \in 1 .. Len(handled')
      <3>1. Len(handled') = Len(handled) + 1
        BY <1>h
      <3>2. SUFFICES ASSUME NEW i \in 1 .. Len(output) + 1
                     PROVE  output'[i] \in 1 .. Len(handled')
        BY <1>o
      <3>3. CASE i = Len(output) + 1
        BY <1>o, <2>3, <3>1, <3>3
      <3>4. CASE i \in 1 .. Len(output)
        BY <1>o, <2>3, <3>1, <3>4
      <3> QED BY <2>3, <3>2, <3>3, <3>4
    <2>5. \A i, j \in DOMAIN output' : i < j => output'[i] < output'[j]
      <3>1. SUFFICES ASSUME NEW i \in 1 .. Len(output) + 1, NEW j \in 1 .. Len(output) + 1, i < j
                     PROVE  output'[i] < output'[j]
        BY <1>o
      <3>2. CASE j = Len(output) + 1
        <4>1. i \in 1 .. Len(output) /\ output'[i] = output[i] /\ output[i] \in 1 .. Len(handled)
          BY <1>o, <2>3, <3>1, <3>2
        <4>2. output'[j] = Len(handled) + 1
          BY <1>h, <1>o, <3>2
        <4> QED BY <2>3, <4>1, <4>2
      <3>3. CASE j # Len(output) + 1
        BY <1>o, <2>3, <3>1, <3>3
      <3> QED BY <3>2, <3>3
    <2> QED BY <1>h, <2>1, <2>2, <2>4, <2>5 DEF OrderInv
  <1>3. WiresInv'
    BY <1>h, <1>o DEF HtifTypeOK, WiresInv, AnswerInv, Answering, Busy, Calls, HandleBcdWrite, Readable, htifMem, targetVars, devVars, exitVars, sysVars
  <1>4. AnswerInv'
    BY <1>h, <1>o DEF HtifTypeOK, OrderInv, WiresInv, AnswerInv, Busy, Answering, Sent, Clearing, Waiting, Calls, HandleBcdWrite, Readable, htifMem, targetVars, devVars, exitVars, sysVars
  <1>5. DataInv'
    BY <1>h, <1>o DEF HtifTypeOK, OrderInv, WiresInv, AnswerInv, DataInv, Replied, Busy, Answering, Sent, Clearing, Waiting, Calls, HandleBcdWrite, Readable, htifMem, targetVars, devVars, exitVars, sysVars
  <1> QED BY <1>1, <1>2, <1>3, <1>4, <1>5

\* The call number in target memory is the one the command carries.
LEMMA DispatchInv ==
  ASSUME ServerInv, Dispatch
  PROVE  ServerInv'
  <1> USE CommandsAre DEF ServerInv
  <1>c. treq \in Commands /\ treq.dev = "syscall" /\ tmem.magic = treq /\ hp' = treq.req.call /\ hp' \in Calls
    BY RequestsAre DEF Dispatch, AnswerInv, DataInv, Busy, HtifTypeOK
  <1>1. HtifTypeOK'
    BY <1>c DEF HtifTypeOK, HostPcs, Calls, Memories, Dispatch, Readable, htifMem, targetVars, devVars, exitVars, sysVars
  <1>2. OrderInv'
    BY <1>c DEF HtifTypeOK, OrderInv, Waiting, Clearing, Calls, WiresInv, Dispatch, Readable, htifMem, targetVars, devVars, exitVars, sysVars
  <1>3. WiresInv'
    BY <1>c DEF HtifTypeOK, WiresInv, AnswerInv, Answering, Busy, Calls, Dispatch, Readable, htifMem, targetVars, devVars, exitVars, sysVars
  <1>4. AnswerInv'
    BY <1>c DEF HtifTypeOK, OrderInv, WiresInv, AnswerInv, Busy, Answering, Sent, Clearing, Waiting, Calls, Dispatch, Readable, htifMem, targetVars, devVars, exitVars, sysVars
  <1>5. DataInv'
    BY <1>c DEF HtifTypeOK, OrderInv, WiresInv, AnswerInv, DataInv, Replied, Busy, Answering, Sent, Clearing, Waiting, Calls, Dispatch, Readable, htifMem, targetVars, devVars, exitVars, sysVars
  <1> QED BY <1>1, <1>2, <1>3, <1>4, <1>5


\* tohost is cleared before its command is handled.
LEMMA ClearTohostInv ==
  ASSUME ServerInv, ClearTohost
  PROVE  ServerInv'
  <1> USE CommandsAre DEF ServerInv
  <1> DEFINE w == [loc |-> "tohost", val |-> No]
  <1>c. cmd = tmem.tohost /\ cmd # No /\ in_data = <<>> /\ hp = "clear" /\ hp' = "handle"
    BY DEF ClearTohost, OrderInv
  <1>w. w \in PostedWrites /\ w.loc = "tohost" /\ w.val = No
    BY DEF PostedWrites
  <1>p. /\ tmem' \in Memories /\ in_data' \in Seq(PostedWrites)
        /\ \/ /\ in_data' # <<>> /\ Len(in_data') = 1 /\ in_data'[1] = w /\ tmem' = tmem
           \/ in_data' = <<>> /\ tmem' = Put(tmem, w)
    BY <1>c, <1>w, PostOne DEF ClearTohost, HtifTypeOK, Memories
  <1> HIDE DEF w
  <1>m. /\ tmem' = tmem \/ tmem'.tohost = No
        /\ tmem'.fromhost = tmem.fromhost /\ tmem'.magic = tmem.magic /\ tmem'.buf = tmem.buf
        /\ in_data' = <<>> => tmem'.tohost = No
        /\ in_data' # <<>> => Len(in_data') = 1 /\ in_data'[1].loc = "tohost" /\ tmem' = tmem
        /\ in_data' = <<>> => Len(in_data') = 0
    <2>1. tmem \in Memories
      BY DEF HtifTypeOK, Memories
    <2>2. in_data' = <<>> => Len(in_data') = 0
      OBVIOUS
    <2>3. /\ Put(tmem, w).tohost = No /\ Put(tmem, w).fromhost = tmem.fromhost
          /\ Put(tmem, w).magic = tmem.magic /\ Put(tmem, w).buf = tmem.buf
      BY <1>w, <2>1, PutIs
    <2> QED BY <1>w, <1>p, <2>2, <2>3
  <1>u. UNCHANGED <<posted, prog, tpc, treq, issued, cmd, result, fromhost_queue, pending_reads, input, output,
                    exitcode, signal_exit, stopped, fds, hostfd, cwd, opened, handled>>
    BY DEF ClearTohost, targetVars, devVars, exitVars, sysVars
  <1>n. /\ Waiting = 1 /\ Waiting' = 0 /\ Len(issued) = Len(handled) + 1 /\ cmd.id = Len(issued)
        /\ Len(handled) \in Nat /\ ~Answering /\ ~Answering' /\ ~Busy' /\ ~Sent'
    <2>1. Waiting = 1 /\ Waiting' = 0
      BY <1>c, <1>m DEF Waiting, Clearing
    <2>2. Len(issued) = Len(handled) + 1 /\ cmd.id = Len(issued) /\ Len(handled) \in Nat
      BY <1>c, <2>1 DEF OrderInv, HtifTypeOK
    <2>3. ~Answering
      BY <2>2 DEF AnswerInv
    <2> QED BY <1>c, <1>m, <1>u, <2>1, <2>2, <2>3 DEF Answering, Sent, Busy, Calls
  <1>1. HtifTypeOK'
    BY <1>c, <1>p, <1>u DEF HtifTypeOK, HostPcs, Memories
  <1>2. OrderInv'
    BY <1>c, <1>m, <1>u, <1>n DEF OrderInv, Clearing
  <1>3. WiresInv'
    <2>1. Len(in_data') \in {0, 1}
      BY <1>m, Zenon
    <2>2. hp' \notin {"reply", "deliver"} \cup Calls
      BY <1>c DEF Calls
    <2>3. in_data' # <<>> => in_data'[1].loc \notin {"buf", "magic"}
      BY <1>m
    <2> QED BY <2>1, <2>2, <2>3 DEF WiresInv
  <1>4. AnswerInv'
    <2>1. prog' = "syscall" =>
            /\ tpc' # "program"
            /\ tpc' = "wait" => treq' # No /\ treq'.dev \notin {"exit", "putchar"}
            /\ tpc' = "exited" => treq'.dev = "exit"
            /\ tmem'.tohost # No => tmem'.tohost = treq'
            /\ cmd' = treq'
      BY <1>c, <1>m, <1>u, <1>n DEF AnswerInv
    <2>2. prog' = "do_tohost" =>
            /\ tpc' # "wait"
            /\ tmem'.tohost # No => tmem'.tohost.dev \in {"exit", "putchar"}
            /\ cmd'.dev \in {"exit", "putchar"}
      BY <1>c, <1>m, <1>u DEF AnswerInv
    <2> QED BY <1>c, <1>n, <2>1, <2>2 DEF AnswerInv, Answering
  <1>5. DataInv'
    BY <1>c, <1>m, <1>u, <1>n DEF DataInv, Calls
  <1> QED BY <1>1, <1>2, <1>3, <1>4, <1>5


\* A disk command answers after its transfer is written.
LEMMA HandleDiskInv ==
  ASSUME ServerInv, HandleDisk
  PROVE  ServerInv'
  <1> USE CommandsAre DEF ServerInv
  <1> DEFINE w == [loc |-> "buf", val |-> cmd.dev]
  <1>h. /\ handled' \in Seq(Nat) /\ Len(handled') = Len(handled) + 1
        /\ \A i \in DOMAIN handled' : handled'[i] = i
        /\ cmd \in Commands /\ cmd.id = Len(handled) + 1
        /\ Len(handled) \in Nat /\ Len(issued) \in Nat
        /\ \A i \in DOMAIN output : output[i] \in 1 .. Len(handled')
    BY HandledNext DEF HandleDisk
  <1>c. in_data = <<>> /\ hp = "handle" /\ hp' = "tick" /\ cmd.dev \in {"disk", "identify"}
    BY DEF HandleDisk, Readable
  <1>w. w \in PostedWrites /\ w.loc = "buf" /\ w.val # "old"
    BY <1>c DEF PostedWrites, Buffers
  <1>p. /\ tmem' \in Memories /\ in_data' \in Seq(PostedWrites)
        /\ \/ /\ in_data' # <<>> /\ Len(in_data') = 1 /\ in_data'[1] = w /\ tmem' = tmem
           \/ in_data' = <<>> /\ tmem' = Put(tmem, w)
    BY <1>c, <1>w, PostOne DEF HandleDisk, HtifTypeOK, Memories
  <1> HIDE DEF w
  <1>m. /\ tmem'.tohost = tmem.tohost /\ tmem'.fromhost = tmem.fromhost /\ tmem'.magic = tmem.magic
        /\ in_data' # <<>> => Len(in_data') = 1 /\ in_data'[1].loc = "buf"
        /\ Len(in_data') \in {0, 1}
    <2>1. tmem \in Memories
      BY DEF HtifTypeOK, Memories
    <2>2. in_data' = <<>> => Len(in_data') = 0
      OBVIOUS
    <2>3. /\ Put(tmem, w).tohost = tmem.tohost /\ Put(tmem, w).fromhost = tmem.fromhost
          /\ Put(tmem, w).magic = tmem.magic
      BY <1>w, <2>1, PutIs
    <2> QED BY <1>w, <1>p, <2>2, <2>3
  <1>u. UNCHANGED <<posted, prog, tpc, treq, issued, cmd, result, pending_reads, input, output,
                    exitcode, signal_exit, stopped, fds, hostfd, cwd, opened>>
    BY DEF HandleDisk, targetVars, exitVars, sysVars
  <1>n. /\ Waiting' = Waiting /\ Waiting \in {0, 1} /\ ~Clearing /\ ~Clearing' /\ Len(issued) = Len(handled') + Waiting
        /\ ~Answering /\ ~Busy' /\ ~Sent' /\ tmem.fromhost = No /\ pending_reads = <<>> /\ fromhost_queue = <<>>
    <2>1. Waiting' = Waiting /\ Waiting \in {0, 1} /\ ~Clearing /\ ~Clearing'
      BY <1>c, <1>m DEF Waiting, Clearing
    <2>2. Len(issued) = Len(handled) + 1 + Waiting
      BY <1>h, <1>c, <2>1 DEF OrderInv
    <2>3. ~Answering
      BY <1>h, <2>1, <2>2 DEF AnswerInv
    <2> QED BY <1>h, <1>c, <1>m, <2>1, <2>2, <2>3 DEF Answering, Sent, Busy, Calls
  <1>q. /\ fromhost_queue' \in Seq(Commands) /\ fromhost_queue' # <<>>
        /\ Len(fromhost_queue') = 1 /\ fromhost_queue'[1] = cmd
    <2>1. fromhost_queue' = Append(fromhost_queue, cmd) /\ fromhost_queue \in Seq(Commands) /\ Len(fromhost_queue) = 0
      BY <1>n DEF HandleDisk, respond, HtifTypeOK
    <2> QED BY <1>h, <2>1, Singles
  <1>s. prog = "syscall" /\ cmd = treq /\ tpc = "wait" /\ Waiting = 0
    <2>1. prog = "syscall" /\ cmd = treq
      BY <1>c DEF AnswerInv, HtifTypeOK
    <2>2. tpc = "wait"
      BY <1>c, <1>h, <1>n, <2>1 DEF AnswerInv, HtifTypeOK
    <2> QED BY <1>h, <1>n, <2>1, <2>2 DEF OrderInv
  <1>1. HtifTypeOK'
    BY <1>c, <1>h, <1>p, <1>u, <1>q DEF HtifTypeOK, HostPcs, Memories
  <1>2. OrderInv'
    BY <1>c, <1>h, <1>m, <1>u, <1>n DEF OrderInv
  <1>3. WiresInv'
    <2>1. hp' \notin {"reply", "deliver"} \cup Calls
      BY <1>c DEF Calls
    <2>2. Len(in_data') \in {0, 1}
      BY <1>m, Zenon
    <2>3. Len(in_data') <= 2 /\ Len(in_data') # 2
      BY <2>2, Short, Zenon
    <2> QED BY <1>q, <2>1, <2>3 DEF WiresInv
  <1>4. AnswerInv'
    BY <1>c, <1>h, <1>m, <1>u, <1>n, <1>q, <1>s DEF AnswerInv, Answering
  <1>5. DataInv'
    BY <1>c, <1>s, <1>u DEF DataInv
  <1> QED BY <1>1, <1>2, <1>3, <1>4, <1>5

\* A system call's result is written to memory, its buffer first.
LEMMA ReplyInv ==
  ASSUME ServerInv, Reply
  PROVE  ServerInv'
  <1> USE CommandsAre DEF ServerInv
  <1> DEFINE b == [loc |-> "buf", val |-> result.buf]
             w == [loc |-> "magic", val |-> [id |-> cmd.id, ret |-> result.ret]]
  <1>c. /\ in_data = <<>> /\ hp = "reply" /\ hp' = "tick" /\ cmd = treq /\ cmd.dev = "syscall" /\ tpc = "wait"
        /\ Len(handled) = Len(issued) /\ prog = "syscall" /\ treq # No /\ cmd \in Commands /\ Busy /\ ~Answering
    BY DEF Reply, WiresInv, AnswerInv, Busy, HtifTypeOK
  <1>d. /\ tmem.fromhost = No /\ fromhost_queue = <<>> /\ pending_reads = <<>>
        /\ treq.req.call \in {"read", "fstat"} => (result.ret > 0 => result.buf # "none")
    BY <1>c DEF Answering, DataInv
  <1>w. /\ w \in PostedWrites /\ w.loc = "magic" /\ w.val = [id |-> cmd.id, ret |-> result.ret]
        /\ w.val \in Returns /\ w.val.id = treq.id /\ w.val.ret = result.ret
    BY <1>c DEF PostedWrites, Returns, HtifTypeOK
  <1>b. result.buf # "none" => b \in PostedWrites /\ b.loc = "buf" /\ b.val # "old"
    BY DEF PostedWrites, HtifTypeOK, Buffers
  <1>m. /\ tmem' \in Memories /\ in_data' \in Seq(PostedWrites) /\ tmem'.tohost = tmem.tohost /\ tmem'.fromhost = tmem.fromhost
        /\ \/ /\ Len(in_data') = 2 /\ in_data' # <<>> /\ in_data'[1].loc = "buf" /\ in_data'[2] = w
           \/ /\ Len(in_data') = 1 /\ in_data' # <<>> /\ in_data'[1] = w /\ result.buf = "none"
           \/ /\ Len(in_data') = 0 /\ in_data' = <<>> /\ tmem'.magic = w.val
              /\ result.buf # "none" => tmem'.buf # "old"
    <2>1. tmem \in Memories /\ posted \in BOOLEAN
      BY DEF HtifTypeOK, Memories
    <2>2. CASE result.buf = "none"
      <3>1. Post(<<w>>)
        BY <2>2 DEF Reply
      <3>2. /\ tmem' \in Memories /\ in_data' \in Seq(PostedWrites)
            /\ \/ /\ in_data' # <<>> /\ Len(in_data') = 1 /\ in_data'[1] = w /\ tmem' = tmem
               \/ in_data' = <<>> /\ tmem' = Put(tmem, w)
        BY <1>c, <1>w, <2>1, <3>1, PostOne
      <3>3. /\ Put(tmem, w).tohost = tmem.tohost /\ Put(tmem, w).fromhost = tmem.fromhost
            /\ Put(tmem, w).magic = w.val
        BY <1>w, <2>1, PutIs
      <3>4. in_data' = <<>> => Len(in_data') = 0
        OBVIOUS
      <3> HIDE DEF w
      <3> QED BY <2>2, <3>2, <3>3, <3>4
    <2>3. CASE result.buf # "none"
      <3>1. Post(<<b, w>>)
        BY <2>3 DEF Reply
      <3>2. /\ tmem' \in Memories /\ in_data' \in Seq(PostedWrites)
            /\ \/ /\ in_data' # <<>> /\ Len(in_data') = 2 /\ in_data'[1] = b /\ in_data'[2] = w /\ tmem' = tmem
               \/ in_data' = <<>> /\ tmem' = Put(Put(tmem, b), w)
        BY <1>c, <1>w, <1>b, <2>1, <2>3, <3>1, PostTwo
      <3>3. /\ Put(tmem, b) \in Memories /\ Put(tmem, b).tohost = tmem.tohost /\ Put(tmem, b).fromhost = tmem.fromhost
            /\ Put(tmem, b).buf # "old"
        BY <1>b, <2>1, <2>3, PutIs
      <3> DEFINE m == Put(tmem, b)
      <3> HIDE DEF m
      <3>4. /\ Put(m, w).tohost = m.tohost /\ Put(m, w).fromhost = m.fromhost
            /\ Put(m, w).magic = w.val /\ Put(m, w).buf = m.buf
        BY <1>w, <3>3, PutIs DEF m
      <3>5. in_data' = <<>> => Len(in_data') = 0
        OBVIOUS
      <3> HIDE DEF w, b
      <3> QED BY <1>b, <2>3, <3>2, <3>3, <3>4, <3>5 DEF m
    <2> QED BY <2>2, <2>3
  <1> HIDE DEF w, b
  <1>u. UNCHANGED <<posted, prog, tpc, treq, issued, cmd, result, pending_reads, input, output,
                    exitcode, signal_exit, stopped, fds, hostfd, cwd, opened, handled>>
    BY DEF Reply, targetVars, exitVars, sysVars
  <1>q. /\ fromhost_queue' \in Seq(Commands) /\ fromhost_queue' # <<>>
        /\ Len(fromhost_queue') = 1 /\ fromhost_queue'[1] = cmd
    <2>1. fromhost_queue' = Append(fromhost_queue, cmd) /\ fromhost_queue \in Seq(Commands) /\ Len(fromhost_queue) = 0
      BY <1>d DEF Reply, respond, HtifTypeOK
    <2>2. cmd \in Commands
      BY <1>c
    <2> QED BY <2>1, <2>2, Singles
  <1>n. ~Clearing /\ ~Clearing' /\ ~Sent' /\ Waiting' = Waiting /\ ~Busy'
    BY <1>c, <1>m, <1>w DEF Clearing, Sent, Waiting, Busy, Calls
  <1>1. HtifTypeOK'
    BY <1>c, <1>m, <1>u, <1>q DEF HtifTypeOK, HostPcs, Memories
  <1>2. OrderInv'
    BY <1>c, <1>m, <1>u, <1>n DEF OrderInv
  <1>3. WiresInv'
    <2>1. hp' \notin {"reply", "deliver"} \cup Calls
      BY <1>c DEF Calls
    <2>3. /\ Len(in_data') \in {0, 1} \/ (Len(in_data') = 2 /\ in_data'[1].loc = "buf" /\ in_data'[2] = w)
      BY <1>m, Zenon
    <2>2. Len(in_data') <= 2 /\ (Len(in_data') = 2 => in_data'[1].loc = "buf" /\ in_data'[2].loc = "magic")
      BY <1>w, <2>3, Short, Zenon
    <2> QED BY <1>q, <2>1, <2>2 DEF WiresInv
  <1>4. AnswerInv'
    BY <1>c, <1>d, <1>m, <1>u, <1>n, <1>q DEF AnswerInv, Answering
  <1>5. DataInv'
    BY <1>c, <1>d, <1>m, <1>n, <1>w, <1>u DEF DataInv, Replied, Calls
  <1> QED BY <1>1, <1>2, <1>3, <1>4, <1>5


\* A character of input answers the oldest read that waits.
LEMMA TickInv ==
  ASSUME ServerInv, Tick
  PROVE  ServerInv'
  <1> USE CommandsAre DEF ServerInv
  <1>c. hp = "tick" /\ hp' = "check"
    BY DEF Tick
  <1>u. UNCHANGED <<tmem, in_data, posted, prog, tpc, treq, issued, cmd, result, output,
                    exitcode, signal_exit, stopped, fds, hostfd, cwd, opened, handled>>
    BY DEF Tick, htifMem, targetVars, exitVars, sysVars
  <1>q. \/ /\ pending_reads # <<>> /\ pending_reads' = <<>> /\ input' \in Nat /\ fromhost_queue = <<>>
           /\ fromhost_queue' \in Seq(Commands) /\ fromhost_queue' # <<>>
           /\ Len(fromhost_queue') = 1 /\ fromhost_queue'[1] = treq
        \/ UNCHANGED <<fromhost_queue, pending_reads, input>>
    <2>1. CASE pending_reads # <<>> /\ input > 0
      <3>1. /\ pending_reads \in Seq(Commands) /\ Len(pending_reads) = 1 /\ pending_reads[1] = treq
            /\ fromhost_queue \in Seq(Commands) /\ fromhost_queue = <<>>
        BY <2>1 DEF AnswerInv, HtifTypeOK
      <3>2. pending_reads' = Tail(pending_reads) /\ fromhost_queue' = Append(fromhost_queue, pending_reads[1])
        BY <2>1 DEF Tick, respond
      <3>3. pending_reads' = <<>> /\ treq \in Commands
        BY <2>1, <3>1, <3>2, Tails
      <3>4. Len(fromhost_queue) = 0 /\ input' \in Nat
        BY <2>1, <3>1 DEF Tick, HtifTypeOK
      <3>5. fromhost_queue' = Append(fromhost_queue, treq)
        BY <3>1, <3>2
      <3>6. /\ fromhost_queue' \in Seq(Commands) /\ fromhost_queue' # <<>>
            /\ Len(fromhost_queue') = 1 /\ fromhost_queue'[1] = treq
        BY <3>1, <3>3, <3>4, <3>5, Singles
      <3> QED BY <2>1, <3>1, <3>3, <3>4, <3>6
    <2>2. CASE ~(pending_reads # <<>> /\ input > 0)
      BY <2>2 DEF Tick
    <2> QED BY <2>1, <2>2
  <1>n. Clearing' = Clearing /\ Sent' = Sent /\ Waiting' = Waiting /\ ~Busy' /\ ~Busy /\ Answering' = Answering
    <2>1. Answering' <=> Answering
      BY <1>u, <1>q DEF Answering, Sent
    <2> QED BY <1>c, <1>u, <2>1 DEF Clearing, Sent, Waiting, Busy, Calls, Answering
  <1>1. HtifTypeOK'
    BY <1>c, <1>q, <1>u, NoElements DEF HtifTypeOK, HostPcs
  <1>2. OrderInv'
    BY <1>c, <1>u, <1>n DEF OrderInv
  <1>3. WiresInv'
    BY <1>c, <1>q, <1>u DEF WiresInv, Calls
  <1>4. AnswerInv'
    BY <1>c, <1>q, <1>u, <1>n DEF AnswerInv
  <1>5. DataInv'
    BY <1>c, <1>u, <1>n DEF DataInv, Replied, Calls
  <1> QED BY <1>1, <1>2, <1>3, <1>4, <1>5

\* The oldest answer is written to fromhost when the target has cleared it.
LEMMA DeliverInv ==
  ASSUME ServerInv, Deliver
  PROVE  ServerInv'
  <1> USE CommandsAre DEF ServerInv
  <1> DEFINE w == [loc |-> "fromhost", val |-> fromhost_queue[1]]
  <1>c. hp = "deliver" /\ hp' = "loop" /\ in_data = <<>> /\ fromhost_queue # <<>>
    BY DEF Deliver, WiresInv, AnswerInv
  <1>d. /\ Len(fromhost_queue) = 1 /\ fromhost_queue[1] = treq /\ pending_reads = <<>> /\ tmem.fromhost = No
        /\ tpc = "wait" /\ Len(handled) = Len(issued) /\ Answering /\ ~Sent /\ fromhost_queue \in Seq(Commands)
    BY <1>c DEF AnswerInv, Answering, HtifTypeOK
  <1>e. fromhost_queue' = <<>> /\ treq \in Commands
    <2>1. fromhost_queue' = Tail(fromhost_queue)
      BY DEF Deliver
    <2> QED BY <1>c, <1>d, <2>1, Tails
  <1>w. w \in PostedWrites /\ w.loc = "fromhost" /\ w.val = treq
    BY <1>d, <1>e DEF PostedWrites
  <1>p. /\ tmem' \in Memories /\ in_data' \in Seq(PostedWrites)
        /\ \/ /\ in_data' # <<>> /\ Len(in_data') = 1 /\ in_data'[1] = w /\ tmem' = tmem
           \/ in_data' = <<>> /\ tmem' = Put(tmem, w)
    BY <1>c, <1>w, PostOne DEF Deliver, HtifTypeOK, Memories
  <1> HIDE DEF w
  <1>m. /\ tmem'.tohost = tmem.tohost /\ tmem'.magic = tmem.magic /\ tmem'.buf = tmem.buf
        /\ \/ in_data' # <<>> /\ Len(in_data') = 1 /\ in_data'[1].loc = "fromhost" /\ in_data'[1].val = treq /\ tmem'.fromhost = No
           \/ in_data' = <<>> /\ Len(in_data') = 0 /\ tmem'.fromhost = treq
    <2>1. tmem \in Memories
      BY DEF HtifTypeOK, Memories
    <2>2. in_data' = <<>> => Len(in_data') = 0
      OBVIOUS
    <2>3. /\ Put(tmem, w).tohost = tmem.tohost /\ Put(tmem, w).fromhost = treq
          /\ Put(tmem, w).magic = tmem.magic /\ Put(tmem, w).buf = tmem.buf
      BY <1>w, <2>1, PutIs
    <2> QED BY <1>d, <1>w, <1>p, <2>2, <2>3
  <1>u. UNCHANGED <<posted, prog, tpc, treq, issued, cmd, result, pending_reads, input, output,
                    exitcode, signal_exit, stopped, fds, hostfd, cwd, opened, handled>>
    BY DEF Deliver, targetVars, exitVars, sysVars
  <1>n. ~Clearing /\ ~Clearing' /\ Waiting' = Waiting /\ ~Busy' /\ Answering'
        /\ (Sent' <=> in_data' # <<>>)
    <2>1. (Sent' <=> in_data' # <<>>) /\ ~Clearing' /\ ~Clearing
      BY <1>c, <1>m DEF Sent, Clearing
    <2>2. Answering'
      BY <1>e, <1>m, <2>1 DEF Answering
    <2> QED BY <1>c, <1>m, <2>1, <2>2 DEF Waiting, Busy, Calls
  <1>1. HtifTypeOK'
    BY <1>c, <1>e, <1>p, <1>u DEF HtifTypeOK, HostPcs, Memories
  <1>2. OrderInv'
    BY <1>c, <1>m, <1>u, <1>n DEF OrderInv
  <1>3. WiresInv'
    <2>1. hp' \notin {"reply", "deliver"} \cup Calls
      BY <1>c DEF Calls
    <2>2. Len(in_data') \in {0, 1} /\ (in_data' # <<>> => in_data'[1].loc = "fromhost")
      BY <1>m, Zenon
    <2>3. Len(in_data') <= 2 /\ Len(in_data') # 2
      BY <2>2, Short, Zenon
    <2> QED BY <2>1, <2>2, <2>3 DEF WiresInv
  <1>4. AnswerInv'
    BY <1>c, <1>d, <1>e, <1>m, <1>u, <1>n DEF AnswerInv
  <1>5. DataInv'
    BY <1>c, <1>d, <1>m, <1>u, <1>n DEF DataInv, Replied, Calls
  <1> QED BY <1>1, <1>2, <1>3, <1>4, <1>5

\* The target takes the answer, clears fromhost and goes on.
LEMMA TargetSeesInv ==
  ASSUME ServerInv, TargetSeesResponse
  PROVE  ServerInv'
  <1> USE CommandsAre DEF ServerInv
  <1>c. tpc = "wait" /\ tpc' = "program" /\ tmem.fromhost # No /\ in_data = <<>> /\ in_data' = <<>>
    BY DEF TargetSeesResponse, AnswerInv
  <1>m. /\ tmem' \in Memories /\ tmem'.fromhost = No /\ tmem'.tohost = tmem.tohost
        /\ tmem'.magic = tmem.magic /\ tmem'.buf = tmem.buf
    BY DEF TargetSeesResponse, HtifTypeOK, Memories
  <1>u. UNCHANGED <<in_data, posted, prog, treq, issued, hp, cmd, result, fromhost_queue, pending_reads, input, output,
                    exitcode, signal_exit, stopped, fds, hostfd, cwd, opened, handled>>
    BY DEF TargetSeesResponse, devVars, exitVars, sysVars
  <1>n. /\ ~Clearing /\ ~Clearing' /\ Waiting' = Waiting /\ ~Busy /\ ~Busy' /\ Answering /\ ~Answering' /\ ~Sent'
        /\ fromhost_queue = <<>> /\ pending_reads = <<>>
    <2>1. ~Clearing /\ ~Clearing' /\ Waiting' = Waiting /\ ~Sent'
      BY <1>c, <1>m DEF Clearing, Sent, Waiting
    <2>2. Answering /\ fromhost_queue = <<>> /\ pending_reads = <<>>
      BY <1>c DEF Answering, AnswerInv
    <2>3. ~Busy /\ ~Busy' /\ ~Answering'
      BY <1>m, <1>u, <2>1, <2>2 DEF AnswerInv, Busy, Answering
    <2> QED BY <2>1, <2>2, <2>3
  <1>t. tmem.tohost = No /\ Len(handled) = Len(issued) /\ hp # "deliver"
    <2>1. Len(handled) = Len(issued) /\ Len(issued) \in Nat /\ hp # "deliver"
      BY <1>n DEF AnswerInv, HtifTypeOK
    <2>2. Waiting \in {0, 1} /\ (Waiting = 0 => tmem.tohost = No)
      BY <1>n DEF Waiting
    <2>3. Waiting = 0
      BY <2>1, <2>2 DEF OrderInv
    <2> QED BY <2>1, <2>2, <2>3
  <1>1. HtifTypeOK'
    BY <1>c, <1>m, <1>u DEF HtifTypeOK, Memories
  <1>2. OrderInv'
    BY <1>c, <1>m, <1>u, <1>n, <1>t DEF OrderInv
  <1>3. WiresInv'
    BY <1>u DEF WiresInv
  <1>4. AnswerInv'
    BY <1>c, <1>m, <1>u, <1>n, <1>t DEF AnswerInv
  <1>5. DataInv'
    BY <1>c DEF DataInv
  <1> QED BY <1>1, <1>2, <1>3, <1>4, <1>5


\* What the adapter performs is the oldest of the posted writes.
LEMMA AdapterInv ==
  ASSUME ServerInv, Adapter
  PROVE  ServerInv'
  <1> USE CommandsAre DEF ServerInv
  <1> DEFINE w == in_data[1]
  <1>w. /\ in_data # <<>> /\ in_data \in Seq(PostedWrites) /\ Len(in_data) \in {1, 2} /\ w \in PostedWrites
        /\ in_data' = Tail(in_data) /\ tmem' = Put(tmem, w)
    <2>1. in_data # <<>> /\ in_data \in Seq(PostedWrites) /\ in_data' = Tail(in_data) /\ tmem' = Put(tmem, w)
      BY DEF Adapter, HtifTypeOK
    <2>2. Len(in_data) >= 1 /\ w \in PostedWrites
      BY <2>1, Tails
    <2>3. Len(in_data) <= 2 /\ Len(in_data) \in Nat
      BY <2>1 DEF WiresInv
    <2>4. Len(in_data) \in {1, 2}
      BY <2>2, <2>3, Short, Zenon
    <2> QED BY <2>1, <2>2, <2>4
  <1>t. /\ in_data' \in Seq(PostedWrites)
        /\ Len(in_data) = 1 => in_data' = <<>> /\ Len(in_data') = 0
        /\ Len(in_data) = 2 =>
              /\ w.loc = "buf" /\ in_data' # <<>> /\ Len(in_data') = 1 /\ in_data'[1] = in_data[2]
              /\ in_data'[1].loc = "magic" /\ in_data[2] \in PostedWrites
    <2>1. /\ Len(in_data) = 2 => w.loc = "buf" /\ in_data[2].loc = "magic"
      BY DEF WiresInv
    <2>2. /\ Tail(in_data) \in Seq(PostedWrites) /\ (Len(in_data) = 1 => Tail(in_data) = <<>>)
          /\ Len(in_data) = 2 => /\ Len(Tail(in_data)) = 1 /\ Tail(in_data) # <<>>
                                 /\ Tail(in_data)[1] = in_data[2] /\ in_data[2] \in PostedWrites
      BY <1>w, Tails
    <2>3. in_data' = <<>> => Len(in_data') = 0
      OBVIOUS
    <2> QED BY <1>w, <2>1, <2>2, <2>3
  <1>m. /\ tmem' \in Memories
        /\ tmem'.tohost = IF w.loc = "tohost" THEN w.val ELSE tmem.tohost
        /\ tmem'.fromhost = IF w.loc = "fromhost" THEN w.val ELSE tmem.fromhost
        /\ tmem'.magic = IF w.loc = "magic" THEN w.val ELSE tmem.magic
        /\ tmem'.buf = IF w.loc = "buf" THEN w.val ELSE tmem.buf
    BY <1>w, PutIs DEF HtifTypeOK, Memories
  <1>v. /\ w.loc \in {"tohost", "fromhost", "magic", "buf"}
        /\ w.loc = "tohost" => w.val = No
        /\ w.loc = "buf" => w.val # "old"
    BY <1>w DEF PostedWrites, Buffers
  <1> HIDE DEF w
  <1>u. UNCHANGED <<posted, prog, tpc, treq, issued, hp, cmd, result, fromhost_queue, pending_reads, input, output,
                    exitcode, signal_exit, stopped, fds, hostfd, cwd, opened, handled>>
    BY DEF Adapter, targetVars, devVars, exitVars, sysVars
  <1>n. /\ Clearing <=> w.loc = "tohost"
        /\ Sent <=> w.loc = "fromhost"
        /\ ~Clearing' /\ ~Sent'
        /\ Waiting' = Waiting
        /\ Busy' <=> Busy
        /\ Answering' <=> Answering
    <2>1. (Clearing <=> w.loc = "tohost") /\ (Sent <=> w.loc = "fromhost")
      BY <1>w DEF Clearing, Sent, w
    <2>2. ~Clearing' /\ ~Sent'
      BY <1>w, <1>t DEF Clearing, Sent
    <2>3. Waiting' = Waiting
      BY <1>m, <1>v, <2>1, <2>2 DEF Waiting
    <2>4. w.loc = "fromhost" => w.val = treq /\ treq # No
      <3>1. SUFFICES ASSUME w.loc = "fromhost" PROVE w.val = treq /\ treq # No
        OBVIOUS
      <3>2. w.val \in Commands
        BY <1>w, <3>1 DEF PostedWrites
      <3> QED BY <2>1, <3>1, <3>2 DEF AnswerInv, w
    <2>5. Answering' <=> Answering
      BY <1>u, <1>m, <1>v, <2>1, <2>2, <2>4 DEF Answering
    <2> QED BY <1>u, <2>1, <2>2, <2>3, <2>5 DEF Busy
  <1>h. hp \notin {"reply", "deliver", "clear"} \cup Calls
    BY <1>w DEF WiresInv, OrderInv
  <1>1. HtifTypeOK'
    BY <1>t, <1>m, <1>u DEF HtifTypeOK, Memories
  <1>2. OrderInv'
    <2>1. tmem'.tohost # No => tmem'.tohost.id = Len(issued)
      BY <1>m, <1>v DEF OrderInv
    <2> QED BY <1>h, <1>u, <1>n, <2>1 DEF OrderInv
  <1>3. WiresInv'
    <2>1. Len(in_data') \in {0, 1}
      BY <1>w, <1>t, Zenon
    <2>2. Len(in_data') <= 2 /\ Len(in_data') # 2
      BY <2>1, Short, Zenon
    <2>3. in_data' # <<>> => fromhost_queue' # <<>>
      BY <1>w, <1>t, <1>u DEF WiresInv, w
    <2>4. hp' \notin {"reply", "deliver"} \cup Calls
      BY <1>h, <1>u
    <2> QED BY <2>2, <2>3, <2>4 DEF WiresInv
  <1>4. AnswerInv'
    <2>1. Sent => w.val = treq /\ Len(in_data) = 1 /\ in_data' = <<>> /\ tmem'.fromhost = treq
      BY <1>w, <1>t, <1>m, <1>n DEF AnswerInv, w
    <2>2. ~Sent => tmem'.fromhost = tmem.fromhost
      BY <1>m, <1>n
    <2>3. tmem.fromhost # No => FALSE
      BY <1>w DEF AnswerInv
    <2>4. tmem'.tohost # No => tmem'.tohost = tmem.tohost
      BY <1>m, <1>v
    <2>5. /\ tpc = "program" => prog # "syscall"
          /\ fromhost_queue # <<>> => ~Sent
          /\ pending_reads # <<>> => ~Sent
      BY <1>w, <2>4 DEF AnswerInv, HtifTypeOK
    <2> QED BY <1>u, <1>n, <1>h, <2>1, <2>2, <2>3, <2>4, <2>5 DEF AnswerInv
  <1>5. DataInv'
    <2>1. SUFFICES ASSUME prog = "syscall", tpc = "wait", treq.dev = "syscall"
                   PROVE  /\ Len(handled) # Len(issued) \/ Busy => tmem'.magic = treq
                          /\ Answering =>
                               \/ Len(in_data') = 1 /\ in_data'[1].loc = "magic" /\ Replied(in_data'[1].val, tmem'.buf # "old")
                               \/ Len(in_data') = 0 /\ Replied(tmem'.magic, tmem'.buf # "old")
      BY <1>h, <1>u, <1>n DEF DataInv, Replied
    <2>2. Len(handled) # Len(issued) \/ Busy => tmem'.magic = treq
      <3>1. SUFFICES ASSUME Len(handled) # Len(issued) \/ Busy
                     PROVE  w.loc # "magic"
        BY <1>m, <2>1 DEF DataInv
      <3>2. fromhost_queue = <<>>
        BY <3>1 DEF AnswerInv, Answering
      <3> QED BY <1>w, <3>2 DEF WiresInv, w
    <2>3. ASSUME Answering, Len(in_data) = 2
          PROVE  Len(in_data') = 1 /\ in_data'[1].loc = "magic" /\ Replied(in_data'[1].val, tmem'.buf # "old")
      <3>1. Replied(in_data[2].val, TRUE)
        BY <2>1, <2>3 DEF DataInv
      <3>2. tmem'.buf # "old"
        BY <1>m, <1>t, <1>v, <2>3
      <3> QED BY <1>t, <2>3, <3>1, <3>2 DEF Replied
    <2>4. ASSUME Answering, Len(in_data) = 1
          PROVE  Len(in_data') = 0 /\ Replied(tmem'.magic, tmem'.buf # "old")
      <3>1. CASE w.loc = "magic"
        BY <1>m, <1>t, <2>1, <2>4, <3>1 DEF DataInv, Replied, w
      <3>2. CASE w.loc # "magic"
        <4>1. Replied(tmem.magic, tmem.buf # "old")
          BY <2>1, <2>4, <3>2 DEF DataInv, w
        <4> QED BY <1>m, <1>t, <1>v, <2>4, <3>2, <4>1 DEF Replied
      <3> QED BY <3>1, <3>2
    <2>5. Len(in_data) \in {1, 2}
      BY <1>w
    <2> QED BY <2>2, <2>3, <2>4, <2>5
  <1> QED BY <1>1, <1>2, <1>3, <1>4, <1>5


\* What a request puts in memory.
LEMMA RequestIs ==
  ASSUME ServerInv, NEW r \in Requests, NEW q, q = [id |-> Len(issued) + 1, dev |-> r.dev, req |-> r],
         issued' = Append(issued, q.id)
  PROVE  /\ q \in Commands /\ q.dev = r.dev /\ q.id = Len(issued) + 1
         /\ issued' \in Seq(Nat) /\ Len(issued') = Len(issued) + 1 /\ Len(issued) \in Nat
  <1>1. issued \in Seq(Nat) /\ Len(issued) \in Nat
    BY DEF ServerInv, HtifTypeOK
  <1>2. q \in Commands /\ q.dev = r.dev /\ q.id = Len(issued) + 1 /\ q.id \in Nat
    BY <1>1 DEF Commands
  <1> QED BY <1>1, <1>2, Singles

\* The target's system call puts its request in memory, then in tohost.
LEMMA TargetSyscallInv ==
  ASSUME ServerInv, NEW r \in Requests, TargetSyscall(r)
  PROVE  ServerInv'
  <1> USE CommandsAre DEF ServerInv
  <1>c. /\ tpc = "program" /\ prog = "syscall" /\ r.dev # "putchar" /\ in_data = <<>> /\ tmem.tohost = No
        /\ Len(handled) = Len(issued) /\ tpc' = IF r.dev = "exit" THEN "exited" ELSE "wait"
    BY DEF TargetSyscall, AnswerInv
  <1>q. PICK q \in {[id |-> Len(issued) + 1, dev |-> r.dev, req |-> r]} :
          /\ tmem' = [tmem EXCEPT !.tohost = q, !.magic = q, !.buf = "old"]
          /\ treq' = q /\ issued' = Append(issued, q.id)
    BY Zenon DEF TargetSyscall
  <1>r. /\ q \in Commands /\ q.dev = r.dev /\ q.id = Len(issued) + 1
        /\ issued' \in Seq(Nat) /\ Len(issued') = Len(issued) + 1 /\ Len(issued) \in Nat
    BY <1>q, RequestIs
  <1>m. tmem' \in Memories /\ tmem'.tohost = q /\ tmem'.magic = q /\ tmem'.fromhost = tmem.fromhost
    BY <1>q, <1>r DEF HtifTypeOK, Memories
  <1>u. UNCHANGED <<in_data, posted, prog, hp, cmd, result, fromhost_queue, pending_reads, input, output,
                    exitcode, signal_exit, stopped, fds, hostfd, cwd, opened, handled>>
    BY DEF TargetSyscall, devVars, exitVars, sysVars
  <1>n. /\ Waiting = 0 /\ Waiting' = 1 /\ ~Clearing /\ ~Clearing' /\ ~Sent' /\ ~Answering /\ ~Busy /\ ~Answering' /\ ~Busy'
        /\ hp \notin {"clear", "handle", "deliver"}
    <2>1. Waiting = 0 /\ Waiting' = 1 /\ ~Clearing /\ ~Clearing' /\ ~Sent'
      BY <1>c, <1>m, <1>u, <1>r DEF Waiting, Clearing, Sent
    <2>2. ~Answering /\ ~Busy
      BY <1>c DEF AnswerInv
    <2>3. ~Answering' /\ ~Busy'
      BY <1>c, <1>m, <1>u, <2>1, <2>2 DEF Answering, Busy
    <2>4. hp \notin {"clear", "handle", "deliver"}
      BY <1>c, <1>r, <2>1, <2>2 DEF OrderInv, AnswerInv, Answering
    <2> QED BY <2>1, <2>2, <2>3, <2>4
  <1>1. HtifTypeOK'
    BY <1>c, <1>q, <1>r, <1>m, <1>u DEF HtifTypeOK, Memories
  <1>2. OrderInv'
    <2>1. \A i \in DOMAIN handled' : handled'[i] = i
      BY <1>u DEF OrderInv
    <2>2. hp = "dead" => Len(issued') \in {Len(handled') + Waiting', Len(handled') + Waiting' + 1}
      BY <1>c, <1>r, <1>u, <1>n
    <2>3. hp # "dead" => Len(issued') = Len(handled') + Waiting'
      BY <1>c, <1>r, <1>u, <1>n
    <2> QED BY <1>q, <1>r, <1>m, <1>u, <1>n, <2>1, <2>2, <2>3 DEF OrderInv
  <1>3. WiresInv'
    BY <1>u DEF WiresInv
  <1>4. AnswerInv'
    BY <1>c, <1>q, <1>r, <1>m, <1>u, <1>n DEF AnswerInv, Answering
  <1>5. DataInv'
    BY <1>q, <1>m, <1>u, <1>n DEF DataInv, Busy
  <1> QED BY <1>1, <1>2, <1>3, <1>4, <1>5

\* A program that writes tohost itself sends a character or its exit code.
LEMMA DoTohostInv ==
  ASSUME ServerInv, NEW r \in Requests, DoTohost(r)
  PROVE  ServerInv'
  <1> USE CommandsAre DEF ServerInv
  <1>u. /\ UNCHANGED <<in_data, posted, prog, hp, cmd, result, fromhost_queue, pending_reads, input, output,
                       exitcode, signal_exit, stopped, fds, hostfd, cwd, opened, handled>>
        /\ tpc = "program" /\ prog = "do_tohost" /\ r.dev \in {"putchar", "exit"} /\ tmem \in Memories
    BY DEF DoTohost, devVars, exitVars, sysVars, HtifTypeOK, Memories
  <1>f. ~Answering /\ ~Busy /\ tmem.fromhost = No /\ ~Sent
    BY <1>u DEF AnswerInv, Answering
  <1>a. CASE tmem.tohost # No
    <2>1. tmem' = [tmem EXCEPT !.fromhost = No] /\ UNCHANGED <<tpc, treq, issued>>
      BY <1>a DEF DoTohost
    <2>2. tmem' = tmem
      BY <1>u, <1>f, <2>1 DEF Memories
    <2>3. HtifTypeOK'
      BY <1>u, <2>1, <2>2 DEF HtifTypeOK
    <2>6. WiresInv'
      BY <1>u, <2>1, <2>2 DEF WiresInv
    <2>4. OrderInv'
      BY <1>u, <2>1, <2>2 DEF OrderInv, Waiting, Clearing
    <2>5. AnswerInv' /\ DataInv'
      BY <1>u, <2>1, <2>2 DEF AnswerInv, Busy, Answering, Sent, DataInv, Replied
    <2> QED BY <2>3, <2>4, <2>5, <2>6
  <1>b. CASE tmem.tohost = No
    <2>q. PICK q \in {[id |-> Len(issued) + 1, dev |-> r.dev, req |-> r]} :
            /\ tmem' = [tmem EXCEPT !.tohost = q]
            /\ treq' = q /\ issued' = Append(issued, q.id)
            /\ tpc' = IF r.dev = "exit" THEN "exited" ELSE "program"
      BY <1>b, Zenon DEF DoTohost
    <2>r. /\ q \in Commands /\ q.dev = r.dev /\ q.id = Len(issued) + 1
          /\ issued' \in Seq(Nat) /\ Len(issued') = Len(issued) + 1 /\ Len(issued) \in Nat
      BY <2>q, RequestIs
    <2>m. /\ tmem' \in Memories /\ tmem'.tohost = q /\ tmem'.magic = tmem.magic /\ tmem'.fromhost = tmem.fromhost
          /\ tmem'.buf = tmem.buf
      BY <1>u, <2>q, <2>r DEF Memories
    <2>n. /\ Waiting = 0 /\ Waiting' = 1 /\ ~Clearing /\ ~Clearing' /\ ~Sent' /\ ~Answering' /\ ~Busy'
          /\ hp # "clear"
      <3>1. ~Clearing /\ hp # "clear"
        BY <1>b DEF OrderInv
      <3>2. Waiting = 0 /\ Waiting' = 1 /\ ~Clearing' /\ ~Sent'
        BY <1>b, <1>u, <1>f, <2>m, <2>r, <3>1 DEF Waiting, Clearing, Sent
      <3>3. ~Answering' /\ ~Busy'
        BY <1>u, <1>f, <2>m, <3>2 DEF Answering, Busy
      <3> QED BY <3>1, <3>2, <3>3
    <2>1. HtifTypeOK'
      BY <1>u, <2>q, <2>r, <2>m DEF HtifTypeOK, Memories
    <2>2. OrderInv'
      <3>1. \A i \in DOMAIN handled' : handled'[i] = i
        BY <1>u DEF OrderInv
      <3>2. Len(handled) \in Nat
        BY DEF HtifTypeOK
      <3>3. hp = "handle" => Len(issued') = Len(handled') + Waiting' + 1
        BY <1>u, <2>r, <2>n, <3>2 DEF OrderInv
      <3>4. hp = "dead" => Len(issued') \in {Len(handled') + Waiting', Len(handled') + Waiting' + 1}
        BY <1>u, <2>r, <2>n, <3>2 DEF OrderInv
      <3>5. hp \notin {"handle", "dead"} => Len(issued') = Len(handled') + Waiting'
        BY <1>u, <2>r, <2>n, <3>2 DEF OrderInv
      <3> QED BY <1>u, <2>q, <2>r, <2>m, <2>n, <3>1, <3>3, <3>4, <3>5 DEF OrderInv
    <2>3. WiresInv'
      BY <1>u DEF WiresInv
    <2>4. AnswerInv'
      BY <1>u, <1>f, <2>q, <2>r, <2>m, <2>n DEF AnswerInv, Answering
    <2>5. DataInv'
      BY <1>u DEF DataInv
    <2> QED BY <2>1, <2>2, <2>3, <2>4, <2>5
  <1> QED BY <1>a, <1>b


----------------------------------------------------------------------------
(* The system calls. *)

SystemCall == \/ sys_openat \/ sys_close \/ sys_read \/ sys_write \/ sys_pathcall \/ sys_fstat \/ sys_lstat
              \/ sys_chdir \/ sys_getcwd \/ sys_exit

\* A set of numbers that is not empty has a least element.
LEMMA LeastNat ==
  ASSUME NEW n \in Nat, NEW T, T \subseteq 0 .. n, T # {}
  PROVE  \E x \in T : \A y \in T : x <= y
  <1> DEFINE Below == {0 .. x : x \in T}
             R == StrictSubsetOrdering(0 .. n)
             S == FiniteSubsetsOf(0 .. n)
  <1>1. Below \subseteq S /\ Below # {}
    <2>1. ASSUME NEW x \in T
          PROVE  0 .. x \in S
      <3>1. x \in Int /\ 0 .. x \subseteq 0 .. n
        OBVIOUS
      <3>2. IsFiniteSet(0 .. x)
        BY <3>1, FS_Interval
      <3> QED BY <3>1, <3>2 DEF FiniteSubsetsOf
    <2>2. Below # {}
      OBVIOUS
    <2> QED BY <2>1, <2>2
  <1>2. IsWellFoundedOn(R, S)
    BY FS_StrictSubsetOrderingWellFounded
  <1>3. \E b \in Below : \A c \in Below : ~ (<<c, b>> \in R)
    <2> HIDE DEF Below, R, S
    <2> QED BY <1>1, <1>2, WFMin
  <1>4. PICK x \in T : \A c \in Below : ~ (<<c, 0 .. x>> \in R)
    BY <1>3
  <1>5. \A y \in T : x <= y
    <2>1. SUFFICES ASSUME NEW y \in T, ~(x <= y)
                   PROVE  <<0 .. y, 0 .. x>> \in R
      BY <1>4
    <2>2. x \in 0 .. n /\ y \in 0 .. n /\ y < x
      BY <2>1
    <2>3. 0 .. y \subseteq 0 .. x /\ 0 .. y # 0 .. x /\ 0 .. x \in SUBSET (0 .. n) /\ 0 .. y \in SUBSET (0 .. n)
      BY <2>2
    <2> QED BY <2>3 DEF StrictSubsetOrdering
  <1> QED BY <1>5

\* FirstFree is a free slot, or the one after the last.
LEMMA FirstFreeIs ==
  ASSUME NEW t \in Seq(Int)
  PROVE  /\ FirstFree(t) \in 1 .. Len(t) + 1
         /\ FirstFree(t) > Len(t) \/ t[FirstFree(t)] = -1
  <1> DEFINE T == {i \in 1 .. Len(t) + 1 : i > Len(t) \/ t[i] = -1}
  <1>1. Len(t) \in Nat /\ Len(t) + 1 \in T /\ Len(t) + 1 \in Nat /\ T \subseteq 0 .. Len(t) + 1 /\ T # {}
    OBVIOUS
  <1>2. \E x \in T : \A y \in T : x <= y
    <2> HIDE DEF T
    <2> DEFINE n == Len(t) + 1
    <2>1. n \in Nat /\ T \subseteq 0 .. n /\ T # {}
      BY <1>1
    <2> HIDE DEF n
    <2> QED BY <2>1, LeastNat
  <1>4. PICK x \in T : \A y \in T : x <= y
    BY <1>2
  <1>3. x \in 1 .. Len(t) + 1 /\ (x > Len(t) \/ t[x] = -1) /\ \A j \in 1 .. x - 1 : t[j] # -1
    BY <1>1, <1>4
  <1> HIDE DEF T
  <1> QED BY <1>3 DEF FirstFree

\* The host has a descriptor to give while fewer than its limit are open.
LEMMA FreeHostFdIs ==
  ASSUME IsFiniteSet(DOMAIN hostfd), DOMAIN hostfd \subseteq Nat, Cardinality(DOMAIN hostfd) < MaxHostFds
  PROVE  FreeHostFd \in Nat /\ FreeHostFd \notin DOMAIN hostfd
  <1> DEFINE T == (0 .. MaxHostFds) \ DOMAIN hostfd
  <1>1. MaxHostFds \in Nat
    BY HtifAssumption
  <1>2. IsFiniteSet(0 .. MaxHostFds) /\ Cardinality(0 .. MaxHostFds) = MaxHostFds + 1
    BY <1>1, FS_Interval
  <1>3. T # {}
    <2>1. SUFFICES ASSUME 0 .. MaxHostFds \subseteq DOMAIN hostfd
                   PROVE  FALSE
      OBVIOUS
    <2>2. Cardinality(0 .. MaxHostFds) <= Cardinality(DOMAIN hostfd)
      BY <2>1, FS_Subset
    <2>3. Cardinality(DOMAIN hostfd) \in Nat
      BY FS_CardinalityType
    <2> QED BY <1>1, <1>2, <2>2, <2>3
  <1>4. PICK h \in T : \A g \in T : h <= g
    <2>1. T \subseteq 0 .. MaxHostFds
      OBVIOUS
    <2> HIDE DEF T
    <2> QED BY <1>1, <1>3, <2>1, LeastNat
  <1>5. h \in 0 .. MaxHostFds /\ h \notin DOMAIN hostfd /\ \A g \in 0 .. h - 1 : g \in DOMAIN hostfd
    BY <1>1, <1>4
  <1> HIDE DEF T
  <1> QED BY <1>1, <1>5 DEF FreeHostFd


\* Every system call is a step of the kind CallStepInv is about.
LEMMA EachCall ==
  ASSUME ServerInv, FdsInv, SystemCall
  PROVE  CallStep
  <1> USE DEF ServerInv, CallStep, Result, callVars, exitVars
  <1>1. result \in [ret : Int, buf : {"none"} \cup Buffers] /\ exitcode \in Nat
    BY DEF HtifTypeOK
  <1>2. CASE sys_openat
    <2>1. FirstFree(fds) \in Nat
      BY FirstFreeIs DEF FdsInv
    <2> QED BY <1>1, <1>2, <2>1 DEF sys_openat, Calls
  <1>3. CASE sys_close
    BY <1>1, <1>3 DEF sys_close, Calls
  <1>4. CASE sys_read
    BY <1>1, <1>4 DEF sys_read, Calls, Buffers
  <1>5. CASE sys_write
    BY <1>1, <1>5 DEF sys_write, Calls
  <1>6. CASE sys_pathcall
    BY <1>1, <1>6 DEF sys_pathcall, Calls
  <1>7. CASE sys_fstat
    BY <1>1, <1>7 DEF sys_fstat, Calls, Buffers
  <1>8. CASE sys_lstat
    BY <1>1, <1>8 DEF sys_lstat, Calls, Buffers
  <1>9. CASE sys_chdir
    BY <1>1, <1>9 DEF sys_chdir, Calls
  <1>10. CASE sys_getcwd
    BY <1>1, <1>10 DEF sys_getcwd, Calls, Buffers
  <1>11. CASE sys_exit
    <2>1. hp = "sys_exit" /\ cmd \in Commands /\ cmd.dev = "syscall" /\ cmd.req.call = "sys_exit"
      BY <1>11, CommandsAre DEF sys_exit, AnswerInv, DataInv, Busy, Calls, HtifTypeOK
    <2>2. exitcode' \in Nat
      BY <1>11, <2>1, RequestsAre DEF sys_exit, Args
    <2> QED BY <1>1, <1>11, <2>2 DEF sys_exit, Calls
  <1> QED BY <1>2, <1>3, <1>4, <1>5, <1>6, <1>7, <1>8, <1>9, <1>10, <1>11 DEF SystemCall

\* open takes the lowest free slot and the host's lowest free descriptor.
LEMMA OpenFds ==
  ASSUME ServerInv, FdsInv, sys_openat
  PROVE  FdsInv'
  <1>1. CASE UNCHANGED sysVars
    BY <1>1 DEF FdsInv, sysVars
  <1>2. CASE ~UNCHANGED sysVars
    <2> DEFINE f == FirstFree(fds)
    <2>1. PICK h \in {FreeHostFd}, file \in {<<do_chroot(Args).dir, Args.name>>} :
            /\ hostfd' = [x \in DOMAIN hostfd \cup {h} |-> IF x = h THEN file ELSE hostfd[x]]
            /\ fds' = alloc(h, fds)
            /\ opened' = [x \in DOMAIN opened \cup {FirstFree(fds) - 1} |->
                            IF x = FirstFree(fds) - 1 THEN file ELSE opened[x]]
      BY <1>2, Zenon DEF sys_openat
    <2>2. Cardinality(DOMAIN hostfd) < MaxHostFds
      BY <1>2 DEF sys_openat
    <2>3. h \in Nat /\ h \notin DOMAIN hostfd
      BY <2>1, <2>2, FreeHostFdIs DEF FdsInv
    <2>4. fds \in Seq(Int) /\ Len(fds) \in Nat /\ f \in 1 .. Len(fds) + 1 /\ (f > Len(fds) \/ fds[f] = -1)
      BY FirstFreeIs DEF FdsInv
    <2> DEFINE n == IF f > Len(fds) THEN Len(fds) + 1 ELSE Len(fds)
    <2>5. fds' = [i \in 1 .. n |-> IF i = f THEN h ELSE fds[i]]
      BY <2>1 DEF alloc
    <2>6. opened' = [x \in DOMAIN opened \cup {f - 1} |-> IF x = f - 1 THEN file ELSE opened[x]]
      BY <2>1
    <2> HIDE DEF f
    <2>7. /\ fds' \in Seq(Int) /\ Len(fds') = n /\ f \in 1 .. n /\ n \in Nat /\ Len(fds) <= n
          /\ fds'[f] = h /\ \A i \in 1 .. n : i # f => i \in 1 .. Len(fds) /\ fds'[i] = fds[i]
      BY <2>3, <2>4, <2>5
    <2>8. DOMAIN hostfd' \subseteq Nat /\ IsFiniteSet(DOMAIN hostfd')
      <3>1. DOMAIN hostfd' = DOMAIN hostfd \cup {h} /\ DOMAIN hostfd \subseteq Nat /\ IsFiniteSet(DOMAIN hostfd)
        BY <2>1 DEF FdsInv
      <3> QED BY <2>3, <3>1, FS_AddElement
    <2> HIDE DEF n
    <2>9. /\ \A i \in 1 .. Len(fds) : fds[i] # -1 <=> (i - 1) \in DOMAIN opened
          /\ \A fd \in DOMAIN opened : fd \in Nat /\ fd + 1 \in 1 .. Len(fds)
          /\ \A fd \in DOMAIN opened : fds[fd + 1] \in DOMAIN hostfd /\ hostfd[fds[fd + 1]] = opened[fd]
          /\ \A i, j \in 1 .. Len(fds) : i # j /\ fds[i] # -1 => fds[i] # fds[j]
      BY DEF FdsInv
    <2>10. DOMAIN opened' = DOMAIN opened \cup {f - 1} /\ opened'[f - 1] = file
           /\ (f - 1) \notin DOMAIN opened /\ \A fd \in DOMAIN opened : opened'[fd] = opened[fd]
      BY <2>4, <2>6, <2>9
    <2>11. \A i \in 1 .. n : fds'[i] # -1 <=> (i - 1) \in DOMAIN opened'
      <3>1. SUFFICES ASSUME NEW i \in 1 .. n
                     PROVE  fds'[i] # -1 <=> (i - 1) \in DOMAIN opened'
        OBVIOUS
      <3>2. CASE i = f
        BY <2>3, <2>7, <2>10, <3>2
      <3>3. CASE i # f
        <4>1. i \in 1 .. Len(fds) /\ fds'[i] = fds[i] /\ i - 1 # f - 1
          BY <2>7, <3>3
        <4> QED BY <2>9, <2>10, <4>1
      <3> QED BY <3>2, <3>3
    <2>12. \A fd \in DOMAIN opened' : fd \in Nat /\ fd + 1 \in 1 .. n
      BY <2>4, <2>7, <2>9, <2>10
    <2>13. \A fd \in DOMAIN opened' : fds'[fd + 1] \in DOMAIN hostfd' /\ hostfd'[fds'[fd + 1]] = opened'[fd]
      <3>1. SUFFICES ASSUME NEW fd \in DOMAIN opened'
                     PROVE  fds'[fd + 1] \in DOMAIN hostfd' /\ hostfd'[fds'[fd + 1]] = opened'[fd]
        OBVIOUS
      <3>2. CASE fd = f - 1
        BY <2>1, <2>4, <2>7, <2>10, <3>2
      <3>3. CASE fd # f - 1
        <4>1. fd \in DOMAIN opened /\ fd + 1 # f /\ fds'[fd + 1] = fds[fd + 1]
          <5>1. fd \in DOMAIN opened /\ fd \in Nat /\ fd + 1 \in 1 .. n
            BY <2>10, <2>12, <3>1, <3>3
          <5>2. f \in Nat /\ fd + 1 # f
            BY <2>7, <3>3, <5>1
          <5> QED BY <2>7, <5>1, <5>2
        <4>2. fds[fd + 1] \in DOMAIN hostfd /\ hostfd[fds[fd + 1]] = opened[fd] /\ opened'[fd] = opened[fd]
          BY <2>9, <2>10, <4>1
        <4> QED BY <2>1, <2>3, <4>1, <4>2
      <3> QED BY <3>2, <3>3
    <2>14. \A i \in 1 .. n : i # f /\ fds'[i] # -1 => fds'[i] \in DOMAIN hostfd
      <3>1. SUFFICES ASSUME NEW i \in 1 .. n, i # f, fds'[i] # -1
                     PROVE  fds[i] \in DOMAIN hostfd /\ fds'[i] = fds[i]
        OBVIOUS
      <3>2. i \in 1 .. Len(fds) /\ fds'[i] = fds[i] /\ (i - 1) \in DOMAIN opened
        BY <2>7, <2>9, <3>1
      <3>3. (i - 1) + 1 = i
        BY <2>7
      <3> QED BY <2>9, <3>2, <3>3
    <2>15. \A i, j \in 1 .. n : i # j /\ fds'[i] # -1 => fds'[i] # fds'[j]
      <3>1. SUFFICES ASSUME NEW i \in 1 .. n, NEW j \in 1 .. n, i # j, fds'[i] # -1, fds'[i] = fds'[j]
                     PROVE  FALSE
        OBVIOUS
      <3>2. CASE i # f /\ j # f
        BY <2>7, <2>9, <3>1, <3>2
      <3>3. CASE i = f \/ j = f
        BY <2>3, <2>7, <2>14, <3>1, <3>3
      <3> QED BY <3>2, <3>3
    <2> QED BY <2>7, <2>8, <2>11, <2>12, <2>13, <2>15 DEF FdsInv
  <1> QED BY <1>1, <1>2

\* close frees the slot and the host's descriptor together.
LEMMA CloseFds ==
  ASSUME ServerInv, FdsInv, sys_close
  PROVE  FdsInv'
  <1>1. CASE ~HostOpen(lookup(Args.fd))
    BY <1>1 DEF sys_close, FdsInv, sysVars
  <1>2. CASE HostOpen(lookup(Args.fd))
    <2> DEFINE fd == Args.fd
               h == lookup(fd)
    <2>1. /\ hostfd' = [x \in DOMAIN hostfd \ {h} |-> hostfd[x]]
          /\ fds' = [fds EXCEPT ![fd + 1] = -1]
          /\ opened' = [x \in DOMAIN opened \ {fd} |-> opened[x]]
      BY <1>2 DEF sys_close, dealloc
    <2>2. h \in DOMAIN hostfd /\ h # -1
      BY <1>2 DEF HostOpen, FdsInv
    <2>3. fd \in 0 .. Len(fds) - 1 /\ h = fds[fd + 1]
      BY <2>2 DEF lookup
    <2> HIDE DEF fd, h
    <2>4. fds \in Seq(Int) /\ Len(fds) \in Nat /\ fd + 1 \in 1 .. Len(fds) /\ fd \in Nat
      BY <2>3 DEF FdsInv
    <2>5. /\ fds' \in Seq(Int) /\ Len(fds') = Len(fds) /\ fds'[fd + 1] = -1
          /\ \A i \in 1 .. Len(fds) : i # fd + 1 => fds'[i] = fds[i]
      BY <2>1, <2>4
    <2>6. DOMAIN hostfd' \subseteq Nat /\ IsFiniteSet(DOMAIN hostfd')
      <3>1. DOMAIN hostfd' \subseteq DOMAIN hostfd /\ DOMAIN hostfd \subseteq Nat /\ IsFiniteSet(DOMAIN hostfd)
        BY <2>1 DEF FdsInv
      <3> QED BY <3>1, FS_Subset
    <2>7. /\ \A i \in 1 .. Len(fds) : fds[i] # -1 <=> (i - 1) \in DOMAIN opened
          /\ \A x \in DOMAIN opened : x \in Nat /\ x + 1 \in 1 .. Len(fds)
          /\ \A x \in DOMAIN opened : fds[x + 1] \in DOMAIN hostfd /\ hostfd[fds[x + 1]] = opened[x]
          /\ \A i, j \in 1 .. Len(fds) : i # j /\ fds[i] # -1 => fds[i] # fds[j]
      BY DEF FdsInv
    <2>8. DOMAIN opened' = DOMAIN opened \ {fd} /\ \A x \in DOMAIN opened' : opened'[x] = opened[x]
      BY <2>1
    <2>9. \A i \in 1 .. Len(fds) : fds'[i] # -1 <=> (i - 1) \in DOMAIN opened'
      <3>1. SUFFICES ASSUME NEW i \in 1 .. Len(fds)
                     PROVE  fds'[i] # -1 <=> (i - 1) \in DOMAIN opened'
        OBVIOUS
      <3>2. CASE i = fd + 1
        BY <2>4, <2>5, <2>8, <3>2
      <3>3. CASE i # fd + 1
        <4>1. i - 1 # fd /\ fds'[i] = fds[i]
          BY <2>4, <2>5, <3>3
        <4> QED BY <2>7, <2>8, <4>1
      <3> QED BY <3>2, <3>3
    <2>10. \A x \in DOMAIN opened' : fds'[x + 1] \in DOMAIN hostfd' /\ hostfd'[fds'[x + 1]] = opened'[x]
      <3>1. SUFFICES ASSUME NEW x \in DOMAIN opened'
                     PROVE  fds'[x + 1] \in DOMAIN hostfd' /\ hostfd'[fds'[x + 1]] = opened'[x]
        OBVIOUS
      <3>2. x \in DOMAIN opened /\ x # fd /\ x \in Nat /\ x + 1 \in 1 .. Len(fds) /\ x + 1 # fd + 1
        BY <2>4, <2>7, <2>8, <3>1
      <3>3. fds'[x + 1] = fds[x + 1] /\ fds[x + 1] # h
        BY <2>2, <2>3, <2>4, <2>5, <2>7, <3>2
      <3>4. fds[x + 1] \in DOMAIN hostfd /\ hostfd[fds[x + 1]] = opened[x] /\ opened'[x] = opened[x]
        BY <2>7, <2>8, <3>1, <3>2
      <3> QED BY <2>1, <3>3, <3>4
    <2>11. \A i, j \in 1 .. Len(fds) : i # j /\ fds'[i] # -1 => fds'[i] # fds'[j]
      BY <2>4, <2>5, <2>7
    <2>12. \A x \in DOMAIN opened' : x \in Nat /\ x + 1 \in 1 .. Len(fds)
      BY <2>7, <2>8
    <2> QED BY <2>5, <2>6, <2>9, <2>10, <2>11, <2>12 DEF FdsInv
  <1> QED BY <1>1, <1>2

----------------------------------------------------------------------------
(* The invariant, and what it is for. *)

HtifInv == ServerInv /\ FdsInv

\* The server starts in the invariant.
LEMMA HtifInitInv == HtifInit => HtifInv
  <1> SUFFICES ASSUME HtifInit
               PROVE  HtifInv
    OBVIOUS
  <1> USE CommandsAre
  <1>1. /\ tmem = [tohost |-> No, fromhost |-> No, magic |-> No, buf |-> "old"]
        /\ in_data = <<>> /\ posted \in BOOLEAN
        /\ prog \in {"syscall", "do_tohost"} /\ tpc = "program" /\ treq = No /\ issued = <<>>
        /\ hp = "loop" /\ cmd = No /\ result = [ret |-> 0, buf |-> "none"]
        /\ fromhost_queue = <<>> /\ pending_reads = <<>> /\ input = 1
        /\ exitcode = 0 /\ handled = <<>> /\ output = <<>>
        /\ fds = <<0, 1, 2>> /\ hostfd = [f \in 0 .. 2 |-> "tty"] /\ opened = [f \in 0 .. 2 |-> "tty"]
    BY DEF HtifInit, stdFds
  <1>2. HtifTypeOK
    BY <1>1 DEF HtifTypeOK, HostPcs, Buffers
  <1>3. ~Clearing /\ Waiting = 0 /\ ~Sent /\ ~Busy /\ ~Answering
    BY <1>1 DEF Clearing, Waiting, Sent, Busy, Answering, Calls
  <1>4. Len(issued) = 0 /\ Len(handled) = 0 /\ Len(in_data) = 0 /\ DOMAIN handled = {} /\ DOMAIN output = {}
    BY <1>1
  <1>5. OrderInv
    BY <1>1, <1>3, <1>4 DEF OrderInv
  <1>6. WiresInv
    BY <1>1, <1>4 DEF WiresInv, Calls
  <1>7. AnswerInv
    BY <1>1, <1>3, <1>4 DEF AnswerInv
  <1>8. DataInv
    BY <1>1 DEF DataInv
  <1>9. FdsInv
    <2>1. fds \in Seq(Int) /\ Len(fds) = 3 /\ fds[1] = 0 /\ fds[2] = 1 /\ fds[3] = 2
      BY <1>1
    <2>2. DOMAIN hostfd = 0 .. 2 /\ DOMAIN opened = 0 .. 2 /\ IsFiniteSet(0 .. 2)
      <3>1. 0 \in Int /\ 2 \in Int
        OBVIOUS
      <3>2. IsFiniteSet(0 .. 2)
        BY <3>1, FS_Interval
      <3> QED BY <1>1, <3>2
    <2>3. \A i \in 1 .. 3 : fds[i] = i - 1
      BY <2>1
    <2>4. \A x \in 0 .. 2 : x + 1 \in 1 .. 3 /\ x \in Nat /\ hostfd[x] = opened[x]
      BY <1>1
    <2> QED BY <2>1, <2>2, <2>3, <2>4 DEF FdsInv
  <1> QED BY <1>2, <1>5, <1>6, <1>7, <1>8, <1>9 DEF HtifInv, ServerInv

\* Every step of the server, the adapter and the target keeps the invariant.
LEMMA HtifNextInv == HtifInv /\ [HtifNext]_htifVars => HtifInv'
  <1> SUFFICES ASSUME HtifInv, [HtifNext]_htifVars
               PROVE  HtifInv'
    OBVIOUS
  <1> USE DEF HtifInv
  <1>1. ServerInv'
    <2>1. CASE SystemCall
      BY <2>1, EachCall, CallStepInv
    <2>2. CASE TargetStep
      BY <2>2, TargetSyscallInv, DoTohostInv, TargetSeesInv DEF TargetStep
    <2>3. CASE UNCHANGED htifVars
      BY <2>3 DEF htifVars, htifMem, targetVars, devVars, exitVars, sysVars, ServerInv, HtifTypeOK, OrderInv,
                  WiresInv, AnswerInv, DataInv, Replied, Waiting, Clearing, Sent, Busy, Answering
    <2>4. CASE HostStep /\ ~SystemCall
      BY <2>4, PollInv, ClearTohostInv, HandleSyscallInv, HandleExitInv, HandleDiskInv, HandleBcdReadInv,
         HandleBcdWriteInv, HandleNullInv, DispatchInv, ReplyInv, TickInv, CheckFromhostInv, DeliverInv, stopInv
         DEF HostStep, SystemCall
    <2> QED BY <2>1, <2>2, <2>3, <2>4, AdapterInv, handle_signalInv DEF HtifNext
  <1>2. FdsInv'
    <2>1. CASE sys_openat
      BY <2>1, OpenFds
    <2>2. CASE sys_close
      BY <2>2, CloseFds
    <2>3. CASE ~sys_openat /\ ~sys_close
      <3>1. UNCHANGED <<fds, hostfd, opened>>
        BY <2>3 DEF HtifNext, HostStep, TargetStep, htifVars, sysVars, Poll, ClearTohost, HandleSyscall, HandleExit,
              HandleDisk, HandleBcdRead, HandleBcdWrite, HandleNull, Dispatch, sys_read, sys_write, sys_pathcall,
              sys_fstat, sys_lstat, sys_chdir, sys_getcwd, sys_exit, Reply, Tick, CheckFromhost, Deliver, stop,
              Adapter, TargetSyscall, DoTohost, TargetSeesResponse, handle_signal
      <3> QED BY <3>1 DEF FdsInv
    <2> QED BY <2>1, <2>2, <2>3
  <1> QED BY <1>1, <1>2

\* The invariant holds of the host, the transport and the target's programs,
\* whatever order they take their steps in.
THEOREM HtifInvariant == HtifSpec => []HtifInv
  BY HtifInitInv, HtifNextInv, PTL DEF HtifSpec

\* Commands are handled once and in order, and a response the target sees is
\* the one to the command it waits for, its result and data being in memory
\* already, however many requests there are and whether or not the transport
\* posts its writes (htif_t::run, syscall_t, syscall() and do_tohost()).
THEOREM HtifKeepsProtocol == HtifSpec => []HtifProtocol
  <1>1. HtifInv => HtifProtocol
    <2> SUFFICES ASSUME HtifInv
                 PROVE  HtifProtocol
      OBVIOUS
    <2> USE CommandsAre DEF HtifInv, ServerInv
    <2>1. Len(issued) \in Nat /\ Len(handled) \in Nat /\ Waiting \in {0, 1} /\ (Waiting = 1 => tmem.tohost # No)
      BY DEF HtifTypeOK, Waiting
    <2>2. /\ Len(handled) <= Len(issued) /\ \A i \in DOMAIN handled : handled[i] = i
          /\ Len(issued) - Len(handled) <= (IF tmem.tohost # No THEN 1 ELSE 0) + (IF hp \in {"handle", "dead"} THEN 1 ELSE 0)
      BY <2>1 DEF OrderInv
    <2>3. \A i, j \in DOMAIN output : i < j => output[i] < output[j]
      BY DEF OrderInv
    <2>4. ASSUME tmem.fromhost # No
          PROVE  /\ tpc = "wait" /\ tmem.fromhost.id = treq.id
                 /\ treq.dev = "syscall" => "ret" \in DOMAIN tmem.magic /\ tmem.magic.id = treq.id
                 /\ (treq.dev = "syscall" /\ treq.req.call \in {"read", "fstat"}) =>
                       (tmem.magic.ret > 0 => tmem.buf # "old")
      <3>1. Answering /\ tmem.fromhost = treq /\ in_data = <<>> /\ tpc = "wait" /\ prog = "syscall"
        BY <2>4 DEF Answering, AnswerInv, HtifTypeOK
      <3>2. CASE treq.dev = "syscall"
        <4>1. Len(in_data) = 0
          BY <3>1
        <4>2. Replied(tmem.magic, tmem.buf # "old")
          BY <3>1, <3>2, <4>1 DEF DataInv
        <4>3. "ret" \in DOMAIN tmem.magic
          BY <4>2 DEF Replied, Returns
        <4> QED BY <3>1, <4>2, <4>3 DEF Replied
      <3> QED BY <3>1, <3>2
    <2> QED BY <2>2, <2>3, <2>4 DEF HtifProtocol
  <1> QED BY <1>1, HtifInvariant, PTL

\* A descriptor of the target leads to the file it was opened on, for as long
\* as it is open, for any number of descriptors (fds_t, sys_openat, sys_close).
THEOREM HtifFdsFollow == HtifSpec => []FdsFollow
  <1>1. HtifInv => FdsFollow
    <2> SUFFICES ASSUME HtifInv
                 PROVE  FdsFollow
      OBVIOUS
    <2>1. FdsInv /\ Len(fds) \in Nat
      BY DEF HtifInv, FdsInv
    <2>2. \A fd \in DOMAIN opened : lookup(fd) = fds[fd + 1]
      BY <2>1 DEF FdsInv, lookup
    <2> QED BY <2>1, <2>2 DEF FdsInv, FdsFollow, HostOpen
  <1> QED BY <1>1, HtifInvariant, PTL

----------------------------------------------------------------------------
(* The front-end server's contexts.  Whoever may run has the baton; the    *)
(* other one is on its way to its wait, or in it, with its flag cleared.   *)

Passive == {"lock", "signal", "unlock", "relock", "test", "wait", "waiting"}
ContextTypeOK ==
    /\ flag \in [Contexts -> {0, 1}]
    /\ mutex \in [Contexts -> Contexts \cup {"free"}]
    /\ cpc \in [Contexts -> Passive \cup {"none", "running", "set"}]
    /\ asked \in SUBSET Contexts
\* c has the baton.
HasBaton(c) ==
    /\ flag[Other(c)] = 0 /\ cpc[Other(c)] \in Passive
    /\ cpc[c] \in Passive => flag[c] = 1
    /\ cpc[c] = "set" => flag[c] = 0
    /\ cpc[c] # "none"
\* A mutex is held by its own thread at the test of its flag, by the other
\* one at the signal.
Held(c) ==
    /\ mutex[c] = c <=> cpc[c] \in {"test", "wait"}
    /\ mutex[c] = Other(c) <=> cpc[Other(c)] \in {"signal", "unlock"}
\* A thread that has seen its flag clear and is not woken up yet will be.
WillWake(c) ==
    /\ cpc[c] = "wait" /\ flag[c] = 1 => cpc[Other(c)] = "lock"
    /\ cpc[c] = "waiting" /\ flag[c] = 1 => cpc[Other(c)] \in {"lock", "signal"}
ContextInv ==
    /\ ContextTypeOK
    /\ \/ /\ cpc["host"] = "none" /\ cpc["target"] = "running" /\ flag["host"] = 0
          /\ mutex = [c \in Contexts |-> "free"]
       \/ \E c \in Contexts : HasBaton(c)
    /\ \A c \in Contexts : Held(c) /\ WillWake(c)

LEMMA Others ==
  ASSUME NEW c \in Contexts
  PROVE  /\ Other(c) \in Contexts /\ Other(c) # c /\ Other(Other(c)) = c
         /\ Contexts = {c, Other(c)}
         /\ c # "free" /\ Other(c) # "free"
BY DEF Contexts, Other

LEMMA ContextInitInv == ContextInit => ContextInv
BY DEF ContextInit, ContextInv, ContextTypeOK, Contexts, Other, HasBaton, Held, WillWake, Passive

LEMMA ContextNextInv == ContextInv /\ [ContextStep]_contextVars => ContextInv'
<1> SUFFICES ASSUME ContextInv, [ContextStep]_contextVars PROVE ContextInv'
  OBVIOUS
<1>1. CASE CreateThread
  BY <1>1 DEF CreateThread, Goto, ContextInv, ContextTypeOK, Contexts, Other, HasBaton, Held, WillWake, Passive
<1>2. ASSUME NEW c \in Contexts, ClearFlag(c) \/ SwitchStep(c) \/ SpuriousWakeup(c)
      PROVE  ContextInv'
  <2>1. PICK o \in Contexts : o = Other(c) /\ o # c /\ Other(o) = c /\ Contexts = {c, o} /\ c # "free" /\ o # "free"
    BY Others
  <2>2. /\ ContextTypeOK /\ Held(c) /\ Held(o) /\ WillWake(c) /\ WillWake(o)
    BY <1>2, <2>1 DEF ContextInv
  <2>3. cpc[o] # "none" /\ cpc[c] # "none" /\ (HasBaton(c) \/ HasBaton(o))
    <3>1. cpc[c] \notin {"none"} /\ (cpc[c] = "running" => cpc[o] # "none")
      BY <1>2, <2>1 DEF ClearFlag, SwitchStep, SetFlag, LockOther, Signal, UnlockOther, LockSelf, Test, Wait, SpuriousWakeup
    <3>2. ~(cpc["host"] = "none" /\ cpc["target"] = "running")
      BY <3>1, <2>1 DEF Contexts
    <3>3. HasBaton(c) \/ HasBaton(o)
      BY <3>2, <2>1 DEF ContextInv
    <3> QED
      BY <2>1, <3>1, <3>3 DEF HasBaton, Passive
  <2> DEFINE Kept == /\ ContextTypeOK' /\ (HasBaton(c) \/ HasBaton(o))'
                     /\ (Held(c) /\ Held(o))' /\ (WillWake(c) /\ WillWake(o))'
  <2>4. ASSUME ClearFlag(c) PROVE Kept
    BY <2>4, <2>1, <2>2, <2>3 DEF ClearFlag, Goto, ContextTypeOK, HasBaton, Held, WillWake, Passive
  <2>5. ASSUME SetFlag(c) PROVE Kept
    BY <2>5, <2>1, <2>2, <2>3 DEF SetFlag, Goto, ContextTypeOK, HasBaton, Held, WillWake, Passive
  <2>6. ASSUME LockOther(c) PROVE Kept
    BY <2>6, <2>1, <2>2, <2>3 DEF LockOther, Goto, ContextTypeOK, HasBaton, Held, WillWake, Passive
  <2>7. ASSUME Signal(c) PROVE Kept
    BY <2>7, <2>1, <2>2, <2>3 DEF Signal, Goto, ContextTypeOK, HasBaton, Held, WillWake, Passive
  <2>8. ASSUME UnlockOther(c) PROVE Kept
    BY <2>8, <2>1, <2>2, <2>3 DEF UnlockOther, Goto, ContextTypeOK, HasBaton, Held, WillWake, Passive
  <2>9. ASSUME LockSelf(c) PROVE Kept
    BY <2>9, <2>1, <2>2, <2>3 DEF LockSelf, Goto, ContextTypeOK, HasBaton, Held, WillWake, Passive
  <2>10. ASSUME Test(c) PROVE Kept
    BY <2>10, <2>1, <2>2, <2>3 DEF Test, Goto, ContextTypeOK, HasBaton, Held, WillWake, Passive
  <2>11. ASSUME Wait(c) PROVE Kept
    BY <2>11, <2>1, <2>2, <2>3 DEF Wait, Goto, ContextTypeOK, HasBaton, Held, WillWake, Passive
  <2>12. ASSUME SpuriousWakeup(c) PROVE Kept
    BY <2>12, <2>1, <2>2, <2>3 DEF SpuriousWakeup, Goto, ContextTypeOK, HasBaton, Held, WillWake, Passive
  <2>13. Kept
    BY <1>2, <2>4, <2>5, <2>6, <2>7, <2>8, <2>9, <2>10, <2>11, <2>12 DEF SwitchStep
  <2> QED
    BY <2>1, <2>13 DEF ContextInv
<1>3. CASE UNCHANGED contextVars
  BY <1>3 DEF contextVars, ContextInv, ContextTypeOK, HasBaton, Held, WillWake
<1> QED
  BY <1>1, <1>2, <1>3 DEF ContextStep

LEMMA ContextInvAlternates == ContextInv => ContextsAlternate
BY DEF ContextInv, ContextTypeOK, ContextsAlternate, Contexts, Other, HasBaton, Held, WillWake, Passive

----------------------------------------------------------------------------
(* Access to memory.  All pieces of an access have the same distance       *)
(* between a byte's address and its place in the caller's buffer.          *)

LEMMA Quotient ==
  ASSUME NEW n \in Nat \ {0}, NEW q \in Int, NEW r \in 0 .. n - 1, NEW v \in Int, v = q * n + r
  PROVE  v \div n = q /\ v % n = r
OBVIOUS
LEMMA Division ==
  ASSUME NEW n \in Nat \ {0}, NEW v \in Nat
  PROVE  v \div n \in Nat /\ v % n \in 0 .. n - 1 /\ v = (v \div n) * n + (v % n)
OBVIOUS

\* Multiples of the chunks' alignment.
Multiple(v) == \E q \in Int : v = q * align

LEMMA Aligned ==
  ASSUME NEW v \in Nat
  PROVE  /\ v % align \in 0 .. align - 1 /\ v % align <= v /\ align \in Nat \ {0}
         /\ Multiple(v - (v % align))
         /\ (v % align = 0) <=> Multiple(v)
<1>1. align \in Nat \ {0}
  BY MemifAssumption
<1>2. v \div align \in Nat /\ v % align \in 0 .. align - 1 /\ v = (v \div align) * align + (v % align)
  BY <1>1, Division
<1>3. v % align <= v /\ Multiple(v - (v % align))
  <2>1. PICK q \in Nat, r \in 0 .. align - 1 : v = q * align + r /\ r = v % align
    BY <1>2
  <2>2. q * align \in Nat
    BY <1>1
  <2>3. v - r = q * align /\ r <= v
    BY <2>1, <2>2, <1>1
  <2> QED BY <2>1, <2>3 DEF Multiple
<1>4. ASSUME Multiple(v) PROVE v % align = 0
  <2>1. PICK q \in Int : v = q * align
    BY <1>4 DEF Multiple
  <2>2. v = q * align + 0 /\ 0 \in 0 .. align - 1
    BY <2>1, <1>1
  <2> QED BY <2>2, <1>1, Quotient
<1>5. v % align = 0 => Multiple(v)
  BY <1>3
<1> QED BY <1>1, <1>2, <1>3, <1>4, <1>5

LEMMA MultipleSum ==
  ASSUME NEW v \in Int, NEW w \in Int, Multiple(v), Multiple(w)
  PROVE  Multiple(v + w) /\ Multiple(v - w)
<1>1. PICK q \in Int, r \in Int : v = q * align /\ w = r * align
  BY DEF Multiple
<1>2. align \in Int
  BY MemifAssumption
<1>3. v + w = (q + r) * align /\ v - w = (q - r) * align /\ q + r \in Int /\ q - r \in Int
  BY <1>1, <1>2
<1> QED BY <1>3 DEF Multiple

LEMMA MultipleProduct ==
  ASSUME NEW v \in Int, NEW k \in Int, Multiple(v)
  PROVE  Multiple(k * v)
<1>1. PICK q \in Int : v = q * align
  BY DEF Multiple
<1>2. align \in Int
  BY MemifAssumption
<1>3. k * v = (k * q) * align /\ k * q \in Int
  BY <1>1, <1>2
<1> QED BY <1>3 DEF Multiple

Pieces == [kind : {"read", "modify", "write", "clear"}, first : Nat, size : Nat, o : Nat, p : Nat, n : Nat]
Requested == [op : {"none", "thrown", "read", "write", "zeros"}, addr : Nat, len : 0 .. Bytes,
              data : [1 .. Bytes -> Int]]

\* A piece of the access x: legal to the host interface, and at its place.
Legal(c) ==
    /\ c.first % align = 0 /\ c.size % align = 0 /\ c.size \in 1 .. max_chunk
    /\ c.o + c.n <= c.size
Placed(c, x) ==
    /\ c.first + c.o = x.addr + c.p
    /\ c.p + c.n <= x.len
    /\ c.kind = "read" <=> x.op = "read"
    /\ c.kind \in {"write", "clear"} => c.o = 0 /\ c.n = c.size
    /\ c.kind = "clear" => \A i \in c.p + 1 .. c.p + c.n : x.data[i] = 0
Fit(ps, x) == ps \in Seq(Pieces) /\ \A i \in DOMAIN ps : Legal(ps[i]) /\ Placed(ps[i], x)
\* Some of the pieces hold byte b of memory.
Pending(ps, b) == \E i \in DOMAIN ps : b \in Mine(ps[i])
Covers(ps, x) == \A b \in x.addr .. x.addr + x.len - 1 : Pending(ps, b)

LEMMA PieceRead ==
  ASSUME NEW c \in Pieces, NEW x \in Requested, Placed(c, x)
  PROVE  /\ Mine(c) = x.addr + c.p .. x.addr + c.p + c.n - 1
         /\ \A b \in Int : At(c, b) = (b - x.addr) + 1
BY DEF Pieces, Requested, Placed, Mine, At

LEMMA ConcatFit ==
  ASSUME NEW x, NEW s, NEW u, Fit(s, x), Fit(u, x)
  PROVE  /\ Fit(s \o u, x)
         /\ \A b : Pending(s \o u, b) <=> Pending(s, b) \/ Pending(u, b)
<1>1. s \in Seq(Pieces) /\ u \in Seq(Pieces)
  BY DEF Fit
<1>2. /\ s \o u \in Seq(Pieces) /\ Len(s \o u) = Len(s) + Len(u) /\ Len(s) \in Nat /\ Len(u) \in Nat
      /\ \A i \in 1 .. Len(s) + Len(u) : (s \o u)[i] = IF i <= Len(s) THEN s[i] ELSE u[i - Len(s)]
      /\ DOMAIN s = 1 .. Len(s) /\ DOMAIN u = 1 .. Len(u) /\ DOMAIN (s \o u) = 1 .. Len(s) + Len(u)
  BY <1>1
<1>3. \A i \in DOMAIN (s \o u) : \/ i \in DOMAIN s /\ (s \o u)[i] = s[i]
                                 \/ i - Len(s) \in DOMAIN u /\ (s \o u)[i] = u[i - Len(s)]
  BY <1>2
<1>4. \A i \in DOMAIN s : i \in DOMAIN (s \o u) /\ (s \o u)[i] = s[i]
  BY <1>2
<1>5. \A i \in DOMAIN u : i + Len(s) \in DOMAIN (s \o u) /\ (s \o u)[i + Len(s)] = u[i]
  BY <1>2
<1>6. Fit(s \o u, x)
  BY <1>2, <1>3 DEF Fit
<1>7. ASSUME NEW b PROVE Pending(s \o u, b) <=> Pending(s, b) \/ Pending(u, b)
  BY <1>3, <1>4, <1>5 DEF Pending
<1> QED BY <1>6, <1>7

LEMMA TailFit ==
  ASSUME NEW x, NEW s, Fit(s, x), s # <<>>
  PROVE  /\ s[1] \in Pieces /\ Legal(s[1]) /\ Placed(s[1], x)
         /\ Fit(Tail(s), x)
         /\ \A b : Pending(s, b) <=> b \in Mine(s[1]) \/ Pending(Tail(s), b)
<1>1. s \in Seq(Pieces) /\ \A i \in DOMAIN s : Legal(s[i]) /\ Placed(s[i], x)
  BY DEF Fit
<1>2. /\ Len(s) \in Nat /\ Len(s) >= 1 /\ DOMAIN s = 1 .. Len(s) /\ Tail(s) \in Seq(Pieces)
      /\ Len(Tail(s)) = Len(s) - 1 /\ DOMAIN Tail(s) = 1 .. Len(s) - 1
      /\ \A i \in 1 .. Len(s) - 1 : Tail(s)[i] = s[i + 1]
  BY <1>1
<1>3. s[1] \in Pieces
  BY <1>1, <1>2
<1>4. \A i \in DOMAIN Tail(s) : i + 1 \in DOMAIN s /\ Tail(s)[i] = s[i + 1]
  BY <1>2
<1>5. \A i \in DOMAIN s : i = 1 \/ (i - 1 \in DOMAIN Tail(s) /\ Tail(s)[i - 1] = s[i])
  BY <1>2
<1>6. Fit(Tail(s), x)
  BY <1>1, <1>2, <1>4 DEF Fit
<1>7. ASSUME NEW b PROVE Pending(s, b) <=> b \in Mine(s[1]) \/ Pending(Tail(s), b)
  <2>1. ASSUME NEW i \in DOMAIN s, b \in Mine(s[i]) PROVE b \in Mine(s[1]) \/ Pending(Tail(s), b)
    <3>1. CASE i = 1
      BY <2>1, <3>1
    <3>2. CASE i # 1
      BY <2>1, <3>2, <1>5 DEF Pending
    <3> QED BY <3>1, <3>2
  <2>2. ASSUME NEW i \in DOMAIN Tail(s), b \in Mine(Tail(s)[i]) PROVE Pending(s, b)
    <3>1. i + 1 \in DOMAIN s /\ b \in Mine(s[i + 1])
      BY <2>2, <1>4
    <3> QED BY <3>1 DEF Pending
  <2>3. 1 \in DOMAIN s
    BY <1>2
  <2>4. b \in Mine(s[1]) => Pending(s, b)
    BY <2>3 DEF Pending
  <2> QED BY <2>1, <2>2, <2>4 DEF Pending
<1> QED BY <1>1, <1>2, <1>3, <1>6, <1>7

\* The pieces of an access of len bytes at addr with edges of one kind and a
\* body of another.
Edges(x) == IF x.op = "read" THEN "read" ELSE "modify"
Bodies(x) == IF x.op = "read" THEN {"read"} ELSE {"write", "clear"}
BodyLen(x) == (x.len - HeadLen(x.addr, x.len)) - ((x.len - HeadLen(x.addr, x.len)) % align)

LEMMA Parted ==
  ASSUME NEW x \in Requested, NEW h, h = HeadLen(x.addr, x.len), NEW l, l = BodyLen(x), NEW t, t = (x.len - h) % align
  PROVE  /\ h \in Nat /\ h <= x.len /\ h < align /\ l \in Nat /\ t \in 0 .. align - 1
         /\ h + l + t = x.len
         /\ Multiple(l)
         /\ x.len # h => Multiple(x.addr + h)
         /\ h # 0 => /\ Multiple(x.addr - (x.addr % align)) /\ (x.addr % align) + h <= align
<1>1. x.addr \in Nat /\ x.len \in Nat /\ align \in Nat \ {0}
  BY MemifAssumption DEF Requested
<1>2. PICK r \in 0 .. align - 1 : /\ r = x.addr % align /\ r <= x.addr /\ Multiple(x.addr - r)
                                  /\ r = 0 <=> Multiple(x.addr)
  BY <1>1, Aligned
<1>3. h = IF r = 0 THEN 0 ELSE IF x.len < align - r THEN x.len ELSE align - r
  BY <1>2 DEF HeadLen, Least
<1>4. h \in Nat /\ h <= x.len /\ h < align /\ (h # 0 => r + h <= align)
  BY <1>1, <1>2, <1>3
<1>5. x.len - h \in Nat
  BY <1>1, <1>4
<1>6. t \in 0 .. align - 1 /\ t <= x.len - h /\ Multiple((x.len - h) - t)
  BY <1>5, Aligned
<1>7. l = (x.len - h) - t
  BY DEF BodyLen
<1>8. ASSUME x.len # h PROVE Multiple(x.addr + h)
  <2>1. CASE r = 0
    <3>1. h = 0 /\ x.addr + h = x.addr
      BY <2>1, <1>1, <1>3
    <3> QED BY <3>1, <2>1, <1>2
  <2>2. CASE r # 0
    <3>1. h = align - r /\ x.addr + h = (x.addr - r) + align
      BY <2>2, <1>1, <1>2, <1>3, <1>8
    <3>2. Multiple(align)
      <4>1. align = 1 * align
        BY <1>1
      <4> QED BY <4>1 DEF Multiple
    <3>3. PICK v \in Int : v = x.addr - r /\ Multiple(v)
      BY <1>1, <1>2
    <3>4. Multiple(v + align)
      <4>1. v \in Int /\ align \in Int /\ Multiple(v) /\ Multiple(align)
        BY <1>1, <3>2, <3>3
      <4> QED BY ONLY <4>1, MultipleSum
    <3>5. v + align = (x.addr - r) + align
      BY <3>3
    <3> QED BY <3>1, <3>4, <3>5
  <2> QED BY <2>1, <2>2
<1>9. Multiple(l)
  BY <1>6, <1>7
<1>10. l \in Nat /\ h + l + t = x.len
  <2>1. x.len \in Nat /\ h \in Nat /\ t \in Nat /\ h <= x.len /\ t <= x.len - h
    BY <1>1, <1>4, <1>6
  <2> QED BY ONLY <2>1, <1>7
<1> QED BY <1>2, <1>4, <1>6, <1>8, <1>9, <1>10

LEMMA ChunkHolds == align \in 1 .. max_chunk /\ max_chunk % align = 0 /\ align % align = 0
<1>1. align \in Nat \ {0} /\ max_chunk \in Nat \ {0} /\ max_chunk % align = 0
  BY MemifAssumption
<1>2. ASSUME max_chunk < align PROVE FALSE
  <2>1. max_chunk = 0 * align + max_chunk /\ max_chunk \in 0 .. align - 1
    BY <1>1, <1>2
  <2>2. max_chunk % align = max_chunk
    BY <1>1, <2>1, Quotient
  <2> QED BY <1>1, <2>2
<1>3. align = 1 * align + 0 /\ 0 \in 0 .. align - 1
  BY <1>1
<1>4. align % align = 0
  BY <1>1, <1>3, Quotient
<1> QED BY <1>1, <1>2, <1>4

LEMMA OneFits ==
  ASSUME NEW x, NEW c \in Pieces, Legal(c), Placed(c, x)
  PROVE  Fit(<<c>>, x) /\ \A b : Pending(<<c>>, b) <=> b \in Mine(c)
BY DEF Fit, Pending

LEMMA NoneFits ==
  ASSUME NEW x
  PROVE  Fit(<<>>, x) /\ \A b : ~Pending(<<>>, b)
BY DEF Fit, Pending

Moved == {x \in Requested : x.op \in {"read", "write", "zeros"}}

LEMMA HeadFits ==
  ASSUME NEW x \in Moved, NEW h, h = HeadLen(x.addr, x.len)
  PROVE  /\ Fit(Head1(Edges(x), x.addr, x.len), x)
         /\ \A b \in x.addr .. x.addr + h - 1 : Pending(Head1(Edges(x), x.addr, x.len), b)
<1> DEFINE r == x.addr % align
           c == Piece(Edges(x), x.addr - r, align, r, 0, h)
<1>1. x \in Requested /\ x.addr \in Nat /\ x.len \in Nat /\ x.op \in {"read", "write", "zeros"}
  BY DEF Moved, Requested
<1>2. /\ h \in Nat /\ h <= x.len
      /\ h # 0 => Multiple(x.addr - r) /\ r + h <= align
  BY <1>1, Parted
<1>3. CASE h = 0
  <2>1. Head1(Edges(x), x.addr, x.len) = <<>>
    BY <1>3 DEF Head1
  <2>2. x.addr .. x.addr + h - 1 = {}
    BY <1>1, <1>3
  <2> QED BY <2>1, <2>2, NoneFits
<1>4. CASE h # 0
  <2>1. Head1(Edges(x), x.addr, x.len) = <<c>>
    BY <1>4 DEF Head1
  <2>2. r \in Nat /\ r <= x.addr /\ align \in Nat \ {0} /\ x.addr - r \in Nat
    <3>1. r \in 0 .. align - 1 /\ r <= x.addr /\ align \in Nat \ {0}
      BY <1>1, Aligned
    <3> HIDE DEF r
    <3> QED BY <3>1, <1>1
  <2>3. (x.addr - r) % align = 0
    BY <1>2, <1>4, <2>2, Aligned
  <2> HIDE DEF r
  <2>4. /\ c \in Pieces /\ c.first = x.addr - r /\ c.size = align /\ c.o = r /\ c.p = 0 /\ c.n = h
        /\ c.kind = Edges(x)
    BY <1>2, <2>2 DEF Pieces, Piece, Edges
  <2> HIDE DEF c
  <2>5. Legal(c)
    BY <1>2, <1>4, <2>3, <2>4, ChunkHolds DEF Legal
  <2>6. Placed(c, x)
    BY <1>1, <1>2, <2>2, <2>4 DEF Placed, Edges
  <2>7. Mine(c) = x.addr .. x.addr + h - 1
    BY <1>1, <1>2, <2>2, <2>4 DEF Mine
  <2> QED BY <2>1, <2>4, <2>5, <2>6, <2>7, OneFits
<1> QED BY <1>3, <1>4

LEMMA TailFits ==
  ASSUME NEW x \in Moved, NEW h, h = HeadLen(x.addr, x.len), NEW l, l = BodyLen(x)
  PROVE  /\ Fit(TailPiece(Edges(x), x.addr + h, x.len - h, h), x)
         /\ \A b \in x.addr + h + l .. x.addr + x.len - 1 : Pending(TailPiece(Edges(x), x.addr + h, x.len - h, h), b)
<1> DEFINE t == (x.len - h) % align
           c == Piece(Edges(x), x.addr + h + ((x.len - h) - t), align, 0, h + (x.len - h) - t, t)
<1>1. x \in Requested /\ x.addr \in Nat /\ x.len \in Nat /\ x.op \in {"read", "write", "zeros"}
  BY DEF Moved, Requested
<1>2. /\ h \in Nat /\ h <= x.len /\ l \in Nat /\ t \in 0 .. align - 1 /\ h + l + t = x.len
      /\ Multiple(l) /\ (x.len # h => Multiple(x.addr + h)) /\ align \in Nat
  <2>1. align \in Nat
    BY MemifAssumption
  <2>2. PICK u : u = t
    OBVIOUS
  <2>3. /\ h \in Nat /\ h <= x.len /\ l \in Nat /\ u \in 0 .. align - 1 /\ h + l + u = x.len
        /\ Multiple(l) /\ (x.len # h => Multiple(x.addr + h))
    BY <1>1, <2>2, Parted
  <2> QED BY <2>1, <2>2, <2>3
<1>3. CASE t = 0
  <2>1. TailPiece(Edges(x), x.addr + h, x.len - h, h) = <<>>
    BY <1>3 DEF TailPiece
  <2> HIDE DEF t
  <2>2. x.addr + h + l .. x.addr + x.len - 1 = {}
    BY <1>1, <1>2, <1>3
  <2> QED BY <2>1, <2>2, NoneFits
<1>4. CASE t # 0
  <2>1. TailPiece(Edges(x), x.addr + h, x.len - h, h) = <<c>>
    BY <1>4 DEF TailPiece
  <2> HIDE DEF t
  <2>2. x.len # h /\ x.addr + h \in Int /\ l \in Int
    BY <1>1, <1>2, <1>4
  <2>3. Multiple((x.addr + h) + l)
    BY <1>2, <2>2, MultipleSum
  <2>4. PICK f \in Nat : f = (x.addr + h) + l
    BY <1>1, <1>2
  <2>5. f % align = 0
    BY <2>3, <2>4, Aligned
  <2>6. x.addr + h + ((x.len - h) - t) = f /\ h + (x.len - h) - t = h + l
    BY <1>1, <1>2, <2>4
  <2>7. /\ c \in Pieces /\ c.first = f /\ c.size = align /\ c.o = 0 /\ c.p = h + l /\ c.n = t
        /\ c.kind = Edges(x)
    BY <1>2, <2>6 DEF Pieces, Piece, Edges
  <2> HIDE DEF c
  <2>8. Legal(c)
    BY <1>2, <1>4, <2>5, <2>7, ChunkHolds DEF Legal
  <2>9. Placed(c, x)
    BY <1>1, <1>2, <2>4, <2>7 DEF Placed, Edges
  <2>10. Mine(c) = x.addr + h + l .. x.addr + x.len - 1
    <3>1. x.addr \in Nat /\ x.len \in Nat /\ h \in Nat /\ l \in Nat /\ t \in Nat /\ h + l + t = x.len
      BY <1>1, <1>2
    <3>2. f + 0 = x.addr + h + l /\ f + 0 + t - 1 = x.addr + x.len - 1
      BY ONLY <3>1, <2>4
    <3> QED BY <3>2, <2>7 DEF Mine
  <2> QED BY <2>1, <2>7, <2>8, <2>9, <2>10, OneFits
<1> QED BY <1>3, <1>4

\* The k-th of the chunks that l bytes take, l a multiple of the alignment.
LEMMA NthChunk ==
  ASSUME NEW l \in Nat, Multiple(l), NEW k \in 1 .. (l + max_chunk - 1) \div max_chunk
  PROVE  /\ (k - 1) * max_chunk \in Nat /\ (k - 1) * max_chunk < l
         /\ Multiple((k - 1) * max_chunk)
         /\ Least(max_chunk, l - ((k - 1) * max_chunk)) \in 1 .. max_chunk
         /\ Least(max_chunk, l - ((k - 1) * max_chunk)) % align = 0
<1>1. max_chunk \in Nat \ {0} /\ align \in Nat \ {0} /\ max_chunk % align = 0
  BY MemifAssumption
<1>2. PICK m \in Nat : m = max_chunk /\ m # 0
  BY <1>1
<1>3. PICK q \in Nat, r \in 0 .. m - 1 : q = (l + m - 1) \div m /\ l + m - 1 = q * m + r
  <2>1. PICK n \in Nat : n = l + m - 1
    BY <1>2
  <2>2. n \div m \in Nat /\ n % m \in 0 .. m - 1 /\ n = (n \div m) * m + (n % m)
    BY <2>1, <1>2, Division
  <2> QED BY ONLY <2>1, <2>2
<1>4. k \in 1 .. q
  BY <1>2, <1>3
<1>5. PICK d \in Nat : d = (k - 1) * m /\ d + m <= q * m
  <2>1. PICK u \in Nat : k = u + 1 /\ u + 1 <= q
    <3>1. k - 1 \in Nat /\ k = (k - 1) + 1 /\ (k - 1) + 1 <= q
      BY <1>4
    <3> QED BY <3>1
  <2>2. PICK v \in Nat : q = (u + 1) + v
    <3>1. q - (u + 1) \in Nat /\ q = (u + 1) + (q - (u + 1))
      BY <2>1
    <3> QED BY <3>1
  <2>3. q * m = u * m + m + v * m /\ u * m \in Nat /\ v * m \in Nat
    BY ONLY <2>1, <2>2, <1>2, u \in Nat, v \in Nat, m \in Nat
  <2>4. (k - 1) * m = u * m
    BY <2>1
  <2> QED BY <2>3, <2>4
<1>6. d < l
  <2>1. PICK e \in Nat : e = q * m
    BY <1>2
  <2>2. l + m - 1 = e + r /\ d + m <= e
    BY <1>3, <1>5, <2>1
  <2> QED BY ONLY <2>2, l \in Nat, d \in Nat, m \in Nat, e \in Nat, r \in 0 .. m - 1
<1>7. Multiple(m)
  BY <1>1, <1>2, Aligned
<1>8. Multiple(d)
  <2>1. PICK u \in Int : u = k - 1
    BY <1>4
  <2>2. Multiple(u * m)
    <3>1. m \in Int
      OBVIOUS
    <3> QED BY ONLY <2>1, <3>1, <1>7, MultipleProduct, Zenon
  <2> QED BY ONLY <2>1, <2>2, <1>5
<1>9. Multiple(l - d)
  BY ONLY <1>8, l \in Nat, d \in Nat, Multiple(l), MultipleSum
<1>10. PICK g \in Nat : g = l - d /\ g >= 1
  BY <1>6
<1>11. Least(m, l - d) \in 1 .. m
  BY <1>2, <1>10 DEF Least
<1>12. Least(m, l - d) = m \/ Least(m, l - d) = g
  BY <1>10 DEF Least
<1>13. g % align = 0
  BY <1>9, <1>10, Aligned
<1> QED BY <1>1, <1>2, <1>5, <1>6, <1>8, <1>11, <1>12, <1>13

\* Every one of the l bytes is in a chunk.
LEMMA InSomeChunk ==
  ASSUME NEW l \in Nat, NEW d \in 0 .. l - 1
  PROVE  \E k \in 1 .. (l + max_chunk - 1) \div max_chunk :
            d \in (k - 1) * max_chunk .. (k - 1) * max_chunk + Least(max_chunk, l - ((k - 1) * max_chunk)) - 1
<1>1. PICK m \in Nat : m = max_chunk /\ m # 0
  BY MemifAssumption
<1>2. PICK q \in Nat, r \in 0 .. m - 1 : q = (l + m - 1) \div m /\ l + m - 1 = q * m + r
  <2>1. l + m - 1 \in Nat
    BY <1>1
  <2> QED BY <2>1, <1>1, Division
<1>3. PICK u \in Nat, v \in 0 .. m - 1 : d = u * m + v
  <2>1. d \in Nat
    OBVIOUS
  <2> QED BY <2>1, <1>1, Division
<1>4. PICK e \in Nat : e = u * m
  BY <1>1
<1>5. ASSUME u >= q PROVE FALSE
  <2>1. PICK w \in Nat : u = q + w
    <3>1. u - q \in Nat /\ u = q + (u - q)
      BY <1>5
    <3> QED BY <3>1
  <2>2. u * m = q * m + w * m /\ w * m \in Nat /\ q * m \in Nat
    BY ONLY <2>1, q \in Nat, w \in Nat, m \in Nat
  <2>3. PICK f \in Nat : f = q * m
    BY <2>2
  <2>4. e >= f
    BY <2>2, <2>3, <1>4
  <2>5. l + m - 1 = f + r /\ d = e + v
    BY <1>2, <1>3, <1>4, <2>3
  <2> QED BY ONLY <2>4, <2>5, l \in Nat, d \in 0 .. l - 1, m \in Nat, e \in Nat, f \in Nat, v \in 0 .. m - 1, r \in 0 .. m - 1
<1>6. u + 1 \in 1 .. q
  BY <1>5
<1>7. ((u + 1) - 1) * m = e
  BY <1>4
<1>8. d \in e .. e + Least(m, l - e) - 1
  <2>1. d = e + v
    BY <1>3, <1>4
  <2> QED BY ONLY <2>1, l \in Nat, d \in 0 .. l - 1, m \in Nat, e \in Nat, v \in 0 .. m - 1 DEF Least
<1> QED
  <2>1. PICK k \in 1 .. (l + m - 1) \div m : (k - 1) * m = e
    BY <1>2, <1>6, <1>7
  <2>2. d \in (k - 1) * m .. (k - 1) * m + Least(m, l - ((k - 1) * m)) - 1
    BY <1>8, <2>1
  <2> QED BY <2>2, <1>1

LEMMA BodyFits ==
  ASSUME NEW x \in Moved, NEW h, h = HeadLen(x.addr, x.len), NEW l, l = BodyLen(x),
         NEW kind \in Bodies(x), kind = "clear" => \A i \in h + 1 .. h + l : x.data[i] = 0
  PROVE  /\ Fit(Body(kind, x.addr + h, l, h), x)
         /\ \A b \in x.addr + h .. x.addr + h + l - 1 : Pending(Body(kind, x.addr + h, l, h), b)
<1> DEFINE ps == Body(kind, x.addr + h, l, h)
           N == (l + max_chunk - 1) \div max_chunk
           D(k) == (k - 1) * max_chunk
           n(k) == Least(max_chunk, l - D(k))
<1>1. x \in Requested /\ x.addr \in Nat /\ x.len \in Nat /\ x.op \in {"read", "write", "zeros"}
  BY DEF Moved, Requested
<1>2. /\ h \in Nat /\ l \in Nat /\ h + l <= x.len
      /\ Multiple(l) /\ (x.len # h => Multiple(x.addr + h))
  <2>1. PICK t \in Nat : /\ h \in Nat /\ l \in Nat /\ h + l + t = x.len
                         /\ Multiple(l) /\ (x.len # h => Multiple(x.addr + h))
    <3>1. align \in Nat
      BY ChunkHolds
    <3>2. PICK u : u = (x.len - h) % align
      OBVIOUS
    <3>3. /\ h \in Nat /\ l \in Nat /\ u \in 0 .. align - 1 /\ h + l + u = x.len
          /\ Multiple(l) /\ (x.len # h => Multiple(x.addr + h))
      BY <1>1, <3>2, Parted
    <3> QED BY <3>1, <3>3
  <2> QED BY <2>1, <1>1
<1>3. max_chunk \in Nat \ {0} /\ N \in Nat
  <2>1. max_chunk \in Nat \ {0}
    BY MemifAssumption
  <2>2. l + max_chunk - 1 \in Nat
    BY <2>1, <1>2
  <2> QED BY <2>1, <2>2, Division
<1>4. ps = [k \in 1 .. N |-> Piece(kind, x.addr + h + D(k), n(k), 0, h + D(k), n(k))]
  BY DEF Body
<1>5. ASSUME NEW k \in 1 .. N
      PROVE  /\ D(k) \in Nat /\ n(k) \in 1 .. max_chunk /\ D(k) + n(k) <= l
             /\ n(k) % align = 0 /\ (x.addr + h + D(k)) % align = 0
  <2>1. D(k) \in Nat /\ D(k) < l /\ Multiple(D(k)) /\ n(k) \in 1 .. max_chunk /\ n(k) % align = 0
    BY <1>2, NthChunk
  <2>2. PICK d \in Nat : d = D(k)
    BY <2>1
  <2> HIDE DEF D
  <2>3. d + Least(max_chunk, l - d) <= l
    BY <2>1, <2>2, <1>2, <1>3 DEF Least
  <2>4. x.len # h
    BY <2>1, <2>2, <1>1, <1>2
  <2>5. PICK a \in Nat : a = x.addr + h
    BY <1>1, <1>2
  <2>6. Multiple(a + d)
    <3>1. a \in Int /\ d \in Int /\ Multiple(a) /\ Multiple(d)
      BY <2>1, <2>2, <2>4, <2>5, <1>2
    <3> QED BY ONLY <3>1, MultipleSum, Zenon
  <2>7. (a + d) % align = 0
    <3>1. a + d \in Nat
      OBVIOUS
    <3> QED BY ONLY <3>1, <2>6, Aligned, Zenon
  <2> QED BY <2>1, <2>2, <2>3, <2>5, <2>7
<1>6. ASSUME NEW k \in 1 .. N
      PROVE  /\ ps[k] \in Pieces /\ Legal(ps[k]) /\ Placed(ps[k], x)
             /\ Mine(ps[k]) = x.addr + h + D(k) .. x.addr + h + D(k) + n(k) - 1
  <2> HIDE DEF N
  <2>1. PICK d \in Nat, m \in 1 .. max_chunk : d = D(k) /\ m = n(k)
    BY <1>5
  <2>2. d + m <= l /\ m % align = 0 /\ (x.addr + h + d) % align = 0
    BY <1>5, <2>1
  <2>3. ps[k] = Piece(kind, x.addr + h + d, m, 0, h + d, m)
    BY <1>4, <2>1
  <2> HIDE DEF ps, D, n
  <2>4. PICK c : c = ps[k]
    OBVIOUS
  <2>5. /\ c \in Pieces /\ c.kind = kind /\ c.first = x.addr + h + d /\ c.size = m /\ c.o = 0
        /\ c.p = h + d /\ c.n = m
    BY <2>3, <2>4, <1>1, <1>2, <1>3 DEF Piece, Pieces, Bodies
  <2>6. Legal(c)
    BY <2>2, <2>5, <1>3 DEF Legal
  <2>7. Placed(c, x)
    <3>1. c.first + c.o = x.addr + c.p /\ c.p + c.n <= x.len /\ c.o = 0 /\ c.n = c.size
      BY <2>2, <2>5, <1>1, <1>2, <1>3
    <3>2. c.kind = "read" <=> x.op = "read"
      BY <2>5, <1>1 DEF Bodies
    <3>3. ASSUME c.kind = "clear", NEW i \in c.p + 1 .. c.p + c.n PROVE x.data[i] = 0
      <4>1. i \in h + 1 .. h + l
        BY <3>3, <2>2, <2>5, <1>2, <1>3
      <4> QED BY <3>3, <4>1, <2>5
    <3> QED BY <3>1, <3>2, <3>3 DEF Placed
  <2>8. Mine(c) = x.addr + h + d .. x.addr + h + d + m - 1
    BY <2>5, <1>1, <1>2, <1>3 DEF Mine
  <2> QED BY <2>1, <2>4, <2>5, <2>6, <2>7, <2>8
<1>7. ps \in Seq(Pieces) /\ DOMAIN ps = 1 .. N
  <2> HIDE DEF D, n, N
  <2>1. DOMAIN ps = 1 .. N
    BY <1>4
  <2> HIDE DEF ps
  <2>2. ps \in [1 .. N -> Pieces]
    BY <1>4, <1>6, <2>1
  <2> QED BY <2>1, <2>2, <1>3
<1>8. Fit(ps, x)
  BY <1>6, <1>7 DEF Fit
<1>9. ASSUME NEW b \in x.addr + h .. x.addr + h + l - 1 PROVE Pending(ps, b)
  <2>1. PICK d \in 0 .. l - 1 : b = x.addr + h + d
    <3>1. b - (x.addr + h) \in 0 .. l - 1 /\ b = x.addr + h + (b - (x.addr + h))
      BY <1>1, <1>2
    <3> QED BY <3>1
  <2>2. PICK k \in 1 .. N : d \in D(k) .. D(k) + n(k) - 1
    BY <1>2, InSomeChunk
  <2>3. PICK e \in Nat, m \in 1 .. max_chunk : e = D(k) /\ m = n(k)
    BY <1>5
  <2> HIDE DEF D, n, N
  <2>4. b \in x.addr + h + e .. x.addr + h + e + m - 1
    BY <2>1, <2>2, <2>3, <1>1, <1>2, <1>3
  <2>5. b \in Mine(ps[k]) /\ k \in DOMAIN ps
    BY <2>3, <2>4, <1>6, <1>7
  <2> QED BY <2>5 DEF Pending
<1> QED BY <1>8, <1>9

\* The pieces of an access fit it and hold all of its bytes.
LEMMA AccessFits ==
  ASSUME NEW x \in Moved, NEW ps, ps = IF x.op = "read" THEN read(x.addr, x.len) ELSE write(x.addr, x.len, x.data)
  PROVE  Fit(ps, x) /\ Covers(ps, x)
<1>1. PICK h, l, t : h = HeadLen(x.addr, x.len) /\ l = BodyLen(x) /\ t = (x.len - h) % align
  OBVIOUS
<1>2. x \in Requested /\ x.addr \in Nat /\ x.len \in Nat /\ x.op \in {"read", "write", "zeros"}
  BY DEF Moved, Requested
<1>3. h \in Nat /\ l \in Nat /\ h + l <= x.len
  <2>1. /\ h \in Nat /\ l \in Nat /\ t \in 0 .. align - 1 /\ h + l + t = x.len /\ align \in Nat
    BY <1>1, <1>2, Parted, ChunkHolds
  <2> QED BY ONLY <2>1, <1>2
<1>4. PICK kind \in Bodies(x) :
         /\ kind = "clear" => \A i \in h + 1 .. h + l : x.data[i] = 0
         /\ ps = Head1(Edges(x), x.addr, x.len)
                  \o (TailPiece(Edges(x), x.addr + h, x.len - h, h) \o Body(kind, x.addr + h, l, h))
  <2>1. l = (x.len - h) - ((x.len - h) % align)
    BY <1>1 DEF BodyLen
  <2>2. CASE x.op = "read"
    <3>1. ps = Head1("read", x.addr, x.len)
                \o (TailPiece("read", x.addr + h, x.len - h, h) \o Body("read", x.addr + h, l, h))
      BY <2>1, <2>2, <1>1 DEF read, AfterHead
    <3> QED BY <2>2, <3>1 DEF Edges, Bodies
  <2>3. CASE x.op # "read"
    <3>1. PICK kind \in {"write", "clear"} :
             kind = IF l # 0 /\ AllZero(x.data, h, x.len - h) THEN "clear" ELSE "write"
      OBVIOUS
    <3>2. x.len - h - ((x.len - h) % align) = l
      BY <2>1
    <3>3. ps = Head1("modify", x.addr, x.len)
                \o (TailPiece("modify", x.addr + h, x.len - h, h) \o Body(kind, x.addr + h, l, h))
      BY <2>1, <2>3, <1>1, <3>1, <3>2 DEF write, AfterHead
    <3>4. kind = "clear" => \A i \in h + 1 .. h + l : x.data[i] = 0
      BY <3>1, <2>1 DEF AllZero
    <3> QED BY <2>3, <3>1, <3>3, <3>4 DEF Edges, Bodies
  <2> QED BY <2>2, <2>3
<1> DEFINE a == Head1(Edges(x), x.addr, x.len)
           b == TailPiece(Edges(x), x.addr + h, x.len - h, h)
           c == Body(kind, x.addr + h, l, h)
<1>5. Fit(a, x) /\ \A i \in x.addr .. x.addr + h - 1 : Pending(a, i)
  BY <1>1, HeadFits
<1>6. Fit(b, x) /\ \A i \in x.addr + h + l .. x.addr + x.len - 1 : Pending(b, i)
  BY <1>1, TailFits
<1>7. Fit(c, x) /\ \A i \in x.addr + h .. x.addr + h + l - 1 : Pending(c, i)
  BY <1>1, <1>4, BodyFits
<1> HIDE DEF a, b, c
<1>8. Fit(b \o c, x) /\ \A i : Pending(b \o c, i) <=> Pending(b, i) \/ Pending(c, i)
  BY <1>6, <1>7, ConcatFit
<1>9. Fit(a \o (b \o c), x) /\ \A i : Pending(a \o (b \o c), i) <=> Pending(a, i) \/ Pending(b \o c, i)
  BY <1>5, <1>8, ConcatFit
<1>10. ps = a \o (b \o c)
  BY <1>4 DEF a, b, c
<1>11. ASSUME NEW i \in x.addr .. x.addr + x.len - 1 PROVE Pending(ps, i)
  <2>1. \/ i \in x.addr .. x.addr + h - 1 \/ i \in x.addr + h .. x.addr + h + l - 1
        \/ i \in x.addr + h + l .. x.addr + x.len - 1
    BY <1>2, <1>3
  <2> QED BY <2>1, <1>5, <1>6, <1>7, <1>8, <1>9, <1>10
<1> QED BY <1>9, <1>10, <1>11 DEF Covers

----------------------------------------------------------------------------
(* While an access is under way, everything outside it is as it was, and   *)
(* what no piece holds any more is done.                                   *)

InAccess(b) == b \in access.addr .. access.addr + access.len - 1
Written(b) == InAccess(b) /\ ~Pending(pieces, b) => bytes[b] = access.data[(b - access.addr) + 1]

LEMMA ChunkReads ==
  ASSUME access \in Moved, access.op = "read", access.addr + access.len <= Bytes, Fit(pieces, access),
         bytes \in [0 .. Bytes - 1 -> Int], buf \in [1 .. Bytes -> Int], Chunk
  PROVE  /\ Fit(pieces', access) /\ bytes' = bytes /\ buf' \in [1 .. Bytes -> Int]
         /\ \A i \in 1 .. access.len :
               ~Pending(pieces', access.addr + i - 1) =>
                  \/ buf'[i] = bytes[access.addr + i - 1]
                  \/ ~Pending(pieces, access.addr + i - 1) /\ buf'[i] = buf[i]
<1> DEFINE c == pieces[1]
<1>1. pieces # <<>> /\ pieces' = Tail(pieces)
  BY DEF Chunk
<1>2. /\ c \in Pieces /\ Placed(c, access) /\ Fit(pieces', access)
      /\ \A b : Pending(pieces, b) <=> b \in Mine(c) \/ Pending(pieces', b)
  BY <1>1, TailFit
<1>3. c.kind = "read" /\ access \in Requested
  BY <1>2 DEF Placed, Moved
<1>4. bytes' = bytes /\ buf' = read_chunk(c, bytes, buf)
  BY <1>3 DEF Chunk
<1> HIDE DEF c
<1>5. /\ Mine(c) = access.addr + c.p .. access.addr + c.p + c.n - 1 /\ c.p + c.n <= access.len
      /\ \A b \in Int : At(c, b) = (b - access.addr) + 1
      /\ access.addr \in Nat /\ access.len \in Nat /\ c.p \in Nat /\ c.n \in Nat
  <2>1. /\ Mine(c) = access.addr + c.p .. access.addr + c.p + c.n - 1
        /\ \A b \in Int : At(c, b) = (b - access.addr) + 1
    BY <1>2, <1>3, PieceRead
  <2>2. c.p + c.n <= access.len
    BY <1>2 DEF Placed
  <2>3. access.addr \in Nat /\ access.len \in Nat /\ c.p \in Nat /\ c.n \in Nat
    BY <1>2, <1>3 DEF Requested, Pieces
  <2> QED BY <2>1, <2>2, <2>3
<1>6. ASSUME NEW i \in 1 .. Bytes
      PROVE  /\ access.addr + i - 1 \in Mine(c) => buf'[i] = bytes[access.addr + i - 1] /\ buf'[i] \in Int
             /\ access.addr + i - 1 \notin Mine(c) => buf'[i] = buf[i]
  <2>1. ASSUME NEW b \in Mine(c) PROVE b \in Int /\ (At(c, b) = i <=> b = access.addr + i - 1)
    <3>1. b \in Int
      BY <1>5
    <3>2. At(c, b) = (b - access.addr) + 1
      BY <1>5, <3>1
    <3>3. i \in Int /\ access.addr \in Int
      BY <1>5, MemifAssumption
    <3> QED BY ONLY <3>1, <3>2, <3>3
  <2>2. access.addr + i - 1 \in Mine(c) => access.addr + i - 1 \in 0 .. Bytes - 1
    <3>1. SUFFICES ASSUME access.addr + i - 1 \in Mine(c)
                   PROVE  access.addr + i - 1 \in 0 .. Bytes - 1
      OBVIOUS
    <3>2. /\ access.addr + i - 1 \in access.addr + c.p .. access.addr + c.p + c.n - 1
          /\ Bytes \in Nat /\ i \in Int
      BY <1>5, <3>1, MemifAssumption
    <3>3. /\ access.addr \in Nat /\ access.len \in Nat /\ c.p \in Nat /\ c.n \in Nat
          /\ c.p + c.n <= access.len
      BY <1>5
    <3> QED BY ONLY <3>2, <3>3, access.addr + access.len <= Bytes
  <2>3. buf'[i] = IF \E b \in Mine(c) : At(c, b) = i
                  THEN bytes[CHOOSE b \in Mine(c) : At(c, b) = i] ELSE buf[i]
    BY <1>4 DEF read_chunk
  <2>4. CASE access.addr + i - 1 \in Mine(c)
    <3>1. (CHOOSE b \in Mine(c) : At(c, b) = i) = access.addr + i - 1
      BY <2>1, <2>4
    <3>2. buf'[i] = bytes[access.addr + i - 1]
      BY <2>1, <2>3, <2>4, <3>1
    <3> QED BY <2>2, <2>4, <3>2
  <2>5. CASE access.addr + i - 1 \notin Mine(c)
    BY <2>1, <2>3, <2>5
  <2> QED BY <2>4, <2>5
<1>7. buf' \in [1 .. Bytes -> Int]
  <2>1. DOMAIN buf' = 1 .. Bytes /\ buf' = [i \in 1 .. Bytes |-> buf'[i]]
    BY <1>4 DEF read_chunk
  <2>2. \A i \in 1 .. Bytes : buf'[i] \in Int
    BY <1>6
  <2> QED BY <2>1, <2>2
<1>8. ASSUME NEW i \in 1 .. access.len, ~Pending(pieces', access.addr + i - 1)
      PROVE  \/ buf'[i] = bytes[access.addr + i - 1]
             \/ ~Pending(pieces, access.addr + i - 1) /\ buf'[i] = buf[i]
  <2>1. i \in 1 .. Bytes
    BY <1>3, MemifAssumption DEF Requested
  <2> QED BY <2>1, <1>2, <1>6, <1>8
<1> QED BY <1>2, <1>4, <1>7, <1>8

LEMMA ChunkWrites ==
  ASSUME access \in Moved, access.op # "read", access.addr + access.len <= Bytes, Fit(pieces, access),
         bytes \in [0 .. Bytes - 1 -> Int], Chunk
  PROVE  /\ Fit(pieces', access) /\ buf' = buf /\ bytes' \in [0 .. Bytes - 1 -> Int]
         /\ \A b \in 0 .. Bytes - 1 : ~InAccess(b) => bytes'[b] = bytes[b]
         /\ \A b \in 0 .. Bytes - 1 : Written(b) => Written(b)'
<1> DEFINE c == pieces[1]
<1>1. pieces # <<>> /\ pieces' = Tail(pieces) /\ access' = access
  BY DEF Chunk
<1>2. /\ c \in Pieces /\ Placed(c, access) /\ Legal(c) /\ Fit(pieces', access)
      /\ \A b : Pending(pieces, b) <=> b \in Mine(c) \/ Pending(pieces', b)
  BY <1>1, TailFit
<1>3. c.kind \in {"modify", "write", "clear"} /\ access \in Requested
  BY <1>2 DEF Placed, Moved, Pieces
<1>4. /\ buf' = buf
      /\ bytes' = IF c.kind = "clear" THEN clear_chunk(c, bytes) ELSE write_chunk(c, bytes, access.data)
  BY <1>3 DEF Chunk
<1> HIDE DEF c
<1>5. /\ Mine(c) = access.addr + c.p .. access.addr + c.p + c.n - 1 /\ c.p + c.n <= access.len
      /\ \A b \in Int : At(c, b) = (b - access.addr) + 1
      /\ access.addr \in Nat /\ access.len \in Nat /\ c.p \in Nat /\ c.n \in Nat
      /\ access.len <= Bytes /\ access.data \in [1 .. Bytes -> Int]
  <2>1. /\ Mine(c) = access.addr + c.p .. access.addr + c.p + c.n - 1
        /\ \A b \in Int : At(c, b) = (b - access.addr) + 1
    BY <1>2, <1>3, PieceRead
  <2>2. c.p + c.n <= access.len
    BY <1>2 DEF Placed
  <2>3. /\ access.addr \in Nat /\ access.len \in Nat /\ c.p \in Nat /\ c.n \in Nat
        /\ access.len <= Bytes /\ access.data \in [1 .. Bytes -> Int]
    BY <1>2, <1>3 DEF Requested, Pieces
  <2> QED BY <2>1, <2>2, <2>3
<1>6. ASSUME NEW b \in 0 .. Bytes - 1
      PROVE  /\ b \in Mine(c) => /\ bytes'[b] = access.data[(b - access.addr) + 1]
                                 /\ (b - access.addr) + 1 \in 1 .. Bytes /\ InAccess(b)
             /\ b \notin Mine(c) => bytes'[b] = bytes[b]
  <2>1. b \in Mine(c) => /\ At(c, b) = (b - access.addr) + 1 /\ (b - access.addr) + 1 \in c.p + 1 .. c.p + c.n
                         /\ (b - access.addr) + 1 \in 1 .. Bytes /\ InAccess(b)
    <3>1. SUFFICES ASSUME b \in Mine(c)
                   PROVE  /\ At(c, b) = (b - access.addr) + 1 /\ (b - access.addr) + 1 \in c.p + 1 .. c.p + c.n
                          /\ (b - access.addr) + 1 \in 1 .. Bytes /\ InAccess(b)
      OBVIOUS
    <3>2. b \in access.addr + c.p .. access.addr + c.p + c.n - 1 /\ Bytes \in Nat
      BY <1>5, <3>1, MemifAssumption
    <3>3. /\ access.addr \in Nat /\ access.len \in Nat /\ c.p \in Nat /\ c.n \in Nat
          /\ c.p + c.n <= access.len /\ access.len <= Bytes /\ b \in Int
          /\ At(c, b) = (b - access.addr) + 1
      BY <1>5, <3>2
    <3> QED BY ONLY <3>2, <3>3 DEF InAccess
  <2>2. CASE c.kind = "clear"
    <3>1. Mine(c) = c.first .. c.first + c.size - 1
      BY <2>2, <1>2 DEF Placed, Mine, Pieces
    <3>2. bytes'[b] = IF b \in Mine(c) THEN 0 ELSE bytes[b]
      BY <2>2, <1>4, <3>1 DEF clear_chunk
    <3>3. \A i \in c.p + 1 .. c.p + c.n : access.data[i] = 0
      BY <2>2, <1>2 DEF Placed
    <3> QED BY <2>1, <3>2, <3>3
  <2>3. CASE c.kind # "clear"
    <3>1. b \in Mine(c) => b \in c.first .. c.first + c.size - 1
      BY <1>2 DEF Mine, Legal, Pieces
    <3>2. bytes'[b] = IF b \notin c.first .. c.first + c.size - 1 THEN bytes[b]
                      ELSE IF b \in Mine(c) THEN access.data[At(c, b)] ELSE bytes[b]
      BY <2>3, <1>4 DEF write_chunk
    <3> QED BY <2>1, <3>1, <3>2
  <2> QED BY <2>2, <2>3
<1>7. bytes' \in [0 .. Bytes - 1 -> Int]
  <2>1. bytes' = [b \in 0 .. Bytes - 1 |-> bytes'[b]]
    BY <1>4 DEF clear_chunk, write_chunk
  <2>2. \A b \in 0 .. Bytes - 1 : bytes'[b] \in Int
    BY <1>5, <1>6
  <2> QED BY <2>1, <2>2
<1>8. ASSUME NEW b \in 0 .. Bytes - 1, Written(b) PROVE Written(b)'
  BY <1>1, <1>2, <1>6, <1>8 DEF Written, InAccess
<1> QED BY <1>2, <1>4, <1>6, <1>7, <1>8

----------------------------------------------------------------------------
(* Loading a program: memory is the image of the segments loaded so far,   *)
(* the last of those that hold a byte giving its value.                    *)

Holds(i, b) == b \in segs[i].paddr .. segs[i].paddr + segs[i].memsz - 1
InFile(i, b) == b \in segs[i].paddr .. segs[i].paddr + segs[i].filesz - 1
Value(i, b) == IF b < segs[i].paddr + segs[i].filesz THEN Fill[(b - segs[i].paddr) + 1] ELSE 0
Imaged(n, b, v) ==
    /\ (\A i \in 1 .. n : ~Holds(i, b)) => v = before[b]
    /\ \A i \in 1 .. n : Holds(i, b) /\ (\A j \in i + 1 .. n : ~Holds(j, b)) => v = Value(i, b)

MemifTypeOK ==
    /\ bytes \in [0 .. Bytes - 1 -> Int] /\ before \in [0 .. Bytes - 1 -> Int]
    /\ buf \in [1 .. Bytes -> Int]
    /\ access \in Requested
    /\ access.op # "thrown" => access.addr + access.len <= Bytes
    /\ segs \in {<<>>} \cup Segments
    /\ seg \in 1 .. Len(segs) + 1
PiecesInv ==
    /\ Fit(pieces, access)
    /\ access.op \in {"none", "thrown"} => pieces = <<>>
AccessInv ==
    /\ access.op # "zeros"
    /\ access.op # "write" => bytes = before
    /\ access.op = "read" =>
          \A i \in 1 .. access.len : ~Pending(pieces, access.addr + i - 1) => buf[i] = before[access.addr + i - 1]
    /\ access.op = "write" =>
          \A b \in 0 .. Bytes - 1 : Written(b) /\ (~InAccess(b) => bytes[b] = before[b])
LoadInv ==
    /\ access.op \in {"none", "write", "zeros"}
    /\ access.op = "none" => \A b \in 0 .. Bytes - 1 : Imaged(seg - 1, b, bytes[b])
    /\ access.op # "none" => seg <= Len(segs) /\ \A b \in 0 .. Bytes - 1 : Written(b)
    /\ access.op = "write" =>
          /\ access.addr = segs[seg].paddr /\ access.len = segs[seg].filesz /\ access.data = Fill
          /\ \A b \in 0 .. Bytes - 1 : ~InAccess(b) => Imaged(seg - 1, b, bytes[b])
    /\ access.op = "zeros" =>
          /\ access.addr = segs[seg].paddr + segs[seg].filesz
          /\ access.len = segs[seg].memsz - segs[seg].filesz /\ access.data = Zeros
          /\ \A b \in 0 .. Bytes - 1 : InFile(seg, b) => bytes[b] = Value(seg, b)
          /\ \A b \in 0 .. Bytes - 1 : ~Holds(seg, b) => Imaged(seg - 1, b, bytes[b])
MemifInv ==
    /\ MemifTypeOK /\ PiecesInv
    /\ segs = <<>> => AccessInv
    /\ segs # <<>> => LoadInv

LEMMA DataTyped == Fill \in [1 .. Bytes -> Int] /\ Zeros \in [1 .. Bytes -> Int] /\ HalfZeros \in [1 .. Bytes -> Int]
<1>1. Bytes \in Nat
  BY MemifAssumption
<1> QED BY <1>1 DEF Fill, Zeros, HalfZeros

LEMMA AccessesTyped == \A x \in Accesses : x \in Moved /\ x.op \in {"read", "write"}
<1> SUFFICES ASSUME NEW x \in Accesses PROVE x \in Moved /\ x.op \in {"read", "write"}
  OBVIOUS
<1>1. Bytes \in Nat
  BY MemifAssumption
<1>2. PICK v \in {"read", "write"}, a \in 0 .. Bytes - 1, l \in 0 .. Bytes, d \in {Fill, Zeros, HalfZeros} :
         x = [op |-> v, addr |-> a, len |-> l, data |-> d]
  BY DEF Accesses
<1>3. d \in [1 .. Bytes -> Int] /\ a \in Nat
  BY <1>1, DataTyped
<1> QED BY <1>2, <1>3 DEF Moved, Requested

\* What a segment of a program is.
LEMMA SegmentTyped ==
  ASSUME MemifTypeOK, NEW i \in 1 .. Len(segs)
  PROVE  /\ segs # <<>> /\ segs[i].paddr \in Nat /\ segs[i].filesz \in Nat /\ segs[i].memsz \in Nat
         /\ segs[i].filesz <= segs[i].memsz /\ segs[i].paddr + segs[i].memsz <= Bytes
<1>1. segs # <<>>
  OBVIOUS
<1>2. segs \in Segments
  BY <1>1 DEF MemifTypeOK
<1>3. segs \in Seq([paddr : Nat, filesz : Nat, memsz : Nat])
  BY <1>2, MemifAssumption
<1>4. PICK S : S = [paddr : Nat, filesz : Nat, memsz : Nat]
  OBVIOUS
<1>5. i \in DOMAIN segs /\ segs[i] \in S
  <2>1. segs \in Seq(S)
    BY <1>3, <1>4
  <2> QED BY ONLY <2>1, i \in 1 .. Len(segs)
<1> QED BY <1>1, <1>2, <1>4, <1>5, MemifAssumption

\* An access that has just begun: all of its bytes are pending.
LEMMA Begun ==
  ASSUME MemifTypeOK', access' \in Moved, pieces' = PiecesOf(access') \/ (access.op' # "read" /\ pieces' = write(access.addr', access.len', access.data'))
  PROVE  Fit(pieces, access)' /\ \A b : (InAccess(b) => Pending(pieces, b))' /\ Written(b)'
<1>1. pieces' = IF access'.op = "read" THEN read(access'.addr, access'.len)
                ELSE write(access'.addr, access'.len, access'.data)
  BY DEF PiecesOf
<1>2. Fit(pieces', access') /\ Covers(pieces', access')
  BY <1>1, AccessFits
<1>3. \A b : (InAccess(b) => Pending(pieces, b))'
  BY <1>2 DEF Covers, InAccess
<1> QED BY <1>2, <1>3 DEF Written

LEMMA MemifInitInv == MemifInit => MemifInv
<1> SUFFICES ASSUME MemifInit PROVE MemifInv
  OBVIOUS
<1>1. Bytes \in Nat
  BY MemifAssumption
<1>2. /\ bytes \in [0 .. Bytes - 1 -> Int] /\ before = bytes /\ buf = Zeros /\ access = NoAccess
      /\ pieces = <<>> /\ segs \in {<<>>} \cup Segments /\ seg = 1
  BY <1>1 DEF MemifInit
<1>3. access \in Requested /\ access.op = "none" /\ access.addr = 0 /\ access.len = 0
  BY <1>1, <1>2, DataTyped DEF NoAccess, Requested
<1>4. seg \in 1 .. Len(segs) + 1
  <2>1. Len(segs) \in Nat
    BY <1>2, MemifAssumption
  <2> QED BY <2>1, <1>2
<1>5. MemifTypeOK
  BY <1>1, <1>2, <1>3, <1>4, DataTyped DEF MemifTypeOK
<1>6. PiecesInv
  BY <1>2, NoneFits DEF PiecesInv
<1>7. AccessInv
  BY <1>2, <1>3 DEF AccessInv
<1>8. LoadInv
  BY <1>2, <1>3 DEF LoadInv, Imaged
<1> QED BY <1>5, <1>6, <1>7, <1>8 DEF MemifInv

LEMMA AccessKeeps ==
  ASSUME MemifInv, NEW x \in Accesses, Access(x) \/ Accessor(x)
  PROVE  MemifInv'
<1>1. MemifTypeOK /\ pieces = <<>> /\ segs = <<>> /\ bytes = before /\ access.op = "none"
  BY DEF MemifInv, PiecesInv, AccessInv, Access, Accessor
<1>2. x \in Moved /\ x.op \in {"read", "write"} /\ x \in Requested
  BY AccessesTyped DEF Moved
<1>3. segs' = segs /\ seg' = seg /\ bytes' = bytes /\ before' = bytes
  BY DEF Access, Accessor
<1>4. CASE Access(x)
  <2>1. access' = x /\ pieces' = PiecesOf(x) /\ buf' = Zeros /\ x.addr + x.len <= Bytes
    BY <1>4 DEF Access, Start
  <2>2. MemifTypeOK'
    BY <1>1, <1>2, <1>3, <2>1, DataTyped DEF MemifTypeOK
  <2>3. Fit(pieces, access)' /\ \A b : (InAccess(b) => Pending(pieces, b))' /\ Written(b)'
    BY <2>1, <2>2, <1>2, Begun
  <2>4. PiecesInv'
    BY <2>1, <2>3, <1>2 DEF PiecesInv
  <2>5. \A i \in 1 .. access'.len : InAccess(access.addr + i - 1)'
    BY <2>2 DEF InAccess, MemifTypeOK, Requested
  <2>6. AccessInv'
    <3>1. \A i \in 1 .. access'.len : Pending(pieces', access'.addr + i - 1)
      BY <2>3, <2>5
    <3> QED BY <2>1, <2>3, <3>1, <1>1, <1>2, <1>3 DEF AccessInv
  <2> QED BY <2>2, <2>4, <2>6, <1>1, <1>3 DEF MemifInv
<1>5. CASE Accessor(x)
  <2>1. access' = [x EXCEPT !.op = "thrown"] /\ pieces' = <<>> /\ buf' = buf
    BY <1>1, <1>5 DEF Accessor
  <2>2. access' \in Requested /\ access'.op = "thrown"
    BY <2>1, <1>2 DEF Requested
  <2>3. MemifTypeOK'
    BY <1>1, <1>3, <2>1, <2>2 DEF MemifTypeOK
  <2>4. PiecesInv' /\ AccessInv'
    BY <1>1, <1>3, <2>1, <2>2, NoneFits DEF PiecesInv, AccessInv
  <2> QED BY <2>3, <2>4, <1>1, <1>3 DEF MemifInv
<1> QED BY <1>4, <1>5

LEMMA ChunkKeeps ==
  ASSUME MemifInv, Chunk
  PROVE  MemifInv'
<1>1. /\ MemifTypeOK /\ PiecesInv /\ pieces # <<>>
      /\ access' = access /\ before' = before /\ segs' = segs /\ seg' = seg
  BY DEF MemifInv, Chunk
<1>2. access.op \in {"read", "write", "zeros"} /\ access \in Moved /\ access.addr + access.len <= Bytes
      /\ Fit(pieces, access) /\ access \in Requested
  BY <1>1 DEF PiecesInv, MemifTypeOK, Requested, Moved
<1>3. bytes \in [0 .. Bytes - 1 -> Int] /\ buf \in [1 .. Bytes -> Int]
  BY <1>1 DEF MemifTypeOK
<1>4. CASE access.op = "read"
  <2>1. /\ Fit(pieces', access) /\ bytes' = bytes /\ buf' \in [1 .. Bytes -> Int]
        /\ \A i \in 1 .. access.len :
               ~Pending(pieces', access.addr + i - 1) =>
                  \/ buf'[i] = bytes[access.addr + i - 1]
                  \/ ~Pending(pieces, access.addr + i - 1) /\ buf'[i] = buf[i]
    BY <1>2, <1>3, <1>4, ChunkReads
  <2>2. MemifTypeOK'
    BY <1>1, <2>1 DEF MemifTypeOK
  <2>3. PiecesInv'
    BY <1>1, <1>4, <2>1 DEF PiecesInv
  <2>4. segs = <<>> /\ AccessInv
    BY <1>4 DEF MemifInv, LoadInv
  <2>5. AccessInv'
    BY <1>1, <1>4, <2>1, <2>4 DEF AccessInv
  <2> QED BY <2>2, <2>3, <2>4, <2>5, <1>1 DEF MemifInv
<1>5. CASE access.op # "read"
  <2>1. /\ Fit(pieces', access) /\ buf' = buf /\ bytes' \in [0 .. Bytes - 1 -> Int]
        /\ \A b \in 0 .. Bytes - 1 : ~InAccess(b) => bytes'[b] = bytes[b]
        /\ \A b \in 0 .. Bytes - 1 : Written(b) => Written(b)'
    BY <1>2, <1>3, <1>5, ChunkWrites
  <2>2. MemifTypeOK'
    BY <1>1, <2>1 DEF MemifTypeOK
  <2>3. PiecesInv'
    BY <1>1, <1>2, <2>1 DEF PiecesInv
  <2>4. \A b : InAccess(b)' <=> InAccess(b)
    BY <1>1 DEF InAccess
  <2>5. CASE segs = <<>>
    <3>1. access.op = "write" /\ AccessInv
      BY <1>2, <1>5, <2>5 DEF MemifInv, AccessInv
    <3>2. AccessInv'
      BY <1>1, <2>1, <2>4, <3>1 DEF AccessInv
    <3> QED BY <2>2, <2>3, <2>5, <3>2, <1>1 DEF MemifInv
  <2>6. CASE segs # <<>>
    <3>1. LoadInv /\ seg \in 1 .. Len(segs)
      BY <1>1, <1>2, <2>6 DEF MemifInv, LoadInv, MemifTypeOK
    <3>2. \A b : /\ Holds(seg, b)' <=> Holds(seg, b)
                 /\ InFile(seg, b)' <=> InFile(seg, b)
                 /\ Value(seg, b)' = Value(seg, b)
      BY <1>1 DEF Holds, InFile, Value
    <3>3. \A b, v : Imaged(seg - 1, b, v)' <=> Imaged(seg - 1, b, v)
      BY <1>1 DEF Imaged, Holds, Value
    <3>4. CASE access.op = "write"
      <4>1. /\ access'.op = "write" /\ access'.addr = segs'[seg'].paddr /\ access'.len = segs'[seg'].filesz
            /\ access'.data = Fill
        BY <1>1, <3>1, <3>4 DEF LoadInv
      <4>2. \A b \in 0 .. Bytes - 1 : ~InAccess(b)' => Imaged(seg - 1, b, bytes[b])'
        BY <1>1, <2>1, <2>4, <3>1, <3>3, <3>4 DEF LoadInv
      <4>3. seg' <= Len(segs') /\ \A b \in 0 .. Bytes - 1 : Written(b)'
        BY <1>1, <2>1, <3>1, <3>4 DEF LoadInv
      <4>4. LoadInv'
        BY <4>1, <4>2, <4>3 DEF LoadInv
      <4> QED BY <2>2, <2>3, <2>6, <4>4, <1>1 DEF MemifInv
    <3>5. CASE access.op = "zeros"
      <4>1. \A b \in 0 .. Bytes - 1 : (InFile(seg, b) \/ ~Holds(seg, b)) => ~InAccess(b)
        <5>1. /\ segs[seg].paddr \in Nat /\ segs[seg].filesz \in Nat /\ segs[seg].memsz \in Nat
              /\ segs[seg].filesz <= segs[seg].memsz /\ Bytes \in Nat
          BY <1>1, <3>1, SegmentTyped, MemifAssumption
        <5>2. /\ access.addr = segs[seg].paddr + segs[seg].filesz
              /\ access.len = segs[seg].memsz - segs[seg].filesz
          BY <3>1, <3>5 DEF LoadInv
        <5> QED BY ONLY <5>1, <5>2 DEF InFile, Holds, InAccess
      <4>2. /\ access'.op = "zeros" /\ access'.addr = segs'[seg'].paddr + segs'[seg'].filesz
            /\ access'.len = segs'[seg'].memsz - segs'[seg'].filesz /\ access'.data = Zeros
        BY <1>1, <3>1, <3>5 DEF LoadInv
      <4>3. \A b \in 0 .. Bytes - 1 : /\ InFile(seg, b)' => bytes'[b] = Value(seg, b)'
                                      /\ ~Holds(seg, b)' => Imaged(seg - 1, b, bytes[b])'
        BY <1>1, <2>1, <3>1, <3>2, <3>3, <3>5, <4>1 DEF LoadInv
      <4>4. seg' <= Len(segs') /\ \A b \in 0 .. Bytes - 1 : Written(b)'
        BY <1>1, <2>1, <3>1, <3>5 DEF LoadInv
      <4>5. LoadInv'
        BY <4>2, <4>3, <4>4 DEF LoadInv
      <4> QED BY <2>2, <2>3, <2>6, <4>5, <1>1 DEF MemifInv
    <3> QED BY <1>2, <1>5, <3>4, <3>5
  <2> QED BY <2>5, <2>6
<1> QED BY <1>4, <1>5

LEMMA LoadKeeps ==
  ASSUME MemifInv, LoadFile \/ LoadZeros \/ NextSegment
  PROVE  MemifInv'
<1>1. /\ MemifTypeOK /\ seg \in 1 .. Len(segs) /\ pieces = <<>>
      /\ bytes' = bytes /\ buf' = buf /\ before' = before /\ segs' = segs
  BY DEF MemifInv, MemifTypeOK, LoadFile, LoadZeros, NextSegment
<1>0. segs # <<>>
  BY <1>1, SegmentTyped
<1>2. /\ segs[seg].paddr \in Nat /\ segs[seg].filesz \in Nat /\ segs[seg].memsz \in Nat
      /\ segs[seg].filesz <= segs[seg].memsz /\ segs[seg].paddr + segs[seg].memsz <= Bytes /\ Bytes \in Nat
  BY <1>1, SegmentTyped, MemifAssumption
<1>3. LoadInv /\ Len(segs) \in Nat
  <2>1. Len(segs) \in Nat
    BY <1>1, MemifAssumption DEF MemifTypeOK
  <2> QED BY <1>0, <2>1 DEF MemifInv
<1>4. \A b : ~Pending(pieces, b)
  BY <1>1, NoneFits
<1>5. \A n, b, v : Imaged(n, b, v)' <=> Imaged(n, b, v)
  BY <1>1 DEF Imaged, Holds, Value
<1>6. CASE LoadFile
  <2>1. /\ access.op = "none" /\ seg' = seg /\ pieces' = PiecesOf(access')
        /\ access' = [op |-> "write", addr |-> segs[seg].paddr, len |-> segs[seg].filesz, data |-> Fill]
    BY <1>6 DEF LoadFile, Start
  <2>2. access' \in Moved /\ access' \in Requested /\ access'.addr + access'.len <= Bytes
    BY <1>2, <2>1, DataTyped DEF Moved, Requested
  <2>3. MemifTypeOK'
    BY <1>1, <2>1, <2>2 DEF MemifTypeOK
  <2>4. Fit(pieces, access)' /\ \A b : (InAccess(b) => Pending(pieces, b))' /\ Written(b)'
    BY <2>1, <2>2, <2>3, Begun
  <2>5. PiecesInv'
    BY <2>1, <2>4 DEF PiecesInv
  <2>6. \A b \in 0 .. Bytes - 1 : Imaged(seg - 1, b, bytes[b])'
    BY <1>1, <1>3, <1>5, <2>1 DEF LoadInv
  <2>7. LoadInv'
    BY <1>1, <2>1, <2>4, <2>6 DEF LoadInv
  <2> QED BY <1>0, <1>1, <2>3, <2>5, <2>7 DEF MemifInv
<1>7. CASE LoadZeros
  <2>1. /\ access.op = "write" /\ seg' = seg
        /\ access' = [op |-> "zeros", addr |-> segs[seg].paddr + segs[seg].filesz,
                      len |-> segs[seg].memsz - segs[seg].filesz, data |-> Zeros]
        /\ pieces' = write(access'.addr, access'.len, access'.data)
    BY <1>7 DEF LoadZeros
  <2>2. access' \in Moved /\ access' \in Requested /\ access'.addr + access'.len <= Bytes
    <3>1. PICK a \in Nat, l \in 0 .. Bytes :
             a = segs[seg].paddr + segs[seg].filesz /\ l = segs[seg].memsz - segs[seg].filesz /\ a + l <= Bytes
      <4>1. /\ segs[seg].paddr + segs[seg].filesz \in Nat
            /\ segs[seg].memsz - segs[seg].filesz \in 0 .. Bytes
            /\ (segs[seg].paddr + segs[seg].filesz) + (segs[seg].memsz - segs[seg].filesz) <= Bytes
        BY ONLY <1>2
      <4> QED BY <4>1
    <3>2. access' = [op |-> "zeros", addr |-> a, len |-> l, data |-> Zeros]
      BY <2>1, <3>1
    <3> QED BY <3>1, <3>2, DataTyped DEF Moved, Requested
  <2>3. MemifTypeOK'
    BY <1>1, <2>1, <2>2 DEF MemifTypeOK
  <2>4. Fit(pieces, access)' /\ \A b : (InAccess(b) => Pending(pieces, b))' /\ Written(b)'
    BY <2>1, <2>2, <2>3, Begun
  <2>5. PiecesInv'
    BY <2>1, <2>4 DEF PiecesInv
  <2>6. ASSUME NEW b \in 0 .. Bytes - 1
        PROVE  /\ InFile(seg, b)' => bytes'[b] = Value(seg, b)'
               /\ ~Holds(seg, b)' => Imaged(seg - 1, b, bytes[b])'
    <3>1. /\ access.addr = segs[seg].paddr /\ access.len = segs[seg].filesz /\ access.data = Fill
          /\ ~InAccess(b) => Imaged(seg - 1, b, bytes[b])
          /\ Written(b)
      BY <1>3, <2>1 DEF LoadInv
    <3>2. InFile(seg, b)' <=> InAccess(b)
      BY <1>1, <2>1, <3>1 DEF InFile, InAccess
    <3>3. InFile(seg, b)' => b < segs[seg].paddr + segs[seg].filesz
      BY <1>1, <1>2, <2>1 DEF InFile
    <3>4. Value(seg, b)' = IF b < segs[seg].paddr + segs[seg].filesz THEN Fill[(b - segs[seg].paddr) + 1] ELSE 0
      BY <1>1, <2>1 DEF Value
    <3>5. InFile(seg, b)' => bytes'[b] = Value(seg, b)'
      BY <1>1, <1>4, <3>1, <3>2, <3>3, <3>4 DEF Written
    <3>6. InFile(seg, b)' => Holds(seg, b)'
      <4>1. InFile(seg, b) => Holds(seg, b)
        BY ONLY <1>2, b \in 0 .. Bytes - 1 DEF InFile, Holds
      <4> QED BY <1>1, <2>1, <4>1 DEF InFile, Holds
    <3>7. ~Holds(seg, b)' => Imaged(seg - 1, b, bytes[b])'
      BY <1>1, <1>5, <2>1, <3>1, <3>2, <3>6
    <3> QED BY <3>5, <3>7
  <2>7. LoadInv'
    BY <1>1, <2>1, <2>4, <2>6 DEF LoadInv
  <2> QED BY <1>0, <1>1, <2>3, <2>5, <2>7 DEF MemifInv
<1>8. CASE NextSegment
  <2>1. access.op = "zeros" /\ seg' = seg + 1 /\ access' = NoAccess /\ pieces' = <<>>
    BY <1>1, <1>8 DEF NextSegment
  <2>2. /\ access' \in Requested /\ access'.op = "none" /\ access'.addr = 0 /\ access'.len = 0
    BY <1>2, <2>1, DataTyped DEF NoAccess, Requested
  <2>3. MemifTypeOK'
    BY <1>1, <1>2, <1>3, <2>1, <2>2 DEF MemifTypeOK
  <2>4. PiecesInv'
    BY <2>1, <2>2, NoneFits DEF PiecesInv
  <2>5. ASSUME NEW b \in 0 .. Bytes - 1 PROVE Imaged(seg, b, bytes[b])
    <3>1. /\ access.addr = segs[seg].paddr + segs[seg].filesz
          /\ access.len = segs[seg].memsz - segs[seg].filesz /\ access.data = Zeros
          /\ InFile(seg, b) => bytes[b] = Value(seg, b)
          /\ ~Holds(seg, b) => Imaged(seg - 1, b, bytes[b])
          /\ Written(b)
      BY <1>3, <2>1 DEF LoadInv
    <3>2. Holds(seg, b) => InFile(seg, b) \/ (InAccess(b) /\ b >= segs[seg].paddr + segs[seg].filesz)
      <4>1. /\ access.addr = segs[seg].paddr + segs[seg].filesz
            /\ access.len = segs[seg].memsz - segs[seg].filesz
        BY <3>1
      <4> QED BY ONLY <1>2, <4>1, b \in 0 .. Bytes - 1 DEF Holds, InFile, InAccess
    <3>3. Holds(seg, b) => bytes[b] = Value(seg, b)
      <4>1. ASSUME InAccess(b), b >= segs[seg].paddr + segs[seg].filesz PROVE bytes[b] = Value(seg, b)
        <5>1. bytes[b] = Zeros[(b - access.addr) + 1]
          BY <1>4, <3>1, <4>1 DEF Written
        <5>2. (b - access.addr) + 1 \in 1 .. Bytes
          <6>1. /\ access.addr = segs[seg].paddr + segs[seg].filesz
                /\ access.len = segs[seg].memsz - segs[seg].filesz
            BY <3>1
          <6> QED BY ONLY <1>2, <4>1, <6>1, b \in 0 .. Bytes - 1 DEF InAccess
        <5>3. bytes[b] = 0
          BY <5>1, <5>2 DEF Zeros
        <5>4. Value(seg, b) = 0
          BY <1>2, <4>1 DEF Value
        <5> QED BY <5>3, <5>4
      <4> QED BY <3>1, <3>2, <4>1
    <3>4. CASE Holds(seg, b)
      <4>1. \A i \in 1 .. seg : i = seg \/ seg \in i + 1 .. seg
        BY <1>1
      <4>2. seg \in 1 .. seg
        BY <1>1
      <4> QED BY <3>3, <3>4, <4>1, <4>2 DEF Imaged
    <3>5. CASE ~Holds(seg, b)
      <4>1. \A i \in 1 .. seg : i = seg \/ i \in 1 .. seg - 1
        BY <1>1
      <4>2. \A i \in 1 .. seg - 1 : i \in 1 .. seg
        BY <1>1
      <4>3. \A i \in 1 .. seg - 1 : \A j \in i + 1 .. seg : j = seg \/ j \in i + 1 .. seg - 1
        BY <1>1
      <4>4. \A i \in 1 .. seg - 1 : (\A j \in i + 1 .. seg - 1 : ~Holds(j, b)) => \A j \in i + 1 .. seg : ~Holds(j, b)
        BY <3>5, <4>3
      <4>5. \A i \in 1 .. seg - 1 : (\A j \in i + 1 .. seg : ~Holds(j, b)) => \A j \in i + 1 .. seg - 1 : ~Holds(j, b)
        BY <1>1
      <4>6. Imaged(seg - 1, b, bytes[b])
        BY <3>1, <3>5
      <4>7. (\A i \in 1 .. seg : ~Holds(i, b)) => bytes[b] = before[b]
        BY <4>2, <4>6 DEF Imaged
      <4>8. ASSUME NEW i \in 1 .. seg, Holds(i, b), \A j \in i + 1 .. seg : ~Holds(j, b)
            PROVE  bytes[b] = Value(i, b)
        <5>1. i \in 1 .. seg - 1
          BY <3>5, <4>1, <4>8
        <5>2. \A j \in i + 1 .. seg - 1 : ~Holds(j, b)
          BY <4>5, <4>8, <5>1
        <5> QED BY <4>6, <4>8, <5>1, <5>2 DEF Imaged
      <4> QED BY <4>7, <4>8 DEF Imaged
    <3> QED BY <3>4, <3>5
  <2>6. \A b \in 0 .. Bytes - 1 : Imaged(seg - 1, b, bytes[b])'
    <3>1. seg' - 1 = seg
      BY <1>1, <2>1
    <3> QED BY <1>1, <1>5, <2>5, <3>1
  <2>7. LoadInv'
    BY <2>2, <2>6 DEF LoadInv
  <2> QED BY <1>0, <1>1, <2>3, <2>4, <2>7 DEF MemifInv
<1> QED BY <1>6, <1>7, <1>8

LEMMA MemifNextInv == MemifInv /\ [MemifStep]_memifVars => MemifInv'
<1> SUFFICES ASSUME MemifInv, [MemifStep]_memifVars PROVE MemifInv'
  OBVIOUS
<1>1. CASE UNCHANGED memifVars
  BY <1>1 DEF memifVars, MemifInv, MemifTypeOK, PiecesInv, AccessInv, LoadInv, Written, InAccess, Imaged, Holds,
              InFile, Value
<1> QED
  BY <1>1, AccessKeeps, ChunkKeeps, LoadKeeps DEF MemifStep

\* The image of all the segments is the one the property names.
LEMMA ImageIs ==
  ASSUME MemifTypeOK, NEW b, NEW v, Imaged(Len(segs), b, v)
  PROVE  v = Image(b)
<1> DEFINE here == {i \in DOMAIN segs : Holds(i, b)}
           N == Len(segs)
<1>1. N \in Nat /\ DOMAIN segs = 1 .. N
  BY MemifAssumption DEF MemifTypeOK
<1>2. Image(b) = IF here = {} THEN before[b]
                 ELSE LET i == CHOOSE i \in here : \A j \in here : j <= i IN Value(i, b)
  BY DEF Image, Holds, Value
<1> HIDE DEF N
<1>3. CASE here = {}
  <2>1. \A i \in 1 .. N : ~Holds(i, b)
    BY <1>1, <1>3
  <2> QED BY <1>2, <1>3, <2>1 DEF Imaged, N
<1>4. CASE here # {}
  <2>1. PICK i \in here : \A j \in here : j <= i
    <3> DEFINE T == {N - k : k \in here}
    <3>1. T \subseteq 0 .. N /\ T # {}
      BY <1>1, <1>4
    <3>2. PICK d \in T : \A e \in T : d <= e
      <4> HIDE DEF T
      <4> QED BY <1>1, <3>1, LeastNat
    <3>3. PICK i \in here : d = N - i
      BY <3>2
    <3>4. ASSUME NEW j \in here PROVE j <= i
      <4>1. N - j \in T
        OBVIOUS
      <4>2. N - i <= N - j /\ i \in 1 .. N /\ j \in 1 .. N
        BY <1>1, <3>2, <3>3, <4>1
      <4> QED BY <1>1, <4>2
    <3> QED BY <3>4
  <2>2. PICK m : m = (CHOOSE k \in here : \A j \in here : j <= k)
    OBVIOUS
  <2>3. m \in here /\ \A j \in here : j <= m
    BY <2>1, <2>2
  <2>4. Image(b) = Value(m, b)
    BY <1>2, <1>4, <2>2
  <2>5. m \in 1 .. N /\ Holds(m, b)
    BY <1>1, <2>3
  <2>6. \A j \in m + 1 .. N : ~Holds(j, b)
    BY <1>1, <2>3, <2>5
  <2> QED BY <2>4, <2>5, <2>6 DEF Imaged, N
<1> QED BY <1>3, <1>4

LEMMA MemifInvExact == MemifInv => MemifExact
<1> SUFFICES ASSUME MemifInv PROVE MemifExact
  OBVIOUS
<1>1. MemifTypeOK /\ PiecesInv
  BY DEF MemifInv
<1>2. \A i \in DOMAIN pieces : Legal(pieces[i])
  BY <1>1 DEF PiecesInv, Fit
<1>3. pieces = <<>> => \A b : ~Pending(pieces, b)
  BY NoneFits
<1>4. access.op \in {"read", "thrown"} => segs = <<>> /\ bytes = before
  BY DEF MemifInv, AccessInv, LoadInv
<1>5. pieces = <<>> /\ access.op = "read" => \A i \in 1 .. access.len : buf[i] = before[access.addr + i - 1]
  BY <1>3, <1>4 DEF MemifInv, AccessInv
<1>6. (pieces = <<>> /\ access.op = "write" /\ segs = <<>>) =>
          \A b \in DOMAIN bytes :
             bytes[b] = IF b \in access.addr .. access.addr + access.len - 1
                        THEN access.data[(b - access.addr) + 1] ELSE before[b]
  BY <1>1, <1>3 DEF MemifInv, MemifTypeOK, AccessInv, Written, InAccess
<1>7. ASSUME segs # <<>>, seg > Len(segs), NEW b \in DOMAIN bytes PROVE bytes[b] = Image(b)
  <2>1. LoadInv /\ Len(segs) \in Nat
    BY <1>1, <1>7, MemifAssumption DEF MemifInv, MemifTypeOK
  <2>2. seg - 1 = Len(segs)
    BY <1>1, <1>7, <2>1 DEF MemifTypeOK
  <2>3. access.op = "none"
    BY <1>1, <1>7, <2>1 DEF LoadInv, MemifTypeOK
  <2>4. b \in 0 .. Bytes - 1
    BY <1>1 DEF MemifTypeOK
  <2>5. Imaged(Len(segs), b, bytes[b])
    BY <2>1, <2>2, <2>3, <2>4 DEF LoadInv
  <2> QED BY <1>1, <2>5, ImageIs
<1> QED BY <1>2, <1>4, <1>5, <1>6, <1>7 DEF MemifExact, Legal

----------------------------------------------------------------------------
\* Of the host's and the target's thread exactly one goes on, whatever the
\* order of flags, mutexes and condition variables, and no wake-up is lost
\* between a flag and the wait on it (context_t::init and switch_to).
THEOREM ContextsTakeTurns == ContextSpec => []ContextsAlternate
  <1>1. ContextSpec => []ContextInv
    BY ContextInitInv, ContextNextInv, PTL DEF ContextSpec
  <1> QED BY <1>1, ContextInvAlternates, PTL

\* The inductive invariant of an access to memory: the pieces that remain are
\* legal and at their places, and what none of them holds is done.
THEOREM MemifInvariant == MemifSpec => []MemifInv
  BY MemifInitInv, MemifNextInv, PTL DEF MemifSpec

\* For every alignment and size of the host interface's chunks, every access
\* and every program: a read returns what memory holds, a write changes its
\* own bytes and no neighbour, and a loaded program is its segments, the last
\* one where they overlap (memif_t, load_elf); and the contexts take turns.
THEOREM AccessesAreExact == Spec => []AccessExact
  <1> DEFINE Inv == MemifInv /\ ContextInv
  <1>1. Init => Inv
    BY MemifInitInv, ContextInitInv DEF Init
  <1>2. Inv /\ [Next]_vars => Inv'
    <2> SUFFICES ASSUME Inv, [Next]_vars PROVE Inv'
      OBVIOUS
    <2>1. [MemifStep]_memifVars /\ [ContextStep]_contextVars
      BY DEF Next, vars, Host, Wire, Target, Interrupt, Memory, Threads
    <2> QED BY <2>1, MemifNextInv, ContextNextInv
  <1>3. Inv => AccessExact
    BY MemifInvExact, ContextInvAlternates DEF AccessExact
  <1> HIDE DEF Inv
  <1> QED BY <1>1, <1>2, <1>3, PTL DEF Spec
====
