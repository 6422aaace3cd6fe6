------------------------------ MODULE SpikeSim ------------------------------
(***************************************************************************)
(* The simulator's machine (sim.cc, clint.cc, interactive.cc): harts that  *)
(* take turns of INTERLEAVE instructions, their LR/SC reservations, the    *)
(* CLINT, and the host, a coroutine that runs between two turns and may    *)
(* write target memory.  The main loop or the console's commands call      *)
(* step().                                                                 *)
(*                                                                         *)
(* What the harts compute is left out: an instruction writes memory, takes *)
(* or uses a reservation, writes the CLINT, or ends its step() early.      *)
(***************************************************************************)
EXTENDS Integers, FiniteSets

CONSTANTS
    NumProcs,
    Locations,      \* memory locations
    INTERLEAVE,
    Tick,           \* INTERLEAVE / INSNS_PER_RTC_TICK
    MaxTime,        \* bound: mtime and mtimecmp
    MaxInsns        \* bound: instructions executed

VARIABLES
    where,          \* "main", "console", "command", "slice", "hart", "host" or "done"
    from,           \* who called step(): "main" or "command"
    left,           \* n - i of sim_t::step
    budget,         \* instructions left to the current hart's step()
    current_proc, current_step,
    ctrlc_pressed,
    load_reservation,
    mtime, mtimecmp, MTIP, MSIP,
    insns,
    disturbed,      \* harts whose reserved location another agent has written
    clintUsed       \* the CLINT has been written or has ticked

simVars == <<where, from, left, budget, current_proc, current_step, ctrlc_pressed,
             load_reservation, mtime, mtimecmp, MTIP, MSIP, insns, disturbed, clintUsed>>

Harts == 0 .. NumProcs - 1
None == -1

\* There is a hart, and no location is the reservation that is none.
ASSUME SimAssumption == NumProcs \in Nat \ {0} /\ None \notin Locations

SimInit ==
    /\ where \in {"main", "console"} /\ from = "main" /\ left = 0 /\ budget = 0
    /\ current_proc = 0 /\ current_step = 0 /\ ctrlc_pressed = FALSE
    /\ load_reservation = [p \in Harts |-> None]
    /\ mtime \in 0 .. 1     \* the constructor leaves it uninitialized
    /\ mtimecmp = [p \in Harts |-> 0]
    /\ MTIP = {} /\ MSIP = {}
    /\ insns = 0 /\ disturbed = {} /\ clintUsed = FALSE

clintVars == <<mtime, mtimecmp, MTIP, MSIP, clintUsed>>
schedVars == <<left, current_proc, current_step>>

----------------------------------------------------------------------------
(* The CLINT: increment recomputes every timer interrupt. *)

increment(now, cmp) ==
    /\ mtime' = now /\ mtimecmp' = cmp
    /\ MTIP' = {p \in Harts : now >= cmp[p]}
    /\ clintUsed' = TRUE
StoreMsip ==
    \E p \in Harts, b \in BOOLEAN :
      /\ MSIP' = (MSIP \ {p}) \cup (IF b THEN {p} ELSE {})
      /\ increment(mtime, mtimecmp)
StoreMtimecmp ==
    \E p \in Harts, v \in 0 .. MaxTime :
      increment(mtime, [mtimecmp EXCEPT ![p] = v]) /\ UNCHANGED MSIP
StoreMtime ==
    \E v \in 0 .. MaxTime : increment(v, mtimecmp) /\ UNCHANGED MSIP

----------------------------------------------------------------------------
(* A write to location a by an agent; its own reservation does not mind.   *)
Writes(agent, a) ==
    disturbed' = disturbed \cup {p \in Harts \ {agent} : load_reservation[p] = a}

lr(p) == \E a \in Locations :
           /\ load_reservation' = [load_reservation EXCEPT ![p] = a]
           /\ disturbed' = disturbed \ {p} /\ UNCHANGED clintVars
sc(p) == /\ load_reservation[p] # None       \* else it fails and writes nothing
         /\ Writes(p, load_reservation[p]) /\ UNCHANGED <<load_reservation, clintVars>>
store(p) == \E a \in Locations :
              /\ Writes(p, a) /\ UNCHANGED <<load_reservation, clintVars>>
clint_store == /\ StoreMsip \/ StoreMtimecmp \/ StoreMtime
               /\ UNCHANGED <<load_reservation, disturbed>>
other == UNCHANGED <<load_reservation, disturbed, clintVars>>
yield_load_reservation(p) ==
    /\ load_reservation' = [load_reservation EXCEPT ![p] = None]
    /\ disturbed' = disturbed \ {p}

(* An instruction of the current hart's step(steps); a trap or a wfi ends  *)
(* step() early, and a trap gives the reservation up.                      *)
Instruction ==
    /\ where = "hart" /\ budget > 0 /\ insns < MaxInsns
    /\ insns' = insns + 1
    /\ \/ /\ lr(current_proc) \/ sc(current_proc) \/ store(current_proc) \/ clint_store \/ other
          /\ budget' = budget - 1
       \/ other /\ budget' = 0
       \/ yield_load_reservation(current_proc) /\ budget' = 0 /\ UNCHANGED clintVars
    /\ UNCHANGED <<where, from, schedVars, ctrlc_pressed>>

----------------------------------------------------------------------------
(* sim_t::step(n). *)
Smaller(a, b) == IF a < b THEN a ELSE b
Call(n, caller) ==
    /\ left' = n /\ from' = caller
    /\ where' = "slice"
StartSlice ==
    /\ where = "slice" /\ left > 0
    /\ budget' = Smaller(left, INTERLEAVE - current_step)
    /\ where' = "hart"
    /\ UNCHANGED <<from, schedVars, ctrlc_pressed, load_reservation, clintVars, insns, disturbed>>
\* (The reservation is kept across the switch of harts.)
SwitchKeeps(p) == UNCHANGED <<load_reservation, disturbed>>
Switch(p) == yield_load_reservation(p)
EndSlice ==
    /\ where = "hart" /\ budget = 0
    /\ \E steps \in {Smaller(left, INTERLEAVE - current_step)} :
         /\ left' = left - steps
         /\ IF current_step + steps = INTERLEAVE
              THEN /\ current_step' = 0 /\ where' = "host"
                   /\ Switch(current_proc)
                   /\ current_proc' = (current_proc + 1) % NumProcs
                   /\ IF current_proc + 1 = NumProcs
                        THEN increment(Smaller(mtime + Tick, MaxTime), mtimecmp) /\ UNCHANGED MSIP
                        ELSE UNCHANGED clintVars
              ELSE /\ current_step' = current_step + steps /\ where' = "slice"
                   /\ UNCHANGED <<current_proc, load_reservation, disturbed, clintVars>>
    /\ UNCHANGED <<from, budget, ctrlc_pressed, insns>>
Return ==
    /\ where = "slice" /\ left = 0
    /\ where' = from
    /\ UNCHANGED <<from, schedVars, budget, ctrlc_pressed, load_reservation, clintVars, insns, disturbed>>

(* host->switch_to(): the host runs, may write memory or see the end, and  *)
(* comes back with idle().                                                 *)
HostWrites ==
    /\ where = "host"
    /\ \E a \in Locations : Writes(None, a)
    /\ UNCHANGED <<where, from, schedVars, budget, ctrlc_pressed, load_reservation, clintVars, insns>>
HostDone ==
    /\ where = "host" /\ where' = "done"
    /\ UNCHANGED <<from, schedVars, budget, ctrlc_pressed, load_reservation, clintVars, insns, disturbed>>
idle ==
    /\ where = "host" /\ where' = "slice"
    /\ UNCHANGED <<from, schedVars, budget, ctrlc_pressed, load_reservation, clintVars, insns, disturbed>>

(* main(): a turn at a time, or the console once ctrl-C was pressed. *)
main ==
    /\ where = "main"
    /\ \/ ctrlc_pressed /\ where' = "console" /\ UNCHANGED <<left, from>>
       \/ ~ctrlc_pressed /\ Call(INTERLEAVE, "main")
    /\ UNCHANGED <<budget, current_proc, current_step, ctrlc_pressed, load_reservation, clintVars,
                   insns, disturbed>>
(* interactive(): run and until call step(1) until they are told to stop.  *)
interactive_run ==
    /\ where = "console" /\ where' = "command" /\ ctrlc_pressed' = FALSE
    /\ UNCHANGED <<from, schedVars, budget, load_reservation, clintVars, insns, disturbed>>
CommandStep ==
    /\ where = "command"
    /\ \/ ~ctrlc_pressed /\ Call(1, "command")
       \/ where' = "console" /\ UNCHANGED <<left, from>>
    /\ UNCHANGED <<budget, current_proc, current_step, ctrlc_pressed, load_reservation, clintVars,
                   insns, disturbed>>
handle_signal ==
    /\ where \notin {"done", "host"} /\ ~ctrlc_pressed /\ ctrlc_pressed' = TRUE
    /\ UNCHANGED <<where, from, schedVars, budget, load_reservation, clintVars, insns, disturbed>>

SimNext == Instruction \/ StartSlice \/ EndSlice \/ Return \/ HostWrites \/ HostDone \/ idle
           \/ main \/ interactive_run \/ CommandStep \/ handle_signal
SimSpec == SimInit /\ [][SimNext]_simVars

----------------------------------------------------------------------------
(* A reservation a hart still holds is good: no other hart and not the     *)
(* host has written its location since the LR, so an SC that succeeds is   *)
(* atomic, however step() was called and wherever the turns ended.         *)
ReservationsFresh == \A p \in Harts : load_reservation[p] # None => p \notin disturbed

(* The timer interrupt of every hart is pending exactly when mtime has     *)
(* reached its mtimecmp, whatever store or tick came last.                 *)
TimerLevel == clintUsed => MTIP = {p \in Harts : mtime >= mtimecmp[p]}

(* Both: what a program may rely on whoever ran in between (sim.cc,        *)
(* clint.cc).                                                              *)
SimSound == ReservationsFresh /\ TimerLevel
====
