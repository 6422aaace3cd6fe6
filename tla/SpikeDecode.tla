---------------------------- MODULE SpikeDecode -----------------------------
(***************************************************************************)
(* The instruction decoder of the simulator (processor_t::decode_insn): a  *)
(* hash table in front of a list that is searched linearly, and that moves *)
(* what it finds to its front.  Several instructions share a match and are *)
(* told apart by the order of the list alone.                              *)
(***************************************************************************)
EXTENDS Integers, Sequences, SequencesExt, Bitwise

CONSTANTS
    Registered,     \* the [name, match, mask] in the order they are registered
    Words,          \* the instruction words of the program
    OPCODE_CACHE_SIZE

VARIABLES
    instructions, opcode_cache

decodeVars == <<instructions, opcode_cache>>

illegal_instruction == [name |-> "illegal", match |-> 0, mask |-> 0]

Before(a, b) == IF a.match = b.match THEN a.mask > b.mask ELSE a.match > b.match

build_opcode_map(list) == SortSeq(list, Before)

DecodeInit ==
    /\ instructions = build_opcode_map(Append(Registered, illegal_instruction))
    /\ opcode_cache = [i \in 0 .. OPCODE_CACHE_SIZE - 1 |-> illegal_instruction]

(* (bits & mask) = match, for every word and description. *)
Fitting == [bits \in Words |->
              {d.name : d \in {e \in Range(Registered) \cup {illegal_instruction} :
                                 (bits & e.mask) = e.match}}]
Slot(bits) == bits % OPCODE_CACHE_SIZE
Found(list, bits) == SelectInSeq(list, LAMBDA d : d.name \in Fitting[bits])

(* An entry is moved only if neither neighbour has its match.              *)
\* (Any entry is moved.)
MovesAny(list, p) == list[p].mask # 0 /\ p > 1
Moves(list, p) ==
    /\ list[p].mask # 0 /\ p > 1
    /\ list[p].match # list[p - 1].match
    /\ list[p].match # list[p + 1].match
MoveToFront(list, p) == <<list[p]>> \o RemoveAt(list, p)

decode_insn(bits) ==
    IF opcode_cache[Slot(bits)].match = bits THEN UNCHANGED decodeVars
    ELSE \E p \in {Found(instructions, bits)} :
           /\ instructions' = IF Moves(instructions, p) THEN MoveToFront(instructions, p)
                              ELSE instructions
           /\ opcode_cache' = [opcode_cache EXCEPT
                                 ![Slot(bits)] = [instructions[p] EXCEPT !.match = bits]]

DecodeNext == \E bits \in Words : decode_insn(bits)

(* What the function that decode_insn(bits) returns in this state does:    *)
(* c_addi4spn requires an immediate, so that the word 0 is illegal both    *)
(* before and after the slot it starts in is reused.                       *)
NoImmediate == {bits \in Words : (bits & 8160) = 0}
Executes(name, bits) == IF name = "c_addi4spn" /\ bits \in NoImmediate THEN "illegal" ELSE name
Decoded(bits) ==
    Executes(IF opcode_cache[Slot(bits)].match = bits THEN opcode_cache[Slot(bits)].name
             ELSE instructions[Found(instructions, bits)].name, bits)

----------------------------------------------------------------------------
(* Whatever was decoded before, a word decodes as the most specific of the *)
(* registered instructions it matches: moving an instruction to the front  *)
(* of the list never puts it before one that it would hide.                *)
MostSpecific(bits) ==
    LET fits == {d \in Range(Registered) \cup {illegal_instruction} : d.name \in Fitting[bits]}
    IN  Executes((CHOOSE d \in fits : \A e \in fits : e.mask <= d.mask).name, bits)
DecodeStable == \A bits \in Words : Decoded(bits) = MostSpecific(bits)
====
