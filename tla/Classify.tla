------------------------------- MODULE Classify -------------------------------
(***************************************************************************)
(* What a decoded instruction does to the control flow                     *)
(* (disassembler/classify.py), for the graph of one region (module Cfg)    *)
(* and the inventory of functions (module FunctionInventory).                      *)
(***************************************************************************)
EXTENDS Naturals

\* A set of at most one address stands for an optional one.
Instruction ==
    [groups : SUBSET {"jump", "call", "return"},     \* Capstone's groups
     mnemonic : {"jmp", "bx", "jal", "other"},       \* as classify.py tells apart
     link : BOOLEAN,                                 \* operand is lr or $ra
     target : SUBSET Nat]                            \* immediate operand, if any

IsCall(x) == "call" \in x.groups \/ x.mnemonic = "jal"
IsJump(x) == "jump" \in x.groups /\ ~IsCall(x)
IsReturn(x) == "return" \in x.groups \/ (x.mnemonic = "bx" /\ x.link)
IsUnconditionalJump(x) == IsJump(x) /\ (x.mnemonic = "jmp" \/ x.target = {})
FallsThrough(x) == IsJump(x) /\ ~IsUnconditionalJump(x)
=============================================================================
