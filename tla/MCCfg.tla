-------------------------------- MODULE MCCfg --------------------------------
(* Cfg on regions of three, four and five instructions. *)
EXTENDS Cfg, TLC

Make(groups, mnemonic, link, target) ==
    [groups |-> groups, mnemonic |-> mnemonic, link |-> link, target |-> target]

ArmCall == Make({"jump", "call"}, "other", FALSE, {4})    \* bl
MipsCall == Make({}, "jal", FALSE, {4})
Return == Make({"return"}, "other", FALSE, {})
ArmReturn == Make({"jump"}, "bx", TRUE, {})               \* bx lr
Indirect == Make({"jump"}, "other", FALSE, {})
Jump(a) == Make({"jump"}, "jmp", FALSE, {a})
Branch(a) == Make({"jump"}, "other", FALSE, {a})

\* Regions of three: every kind of instruction.  Addresses 0 and 12 are outside,
\* 5 is inside an instruction.
Kinds ==
    {ArmCall, MipsCall, Return, ArmReturn, Indirect}
      \cup {Jump(a) : a \in {0, 2, 4, 6, 8}} \cup {Branch(a) : a \in {2, 4, 5, 6, 8, 12}}

\* Regions of four and five: every shape of graph with four blocks, and larger
\* ones with loops in loops and loops with two entries.
Shapes4 == {Return} \cup {Jump(a) : a \in {2, 4, 6, 8}} \cup {Branch(a) : a \in {2, 4, 6, 8}}
Shapes5 == {Return, Jump(4)} \cup {Branch(a) : a \in {2, 4, 8, 10}}

AllInstructions == Kinds \cup Shapes4 \cup Shapes5
AllPrograms == [1..3 -> Kinds] \cup [1..4 -> Shapes4] \cup [1..5 -> Shapes5]
TwoLimits == {[instructions |-> 5, nodes |-> 5], [instructions |-> 3, nodes |-> 2]}
=============================================================================
