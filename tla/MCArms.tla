------------------------------- MODULE MCArms -------------------------------
(* Instances of Arms for TLC: a post-quantum arm whose responder has no    *)
(* CHUNK, then a classical arm of the DataTransferSize sweep, which has no *)
(* responder flags of its own.  Bit 1 is the algorithm asked for in a      *)
(* group, bit 4 is one without a name.                                     *)
EXTENDS Arms

Expect(asks, chunk, dts) ==
    [groups |-> [g \in Groups |-> BitNames(asks[g])], mutAuth |-> "off",
     reqChain |-> "none", chunk |-> chunk, dts |-> dts]
Classical == [g \in Groups |-> IF g \in {"Asym", "DHE"} THEN 1 ELSE 0]
PostQuantum == [g \in Groups |-> IF g \in {"PqcAsym", "KEM"} THEN 1 ELSE 0]
SomeArms ==
    << [asks |-> PostQuantum, dts |-> 0, rextra |-> {"no CHUNK"},
        expect |-> Expect(PostQuantum, "off", 0)],
       [asks |-> Classical, dts |-> 2, rextra |-> {}, expect |-> Expect(Classical, "any", 2)] >>
=============================================================================
