---------------------------- MODULE DriverMemory ----------------------------
(***************************************************************************)
(* What a driver's physical-memory access promises its caller (the        *)
(* read_page_ptr and write_ptr entries of driver_interface_t): one call at *)
(* a time, each read or write takes effect on guest RAM at a single        *)
(* instant between its call and its return, and succeeds exactly when the *)
(* range lies inside RAM.  The guest stores into RAM at any moment.       *)
(***************************************************************************)
EXTENDS Integers, Sequences

CONSTANTS MemSize, Vals, Paddrs, Lengths

VARIABLES
    amem,     \* guest physical memory
    aop,      \* "idle", "called", "applied" (taken effect) or "done"
    areq,     \* the call in progress (or the last one)
    aout,     \* the outcome of the last access that took effect
    aresult   \* what the last call returned

avars == <<amem, aop, areq, aout, aresult>>

NoCall == [type |-> 0, address |-> 0, length |-> 0, bytes |-> <<>>]
Calls == [type : {1}, address : Paddrs, length : Lengths, bytes : {<<>>}]
         \cup UNION {[type : {2}, address : {a}, length : {l},
                      bytes : [1..l -> Vals]] : a \in Paddrs, l \in Lengths}

Inside(c) == c.address + c.length <= MemSize

Init ==
    /\ amem \in [0..(MemSize - 1) -> Vals]
    /\ aop = "idle" /\ areq = NoCall
    /\ aout = [ok |-> FALSE, data |-> <<>>]
    /\ aresult = [type |-> 0, ok |-> FALSE, data |-> <<>>]

Call ==
    /\ aop = "idle"
    /\ \E c \in Calls : areq' = c
    /\ aop' = "called"
    /\ UNCHANGED <<amem, aout, aresult>>

(* the access takes effect: a read copies RAM, a write stores its bytes;  *)
(* outside RAM neither happens and the access fails                       *)
Apply ==
    /\ aop = "called"
    /\ LET ok == Inside(areq) IN
       /\ aout' = [ok |-> ok,
                   data |-> IF ok /\ areq.type = 1
                            THEN [i \in 1..areq.length |-> amem[areq.address + i - 1]]
                            ELSE <<>>]
       /\ amem' = IF ok /\ areq.type = 2
                  THEN [i \in DOMAIN amem |->
                          IF areq.address <= i /\ i < areq.address + areq.length
                          THEN areq.bytes[i - areq.address + 1] ELSE amem[i]]
                  ELSE amem
    /\ aop' = "applied"
    /\ UNCHANGED <<areq, aresult>>

Return ==
    /\ aop = "applied"
    /\ aresult' = [type |-> areq.type, ok |-> aout.ok, data |-> aout.data]
    /\ aop' = "idle"
    /\ UNCHANGED <<amem, areq, aout>>

Close ==
    /\ aop = "idle" /\ aop' = "done"
    /\ UNCHANGED <<amem, areq, aout, aresult>>

Store ==
    /\ \E i \in DOMAIN amem, v \in Vals : amem' = [amem EXCEPT ![i] = v]
    /\ UNCHANGED <<aop, areq, aout, aresult>>

Next == Call \/ Apply \/ Return \/ Close \/ Store

(* a call in progress takes effect and returns                            *)
Spec == Init /\ [][Next]_avars /\ WF_avars(Apply) /\ WF_avars(Return)
====
