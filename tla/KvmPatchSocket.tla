--------------------------- MODULE KvmPatchSocket ---------------------------
(***************************************************************************)
(* The KVM driver's live "patch" access (driver/kvm/kvm.c).  After         *)
(* kvm_setup_live_mode has connected the unix socket of QEMU's pmemaccess  *)
(* server, kvm_get_memory_patch and kvm_put_memory (behind kvm_write) speak *)
(* the framed protocol of spec section 7 over it, and destroy_domain_socket *)
(* sends quit.  The server is a QEMU thread running concurrently with the  *)
(* library; it and the guest's own stores are the environment.  A signal   *)
(* delivered to a process whose handler has no SA_RESTART (as the           *)
(* library's own example installs them) makes a blocked read return -1.    *)
(***************************************************************************)
EXTENDS Integers, Sequences, SequencesExt

CONSTANTS
    MemSize,         \* bytes of guest RAM: addresses 0 .. MemSize-1
    Vals,            \* byte values
    Paddrs,          \* request addresses the library may pass
    Lengths,         \* request lengths the library may pass
    MaxCalls,        \* bound on kvm_get_memory_patch and kvm_put_memory calls
    MaxGuestWrites,  \* bound on the guest's own stores
    MaxSignals       \* bound on signals that interrupt a blocked read

ASSUME /\ MemSize \in Nat \ {0} /\ 0 \in Vals /\ 1 \in Vals
       /\ Paddrs \subseteq Nat /\ Lengths \subseteq Nat \ {0}
       /\ {MaxCalls, MaxGuestWrites, MaxSignals} \subseteq Nat

VARIABLES
    mem,       \* guest physical memory
    toSrv,     \* socket, library to QEMU: request headers with their payload
    toLib,     \* socket, QEMU to library: a byte stream
    srv,       \* the pmemaccess thread: "serving" or "exited"
    op,        \* the library: "idle", "read", "put" (blocked in read()) or "done"
    req,       \* the request of the call in progress
    calls, gwrites, signals,
    served,    \* history: request id -> what QEMU did for it
    result     \* history: what the last call returned to its caller

vars == <<mem, toSrv, toLib, srv, op, req, calls, gwrites, signals, served,
          result>>

Ids == 1..MaxCalls
NoRequest == [type |-> 0, address |-> 0, length |-> 0, id |-> 0, bytes |-> <<>>]
Outcome == [ok : BOOLEAN, data : Seq(Vals)]

Init ==
    /\ mem \in [0..(MemSize - 1) -> Vals]
    /\ toSrv = <<>> /\ toLib = <<>> /\ srv = "serving"
    /\ op = "idle" /\ req = NoRequest
    /\ calls = 0 /\ gwrites = 0 /\ signals = 0
    /\ served = [i \in Ids |-> [ok |-> FALSE, data |-> <<>>]]
    /\ result = [type |-> 0, id |-> 0, ok |-> FALSE, data |-> <<>>]
-----------------------------------------------------------------------------
(* The library.  A call writes its header (and for a write the payload)   *)
(* and then blocks in read() on the socket.                               *)

(* the request asks for length + 1 bytes, counting the status byte      *)
kvm_get_memory_patch_status_length ==
    /\ op = "idle" /\ calls < MaxCalls
    /\ \E a \in Paddrs, l \in Lengths :
          req' = [type |-> 1, address |-> a, length |-> l + 1, id |-> calls + 1,
                  bytes |-> <<>>]
    /\ toSrv' = Append(toSrv, req')
    /\ calls' = calls + 1 /\ op' = "read"
    /\ UNCHANGED <<mem, toLib, srv, gwrites, signals, served, result>>

(* kvm_get_memory_patch up to its read: request {type 1, paddr, length}.  *)
kvm_get_memory_patch ==
    /\ op = "idle" /\ calls < MaxCalls
    /\ \E a \in Paddrs, l \in Lengths :
          req' = [type |-> 1, address |-> a, length |-> l, id |-> calls + 1,
                  bytes |-> <<>>]
    /\ toSrv' = Append(toSrv, req')
    /\ calls' = calls + 1 /\ op' = "read"
    /\ UNCHANGED <<mem, toLib, srv, gwrites, signals, served, result>>

(* the status test dropped: any length + 1 bytes are returned as data    *)
get_memory_patch_read_no_status ==
    /\ op = "read" /\ toLib # <<>>
    /\ LET n == req.length + 1
           got == SubSeq(toLib, 1, IF Len(toLib) < n THEN Len(toLib) ELSE n)
       IN /\ toLib' = SubSeq(toLib, Len(got) + 1, Len(toLib))
          /\ result' = [type |-> 1, id |-> req.id, ok |-> Len(got) = n,
                        data |-> SubSeq(got, 1, req.length)]
    /\ op' = "idle"
    /\ UNCHANGED <<mem, toSrv, srv, req, calls, gwrites, signals, served>>

(* reading length bytes, one short of the reply                           *)
get_memory_patch_read_length ==
    /\ op = "read" /\ toLib # <<>>
    /\ LET n == req.length
           got == SubSeq(toLib, 1, IF Len(toLib) < n THEN Len(toLib) ELSE n)
       IN /\ toLib' = SubSeq(toLib, Len(got) + 1, Len(toLib))
          /\ result' = [type |-> 1, id |-> req.id,
                        ok |-> Len(got) = n /\ got[n] # 0,
                        data |-> SubSeq(got, 1, req.length)]
    /\ op' = "idle"
    /\ UNCHANGED <<mem, toSrv, srv, req, calls, gwrites, signals, served>>

(* read(socket_fd, buf, length + 1) returns what is queued, up to         *)
(* length + 1 bytes; a count other than length + 1 fails the call, and so *)
(* does a zero last byte; otherwise buf is returned.                      *)
get_memory_patch_read ==
    /\ op = "read" /\ toLib # <<>>
    /\ LET n == req.length + 1
           got == SubSeq(toLib, 1, IF Len(toLib) < n THEN Len(toLib) ELSE n)
       IN /\ toLib' = SubSeq(toLib, Len(got) + 1, Len(toLib))
          /\ result' = [type |-> 1, id |-> req.id,
                        ok |-> Len(got) = n /\ got[n] # 0,
                        data |-> SubSeq(got, 1, req.length)]
    /\ op' = "idle"
    /\ UNCHANGED <<mem, toSrv, srv, req, calls, gwrites, signals, served>>

(* the header write lost: only the payload reaches the socket            *)
kvm_put_memory_no_header ==
    /\ op = "idle" /\ calls < MaxCalls
    /\ \E a \in Paddrs, l \in Lengths : \E b \in [1..l -> Vals] :
          req' = [type |-> 2, address |-> a, length |-> l, id |-> calls + 1,
                  bytes |-> b]
    /\ calls' = calls + 1 /\ op' = "put"
    /\ UNCHANGED <<mem, toSrv, toLib, srv, gwrites, signals, served, result>>

(* kvm_put_memory: the header {type 2, paddr, length}, then write(buf).   *)
kvm_put_memory ==
    /\ op = "idle" /\ calls < MaxCalls
    /\ \E a \in Paddrs, l \in Lengths : \E b \in [1..l -> Vals] :
          req' = [type |-> 2, address |-> a, length |-> l, id |-> calls + 1,
                  bytes |-> b]
    /\ toSrv' = Append(toSrv, req')
    /\ calls' = calls + 1 /\ op' = "put"
    /\ UNCHANGED <<mem, toLib, srv, gwrites, signals, served, result>>

(* read(socket_fd, &status, 1): the call succeeds iff the byte is nonzero. *)
put_memory_read_status ==
    /\ op = "put" /\ toLib # <<>>
    /\ result' = [type |-> 2, id |-> req.id, ok |-> Head(toLib) # 0,
                  data |-> <<>>]
    /\ toLib' = Tail(toLib) /\ op' = "idle"
    /\ UNCHANGED <<mem, toSrv, srv, req, calls, gwrites, signals, served>>

(* A signal arrives while the library blocks in either read(): read()     *)
(* returns -1 and consumes nothing.  Both calls then fail (nbytes is not  *)
(* length + 1; status keeps its initial 0) and return without draining    *)
(* the reply still on its way.                                            *)
read_interrupted ==
    /\ op \in {"read", "put"} /\ toLib = <<>> /\ signals < MaxSignals
    /\ signals' = signals + 1
    /\ result' = [type |-> req.type, id |-> req.id, ok |-> FALSE, data |-> <<>>]
    /\ op' = "idle"
    /\ UNCHANGED <<mem, toSrv, toLib, srv, req, calls, gwrites, served>>

(* destroy_domain_socket (from kvm_destroy): with a socket, send quit.     *)
destroy_domain_socket ==
    /\ op = "idle"
    /\ toSrv' = Append(toSrv, NoRequest)
    /\ op' = "done"
    /\ UNCHANGED <<mem, toLib, srv, req, calls, gwrites, signals, served, result>>
-----------------------------------------------------------------------------
(* The environment: QEMU's pmemaccess thread (spec section 7) and the     *)
(* guest.  A request inside guest RAM gets status 1, one outside gets 0.  *)

InRam(a, l) == a + l <= MemSize
RamBytes(a, l) == [i \in 1..l |-> IF a + i - 1 < MemSize THEN mem[a + i - 1] ELSE 0]

QemuRead ==
    /\ srv = "serving" /\ toSrv # <<>> /\ Head(toSrv).type = 1
    /\ LET r == Head(toSrv)
           ok == InRam(r.address, r.length)
           d == RamBytes(r.address, r.length)
       IN /\ toLib' = toLib \o d \o <<IF ok THEN 1 ELSE 0>>
          /\ served' = [served EXCEPT ![r.id] = [ok |-> ok, data |-> d]]
    /\ toSrv' = Tail(toSrv)
    /\ UNCHANGED <<mem, srv, op, req, calls, gwrites, signals, result>>

QemuWrite ==
    /\ srv = "serving" /\ toSrv # <<>> /\ Head(toSrv).type = 2
    /\ LET r == Head(toSrv)
           ok == InRam(r.address, r.length)
       IN /\ mem' = IF ok
                    THEN [i \in DOMAIN mem |->
                            IF r.address <= i /\ i < r.address + r.length
                            THEN r.bytes[i - r.address + 1] ELSE mem[i]]
                    ELSE mem
          /\ toLib' = Append(toLib, IF ok THEN 1 ELSE 0)
          /\ served' = [served EXCEPT ![r.id] = [ok |-> ok, data |-> r.bytes]]
    /\ toSrv' = Tail(toSrv)
    /\ UNCHANGED <<srv, op, req, calls, gwrites, signals, result>>

QemuQuit ==
    /\ srv = "serving" /\ toSrv # <<>> /\ Head(toSrv).type = 0
    /\ srv' = "exited" /\ toSrv' = Tail(toSrv)
    /\ UNCHANGED <<mem, toLib, op, req, calls, gwrites, signals, served, result>>

GuestStore ==
    /\ gwrites < MaxGuestWrites
    /\ \E i \in DOMAIN mem, v \in Vals : mem' = [mem EXCEPT ![i] = v]
    /\ gwrites' = gwrites + 1
    /\ UNCHANGED <<toSrv, toLib, srv, op, req, calls, signals, served, result>>
-----------------------------------------------------------------------------
LibraryCall == kvm_get_memory_patch \/ kvm_put_memory \/ destroy_domain_socket
LibraryStep == get_memory_patch_read \/ put_memory_read_status
QemuStep == QemuRead \/ QemuWrite \/ QemuQuit

Next == LibraryCall \/ LibraryStep \/ QemuStep \/ GuestStore

(* A blocked read() returns once bytes are queued, and QEMU's thread runs  *)
(* whenever a request waits: both are weakly fair.  The caller's calls,   *)
(* the guest and signals are not.                                         *)
Spec == Init /\ [][Next]_vars /\ WF_vars(LibraryStep) /\ WF_vars(QemuStep)

(* the same system in a process that takes signals without SA_RESTART     *)
NextSignals == Next \/ read_interrupted
SpecSignals == Init /\ [][NextSignals]_vars /\ WF_vars(LibraryStep) /\ WF_vars(QemuStep)
-----------------------------------------------------------------------------
Request == [type : {0, 1, 2}, address : Paddrs \cup {0},
            length : Lengths \cup {0}, id : 0..MaxCalls, bytes : Seq(Vals)]

TypeOK ==
    /\ mem \in [0..(MemSize - 1) -> Vals]
    /\ toSrv \in Seq(Request) /\ toLib \in Seq(Vals)
    /\ srv \in {"serving", "exited"} /\ op \in {"idle", "read", "put", "done"}
    /\ req \in Request /\ served \in [Ids -> Outcome]
    /\ calls \in 0..MaxCalls /\ signals \in 0..MaxSignals

(* A call that kvm_get_memory_patch or kvm_put_memory reports successful  *)
(* was carried out by QEMU for that very request, and a read returns the  *)
(* bytes QEMU read from guest RAM for it, not the bytes of another reply  *)
(* still queued on the socket.                                            *)
CallsReportServerOutcome ==
    result.ok => /\ served[result.id].ok
                 /\ result.type = 1 => result.data = served[result.id].data

(* The framing of the socket holds: when the library is idle nothing is   *)
(* queued from QEMU, and while a call blocks in read() the queue is empty *)
(* or exactly that call's reply (length data bytes and the status byte,   *)
(* or the status byte of a write).                                        *)
SocketInStep ==
    /\ op = "idle" => toLib = <<>>
    /\ op = "read" => Len(toLib) \in {0, req.length + 1}
    /\ op = "put" => Len(toLib) \in {0, 1}

-----------------------------------------------------------------------------
(* The refinement mapping onto DriverMemory.  A call has taken effect     *)
(* once QEMU has taken its request off the socket; until the library has *)
(* read the reply, the outcome is the one on the socket.                  *)
Taken == op \in {"read", "put"} /\ \A i \in DOMAIN toSrv : toSrv[i].id # req.id
OutcomeOnSocket ==
    LET n == IF req.type = 1 THEN req.length + 1 ELSE 1
        ok == Len(toLib) >= n /\ toLib[n] # 0
    IN [ok |-> ok,
        data |-> IF ok /\ req.type = 1 THEN SubSeq(toLib, 1, req.length) ELSE <<>>]
CallResult == [type |-> result.type, ok |-> result.ok,
             data |-> IF result.ok THEN result.data ELSE <<>>]

AbsOp == IF op \in {"idle", "done"} THEN op
         ELSE IF Taken THEN "applied" ELSE "called"
AbsReq == [type |-> req.type, address |-> req.address, length |-> req.length,
           bytes |-> req.bytes]
AbsOut == IF Taken THEN OutcomeOnSocket
          ELSE [ok |-> CallResult.ok, data |-> CallResult.data]

Abstract == INSTANCE DriverMemory WITH
    amem <- mem, aop <- AbsOp, areq <- AbsReq, aout <- AbsOut, aresult <- CallResult

(* kvm_get_memory_patch and kvm_put_memory, over the socket to QEMU's     *)
(* pmemaccess thread, behave as DriverMemory promises: every call takes   *)
(* effect on guest RAM at one instant between its call and its return,   *)
(* returns the bytes RAM held then, and eventually returns.              *)
ImplementsDriverMemory == Abstract!Spec
====
