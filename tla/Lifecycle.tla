------------------------------ MODULE Lifecycle ------------------------------
(***************************************************************************)
(* One process from main to its exit: run_sender and run_receiver acquire  *)
(* their resources one after the other, start the audio device, loop until *)
(* a signal or a socket error, and release everything.  The driver calls   *)
(* the audio callback on a thread of its own from the device's start until *)
(* it is stopped.  A resource is one name for all that one call allocates; *)
(* Checks are steps that acquire nothing but may fail.  Each function that *)
(* fails half-way releases its own part, and its caller the rest.          *)
(***************************************************************************)
EXTENDS AudioBackends

VARIABLES
    mode, fec, drift,   \* the options: send, recv or list; --fec; --drift-comp
    backend,            \* --backend
    pc,                 \* where the main thread is
    plan,               \* what it still has to acquire
    held,               \* what is allocated or open
    todo,               \* what it still has to release
    active,             \* the driver calls back
    callback,           \* a callback is running
    running,            \* g_running
    failed              \* the process ends because of an error at start-up

options == <<mode, fec, drift, backend>>
vars == <<options, pc, plan, held, todo, active, callback, running, failed>>

-----------------------------------------------------------------------------

(* udp_sender_init and udp_receiver_init: what they acquire, what they     *)
(* release when their step s fails, and what their destroy releases.       *)
SenderSocket ==
    <<"packet_size">> \o Option(fec, <<"fits", "parity">>)
        \o <<"tx_buf", "tx_address", "tx_socket">>
SenderSocketFails(s) ==
    Option(s \in {"tx_address", "tx_socket"}, <<"tx_buf">>)
        \o Option(s \in {"tx_buf", "tx_address", "tx_socket"}, <<"parity">>)
SenderSocketDestroy == <<"tx_socket", "tx_buf", "parity">>

ReceiverSocket == <<"rx_buf", "rx_socket", "rx_address">>
ReceiverSocketFails(s) ==
    Option(s = "rx_address", <<"rx_socket">>) \o Option(s # "rx_buf", <<"rx_buf">>)
ReceiverSocketDestroy == <<"rx_socket", "rx_buf">>

Steps(s) == {s[i] : i \in DOMAIN s}
DeviceInit == InitSteps(backend, mode = "send")

(* What run_sender and run_receiver acquire before they start the device,  *)
(* in order; with --list-devices main only creates the backend.            *)
SenderPlan == <<"backend">> \o DeviceInit \o SenderSocket
ReceiverPlan ==
    <<"ring", "backend">> \o DeviceInit \o <<"packet_size", "scratch">>
        \o Option(drift, <<"fifo", "src_buf">>)
        \o Option(fec, <<"window">>)
        \o ReceiverSocket
Plan ==
    CASE mode = "send" -> SenderPlan
      [] mode = "recv" -> ReceiverPlan
      [] mode = "list" -> <<"backend">>

(* What they release when step s fails, in order.  "device" is the         *)
(* vtable's destroy.                                                       *)
SenderCleanup(s) ==
    CASE s = "backend" -> << >>
      [] s \in Steps(DeviceInit) -> InitFails(backend, s) \o <<"device", "backend">>
      [] s \in Steps(SenderSocket) -> SenderSocketFails(s) \o <<"device", "backend">>
      [] s = "start" -> <<"device", "backend">> \o SenderSocketDestroy

ReceiverCleanup(s) ==
    LET inSocket == s \in Steps(ReceiverSocket)
    IN  Option(s \in Steps(DeviceInit), InitFails(backend, s))
            \o Option(s = "window", <<"window">>)
            \o Option(inSocket, ReceiverSocketFails(s))
            \o Option(s \in {"src_buf", "window", "start"} \/ inSocket, <<"scratch">>)
            \o Option(fec /\ (inSocket \/ s = "start"), <<"window">>)
            \o Option(s = "start", ReceiverSocketDestroy)
            \o Option(s \notin {"ring", "backend"}, <<"device", "backend">>)
            \o Option(s # "ring", <<"ring">>)

Cleanup(s) ==
    CASE mode = "send" -> SenderCleanup(s)
      [] mode = "recv" -> ReceiverCleanup(s)
      [] mode = "list" -> << >>

(* Mutants of the two lists below. *)
SenderShutdown_SocketFirst ==
    SenderSocketDestroy \o StopList(backend) \o <<"device", "backend">>
ReceiverShutdown_NoSrc ==
    Option(fec, <<"flush", "window">>) \o StopList(backend) \o <<"device", "backend">>
        \o ReceiverSocketDestroy \o <<"scratch", "ring">>

(* What they release after the loop, in order.  "flush" is fec_rx_flush,   *)
(* which emits the window to a ring that the callback still reads.         *)
SenderShutdown ==
    StopList(backend) \o <<"device", "backend">> \o SenderSocketDestroy
ReceiverShutdown ==
    Option(fec, <<"flush", "window">>) \o StopList(backend) \o <<"device", "backend">>
        \o ReceiverSocketDestroy \o <<"scratch", "src_buf", "fifo", "ring">>

-----------------------------------------------------------------------------

Init ==
    /\ mode \in {"send", "recv", "list"} /\ fec \in BOOLEAN /\ drift \in BOOLEAN
    /\ backend \in Backends
    /\ pc = "parse" /\ plan = Plan /\ held = {} /\ todo = << >>
    /\ active = FALSE /\ callback = FALSE
    /\ running = TRUE /\ failed = FALSE

(* config_parse accepts the options and the signal handlers are installed, *)
(* or it refuses them.                                                     *)
Parse ==
    /\ pc = "parse" /\ pc' \in {"acquire", "exit"}
    /\ UNCHANGED <<options, plan, held, todo, active, callback, running, failed>>

(* The next resource is allocated or opened, the next check passes. *)
Acquire ==
    /\ pc = "acquire" /\ plan # << >>
    /\ held' = held \cup {Head(plan)}
    /\ plan' = Tail(plan)
    /\ UNCHANGED <<options, pc, todo, active, callback, running, failed>>

Fail(s) == pc' = "release" /\ todo' = Cleanup(s) /\ failed' = TRUE

(* Steps of several allocations: some may be there when another fails. *)
Composite == {"pcm", "int32", "input_buf", "window"}

(* drift_src_init does not tell that its allocation failed. *)
AcquireFails ==
    /\ pc = "acquire" /\ plan # << >>
    /\ Head(plan) \notin NeverFails(backend) \cup {"fifo"}
    /\ Fail(Head(plan))
    /\ held' \in {held, held \cup ({Head(plan)} \cap Composite)}
    /\ UNCHANGED <<options, plan, active, callback, running>>

(* rt_lock_memory, whatever its outcome: "Lock memory before that". *)
LockMemory ==
    /\ pc = "acquire" /\ plan = << >> /\ mode # "list"
    /\ pc' = "start"
    /\ UNCHANGED <<options, plan, held, todo, active, callback, running, failed>>

(* The vtable's start.  From here on the driver may call back. *)
Start ==
    /\ pc = "start"
    /\ active' = TRUE /\ pc' = IF mode = "recv" THEN "priority" ELSE "loop"
    /\ UNCHANGED <<options, plan, held, todo, callback, running, failed>>

StartFails ==
    /\ pc = "start" /\ Fail("start")
    /\ UNCHANGED <<options, plan, held, active, callback, running>>

(* rt_raise_thread_priority on the receive thread, whatever its outcome. *)
RaisePriority ==
    /\ pc = "priority" /\ pc' = "loop"
    /\ UNCHANGED <<options, plan, held, todo, active, callback, running, failed>>

(* --list-devices: print and free the backend, which was not opened. *)
List ==
    /\ pc = "acquire" /\ plan = << >> /\ mode = "list"
    /\ pc' = "release" /\ todo' = <<"backend">>
    /\ UNCHANGED <<options, plan, held, active, callback, running, failed>>

(* Mutant of LoopDone: the signal's flag is read once, before the loop. *)
LoopDone_Hoisted == FALSE

(* What the loops test: until then main sleeps, or waits for a packet, for *)
(* at most 200 ms.                                                         *)
LoopDone == ~ running

LeaveLoop ==
    /\ pc' = "release"
    /\ todo' = IF mode = "send" THEN SenderShutdown ELSE ReceiverShutdown
    /\ UNCHANGED <<options, plan, held, active, callback, running, failed>>

LoopEnds == pc = "loop" /\ LoopDone /\ LeaveLoop

(* udp_receiver_recv returns an error, which need never happen. *)
SocketError == pc = "loop" /\ mode = "recv" /\ LeaveLoop

(* The packet that makes fec_rx_process loop for ever arrives (FecWrap).   *)
Hang ==
    /\ pc = "loop" /\ mode = "recv" /\ fec
    /\ pc' = "hung"
    /\ UNCHANGED <<options, plan, held, todo, active, callback, running, failed>>

Releasing(s) == pc = "release" /\ todo # << >> /\ Head(todo) = s

(* Mutant of Halt: the flag is cleared and the driver not waited for. *)
Halt_FlagOnly ==
    /\ Releasing("halt")
    /\ active' = FALSE /\ todo' = Tail(todo)
    /\ UNCHANGED <<options, pc, plan, held, callback, running, failed>>

(* jack_deactivate, AudioOutputUnitStop and ASIOStop let no callback begin *)
(* and return when none runs; a driver that is stopped already ignores it. *)
Halt ==
    /\ Releasing("halt")
    /\ active => ~ callback
    /\ active' = FALSE /\ todo' = Tail(todo)
    /\ UNCHANGED <<options, pc, plan, held, callback, running, failed>>

(* The vtable's destroy returns at once when init has failed. *)
DestroyDevice ==
    /\ Releasing("device")
    /\ todo' = Option("ctx" \in held, DestroyList(backend)) \o Tail(todo)
    /\ UNCHANGED <<options, pc, plan, held, active, callback, running, failed>>

Flush ==
    /\ Releasing("flush")
    /\ todo' = Tail(todo)
    /\ UNCHANGED <<options, pc, plan, held, active, callback, running, failed>>

Release ==
    /\ pc = "release" /\ todo # << >> /\ Head(todo) \notin {"flush", "halt", "device"}
    /\ held' = held \ {Head(todo)}
    /\ todo' = Tail(todo)
    /\ UNCHANGED <<options, pc, plan, active, callback, running, failed>>

Exit ==
    /\ pc = "release" /\ todo = << >>
    /\ pc' = "exit"
    /\ UNCHANGED <<options, plan, held, todo, active, callback, running, failed>>

Main ==
    \/ Parse \/ Acquire \/ AcquireFails \/ LockMemory \/ Start \/ StartFails
    \/ RaisePriority \/ List \/ LoopEnds
    \/ Flush \/ Halt \/ DestroyDevice \/ Release \/ Exit

(* The driver's thread.  ASIO's callback returns at once when its gate is  *)
(* closed.                                                                 *)
CallbackBegin ==
    /\ active /\ ~ callback /\ ~ Releasing("halt")
    /\ backend = "asio" => "gate" \in held
    /\ callback' = TRUE
    /\ UNCHANGED <<options, pc, plan, held, todo, active, running, failed>>

CallbackEnd ==
    /\ callback
    /\ callback' = FALSE
    /\ UNCHANGED <<options, pc, plan, held, todo, active, running, failed>>

(* The JACK server shuts down: no more callbacks, and the program only     *)
(* prints a line.                                                          *)
ServerShutdown ==
    /\ backend = "jack" /\ active /\ ~ callback
    /\ active' = FALSE
    /\ UNCHANGED <<options, pc, plan, held, todo, callback, running, failed>>

(* SIGINT or SIGTERM, once the handlers are there. *)
Signal ==
    /\ running /\ pc # "parse"
    /\ running' = FALSE
    /\ UNCHANGED <<options, pc, plan, held, todo, active, callback, failed>>

Next ==
    \/ Main \/ SocketError \/ Hang
    \/ CallbackBegin \/ CallbackEnd \/ ServerShutdown \/ Signal

Spec == Init /\ [][Next]_vars

(* The main thread is scheduled, its waits are bounded, and a callback has *)
(* no lock to wait for.  No error of the socket and no signal is assumed.  *)
FairSpec == Spec /\ WF_vars(Main) /\ WF_vars(CallbackEnd)

-----------------------------------------------------------------------------

(* Checks that passed stay in held; nothing releases them.                 *)
Passed == Checks \cup {"packet_size", "fits", "tx_address", "rx_address"}
Resources ==
    BackendResources
        \cup {"ring", "backend", "scratch", "fifo", "src_buf", "window",
              "parity", "tx_buf", "tx_socket", "rx_buf", "rx_socket"}

(* The variables have their types, and only a device that is open and      *)
(* started is inside a callback.                                           *)
TypeOK ==
    /\ mode \in {"send", "recv", "list"} /\ fec \in BOOLEAN /\ drift \in BOOLEAN
    /\ backend \in Backends
    /\ pc \in {"parse", "acquire", "start", "priority", "loop", "hung", "release", "exit"}
    /\ held \subseteq Resources \cup Passed
    /\ Steps(plan) \subseteq Resources \cup Passed
    /\ Steps(todo) \subseteq Resources \cup {"flush", "halt", "device"}
    /\ {active, callback, running, failed} \subseteq BOOLEAN
    /\ callback => active

(* What the driver's callback and, inside it, sender_callback or           *)
(* receiver_callback touch.                                                *)
CallbackUses ==
    DriverUses(backend, mode = "send") \cup
    IF mode = "send"
    THEN {"tx_socket", "tx_buf"} \cup (IF fec THEN {"parity"} ELSE {})
    ELSE {"ring"} \cup (IF drift THEN {"fifo", "src_buf"} ELSE {})

(* A callback, from its first to its last instruction, finds all it uses   *)
(* allocated: start comes after the last acquisition and, on every way     *)
(* out, the device is stopped before the first release of what it uses.    *)
CallbackHasState == callback => CallbackUses \subseteq held

(* What a path may release although it does not hold it: free of a null    *)
(* pointer, of an option that is off or an allocation that failed.         *)
MayBeNull ==
    {"pcm", "window"}
        \cup (IF fec THEN {} ELSE {"parity"})
        \cup (IF drift THEN {} ELSE {"src_buf", "fifo"})
        \cup (IF mode = "send" THEN {} ELSE {"input_buf"})

(* No path releases what it does not hold: neither twice, by the function  *)
(* that failed and again by its caller's destroy, nor before it was there. *)
(* The gate is a flag.  The last flush finds the window, the scratch       *)
(* buffer and the ring.                                                    *)
ReleasesAreValid ==
    /\ pc = "release" /\ todo # << >> /\ Head(todo) \in Resources \ {"gate"} =>
            Head(todo) \in held \cup MayBeNull
    /\ Releasing("flush") => {"window", "scratch", "ring"} \subseteq held

(* What a failed start-up leaves to the system: the drift compensator's    *)
(* buffers, which no error path of the receiver frees, and the pieces      *)
(* alloc_all_scratch got before it failed.                                 *)
Leaked ==
    (IF mode = "recv" THEN {"fifo", "src_buf"} ELSE {})
        \cup (IF backend = "coreaudio" THEN {"int32", "input_buf"} ELSE {})

(* Every way out releases all that was acquired, whether the loop was      *)
(* reached or a step failed, and leaves the driver stopped.                *)
ReleasedAtExit ==
    pc = "exit" =>
        /\ ~ active
        /\ held \cap Resources \subseteq IF failed THEN Leaked ELSE {}

(* A signal, even one that comes during start-up, ends the process: every  *)
(* wait of the loop is bounded, and teardown waits for a callback only     *)
(* once no new one can begin.  The one exception is a receiver that hangs  *)
(* in fec_rx_process.                                                      *)
SignalEnds == ~ running ~> pc \in {"exit", "hung"}
=============================================================================
