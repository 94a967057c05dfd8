---------------------------- MODULE AudioBackends ----------------------------
(***************************************************************************)
(* The three audio backends behind the vtable of audio.h, as the sequences *)
(* of what their init acquires and of what each of their error paths, stop *)
(* and destroy release.  A step is the name of what it acquires; the steps *)
(* of Checks acquire nothing but may fail too.  "halt" makes the driver    *)
(* stop calling back.                                                      *)
(***************************************************************************)
EXTENDS Sequences

Backends == {"jack", "coreaudio", "asio"}

Option(c, s) == IF c THEN s ELSE << >>

-----------------------------------------------------------------------------

(* JACK.  The ports belong to the client; pcm is the four scratch arrays.  *)
JackInit == <<"ctx", "client", "ports", "pcm">>

JackInitFails(s) ==
    Option(s \in {"ports", "pcm"}, <<"client">>)
        \o Option(s = "pcm", <<"pcm">>)
        \o Option(s # "ctx", <<"ctx">>)

JackDestroy == <<"halt", "client", "pcm", "ctx">>

(* CoreAudio.  The buses are enabled and get their formats and callbacks;  *)
(* alloc_all_scratch allocates the int32 arrays and, for input, the list   *)
(* of buffers.                                                             *)
CoreAudioInit(input) ==
    <<"ctx", "component", "unit", "buses", "initialized", "int32">>
        \o Option(input, <<"input_buf">>)

(* Mutant of CoreAudioInitFails: the error path leaves ab->ctx in place. *)
CoreAudioInitFails_KeepsCtx(s) ==
    Option(s \notin {"ctx", "component", "unit"}, <<"unit">>)

CoreAudioInitFails(s) ==
    Option(s \notin {"ctx", "component", "unit"}, <<"unit">>)
        \o Option(s # "ctx", <<"ctx">>)

CoreAudioDestroy == <<"halt", "unit", "input_buf", "int32", "ctx">>

(* ASIO.  The window stands for COM as well, the driver is the one of the  *)
(* global asioDrivers, formats are the tests of channels and sample rate,  *)
(* and the gate is ctx->running, open while its step is held.              *)
AsioInit ==
    <<"ctx", "window", "drivers", "driver", "asio", "formats",
      "infos", "buffers", "channel_infos", "gate">>

AsioInitFails(s) ==
    Option(s \in {"formats", "buffers"}, <<"asio">>)
        \o Option(s \in {"asio", "formats", "buffers"}, <<"driver">>)
        \o <<"window">>
        \o Option(s = "buffers", <<"infos">>)
        \o <<"ctx">>

AsioStop == <<"gate", "halt">>
AsioDestroy ==
    AsioStop \o <<"buffers", "asio", "driver", "infos", "channel_infos", "window", "ctx">>

-----------------------------------------------------------------------------

(* The vtable. *)
InitSteps(b, input) ==
    CASE b = "jack" -> JackInit
      [] b = "coreaudio" -> CoreAudioInit(input)
      [] b = "asio" -> AsioInit

InitFails(b, s) ==
    CASE b = "jack" -> JackInitFails(s)
      [] b = "coreaudio" -> CoreAudioInitFails(s)
      [] b = "asio" -> AsioInitFails(s)

StopList(b) == IF b = "asio" THEN AsioStop ELSE <<"halt">>

DestroyList(b) ==
    CASE b = "jack" -> JackDestroy
      [] b = "coreaudio" -> CoreAudioDestroy
      [] b = "asio" -> AsioDestroy

(* What the driver's callback touches before and after the program's own.  *)
DriverUses(b, input) ==
    CASE b = "jack" -> {"ctx", "client", "pcm"}
      [] b = "coreaudio" ->
            {"ctx", "unit", "int32"} \cup (IF input THEN {"input_buf"} ELSE {})
      [] b = "asio" -> {"ctx", "asio", "infos", "buffers"}

Checks == {"ports", "component", "buses", "initialized", "drivers", "formats"}

(* Steps whose failure the code does not handle: operator new throws, and  *)
(* what CreateWindow returns is not looked at.                             *)
NeverFails(b) ==
    IF b = "asio" THEN {"ctx", "window", "infos", "channel_infos", "gate"} ELSE {}

BackendResources ==
    {"ctx", "client", "pcm", "unit", "int32", "input_buf", "window",
     "driver", "asio", "infos", "buffers", "channel_infos", "gate"}
=============================================================================
