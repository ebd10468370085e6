---------------------------- MODULE AsioBridge ----------------------------
(***************************************************************************)
(* bass_sox_asio, the library that plays a resampler's channel through     *)
(* ASIO, beside the library of module Lifecycle.  The application names a  *)
(* channel with BASS_SOX_ASIO_StreamSet, which looks it up in the registry *)
(* of bass_sox; from then on asio_sox_stream_proc, on the thread of ASIO,  *)
(* asks BASS for that channel's data, and BASS runs resampler_proc for     *)
(* what it asks.  Nobody takes the name back when the channel is freed.    *)
(*                                                                         *)
(* External, and assumed as the code relies on it: BASS gives no data of a *)
(* channel it does not know and frees no channel whose procedure runs; a   *)
(* library whose functions are imported is unloaded after the importer;    *)
(* and the application stops ASIO before it unloads the bridge.            *)
(***************************************************************************)
EXTENDS Lifecycle

CONSTANTS Others, \* channels of BASS that are no resamplers, never freed
          DWORDS, \* the number of values of a DWORD, 2^32 in the program
          LENGTH  \* the bytes that ASIO asks for

ASSUME AsioAssumption ==
    /\ DWORDS \in Nat /\ LENGTH \in Nat \ {0}
    /\ LENGTH < DWORDS \div 2
    /\ Null \notin Others /\ Others \intersect Handles = {}

BASS_STREAMPROC_END == DWORDS \div 2
BASS_ERROR_UNKNOWN == (-1) % DWORDS

VARIABLES
    channel_handle, \* the channel to play, or Null
    loaded,         \* FALSE when the bridge was told to detach
    enabled,        \* TRUE while ASIO calls asio_sox_stream_proc
    asio,           \* where the thread of ASIO is: "idle", "get" or "proc"
    playing,        \* the channel whose procedure runs there, or Null
    result          \* what asio_sox_stream_proc returned last

bridge == <<channel_handle, loaded, enabled, asio, playing, result>>
callback == <<asio, playing, result>>
everything == <<vars, bridge>>
-----------------------------------------------------------------------------
\* What the threads do with bass_sox itself.  BASS waits with freeing a channel
\* for its procedure, and bass_sox is unloaded after the bridge.
WithoutBridge ==
    /\ Next
    /\ playing \in streams => playing \in streams'
    /\ unloaded' => ~ loaded
    /\ UNCHANGED bridge

(***************************************************************************)
(* BASS_SOX_ASIO_StreamSet.  The application names any channel it was      *)
(* given: a resampler's, freed since or not, or another of BASS.           *)
(***************************************************************************)
SetCalled(t) ==
    \E h \in returned \union Others :
        /\ loaded
        /\ At(t, "idle")
        /\ target' = [target EXCEPT ![t] = h]
        /\ slot' = [slot EXCEPT ![t] = 1]
        /\ Goto(t, "set_look")
        /\ UNCHANGED <<registry, objects, updating, bass, clashed, found, todo, bridge>>

\* A fault to detect: a channel is played though the registry does not have it.
SetLookUp_ignored(t) ==
    /\ resampler_registry_get(t, "set_look", "set", "set")
    /\ UNCHANGED bridge

SetLookUp(t) ==
    /\ resampler_registry_get(t, "set_look", "set", "idle")
    /\ UNCHANGED bridge

SetHandle(t) ==
    /\ At(t, "set")
    /\ channel_handle' = target[t]
    /\ Goto(t, "idle")
    /\ UNCHANGED <<registry, objects, updating, bass, clashed, target, slot, found,
                   todo, loaded, enabled, callback>>

BASS_SOX_ASIO_StreamSet(t) == SetCalled(t) \/ SetLookUp(t) \/ SetHandle(t)
-----------------------------------------------------------------------------
(***************************************************************************)
(* BASS_SOX_ASIO_ChannelEnable, and its opposite, which the application    *)
(* asks of ASIO itself and which waits for the callback.                   *)
(***************************************************************************)
BASS_SOX_ASIO_ChannelEnable ==
    /\ loaded /\ ~ enabled
    /\ enabled' = TRUE
    /\ UNCHANGED <<vars, channel_handle, loaded, callback>>

StopAsio ==
    /\ enabled /\ asio = "idle"
    /\ enabled' = FALSE
    /\ UNCHANGED <<vars, channel_handle, loaded, callback>>

DllMain ==
    /\ loaded /\ ~ enabled
    /\ \A t \in Threads : At(t, "idle")
    /\ loaded' = FALSE
    /\ channel_handle' = Null
    /\ UNCHANGED <<vars, enabled, callback>>
-----------------------------------------------------------------------------
(***************************************************************************)
(* asio_sox_stream_proc reads channel_handle to test it and again to use   *)
(* it, and BASS_ChannelGetData runs the procedure of the channel, if any.  *)
(***************************************************************************)
\* A fault to detect: the error of a channel that is gone is returned as a length.
Returned_as_is(r) == r

Returned(r) == IF r \in {BASS_STREAMPROC_END, BASS_ERROR_UNKNOWN} THEN 0 ELSE r

CallbackStarts ==
    /\ enabled /\ asio = "idle"
    /\ \/ /\ channel_handle = Null
          /\ result' = 0
          /\ UNCHANGED asio
       \/ /\ channel_handle # Null
          /\ asio' = "get"
          /\ UNCHANGED result
    /\ UNCHANGED <<vars, channel_handle, loaded, enabled, playing>>

BASS_ChannelGetData ==
    /\ asio = "get"
    /\ \/ /\ channel_handle \in streams \union Others
          /\ playing' = channel_handle
          /\ asio' = "proc"
          /\ UNCHANGED result
       \/ /\ channel_handle \notin streams \union Others
          /\ result' = Returned(BASS_ERROR_UNKNOWN)
          /\ asio' = "idle"
          /\ UNCHANGED playing
    /\ UNCHANGED <<vars, channel_handle, loaded, enabled>>

\* Data, less of it than was asked for, or the end.
CallbackReturns ==
    /\ asio = "proc"
    /\ \E r \in 0 .. LENGTH \union {BASS_STREAMPROC_END, BASS_ERROR_UNKNOWN} :
          result' = Returned(r)
    /\ asio' = "idle"
    /\ playing' = Null
    /\ UNCHANGED <<vars, channel_handle, loaded, enabled>>

asio_sox_stream_proc == CallbackStarts \/ BASS_ChannelGetData \/ CallbackReturns
-----------------------------------------------------------------------------
BridgeInit == /\ Init
              /\ channel_handle = Null /\ loaded = TRUE /\ enabled = FALSE
              /\ asio = "idle" /\ playing = Null /\ result = 0

BridgeNext == \/ WithoutBridge
              \/ \E t \in Threads : BASS_SOX_ASIO_StreamSet(t)
              \/ BASS_SOX_ASIO_ChannelEnable \/ StopAsio \/ DllMain
              \/ asio_sox_stream_proc

BridgeSpec == BridgeInit /\ [][BridgeNext]_everything
-----------------------------------------------------------------------------
\* ASIO only runs the procedure of a resampler that exists and has its settings
\* and its semaphore, whatever other threads create, free or name meanwhile, until
\* two of them have stored their resamplers in one slot: from then on the callback
\* of one channel may find and free the resampler of the other.
PlaysLiveResamplers ==
    ~ clashed /\ playing # Null => playing \in whole /\ memory[playing] = "allocated"

\* ASIO is never told of more bytes than it asked for, also when the channel was
\* freed between the test of its name and its use.
NeverOverruns == result <= LENGTH
=============================================================================
