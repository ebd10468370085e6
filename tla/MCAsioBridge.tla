--------------------------- MODULE MCAsioBridge ---------------------------
(***************************************************************************)
(* Two application threads, the thread of ASIO, two channels that may be   *)
(* created and freed, two slots for them, and a channel that is no         *)
(* resampler.  Neither the channels nor the threads are told apart.        *)
(***************************************************************************)
EXTENDS AsioBridge, TLC

CONSTANTS h1, h2, t1, t2, other

Channels == {h1, h2}
AppThreads == {t1, t2}

Alike == Permutations(Channels) \union Permutations(AppThreads)

\* Two states differ only if what differs is read again.
Read == <<registry, objects, thread, updaters, shutdown \intersect (thread \union updaters),
          bass, clashed, pc, stage, todo,
          channel_handle, loaded, enabled, asio, playing, NeverOverruns,
          [t \in Threads |-> IF pc[t] \in {"idle", "free", "crashed"} THEN Null
                              ELSE target[t]],
          [t \in Threads |-> IF pc[t] \in {"scan", "store", "look", "callback_look",
                                            "set_look"} THEN slot[t] ELSE 1],
          [t \in Threads |-> IF \/ stage[t] = "follow"
                                \/ pc[t] \in {"use", "stop", "join", "callback",
                                              "callback_join", "unregister", "release"}
                              THEN pointer[t] ELSE Null]>>
=============================================================================
