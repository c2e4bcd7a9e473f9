---------------------------- MODULE RemoteAttach ----------------------------
(***************************************************************************)
(* lib/src/remote/burrow/remote-api.ts: how a session of one phone attaches *)
(* to a surface.  An attach resolves the surface, subscribes to its PTY,    *)
(* waits until the subscription stands, brings the PTY to the phone's size  *)
(* and answers; each of these awaits, newer attaches, detaches, exits and   *)
(* the end of the session fall in between, and each may fail.               *)
(*                                                                         *)
(* An attach is numbered by its #attachGeneration.  The provider keeps      *)
(* burrow-surface-provider.ts: a stopped stream says nothing more, and one  *)
(* of a dead PTY ends before it is ready.  terminal.write and              *)
(* terminal.resize change nothing here and are left out.                    *)
(***************************************************************************)
EXTENDS Integers

CONSTANTS
  Surfaces,     \* surfaceIds
  MaxAttaches,  \* bound: attaches
  None          \* null

VARIABLES
  generation,  \* #attachGeneration
  surface,     \* of each attach
  phase,       \* what each attach waits for
  stream,      \* its PTY stream
  attachment,  \* #attachment: the attach that installed it
  heard,       \* the last frame the phone was sent about each attach
  disposed     \* #disposed

vars == <<generation, surface, phase, stream, attachment, heard, disposed>>

Attaches == 1 .. MaxAttaches

TypeOK ==
  /\ generation \in 0 .. MaxAttaches /\ disposed \in BOOLEAN
  /\ surface \in [Attaches -> Surfaces \cup {None}]
  /\ phase \in [Attaches -> {"unsent", "resolving", "subscribing", "resizing", "done", "detached"}]
  /\ stream \in [Attaches -> {"none", "live", "stopped", "exited"}]
  /\ attachment \in Attaches \cup {None}
  /\ heard \in [Attaches -> {"nothing", "failed", "attached", "data", "closed"}]

Init ==
  /\ generation = 0 /\ disposed = FALSE /\ attachment = None
  /\ surface = [r \in Attaches |-> None]
  /\ phase = [r \in Attaches |-> "unsent"]
  /\ stream = [r \in Attaches |-> "none"]
  /\ heard = [r \in Attaches |-> "nothing"]

-----------------------------------------------------------------------------
Waiting(r, what) == phase[r] = what
Step(r, next) == phase' = [phase EXCEPT ![r] = next]

\* The streams once the attachment, when it is one of rs, stopped its own.
Stopped(rs, streams) ==
  IF attachment \in rs /\ streams[attachment] = "live"
  THEN [streams EXCEPT ![attachment] = "stopped"] ELSE streams

\* teardownAttachment, when it stands for one of rs; streams is what stream is otherwise.
Teardown(rs, streams) ==
  /\ attachment' = IF attachment \in rs THEN None ELSE attachment
  /\ stream' = Stopped(rs, streams)

\* failAttach: superseded or not, it is answered.
Failed(r) == heard' = IF disposed THEN heard ELSE [heard EXCEPT ![r] = "failed"]

\* A failure that takes down what the attach itself installed.
Fail(r) == Step(r, "done") /\ Teardown({r}, stream) /\ Failed(r)

-----------------------------------------------------------------------------
\* surface.attach
Attach(s) ==
  /\ ~disposed /\ generation < MaxAttaches
  /\ generation' = generation + 1
  /\ surface' = [surface EXCEPT ![generation'] = s]
  /\ Step(generation', "resolving")
  /\ UNCHANGED <<stream, attachment, heard, disposed>>

Current_Unasked(r) == TRUE
\* No newer attach, and the session stands.
Current(r) == ~disposed /\ generation = r

\* resolveSurface rejects, finds nothing, or answers too late.
NotResolved(r) ==
  /\ Waiting(r, "resolving")
  /\ Step(r, "done") /\ Failed(r)
  /\ UNCHANGED <<generation, surface, stream, attachment, disposed>>

Prior_None == {}
\* One attachment per session.
Prior == Attaches

\* beginAttach: the prior attachment goes first.  streamPty may throw, replay
\* an exit at once, or subscribe.
SubscribeFails(r) ==
  /\ Waiting(r, "resolving") /\ Current(r)
  /\ Teardown(Prior, stream)
  /\ Step(r, "done") /\ Failed(r)
  /\ UNCHANGED <<generation, surface, disposed>>

Subscribe(r) ==
  /\ Waiting(r, "resolving") /\ Current(r)
  /\ stream' = [Stopped(Prior, stream) EXCEPT ![r] = "live"]
  /\ attachment' = r
  /\ Step(r, "subscribing")
  /\ UNCHANGED <<generation, surface, heard, disposed>>

\* beginResize and finish: the attach is still the one installed.
Installed(r) == Current(r) /\ attachment = r
Moot(r) == phase[r] \in {"subscribing", "resizing"} /\ ~Installed(r)

\* ready or resize settles after a newer attach, a detach, an exit or the end.
Overtaken(r) ==
  /\ Moot(r) /\ Fail(r)
  /\ UNCHANGED <<generation, surface, disposed>>

\* ready or resize rejects, or resizePty throws.
ProviderFails(r) ==
  /\ phase[r] \in {"subscribing", "resizing"} /\ Fail(r)
  /\ UNCHANGED <<generation, surface, disposed>>

\* Ready, and the surface has another size.
Resize(r) ==
  /\ Waiting(r, "subscribing") /\ Installed(r)
  /\ Step(r, "resizing")
  /\ UNCHANGED <<generation, surface, stream, attachment, heard, disposed>>

\* Ready at the same size, or resized: answer, then flush what was buffered.
Finish(r) ==
  /\ phase[r] \in {"subscribing", "resizing"} /\ Installed(r)
  /\ Step(r, "done")
  /\ \E flushed \in {"attached", "data"} : heard' = [heard EXCEPT ![r] = flushed]
  /\ UNCHANGED <<generation, surface, stream, attachment, disposed>>

-----------------------------------------------------------------------------
Streaming_AtOnce(r) == TRUE
\* Before the answer events are buffered.
Streaming(r) == heard[r] \in {"attached", "data"}

\* onData
Data(r) ==
  /\ stream[r] = "live" /\ Streaming(r)
  /\ heard' = [heard EXCEPT ![r] = "data"]
  /\ UNCHANGED <<generation, surface, phase, stream, attachment, disposed>>

\* onExit: the phone hears it before the attachment goes.
Exit(r) ==
  /\ stream[r] = "live"
  /\ heard' = IF Streaming(r) THEN [heard EXCEPT ![r] = "closed"] ELSE heard
  /\ Teardown({r}, [stream EXCEPT ![r] = "exited"])
  /\ UNCHANGED <<generation, surface, phase, disposed>>

\* surface.detach of the surface attached; of any other it changes nothing.
Detach(s) ==
  /\ ~disposed /\ attachment # None /\ surface[attachment] = s
  /\ Teardown(Attaches, stream)
  /\ phase' = IF phase[attachment] = "done" THEN [phase EXCEPT ![attachment] = "detached"] ELSE phase
  /\ UNCHANGED <<generation, surface, heard, disposed>>

Dispose ==
  /\ ~disposed /\ disposed' = TRUE
  /\ Teardown(Attaches, stream)
  /\ UNCHANGED <<generation, surface, phase, heard>>

-----------------------------------------------------------------------------
Settle(r) ==
  \/ NotResolved(r) \/ SubscribeFails(r) \/ Subscribe(r)
  \/ Overtaken(r) \/ ProviderFails(r) \/ Resize(r) \/ Finish(r)

Next ==
  \/ \E s \in Surfaces : Attach(s) \/ Detach(s)
  \/ \E r \in Attaches : Settle(r) \/ Data(r) \/ Exit(r)
  \/ Dispose

Spec == Init /\ [][Next]_vars

-----------------------------------------------------------------------------
(* Properties.                                                             *)

\* A PTY streams to a phone only through its attachment, and a phone that was
\* told it is attached, and has neither detached nor asked for another surface
\* since, has its stream until it hears of the exit: no failure, race or
\* disposal leaves a subscription nobody can stop, and an attach that fails late
\* takes down its own attachment only (teardownAttachment, the error paths of
\* beginAttach).
StreamIsAttachment ==
  TypeOK /\ \A r \in Attaches :
    /\ stream[r] = "live" => attachment = r
    /\ ~disposed /\ heard[r] \in {"attached", "data"} /\ phase[r] # "detached" /\ generation = r
         => stream[r] = "live"

\* The phone hears of an attach in order: its answer, output, the exit, and
\* nothing once a newer attach was answered or the session is over (streaming,
\* pendingEvents, the generations).
Follows(a, b) ==
  \/ a = "nothing" /\ b \in {"failed", "attached", "data"}
  \/ a \in {"attached", "data"} /\ b \in {"data", "closed"}
EventsInOrder ==
  [][\A r \in Attaches : heard'[r] # heard[r] =>
       /\ ~disposed /\ Follows(heard[r], heard'[r])
       /\ heard'[r] # "failed" =>
            \A q \in r + 1 .. MaxAttaches : heard[q] \notin {"attached", "data", "closed"}]_vars
=============================================================================
