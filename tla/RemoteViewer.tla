---------------------------- MODULE RemoteViewer ----------------------------
(***************************************************************************)
(* A phone that looks at one pane at a time and the session that serves it: *)
(* setActivePane of lib/src/remote/client/remote-adapter.ts, the requests   *)
(* and subscriptions of pocket-client.ts, and RemoteAttach at the other end *)
(* of an encrypted session that keeps the order of its messages.            *)
(*                                                                         *)
(* A pane chosen while another is being attached waits; one superseded      *)
(* before its turn does nothing.  Output is left out of the messages, and a *)
(* resize is answered where it arrives.                                     *)
(***************************************************************************)
EXTENDS RemoteAttach, Sequences

VARIABLES
  target,     \* the pane of each setActivePane so far; the last is wanted
  begun,      \* how many of them had their turn (#attachQueue)
  doing,      \* the activation under way
  attached,   \* #attached: the subscription
  listening,  \* #events: subscriptions with a handler
  closed,     \* subscriptions whose onClosed ran
  toBurrow,   \* requests under way
  toPhone     \* responses and events under way

phone == <<target, begun, doing, attached, listening, closed>>
all == <<vars, phone, toBurrow, toPhone>>

Requests == [kind : {"attach", "detach", "resize"}, surface : Surfaces]
Messages == [kind : {"attached", "failed", "closed"}, sub : Attaches]
              \cup [kind : {"detached", "resized"}]
Doing == [stage : {"detaching", "attaching", "answered", "undoing", "resizing"},
          wish : Attaches, sub : Attaches \cup {None}]

ViewerTypeOK ==
  /\ target \in Seq(Surfaces) /\ begun \in 0 .. Len(target)
  /\ doing \in Doing \cup {None} /\ attached \in Attaches \cup {None}
  /\ listening \in SUBSET Attaches /\ closed \in SUBSET Attaches
  /\ toBurrow \in Seq(Requests) /\ toPhone \in Seq(Messages)

ViewerInit ==
  /\ Init
  /\ target = <<>> /\ begun = 0 /\ doing = None /\ attached = None
  /\ listening = {} /\ closed = {} /\ toBurrow = <<>> /\ toPhone = <<>>

-----------------------------------------------------------------------------
(* The phone.  Its subscriptions are numbered like the attaches they make. *)

wish == Len(target)
Superseded == doing.wish # wish

\* setActivePane
SetActivePane(s) ==
  /\ ~disposed /\ wish < MaxAttaches
  /\ target' = Append(target, s)
  /\ UNCHANGED <<vars, begun, doing, attached, listening, closed, toBurrow, toPhone>>

\* The attach that goes out next: the ones before it were all answered.
NextSub == generation + 1
SendAttach(w) ==
  /\ doing' = [stage |-> "attaching", wish |-> w, sub |-> NextSub]
  /\ listening' = listening \cup {NextSub}

Request(kind, s) == toBurrow' = Append(toBurrow, [kind |-> kind, surface |-> s])

\* activatePane to its first await: only the latest has something to do.
Activate ==
  /\ ~disposed /\ doing = None /\ begun < wish
  /\ begun' = wish
  /\ LET pane == target[wish] IN
     \/ /\ attached # None /\ surface[attached] = pane
        /\ doing' = [stage |-> "resizing", wish |-> wish, sub |-> None]
        /\ Request("resize", pane)
        /\ UNCHANGED <<attached, listening>>
     \/ /\ attached # None /\ surface[attached] # pane
        /\ doing' = [stage |-> "detaching", wish |-> wish, sub |-> None]
        /\ attached' = None /\ listening' = listening \ {attached}
        /\ Request("detach", surface[attached])
     \/ /\ attached = None
        /\ SendAttach(wish) /\ Request("attach", pane)
        /\ UNCHANGED attached
  /\ UNCHANGED <<vars, target, closed, toPhone>>

Got(kind) == toPhone # <<>> /\ Head(toPhone).kind = kind /\ toPhone' = Tail(toPhone)

\* The previous pane is detached.
Detached ==
  /\ Got("detached") /\ doing.stage = "detaching"
  /\ IF Superseded
     THEN doing' = None /\ UNCHANGED <<listening, toBurrow>>
     ELSE SendAttach(doing.wish) /\ Request("attach", target[doing.wish])
  /\ UNCHANGED <<vars, target, begun, attached, closed>>

Settled ==
  /\ \/ Got("resized")
     \/ Got("detached") /\ doing.stage = "undoing"
  /\ doing' = None
  /\ UNCHANGED <<vars, target, begun, attached, listening, closed, toBurrow>>

AttachFailed ==
  /\ Got("failed")
  /\ doing' = None /\ listening' = listening \ {Head(toPhone).sub}
  /\ UNCHANGED <<vars, target, begun, attached, closed, toBurrow>>

\* The response resolves a promise; what awaits it runs later.
AttachAnswered ==
  /\ Got("attached")
  /\ doing' = [doing EXCEPT !.stage = "answered"]
  /\ UNCHANGED <<vars, target, begun, attached, listening, closed, toBurrow>>

Gone_Superseded == Superseded
\* Closed or superseded before its response was looked at.
Gone == doing.sub \in closed \/ Superseded

Install ==
  /\ ~disposed /\ doing # None /\ doing.stage = "answered"
  /\ IF Gone
     THEN /\ listening' = listening \ {doing.sub}
          /\ doing' = [doing EXCEPT !.stage = "undoing"]
          /\ Request("detach", target[doing.wish])
          /\ UNCHANGED attached
     ELSE attached' = doing.sub /\ doing' = None /\ UNCHANGED <<listening, toBurrow>>
  /\ UNCHANGED <<vars, target, begun, closed, toPhone>>

\* onClosed, of a subscription that still has its handler.
Closed ==
  /\ Got("closed")
  /\ IF Head(toPhone).sub \in listening
     THEN /\ closed' = closed \cup {Head(toPhone).sub}
          /\ attached' = IF attached # None /\ surface[attached] = surface[Head(toPhone).sub]
                         THEN None ELSE attached
     ELSE UNCHANGED <<closed, attached>>
  /\ UNCHANGED <<vars, target, begun, doing, listening, toBurrow>>

-----------------------------------------------------------------------------
(* The Burrow.                                                             *)

\* What the phone is told of what just changed.
News == LET r == CHOOSE q \in Attaches : heard'[q] # heard[q] IN
  IF heard' = heard \/ (heard[r] = "attached" /\ heard'[r] = "data") THEN <<>>
  ELSE <<[kind |-> IF heard'[r] = "data" THEN "attached" ELSE heard'[r], sub |-> r]>>

Quietly == toPhone' = toPhone \o News /\ UNCHANGED <<phone, toBurrow>>

Takes(kind) == toBurrow # <<>> /\ Head(toBurrow).kind = kind /\ toBurrow' = Tail(toBurrow)

TakesAttach ==
  /\ Takes("attach") /\ Attach(Head(toBurrow).surface)
  /\ UNCHANGED <<phone, toPhone>>

IsAttached(s) == attachment # None /\ surface[attachment] = s
TakesDetach_OnlyAttached ==
  /\ Takes("detach") /\ UNCHANGED phone
  /\ IF IsAttached(Head(toBurrow).surface)
     THEN Detach(Head(toBurrow).surface) /\ toPhone' = Append(toPhone, [kind |-> "detached"])
     ELSE ~disposed /\ UNCHANGED <<vars, toPhone>>
\* Detaching what is not attached is answered all the same.
TakesDetach ==
  /\ Takes("detach") /\ UNCHANGED phone
  /\ IF IsAttached(Head(toBurrow).surface)
     THEN Detach(Head(toBurrow).surface)
     ELSE ~disposed /\ UNCHANGED vars
  /\ toPhone' = Append(toPhone, [kind |-> "detached"])

TakesResize ==
  /\ ~disposed /\ Takes("resize")
  /\ toPhone' = Append(toPhone, [kind |-> "resized"])
  /\ UNCHANGED <<vars, phone>>

\* The session ends, and what was under way with it.
Ends ==
  /\ Dispose
  /\ toBurrow' = <<>> /\ toPhone' = <<>>
  /\ UNCHANGED phone

-----------------------------------------------------------------------------
PhoneSteps == Activate \/ Detached \/ Settled \/ AttachFailed \/ AttachAnswered \/ Install \/ Closed
BurrowSteps == TakesAttach \/ TakesDetach \/ TakesResize

ViewerNext ==
  \/ \E s \in Surfaces : SetActivePane(s)
  \/ PhoneSteps \/ BurrowSteps \/ Ends
  \/ \E r \in Attaches :
       \/ NotResolved(r) /\ Quietly
       \/ SubscribeFails(r) /\ Quietly
       \/ Subscribe(r) /\ Quietly
       \/ Overtaken(r) /\ Quietly
       \/ ProviderFails(r) /\ Quietly
       \/ Resize(r) /\ Quietly
       \/ Finish(r) /\ Quietly
       \/ Data(r) /\ Quietly
       \/ Exit(r) /\ Quietly

ViewerSpec == ViewerInit /\ [][ViewerNext]_all

\* Messages arrive in order, promises run on, and the provider's settle (a
\* peer's are bounded by a timeout).
ViewerFair ==
  /\ ViewerSpec
  /\ WF_all(PhoneSteps) /\ WF_all(BurrowSteps)
  /\ \A r \in Attaches : WF_all(Settle(r) /\ Quietly)

-----------------------------------------------------------------------------
(* Properties.                                                             *)

AtRest == doing = None /\ begun = wish /\ toBurrow = <<>> /\ toPhone = <<>>

\* When nothing is under way the phone and the Burrow agree what is attached,
\* and it is the pane last chosen: a pane that closes between its answer and
\* its installation is not kept, and one superseded meanwhile does not stream
\* on (activatePane, the generation and closed).
AgreeAtRest ==
  ~disposed /\ AtRest =>
    attached = attachment /\ (attached # None => surface[attached] = target[wish])

\* Every choice comes to rest: each request on the way to it is answered.
EveryChoiceSettles ==
  \A n \in Attaches : wish = n ~> disposed \/ AtRest \/ wish > n
=============================================================================
